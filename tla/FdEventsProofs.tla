--------------------------- MODULE FdEventsProofs ---------------------------
(***************************************************************************)
(* Theorems about FdEvents, for any descriptors, threads and operations.   *)
(***************************************************************************)
EXTENDS FdEvents, FiniteSetTheorems, TLAPS

(* The table has a context for every descriptor it covers.  It never gets  *)
(* shorter than the two entries for which fd * 1.5 would not exceed fd.    *)
TableOK ==
    /\ size \in Nat /\ size >= 2
    /\ made \in [Fds -> 0 .. MaxObjects]
    /\ \A fd \in Fds : fd < size => made[fd] >= 1

ContextTypeOK == m_events \in [Contexts -> SUBSET Events]

KernelTypeOK ==
    /\ mask \in [Fds -> SUBSET Events]
    /\ ptr \in [Fds -> Contexts \cup {Null}]
    /\ \A fd \in Fds : ptr[fd] # Null => ptr[fd][1] = fd

OpNames == {"none", "add", "del", "cancel", "all"}

(* A thread that is in a call has found a context of its descriptor, or    *)
(* has yet to grow the table.                                              *)
CallOK ==
    /\ call \in [Users -> [op: OpNames, fd: Nat, ev: Events, ctx: Contexts \cup {Null}]]
    /\ \A u \in Users : call[u].op # "none" =>
        /\ call[u].fd \in Fds
        /\ call[u].ctx = Null => call[u].fd >= 2

Reports == [fd: Fds, ctx: Contexts, events: SUBSET (Events \cup {"ERR"})]

BatchOK ==
    /\ batch \in [IOThreads -> SUBSET Reports]
    /\ \A i \in IOThreads : \A r \in batch[i] : r.ctx[1] = r.fd

Places == {"none", "count", "register", "uncount", "drop", "trigger", "count off"}
Sections == [ctx: Contexts \cup {Null}, at: Places, ev: Events, rest: SUBSET Events]

(* What a thread in section s knows of its context's events M.             *)
Fits(s, M) ==
    /\ s.at \in {"count", "register", "count off"} => s.ev \notin M
    /\ s.at \in {"uncount", "drop"} => s.ev \in M

(* What they will be when it leaves.                                       *)
Final(s, M) ==
    IF s.at \in {"count", "register"} THEN M \cup {s.ev}
    ELSE IF s.at \in {"uncount", "drop"} THEN M \ {s.ev}
    ELSE IF s.at = "trigger" THEN M \ ({s.ev} \cup s.rest)
    ELSE IF s.at = "count off" THEN M \ s.rest
    ELSE M

(* The mutexes exclude, and whoever holds one knows the events.            *)
SectionOK ==
    /\ section \in [Threads -> Sections]
    /\ \A t \in Threads : section[t].ctx = Null <=> section[t].at = "none"
    /\ \A t, v \in Threads : section[t].ctx # Null /\ section[t].ctx = section[v].ctx => t = v
    /\ \A t \in Threads : section[t].ctx # Null => Fits(section[t], m_events[section[t].ctx])

(* The events of context c that the kernel watches.                        *)
Watched(c) == IF ptr[c[1]] = c THEN mask[c[1]] ELSE {}

(* Inside a critical section the kernel is ahead: epoll_ctl() comes first. *)
KernelAhead ==
    \A t \in Threads : section[t].ctx # Null =>
        Final(section[t], m_events[section[t].ctx]) = Watched(section[t].ctx)

CountsOK ==
    /\ adds \in Nat /\ triggered \in Nat /\ deleted \in Nat
    /\ set = Registered
    /\ PendingCounts /\ HandlersConserved

(* The inductive invariant.                                                *)
IInv ==
    /\ TableOK /\ ContextTypeOK /\ KernelTypeOK /\ CallOK /\ BatchOK /\ SectionOK
    /\ CountsOK /\ KernelAgrees /\ KernelAhead

-----------------------------------------------------------------------------
(* There are finitely many contexts, so counting events makes sense.       *)
LEMMA EventsFinite ==
    ASSUME NEW S \in SUBSET (Contexts \X Events)
    PROVE  IsFiniteSet(S) /\ Cardinality(S) \in Nat
<1>1. IsFiniteSet(1 .. MaxObjects)
  BY BoundsAssumption, FS_Interval
<1>2. IsFiniteSet(Contexts)
  BY <1>1, FdsAssumption, FS_Product DEF Contexts
<1>3. IsFiniteSet({"READ"} \cup {"WRITE"})
  BY FS_Singleton, FS_AddElement
<1>4. Events = {"READ"} \cup {"WRITE"}  BY DEF Events
<1>5. IsFiniteSet(Contexts \X Events)
  BY <1>2, <1>3, <1>4, FS_Product
<1> QED  BY <1>5, FS_Subset, FS_CardinalityType

(* One event more, and one less.                                           *)
LEMMA OneMore ==
    ASSUME NEW S \in SUBSET (Contexts \X Events), NEW x, x \notin S
    PROVE  Cardinality(S \cup {x}) = Cardinality(S) + 1
BY EventsFinite, FS_AddElement

LEMMA OneLess ==
    ASSUME NEW S \in SUBSET (Contexts \X Events), NEW x \in S
    PROVE  Cardinality(S \ {x}) = Cardinality(S) - 1
BY EventsFinite, FS_RemoveElement

(* Both sets that are counted consist of events of contexts.               *)
LEMMA CountedEvents ==
    Registered \subseteq Contexts \X Events /\ Counted \subseteq Contexts \X Events
BY DEF Registered, Counted

(* Contexts are pairs.                                                     *)
LEMMA ContextIsPair ==
    ASSUME NEW c \in Contexts
    PROVE  c[1] \in Fds /\ c[2] \in 1 .. MaxObjects /\ c = <<c[1], c[2]>> /\ c # Null
BY NullAssumption DEF Contexts

(* The initial state.                                                      *)
LEMMA InitIInv == Init => IInv
<1> SUFFICES ASSUME Init PROVE IInv  OBVIOUS
<1>1. TableOK
  BY SizeAssumption, BoundsAssumption, FdsAssumption DEF Init, TableOK
<1>2. ContextTypeOK /\ KernelTypeOK /\ BatchOK
  BY DEF Init, ContextTypeOK, KernelTypeOK, BatchOK
<1>3. CallOK
  BY DEF Init, CallOK, NoCall, OpNames, Events
<1>4. SectionOK /\ KernelAhead
  BY DEF Init, SectionOK, KernelAhead, Sections, Places, NoSection, Events
<1>5. Registered = {} /\ Counted = {}
  BY DEF Init, Registered, Counted, InSection, NoSection
<1>6. CountsOK
  BY <1>5, FS_EmptySet DEF Init, CountsOK, PendingCounts, HandlersConserved
<1>7. KernelAgrees
  BY ContextIsPair DEF Init, KernelAgrees
<1> QED  BY <1>1, <1>2, <1>3, <1>4, <1>6, <1>7 DEF IInv

(* A step that leaves the contexts, the kernel and the critical sections   *)
(* alone keeps what is said of them.                                       *)
LEMMA KeepContexts ==
    ASSUME IInv, UNCHANGED <<ctxVars, mask, ptr, section, history>>
    PROVE  /\ ContextTypeOK' /\ KernelTypeOK' /\ SectionOK' /\ CountsOK' /\ KernelAgrees'
           /\ KernelAhead'
<1>1. ContextTypeOK' /\ KernelTypeOK' /\ SectionOK'
  BY DEF IInv, ctxVars, ContextTypeOK, KernelTypeOK, SectionOK
<1>2. Registered' = Registered /\ Counted' = Counted
  BY DEF ctxVars, Registered, Counted, InSection
<1>3. CountsOK'
  BY <1>2 DEF IInv, ctxVars, history, CountsOK, PendingCounts, HandlersConserved
<1>4. KernelAgrees' /\ KernelAhead'
  BY DEF IInv, ctxVars, KernelAgrees, KernelAhead, Watched, Free
<1> QED  BY <1>1, <1>3, <1>4

(* What happens to descriptors.                                            *)
LEMMA WorldStepKeeps ==
    ASSUME IInv, WorldStep
    PROVE  IInv'
<1>1. UNCHANGED <<tableVars, ctxVars, call, batch, section, mask, ptr, history>>
  BY DEF WorldStep, Fails, BecomesReady, Consumed, kernelVars
<1>2. TableOK' /\ CallOK' /\ BatchOK'
  BY <1>1 DEF IInv, tableVars, TableOK, CallOK, BatchOK
<1> QED  BY <1>1, <1>2, KeepContexts DEF IInv

(* A call begins.                                                          *)
LEMMA LookupKeeps ==
    ASSUME IInv, NEW u \in Users, NEW op \in Ops, NEW fd \in Fds, NEW ev \in Events,
           Lookup(u, op, fd, ev)
    PROVE  IInv'
<1> USE DEF IInv, Lookup
<1>1. TableOK' /\ BatchOK'
  BY DEF TableOK, BatchOK, tableVars
<1>2. PICK c \in Contexts \cup {Null} :
        /\ call' = [call EXCEPT ![u] = [op |-> op, fd |-> fd, ev |-> ev, ctx |-> c]]
        /\ c = Null => fd >= 2
  <2>1. fd \in Nat  BY FdsAssumption
  <2>2. CASE size > fd
    <3>1. <<fd, made[fd]>> \in Contexts
      BY <2>1, <2>2, BoundsAssumption DEF TableOK, Contexts
    <3> QED  BY <2>1, <2>2, <3>1, NullAssumption DEF TableOK
  <2>3. CASE size <= fd
    BY <2>1, <2>3 DEF TableOK
  <2> QED  BY <2>1, <2>2, <2>3 DEF TableOK
<1>3. CallOK'
  BY <1>2, OpsAssumption, FdsAssumption DEF CallOK, OpNames
<1> QED  BY <1>1, <1>3, KeepContexts DEF kernelVars

(* addEvent() grows the table, with what it saw before.                    *)
LEMMA GrowKeeps ==
    ASSUME IInv, NEW u \in Users, Grow(u)
    PROVE  IInv'
<1> USE DEF IInv, Grow
<1> DEFINE fd == call[u].fd
<1>1. fd \in Fds /\ fd \in Nat /\ fd >= 2
  BY FdsAssumption DEF CallOK
<1>2. GrownSize(fd) \in Nat /\ GrownSize(fd) > fd
  BY <1>1 DEF GrownSize
<1>3. TableOK'
  BY <1>1, <1>2, FdsAssumption DEF TableOK, contextResize
<1>4. <<fd, made'[fd]>> \in Contexts
  <2>1. made'[fd] \in 0 .. MaxObjects /\ made'[fd] >= 1
    BY <1>1, <1>2, <1>3 DEF TableOK, contextResize
  <2>2. made'[fd] \in 1 .. MaxObjects
    BY <2>1, BoundsAssumption
  <2> QED  BY <1>1, <2>2 DEF Contexts
<1>5. BatchOK'
  BY DEF BatchOK
<1>6. CallOK'
  BY <1>1, <1>4, NullAssumption DEF CallOK, OpNames
<1> QED  BY <1>3, <1>5, <1>6, KeepContexts DEF kernelVars

-----------------------------------------------------------------------------
(* A thread goes one step on with context c, whose mutex no other thread   *)
(* has: nothing changes for the other contexts.                            *)
LEMMA SectionChanges ==
    ASSUME IInv, NEW t \in Threads, NEW c \in Contexts, NEW s \in Sections,
           NEW M \in SUBSET Events,
           section[t].ctx \in {c, Null}, \A v \in Threads \ {t} : section[v].ctx # c,
           section' = [section EXCEPT ![t] = s], m_events' = [m_events EXCEPT ![c] = M],
           s.ctx \in {c, Null}, s.ctx = Null <=> s.at = "none", Fits(s, M),
           Watched(c)' = Final(s, M), \A d \in Contexts \ {c} : Watched(d)' = Watched(d)
    PROVE  ContextTypeOK' /\ SectionOK' /\ KernelAgrees' /\ KernelAhead'
<1> USE DEF IInv
<1>1. ContextTypeOK' /\ \A d \in Contexts : m_events'[d] = IF d = c THEN M ELSE m_events[d]
  BY DEF ContextTypeOK
<1>2. \A v \in Threads : section'[v] = IF v = t THEN s ELSE section[v]
  BY DEF SectionOK
<1>3. section' \in [Threads -> Sections]  BY DEF SectionOK
<1>4. c # Null  BY ContextIsPair
<1>5. \A v \in Threads : section[v].ctx \in Contexts \cup {Null} /\ section[v] \in Sections
  BY DEF SectionOK, Sections
<1>6. SectionOK'
  <2>1. \A v \in Threads : section'[v].ctx = Null <=> section'[v].at = "none"
    BY <1>2 DEF SectionOK
  <2>2. \A v, w \in Threads :
          section'[v].ctx # Null /\ section'[v].ctx = section'[w].ctx => v = w
    BY <1>2, <1>4 DEF SectionOK
  <2>3. ASSUME NEW v \in Threads, section'[v].ctx # Null
        PROVE  Fits(section'[v], m_events'[section'[v].ctx])
    <3>1. CASE v = t  BY <1>1, <1>2, <2>3, <3>1
    <3>2. CASE v # t  BY <1>1, <1>2, <1>5, <2>3, <3>2 DEF SectionOK
    <3> QED  BY <3>1, <3>2
  <2> QED  BY <1>3, <2>1, <2>2, <2>3 DEF SectionOK
<1>7. \A d \in Contexts : Watched(d)' = IF d = c THEN Final(s, M) ELSE Watched(d)
  OBVIOUS
<1>8. ASSUME NEW v \in Threads, NEW d \in Contexts, section'[v].ctx = d
      PROVE  Final(section'[v], m_events'[d]) = Watched(d)'
  <2>1. CASE v = t
    BY <1>1, <1>2, <1>4, <1>7, <1>8, <2>1, ContextIsPair
  <2>2. CASE v # t
    <3>1. section'[v] = section[v] /\ d # c /\ m_events'[d] = m_events[d]
      BY <1>1, <1>2, <1>8, <2>2
    <3>2. Final(section[v], m_events[d]) = Watched(d)
      BY <1>8, <3>1, ContextIsPair DEF KernelAhead
    <3> QED  BY <1>7, <3>1, <3>2
  <2> QED  BY <2>1, <2>2
<1>9. KernelAhead'
  <2>1. \A v \in Threads : section'[v].ctx \in Contexts \cup {Null}
    BY <1>3 DEF Sections
  <2>2. \A v \in Threads, d \in Contexts : section'[v].ctx = d =>
          Final(section'[v], m_events'[d]) = IF ptr'[d[1]] = d THEN mask'[d[1]] ELSE {}
    BY <1>8 DEF Watched
  <2> QED  BY <2>1, <2>2 DEF KernelAhead, Watched
<1>10. KernelAgrees'
  <2> SUFFICES ASSUME NEW d \in Contexts, Free(d)'
               PROVE  m_events'[d] = Watched(d)'
    BY DEF KernelAgrees, Watched
  <2>1. CASE d = c
    <3>1. s.ctx = Null  BY <1>2, <2>1 DEF Free
    <3>2. Final(s, M) = M  BY <3>1 DEF Final
    <3> QED  BY <1>1, <1>7, <2>1, <3>2
  <2>2. CASE d # c
    <3>1. Free(d)  BY <1>2, <1>4, <2>2, ContextIsPair DEF Free
    <3>2. m_events[d] = Watched(d)  BY <3>1 DEF KernelAgrees, Watched
    <3> QED  BY <1>1, <1>7, <2>2, <3>2
  <2> QED  BY <2>1, <2>2
<1> QED  BY <1>1, <1>6, <1>9, <1>10

(* An accepted epoll_ctl() for context c concerns no other context.        *)
LEMMA KernelTold ==
    ASSUME KernelTypeOK, NEW c \in Contexts, NEW S \in SUBSET Events, NEW op,
           KernelControl(op, c[1], S, c), op = "DEL" <=> S = {}, ptr[c[1]] \in {c, Null}
    PROVE  /\ KernelTypeOK' /\ Watched(c)' = S
           /\ \A d \in Contexts \ {c} : Watched(d)' = Watched(d)
<1>1. c[1] \in Fds /\ c # Null  BY ContextIsPair
<1>2. /\ mask' = [mask EXCEPT ![c[1]] = S]
      /\ ptr' = [ptr EXCEPT ![c[1]] = IF S = {} THEN Null ELSE c]
  BY DEF KernelControl
<1>3. KernelTypeOK'  BY <1>1, <1>2 DEF KernelTypeOK
<1>4. Watched(c)' = S  BY <1>1, <1>2 DEF KernelTypeOK, Watched
<1>5. ASSUME NEW d \in Contexts \ {c} PROVE Watched(d)' = Watched(d)
  <2>1. d[1] \in Fds /\ d # Null  BY ContextIsPair
  <2> QED  BY <1>1, <1>2, <1>5, <2>1 DEF KernelTypeOK, Watched
<1> QED  BY <1>3, <1>4, <1>5

(* A thread that has just entered a section has counted, registered and    *)
(* removed nothing yet.                                                    *)
LEMMA EnterCounts ==
    ASSUME IInv, NEW t \in Threads, NEW s \in Sections,
           section[t].at \notin {"register", "count off", "drop"},
           section' = [section EXCEPT ![t] = s], s.at \in {"count", "uncount", "trigger"},
           UNCHANGED <<ctxVars, history>>
    PROVE  CountsOK'
<1>1. Registered' = Registered  BY DEF Registered, ctxVars
<1>2. \A v \in Threads : section'[v] = IF v = t THEN s ELSE section[v]
  BY DEF IInv, SectionOK
<1>3. \A x : InSection(x, {"register", "count off"})' <=> InSection(x, {"register", "count off"})
  BY <1>2 DEF InSection
<1>4. \A x : InSection(x, {"drop"})' <=> InSection(x, {"drop"})
  BY <1>2 DEF InSection
<1>5. Counted' = Counted  BY <1>1, <1>3, <1>4 DEF Counted
<1> QED  BY <1>1, <1>5 DEF IInv, CountsOK, PendingCounts, HandlersConserved, ctxVars, history

(* Thread t enters the section of the free context c, at the events evs:   *)
(* the kernel is told of the events S that the context will have.          *)
Enters(t, c, at, evs, op, S) ==
    /\ Free(c) /\ section[t] = NoSection
    /\ Enter(t, c, at, evs) /\ evs # {}
    /\ at # "trigger" => \E ev \in Events : evs = {ev}
    /\ at = "count" => evs \cap m_events[c] = {}
    /\ at = "uncount" => evs \subseteq m_events[c]
    /\ KernelControl(op, c[1], S, c)
    /\ op = "DEL" <=> S = {}
    /\ ptr[c[1]] \in {c, Null}
    /\ S = IF at = "count" THEN m_events[c] \cup evs ELSE m_events[c] \ evs

LEMMA EnterKeeps ==
    ASSUME IInv, NEW t \in Threads, NEW c \in Contexts,
           NEW at \in {"count", "uncount", "trigger"}, NEW evs \in SUBSET Events,
           NEW op, NEW S \in SUBSET Events, Enters(t, c, at, evs, op, S),
           UNCHANGED <<ctxVars, history>>
    PROVE  /\ ContextTypeOK' /\ KernelTypeOK' /\ SectionOK' /\ CountsOK' /\ KernelAgrees'
           /\ KernelAhead'
<1> USE DEF Enters
<1>1. First(evs) \in evs  BY DEF First, Events
<1>2. PICK s \in Sections :
        s = [ctx |-> c, at |-> at, ev |-> First(evs), rest |-> evs \ {First(evs)}]
  BY <1>1 DEF Sections, Places
<1>3. section' = [section EXCEPT ![t] = s]  BY <1>2 DEF Enter
<1>4. PICK M \in SUBSET Events : M = m_events[c]  BY DEF IInv, ContextTypeOK
<1>5. m_events' = [m_events EXCEPT ![c] = M]
  BY <1>4 DEF IInv, ContextTypeOK, ctxVars
<1>6. c # Null /\ section[t].ctx = Null /\ section[t].at = "none"
  BY ContextIsPair DEF NoSection
<1>7. Fits(s, M)  BY <1>1, <1>2, <1>4 DEF Fits
<1>8. Final(s, M) = S  BY <1>1, <1>2, <1>4 DEF Final
<1>9. /\ KernelTypeOK' /\ Watched(c)' = S
      /\ \A d \in Contexts \ {c} : Watched(d)' = Watched(d)
  BY KernelTold DEF IInv
<1>10. CountsOK'
  BY <1>2, <1>3, <1>6, EnterCounts
<1>11. ContextTypeOK' /\ SectionOK' /\ KernelAgrees' /\ KernelAhead'
  <2>1. s.ctx \in {c, Null} /\ (s.ctx = Null <=> s.at = "none")  BY <1>2, <1>6
  <2>2. \A v \in Threads \ {t} : section[v].ctx # c  BY DEF Free
  <2>3. section[t].ctx \in {c, Null}  BY <1>6
  <2> QED  BY <1>3, <1>5, <1>7, <1>8, <1>9, <2>1, <2>2, <2>3, SectionChanges
<1> QED  BY <1>9, <1>10, <1>11

-----------------------------------------------------------------------------
(* What a thread in a critical section knows of its context c, its event   *)
(* ev and the context's events M.                                          *)
Inside(t, c, ev, M) ==
    /\ section[t] \in Sections
    /\ c = section[t].ctx /\ ev = section[t].ev /\ M = m_events[c]
    /\ \A v \in Threads \ {t} : section[v].ctx # c
    /\ Fits(section[t], M) /\ Watched(c) = Final(section[t], M)

LEMMA InsideSection ==
    ASSUME IInv, NEW t \in Threads, section[t].at # "none"
    PROVE  \E c \in Contexts, ev \in Events, M \in SUBSET Events : Inside(t, c, ev, M)
<1>1. section[t] \in Sections /\ section[t].ctx \in Contexts /\ section[t].ev \in Events
  BY DEF IInv, SectionOK, Sections
<1>2. m_events[section[t].ctx] \in SUBSET Events
  BY <1>1 DEF IInv, ContextTypeOK
<1>3. /\ \A v \in Threads \ {t} : section[v].ctx # section[t].ctx
      /\ Fits(section[t], m_events[section[t].ctx])
      /\ Watched(section[t].ctx) = Final(section[t], m_events[section[t].ctx])
  BY <1>1, ContextIsPair DEF IInv, SectionOK, KernelAhead
<1> QED  BY <1>1, <1>2, <1>3 DEF Inside

(* The thread's next section as a record of its own.                       *)
LEMMA GoesTo ==
    ASSUME IInv, NEW t \in Threads, section[t].at # "none", NEW at \in Places, Goto(t, at)
    PROVE  \E s \in Sections :
            /\ section' = [section EXCEPT ![t] = s]
            /\ s.ctx = section[t].ctx /\ s.at = at
            /\ s.ev = section[t].ev /\ s.rest = section[t].rest
<1> DEFINE s == [section[t] EXCEPT !.at = at]
<1>1. section[t] \in Sections  BY DEF IInv, SectionOK
<1>2. /\ s \in Sections
      /\ s.ctx = section[t].ctx /\ s.at = at /\ s.ev = section[t].ev /\ s.rest = section[t].rest
  BY <1>1 DEF Sections
<1>3. section' = [section EXCEPT ![t] = s]  BY DEF Goto
<1> QED  BY <1>2, <1>3

(* A thread inside goes on to section s, its context's events become N.    *)
Moves(t, c, s, N) ==
    /\ section' = [section EXCEPT ![t] = s]
    /\ s.ctx \in {c, Null} /\ (s.ctx = Null <=> s.at = "none")
    /\ m_events' = [m_events EXCEPT ![c] = N]

LEMMA InsideMoves ==
    ASSUME IInv, NEW t \in Threads, NEW c \in Contexts, NEW ev \in Events,
           NEW M \in SUBSET Events, Inside(t, c, ev, M),
           NEW s \in Sections, NEW N \in SUBSET Events, Moves(t, c, s, N),
           Fits(s, N), Final(s, N) = Final(section[t], M), UNCHANGED <<mask, ptr>>
    PROVE  ContextTypeOK' /\ SectionOK' /\ KernelAgrees' /\ KernelAhead'
<1>1. \A d \in Contexts : Watched(d)' = Watched(d)  BY DEF Watched
<1>2. Watched(c)' = Final(s, N)  BY <1>1 DEF Inside
<1>3. section[t].ctx \in {c, Null} /\ \A v \in Threads \ {t} : section[v].ctx # c
  BY DEF Inside
<1> QED  BY <1>1, <1>2, <1>3, SectionChanges DEF Moves

(* The event ev of a context with the events M, at which a thread in       *)
(* section s is, is counted.                                               *)
Counts(s, ev, M) == (ev \in M \/ s.at \in {"register", "count off"}) /\ s.at # "drop"

(* What becomes of the event that a thread is at, and that nothing becomes *)
(* of the others.                                                          *)
AtEvent(t, c, ev, M, s, N) ==
    /\ Inside(t, c, ev, M) /\ Moves(t, c, s, N)
    /\ s.at \in {"register", "count off", "drop"} => s.ctx = c /\ s.ev = ev
    /\ N \ {ev} = M \ {ev}

LEMMA CountedChanges ==
    ASSUME IInv, NEW t \in Threads, NEW c \in Contexts, NEW ev \in Events,
           NEW M \in SUBSET Events, NEW s \in Sections, NEW N \in SUBSET Events,
           AtEvent(t, c, ev, M, s, N), NEW x \in Contexts \X Events, x = <<c, ev>>
    PROVE  /\ Counted' \ {x} = Counted \ {x} /\ Registered' \ {x} = Registered \ {x}
           /\ x \in Counted <=> Counts(section[t], ev, M)
           /\ x \in Counted' <=> Counts(s, ev, N)
           /\ x \in Registered <=> ev \in M
           /\ x \in Registered' <=> ev \in N
<1>1. \A v \in Threads : section'[v] = IF v = t THEN s ELSE section[v]
  BY DEF IInv, SectionOK, AtEvent, Moves
<1>2. \A d \in Contexts : m_events'[d] = IF d = c THEN N ELSE m_events[d]
  BY DEF IInv, ContextTypeOK, AtEvent, Moves
<1>3. m_events[c] = M /\ section[t].ctx = c /\ section[t].ev = ev
      /\ \A v \in Threads \ {t} : section[v].ctx # c
  BY DEF AtEvent, Inside
<1>5. ASSUME NEW d \in Contexts, NEW e \in Events
      PROVE  /\ <<d, e>> \in Registered <=> e \in m_events[d]
             /\ <<d, e>> \in Registered' <=> e \in m_events'[d]
  BY DEF Registered
<1>6. \A d \in Contexts, e \in Events :
        <<d, e>> # x => (e \in m_events'[d] <=> e \in m_events[d])
  BY <1>2, <1>3 DEF AtEvent
<1>7. ASSUME NEW y, y # x PROVE y \in Registered' <=> y \in Registered
  <2>1. CASE y \in Contexts \X Events
    <3>1. PICK d \in Contexts, e \in Events : y = <<d, e>>  BY <2>1
    <3> QED  BY <1>5, <1>6, <1>7, <3>1
  <2>2. CASE y \notin Contexts \X Events
    BY <2>2 DEF Registered
  <2> QED  BY <2>1, <2>2
<1>8. (x \in Registered <=> ev \in M) /\ (x \in Registered' <=> ev \in N)
  BY <1>2, <1>3, <1>5
<1>9. ASSUME NEW places \in SUBSET {"register", "count off", "drop"}
      PROVE  /\ \A y : y # x => (InSection(y, places)' <=> InSection(y, places))
             /\ InSection(x, places) <=> section[t].at \in places
             /\ InSection(x, places)' <=> s.at \in places
  <2>3. \A v \in Threads \ {t} : x # <<section[v].ctx, section[v].ev>>
    BY <1>3
  <2>4. s.at \in places => x = <<s.ctx, s.ev>>
    <3>1. s.at \in places => s.at \in {"register", "count off", "drop"}  BY <1>9
    <3> QED  BY <3>1 DEF AtEvent
  <2>5. x = <<section[t].ctx, section[t].ev>>  BY <1>3
  <2>6. \A y : y # x => (InSection(y, places)' <=> InSection(y, places))
    BY <1>1, <2>4, <2>5 DEF InSection
  <2>7. InSection(x, places) <=> section[t].at \in places
    BY <2>3, <2>5 DEF InSection
  <2>8. InSection(x, places)' <=> s.at \in places
    <3>1. section'[t] = s /\ \A v \in Threads \ {t} : section'[v] = section[v]  BY <1>1
    <3> QED  BY <2>3, <2>4, <3>1 DEF InSection
  <2> QED  BY <2>6, <2>7, <2>8
<1>10. /\ \A y : y # x => (y \in Counted' <=> y \in Counted)
       /\ x \in Counted <=>
            (ev \in M \/ section[t].at \in {"register", "count off"}) /\ section[t].at # "drop"
       /\ x \in Counted' <=> (ev \in N \/ s.at \in {"register", "count off"}) /\ s.at # "drop"
  BY <1>7, <1>8, <1>9 DEF Counted
<1>11. Counted' \ {x} = Counted \ {x} /\ Registered' \ {x} = Registered \ {x}
  BY <1>7, <1>10
<1> QED  BY <1>8, <1>10, <1>11 DEF Counts

(* At most a user's call has ended.                                        *)
Returned == UNCHANGED call \/ \E t : call' = [u \in Users |-> IF u = t THEN NoCall ELSE call[u]]

(* Everything else a step inside a section leaves alone.                   *)
LEMMA StepInside ==
    ASSUME IInv, UNCHANGED <<tableVars, batch, mask, ptr>>, Returned
    PROVE  TableOK' /\ KernelTypeOK' /\ BatchOK' /\ CallOK'
<1>1. TableOK' /\ KernelTypeOK' /\ BatchOK'
  BY DEF IInv, TableOK, KernelTypeOK, BatchOK, tableVars
<1>2. CallOK'
  BY DEF IInv, CallOK, Returned, NoCall, OpNames, Events
<1> QED  BY <1>1, <1>2

(* The counters after a step at event x.                                   *)
LEMMA CountersMove ==
    ASSUME IInv, NEW x \in Contexts \X Events,
           Counted' \ {x} = Counted \ {x} /\ Registered' \ {x} = Registered \ {x},
           adds' \in Nat, triggered' \in Nat, deleted' \in Nat,
           set' = Registered',
           pending' = pending + (IF x \in Counted' THEN 1 ELSE 0) - (IF x \in Counted THEN 1 ELSE 0),
           adds' - triggered' - deleted' = adds - triggered - deleted
                + (IF x \in Registered' THEN 1 ELSE 0) - (IF x \in Registered THEN 1 ELSE 0)
    PROVE  CountsOK'
<1>1. ASSUME NEW S \in SUBSET (Contexts \X Events), NEW T \in SUBSET (Contexts \X Events),
             \A y : y # x => (y \in T <=> y \in S)
      PROVE  /\ Cardinality(S) \in Nat /\ Cardinality(T) \in Nat
             /\ Cardinality(T) = Cardinality(S) + (IF x \in T THEN 1 ELSE 0)
                                                - (IF x \in S THEN 1 ELSE 0)
  <2>1. Cardinality(S) \in Nat /\ Cardinality(T) \in Nat  BY EventsFinite
  <2>2. CASE x \in S <=> x \in T
    <3>1. \A y : y \in S <=> y \in T  BY <1>1, <2>2
    <3>2. S = T  BY <3>1
    <3> QED  BY <2>1, <2>2, <3>2
  <2>3. CASE x \notin S /\ x \in T
    <3>1. T = S \cup {x}  BY <1>1, <2>3
    <3> QED  BY <2>1, <2>3, <3>1, OneMore
  <2>4. CASE x \in S /\ x \notin T
    <3>1. T = S \ {x}  BY <1>1, <2>4
    <3> QED  BY <2>1, <2>4, <3>1, OneLess
  <2> QED  BY <2>2, <2>3, <2>4
<1>2. PICK C \in SUBSET (Contexts \X Events), D \in SUBSET (Contexts \X Events),
           R \in SUBSET (Contexts \X Events), Q \in SUBSET (Contexts \X Events) :
        C = Counted /\ D = Counted' /\ R = Registered /\ Q = Registered'
  BY DEF Counted, Registered
<1>3. /\ Cardinality(D) = Cardinality(C) + (IF x \in D THEN 1 ELSE 0) - (IF x \in C THEN 1 ELSE 0)
      /\ Cardinality(Q) = Cardinality(R) + (IF x \in Q THEN 1 ELSE 0) - (IF x \in R THEN 1 ELSE 0)
      /\ Cardinality(C) \in Nat /\ Cardinality(D) \in Nat
      /\ Cardinality(R) \in Nat /\ Cardinality(Q) \in Nat
  BY <1>1, <1>2
<1>4. /\ pending = Cardinality(C) /\ adds = triggered + deleted + Cardinality(R)
      /\ adds \in Nat /\ triggered \in Nat /\ deleted \in Nat
  BY <1>2 DEF IInv, CountsOK, PendingCounts, HandlersConserved
<1>5. pending' = Cardinality(D)
  BY <1>2, <1>3, <1>4
<1>6. adds' = triggered' + deleted' + Cardinality(Q)
  BY <1>2, <1>3, <1>4
<1> QED  BY <1>2, <1>5, <1>6 DEF CountsOK, PendingCounts, HandlersConserved

(* addEvent() counts its event.                                            *)
LEMMA CountKeeps ==
    ASSUME IInv, NEW t \in Threads, Count(t)
    PROVE  IInv'
<1>1. section[t].at = "count"  BY DEF Count
<1>2. PICK c \in Contexts, ev \in Events, M \in SUBSET Events : Inside(t, c, ev, M)
  BY <1>1, InsideSection
<1>3. PICK s \in Sections :
        /\ section' = [section EXCEPT ![t] = s]
        /\ s.ctx = c /\ s.at = "register" /\ s.ev = ev
  <2>1. Goto(t, "register") /\ section[t].at # "none" /\ "register" \in Places
    BY <1>1 DEF Count, Places
  <2>2. c = section[t].ctx /\ ev = section[t].ev  BY <1>2 DEF Inside
  <2> QED  BY <2>1, <2>2, GoesTo
<1>4. ev \notin M  BY <1>1, <1>2 DEF Inside, Fits
<1>5. Moves(t, c, s, M)
  <2>1. m_events' = [m_events EXCEPT ![c] = M]
    BY <1>2 DEF Count, Inside, IInv, ContextTypeOK
  <2> QED  BY <1>3, <2>1, ContextIsPair DEF Moves
<1>6. TableOK' /\ KernelTypeOK' /\ BatchOK' /\ CallOK'
  BY StepInside DEF Count, Returned, kernelVars
<1>7. ContextTypeOK' /\ SectionOK' /\ KernelAgrees' /\ KernelAhead'
  <2>1. Fits(s, M)  BY <1>3, <1>4 DEF Fits
  <2>2. Final(s, M) = Final(section[t], M)  BY <1>1, <1>2, <1>3 DEF Final, Inside
  <2> QED  BY <1>2, <1>5, <2>1, <2>2, InsideMoves DEF Count, kernelVars
<1>8. CountsOK'
  <2>1. PICK x \in Contexts \X Events : x = <<c, ev>>  OBVIOUS
  <2>2. /\ Counted' \ {x} = Counted \ {x} /\ Registered' \ {x} = Registered \ {x}
        /\ x \notin Counted /\ x \in Counted'
        /\ x \in Registered' <=> x \in Registered
    <3>1. AtEvent(t, c, ev, M, s, M)  BY <1>1, <1>2, <1>3, <1>4, <1>5, <2>1 DEF AtEvent
    <3>2. /\ ~Counts(section[t], ev, M) /\ Counts(s, ev, M)
          /\ ev \notin M /\ ev \notin M
      BY <1>1, <1>3, <1>4, <2>1 DEF Counts
    <3> QED  BY <2>1, <3>1, <3>2, CountedChanges
  <2>3. Registered' = Registered  BY <2>2
  <2>4. /\ set' = Registered' /\ adds' \in Nat /\ triggered' \in Nat /\ deleted' \in Nat
        /\ UNCHANGED <<adds, triggered, deleted>> /\ pending \in Nat
    BY <2>3, EventsFinite, CountedEvents DEF Count, history, IInv, CountsOK, PendingCounts
  <2> QED  BY <2>2, <2>4, CountersMove DEF Count, IInv, CountsOK
<1> QED  BY <1>6, <1>7, <1>8 DEF IInv

(* It registers its handler and releases the mutex.                        *)
LEMMA RegisterKeeps ==
    ASSUME IInv, NEW t \in Threads, Register(t)
    PROVE  IInv'
<1>1. section[t].at = "register"  BY DEF Register
<1>2. PICK c \in Contexts, ev \in Events, M \in SUBSET Events : Inside(t, c, ev, M)
  BY <1>1, InsideSection
<1>3. PICK s \in Sections : s = NoSection  BY DEF NoSection, Sections, Places, Events
<1>4. s.ctx = Null /\ s.at = "none" /\ section' = [section EXCEPT ![t] = s]
  BY <1>3 DEF NoSection, Register, Leave
<1>5. ev \notin M  BY <1>1, <1>2 DEF Inside, Fits
<1>6. PICK N \in SUBSET Events : N = M \cup {ev}  OBVIOUS
<1>7. Moves(t, c, s, N)
  <2>1. m_events' = [m_events EXCEPT ![c] = N]
    BY <1>2, <1>6 DEF Register, Inside
  <2> QED  BY <1>4, <2>1 DEF Moves
<1>8. TableOK' /\ KernelTypeOK' /\ BatchOK' /\ CallOK'
  BY StepInside DEF Register, Leave, Returned, Returns, kernelVars
<1>9. ContextTypeOK' /\ SectionOK' /\ KernelAgrees' /\ KernelAhead'
  <2>1. Fits(s, N)  BY <1>4 DEF Fits
  <2>2. Final(s, N) = Final(section[t], M)
    BY <1>1, <1>2, <1>4, <1>6 DEF Final, Inside
  <2> QED  BY <1>2, <1>7, <2>1, <2>2, InsideMoves DEF Register, kernelVars
<1>10. CountsOK'
  <2>1. PICK x \in Contexts \X Events : x = <<c, ev>>  OBVIOUS
  <2>2. /\ Counted' \ {x} = Counted \ {x} /\ Registered' \ {x} = Registered \ {x}
        /\ x \in Counted /\ x \in Counted' /\ x \notin Registered /\ x \in Registered'
    <3>1. AtEvent(t, c, ev, M, s, N)  BY <1>1, <1>2, <1>4, <1>5, <1>6, <1>7, <2>1 DEF AtEvent
    <3>2. /\ Counts(section[t], ev, M) /\ Counts(s, ev, N)
          /\ ev \notin M /\ ev \in N
      BY <1>1, <1>2, <1>4, <1>5, <1>6, <1>7, <2>1 DEF Counts
    <3> QED  BY <2>1, <3>1, <3>2, CountedChanges
  <2>3. set' = set \cup {x} /\ adds' = adds + 1
        /\ UNCHANGED <<pending, triggered, deleted>>
    BY <1>2, <2>1 DEF Register, Inside
  <2>4. set' = Registered'
    BY <2>2, <2>3 DEF IInv, CountsOK
  <2>5. pending \in Nat /\ adds \in Nat /\ triggered \in Nat /\ deleted \in Nat
    BY EventsFinite, CountedEvents DEF IInv, CountsOK, PendingCounts
  <2> QED  BY <2>2, <2>3, <2>4, <2>5, CountersMove
<1> QED  BY <1>8, <1>9, <1>10 DEF IInv

(* delEvent() counts its event off.                                        *)
LEMMA UncountKeeps ==
    ASSUME IInv, NEW t \in Threads, Uncount(t)
    PROVE  IInv'
<1>1. section[t].at = "uncount"  BY DEF Uncount
<1>2. PICK c \in Contexts, ev \in Events, M \in SUBSET Events : Inside(t, c, ev, M)
  BY <1>1, InsideSection
<1>3. PICK s \in Sections :
        /\ section' = [section EXCEPT ![t] = s]
        /\ s.ctx = c /\ s.at = "drop" /\ s.ev = ev
  <2>1. Goto(t, "drop") /\ section[t].at # "none" /\ "drop" \in Places
    BY <1>1 DEF Uncount, Places
  <2>2. c = section[t].ctx /\ ev = section[t].ev  BY <1>2 DEF Inside
  <2> QED  BY <2>1, <2>2, GoesTo
<1>4. ev \in M  BY <1>1, <1>2 DEF Inside, Fits
<1>5. Moves(t, c, s, M)
  <2>1. m_events' = [m_events EXCEPT ![c] = M]
    BY <1>2 DEF Uncount, Inside, IInv, ContextTypeOK
  <2> QED  BY <1>3, <2>1, ContextIsPair DEF Moves
<1>6. TableOK' /\ KernelTypeOK' /\ BatchOK' /\ CallOK'
  BY StepInside DEF Uncount, Returned, kernelVars
<1>7. ContextTypeOK' /\ SectionOK' /\ KernelAgrees' /\ KernelAhead'
  <2>1. Fits(s, M)  BY <1>3, <1>4 DEF Fits
  <2>2. Final(s, M) = Final(section[t], M)  BY <1>1, <1>2, <1>3 DEF Final, Inside
  <2> QED  BY <1>2, <1>5, <2>1, <2>2, InsideMoves DEF Uncount, kernelVars
<1>8. CountsOK'
  <2>1. PICK x \in Contexts \X Events : x = <<c, ev>>  OBVIOUS
  <2>2. /\ Counted' \ {x} = Counted \ {x} /\ Registered' \ {x} = Registered \ {x}
        /\ x \in Counted /\ x \notin Counted'
        /\ x \in Registered' <=> x \in Registered
    <3>1. AtEvent(t, c, ev, M, s, M)  BY <1>1, <1>2, <1>3, <1>4, <1>5, <2>1 DEF AtEvent
    <3>2. /\ Counts(section[t], ev, M) /\ ~Counts(s, ev, M)
          /\ ev \in M /\ ev \in M
      BY <1>1, <1>2, <1>3, <1>4, <1>5, <2>1 DEF Counts
    <3> QED  BY <2>1, <3>1, <3>2, CountedChanges
  <2>3. Registered' = Registered  BY <2>2
  <2>4. /\ set' = Registered' /\ adds' \in Nat /\ triggered' \in Nat /\ deleted' \in Nat
        /\ UNCHANGED <<adds, triggered, deleted>> /\ pending \in Nat
    BY <2>3, EventsFinite, CountedEvents DEF Uncount, history, IInv, CountsOK, PendingCounts
  <2> QED  BY <2>2, <2>4, CountersMove DEF Uncount, IInv, CountsOK
<1> QED  BY <1>6, <1>7, <1>8 DEF IInv

(* It drops its handler and releases the mutex.                            *)
LEMMA DropKeeps ==
    ASSUME IInv, NEW t \in Threads, Drop(t)
    PROVE  IInv'
<1>1. section[t].at = "drop"  BY DEF Drop
<1>2. PICK c \in Contexts, ev \in Events, M \in SUBSET Events : Inside(t, c, ev, M)
  BY <1>1, InsideSection
<1>3. PICK s \in Sections : s = NoSection  BY DEF NoSection, Sections, Places, Events
<1>4. s.ctx = Null /\ s.at = "none" /\ section' = [section EXCEPT ![t] = s]
  BY <1>3 DEF NoSection, Drop, Leave
<1>5. ev \in M  BY <1>1, <1>2 DEF Inside, Fits
<1>6. PICK N \in SUBSET Events : N = M \ {ev}  OBVIOUS
<1>7. Moves(t, c, s, N)
  <2>1. m_events' = [m_events EXCEPT ![c] = N]
    BY <1>2, <1>6 DEF Drop, Vacate, Inside
  <2> QED  BY <1>4, <2>1 DEF Moves
<1>8. TableOK' /\ KernelTypeOK' /\ BatchOK' /\ CallOK'
  BY StepInside DEF Drop, Leave, Returned, Returns, kernelVars
<1>9. ContextTypeOK' /\ SectionOK' /\ KernelAgrees' /\ KernelAhead'
  <2>1. Fits(s, N)  BY <1>4 DEF Fits
  <2>2. Final(s, N) = Final(section[t], M)
    BY <1>1, <1>2, <1>4, <1>6 DEF Final, Inside
  <2> QED  BY <1>2, <1>7, <2>1, <2>2, InsideMoves DEF Drop, kernelVars
<1>10. CountsOK'
  <2>1. PICK x \in Contexts \X Events : x = <<c, ev>>  OBVIOUS
  <2>2. /\ Counted' \ {x} = Counted \ {x} /\ Registered' \ {x} = Registered \ {x}
        /\ x \notin Counted /\ x \notin Counted' /\ x \in Registered /\ x \notin Registered'
    <3>1. AtEvent(t, c, ev, M, s, N)  BY <1>1, <1>2, <1>4, <1>5, <1>6, <1>7, <2>1 DEF AtEvent
    <3>2. /\ ~Counts(section[t], ev, M) /\ ~Counts(s, ev, N)
          /\ ev \in M /\ ev \notin N
      BY <1>1, <1>2, <1>4, <1>5, <1>6, <1>7, <2>1 DEF Counts
    <3> QED  BY <2>1, <3>1, <3>2, CountedChanges
  <2>3. set' = set \ {x} /\ deleted' = deleted + 1
        /\ UNCHANGED <<pending, triggered, adds>>
    BY <1>2, <2>1 DEF Drop, Vacate, Inside
  <2>4. set' = Registered'
    BY <2>2, <2>3 DEF IInv, CountsOK
  <2>5. pending \in Nat /\ adds \in Nat /\ triggered \in Nat /\ deleted \in Nat
    BY EventsFinite, CountedEvents DEF IInv, CountsOK, PendingCounts
  <2> QED  BY <2>2, <2>3, <2>4, <2>5, CountersMove
<1> QED  BY <1>8, <1>9, <1>10 DEF IInv

(* triggerEvent() hands a handler to the scheduler, or fails.              *)
LEMMA triggerEventKeeps ==
    ASSUME IInv, NEW t \in Threads, triggerEvent(t)
    PROVE  IInv'
<1>1. section[t].at = "trigger"  BY DEF triggerEvent
<1>2. PICK c \in Contexts, ev \in Events, M \in SUBSET Events : Inside(t, c, ev, M)
  BY <1>1, InsideSection
<1>3. TableOK' /\ KernelTypeOK' /\ BatchOK' /\ CallOK'
  BY StepInside DEF triggerEvent, Returned, kernelVars
<1>4. CASE ev \notin M
  <2>1. UNCHANGED <<ctxVars, section, mask, ptr, history>>
    BY <1>2, <1>4 DEF triggerEvent, ctxVars, kernelVars, history, Inside
  <2> QED  BY <1>3, <2>1, KeepContexts DEF IInv
<1>5. CASE ev \in M
  <2>1. PICK x \in Contexts \X Events : x = <<c, ev>>  OBVIOUS
  <2>2. /\ m_events' = [m_events EXCEPT ![c] = M \ {ev}]
        /\ set' = set \ {x} /\ triggered' = triggered + 1
        /\ Goto(t, "count off") /\ UNCHANGED <<pending, adds, deleted>>
    BY <1>2, <1>5, <2>1 DEF triggerEvent, Vacate, Inside
  <2>3. PICK s \in Sections :
          /\ section' = [section EXCEPT ![t] = s]
          /\ s.ctx = c /\ s.at = "count off" /\ s.ev = ev /\ s.rest = section[t].rest
    BY <1>1, <1>2, <2>2, GoesTo DEF Places, Inside
  <2>4. PICK N \in SUBSET Events : N = M \ {ev}  OBVIOUS
  <2>5. Moves(t, c, s, N)
    BY <2>2, <2>3, <2>4, ContextIsPair DEF Moves
  <2>6. ContextTypeOK' /\ SectionOK' /\ KernelAgrees' /\ KernelAhead'
    <3>1. Fits(s, N)  BY <2>3, <2>4 DEF Fits
    <3>2. Final(s, N) = Final(section[t], M)
      BY <1>1, <1>2, <2>3, <2>4 DEF Final, Inside
    <3> QED  BY <1>2, <2>5, <3>1, <3>2, InsideMoves DEF triggerEvent, kernelVars
  <2>7. CountsOK'
    <3>1. /\ Counted' \ {x} = Counted \ {x} /\ Registered' \ {x} = Registered \ {x}
          /\ x \in Counted /\ x \in Counted' /\ x \in Registered /\ x \notin Registered'
      <4>1. AtEvent(t, c, ev, M, s, N)  BY <1>1, <1>2, <1>5, <2>1, <2>3, <2>4, <2>5 DEF AtEvent
      <4>2. /\ Counts(section[t], ev, M) /\ Counts(s, ev, N)
            /\ ev \in M /\ ev \notin N
        BY <1>1, <1>2, <1>5, <2>1, <2>3, <2>4, <2>5 DEF Counts
      <4> QED  BY <2>1, <4>1, <4>2, CountedChanges
    <3>2. set' = Registered'
      BY <2>2, <3>1 DEF IInv, CountsOK
    <3>3. pending \in Nat /\ adds \in Nat /\ triggered \in Nat /\ deleted \in Nat
      BY EventsFinite, CountedEvents DEF IInv, CountsOK, PendingCounts
    <3>4. /\ pending' = pending + (IF x \in Counted' THEN 1 ELSE 0) - (IF x \in Counted THEN 1 ELSE 0)
          /\ adds' - triggered' - deleted' = adds - triggered - deleted
                + (IF x \in Registered' THEN 1 ELSE 0) - (IF x \in Registered THEN 1 ELSE 0)
          /\ adds' \in Nat /\ triggered' \in Nat /\ deleted' \in Nat
      <4>1. pending' = pending /\ adds' = adds /\ deleted' = deleted /\ triggered' = triggered + 1
        BY <2>2
      <4> QED  BY <3>1, <3>3, <4>1
    <3> QED  BY <3>1, <3>2, <3>4, CountersMove
  <2> QED  BY <1>3, <2>6, <2>7 DEF IInv
<1> QED  BY <1>4, <1>5

(* It is counted off; the mutex is released after the last event.          *)
LEMMA CountOffKeeps ==
    ASSUME IInv, NEW t \in Threads, CountOff(t)
    PROVE  IInv'
<1>1. section[t].at = "count off"  BY DEF CountOff
<1>2. PICK c \in Contexts, ev \in Events, M \in SUBSET Events : Inside(t, c, ev, M)
  BY <1>1, InsideSection
<1>3. TableOK' /\ KernelTypeOK' /\ BatchOK' /\ CallOK'
  BY StepInside DEF CountOff, Leave, Returned, Returns, kernelVars
<1>4. PICK rest \in SUBSET Events : rest = section[t].rest
  BY <1>2 DEF Inside, Sections
<1>5. PICK s \in Sections :
        /\ section' = [section EXCEPT ![t] = s]
        /\ s.ctx \in {c, Null} /\ s.at \in {"none", "trigger"} /\ (s.ctx = Null <=> s.at = "none")
        /\ s.at = "none" => rest = {}
        /\ s.at = "trigger" => {s.ev} \cup s.rest = rest
  <2>1. CASE rest = {}
    <3>1. NoSection \in Sections /\ NoSection.ctx = Null /\ NoSection.at = "none"
      BY DEF NoSection, Sections, Places, Events
    <3>2. section' = [section EXCEPT ![t] = NoSection]  BY <1>4, <2>1 DEF CountOff, Leave
    <3> QED  BY <2>1, <3>1, <3>2
  <2>2. CASE rest # {}
    <3> DEFINE s == [ctx |-> c, at |-> "trigger", ev |-> First(rest), rest |-> rest \ {First(rest)}]
    <3>1. First(rest) \in rest  BY <2>2 DEF First, Events
    <3>2. s \in Sections  BY <3>1 DEF Sections, Places
    <3>3. section' = [section EXCEPT ![t] = s]
      BY <1>2, <1>4, <2>2 DEF CountOff, Enter, Inside
    <3>4. c # Null  BY ContextIsPair
    <3> QED  BY <3>1, <3>2, <3>3, <3>4
  <2> QED  BY <2>1, <2>2
<1>6. Moves(t, c, s, M)
  <2>1. m_events' = [m_events EXCEPT ![c] = M]
    BY <1>2 DEF CountOff, Inside, IInv, ContextTypeOK
  <2> QED  BY <1>5, <2>1 DEF Moves
<1>7. ContextTypeOK' /\ SectionOK' /\ KernelAgrees' /\ KernelAhead'
  <2>1. Fits(s, M)  BY <1>5 DEF Fits
  <2>2. Final(s, M) = Final(section[t], M)
    BY <1>1, <1>2, <1>4, <1>5 DEF Final, Inside
  <2> QED  BY <1>2, <1>6, <2>1, <2>2, InsideMoves DEF CountOff, kernelVars
<1>8. CountsOK'
  <2>1. PICK x \in Contexts \X Events : x = <<c, ev>>  OBVIOUS
  <2>2. ev \notin M  BY <1>1, <1>2 DEF Inside, Fits
  <2>3. /\ Counted' \ {x} = Counted \ {x} /\ Registered' \ {x} = Registered \ {x}
        /\ x \in Counted /\ x \notin Counted'
        /\ x \in Registered' <=> x \in Registered
    <3>1. AtEvent(t, c, ev, M, s, M)  BY <1>1, <1>2, <1>5, <1>6, <2>1, <2>2 DEF AtEvent
    <3>2. /\ Counts(section[t], ev, M) /\ ~Counts(s, ev, M)
          /\ ev \notin M /\ ev \notin M
      BY <1>1, <1>2, <1>5, <1>6, <2>1, <2>2 DEF Counts
    <3> QED  BY <2>1, <3>1, <3>2, CountedChanges
  <2>4. Registered' = Registered  BY <2>3
  <2>5. /\ set' = Registered' /\ adds' \in Nat /\ triggered' \in Nat /\ deleted' \in Nat
        /\ UNCHANGED <<adds, triggered, deleted>> /\ pending \in Nat
    BY <2>4, EventsFinite, CountedEvents DEF CountOff, history, IInv, CountsOK, PendingCounts
  <2>6. pending' = pending - 1  BY DEF CountOff
  <2>7. /\ pending' = pending + (IF x \in Counted' THEN 1 ELSE 0) - (IF x \in Counted THEN 1 ELSE 0)
        /\ adds' - triggered' - deleted' = adds - triggered - deleted
                + (IF x \in Registered' THEN 1 ELSE 0) - (IF x \in Registered THEN 1 ELSE 0)
    BY <2>3, <2>5, <2>6 DEF IInv, CountsOK
  <2> QED  BY <2>3, <2>5, <2>7, CountersMove
<1> QED  BY <1>3, <1>7, <1>8 DEF IInv

(* Every step inside a critical section keeps the invariant.               *)
LEMMA SectionStepKeeps ==
    ASSUME IInv, NEW t \in Threads, SectionStep(t)
    PROVE  IInv'
BY CountKeeps, RegisterKeeps, UncountKeeps, DropKeeps, triggerEventKeeps, CountOffKeeps
   DEF SectionStep

-----------------------------------------------------------------------------
(* A call that is refused only returns.                                    *)
LEMMA RefusedKeeps ==
    ASSUME IInv, UNCHANGED <<tableVars, ctxVars, batch, section, kernelVars, history>>,
           Returned
    PROVE  IInv'
<1>1. TableOK' /\ BatchOK' /\ CallOK'
  BY StepInside DEF kernelVars
<1> QED  BY <1>1, KeepContexts DEF kernelVars, IInv

(* Of a free context: whether it has events, the kernel knows.             *)
LEMMA FreeContext ==
    ASSUME IInv, NEW c \in Contexts, Free(c)
    PROVE  /\ m_events[c] \in SUBSET Events
           /\ m_events[c] # {} => ptr[c[1]] = c
BY DEF IInv, KernelAgrees, ContextTypeOK

(* addEvent() enters the section.                                          *)
LEMMA addEventKeeps ==
    ASSUME IInv, NEW u \in Users, addEvent(u)
    PROVE  IInv'
<1>1. PICK c \in Contexts, ev \in Events, evs \in SUBSET Events, op \in {"ADD", "MOD"} :
        /\ c = call[u].ctx /\ ev = call[u].ev /\ evs = {ev}
        /\ op = IF m_events[c] = {} THEN "ADD" ELSE "MOD"
        /\ Free(c) /\ section[u] = NoSection
        /\ UNCHANGED <<tableVars, ctxVars, batch, history>>
  BY DEF addEvent, MayEnter, IInv, CallOK
<1> u \in Threads  BY DEF Threads
<1>2. CASE UNCHANGED <<section, kernelVars>> /\ (UNCHANGED call \/ Returns(u))
  BY <1>1, <1>2, RefusedKeeps DEF Returned, Returns
<1>3. CASE /\ ev \notin m_events[c] /\ KernelAccepts(op, c[1])
           /\ KernelControl(op, c[1], m_events[c] \cup {ev}, c)
           /\ Enter(u, c, "count", {ev}) /\ UNCHANGED call
  <2>1. m_events[c] \in SUBSET Events /\ (m_events[c] # {} => ptr[c[1]] = c)
    BY <1>1, FreeContext
  <2>2. ptr[c[1]] \in {c, Null}
    BY <1>1, <1>3, <2>1 DEF KernelAccepts
  <2>3. PICK S \in SUBSET Events : S = m_events[c] \cup evs  BY <2>1
  <2>4. /\ ContextTypeOK' /\ KernelTypeOK' /\ SectionOK' /\ CountsOK' /\ KernelAgrees'
        /\ KernelAhead'
    <3>1. PICK at \in {"count", "uncount", "trigger"} : at = "count"  OBVIOUS
    <3>2. KernelControl(op, c[1], S, c) /\ Enter(u, c, at, evs) /\ (op = "DEL" <=> S = {})
      BY <1>1, <1>3, <2>3, <3>1
    <3>3. /\ at # "trigger" => \E e \in Events : evs = {e}
          /\ at = "count" => evs \cap m_events[c] = {}
          /\ at = "uncount" => evs \subseteq m_events[c]
          /\ evs # {} /\ S = IF at = "count" THEN m_events[c] \cup evs ELSE m_events[c] \ evs
      BY <1>1, <1>3, <2>3, <3>1
    <3>4. Enters(u, c, at, evs, op, S)  BY <1>1, <2>2, <3>2, <3>3 DEF Enters
    <3> QED  BY <1>1, <3>4, EnterKeeps
  <2>5. TableOK' /\ BatchOK' /\ CallOK'
    BY <1>1, <1>3 DEF IInv, TableOK, BatchOK, CallOK, tableVars
  <2> QED  BY <2>4, <2>5 DEF IInv
<1> QED  BY <1>1, <1>2, <1>3 DEF addEvent

(* The kernel is told of a removal.                                        *)
LEMMA ShrinkKeeps ==
    ASSUME IInv, NEW t \in Threads, NEW c \in Contexts, Free(c), section[t] = NoSection,
           NEW at \in {"uncount", "trigger"}, NEW gone \in SUBSET Events, gone # {},
           at = "uncount" => gone \subseteq m_events[c] /\ \E ev \in Events : gone = {ev},
           m_events[c] \cap gone # {}, Shrink(t, c, m_events[c] \ gone, at, gone),
           UNCHANGED <<ctxVars, history>>
    PROVE  /\ ContextTypeOK' /\ KernelTypeOK' /\ SectionOK' /\ CountsOK' /\ KernelAgrees'
           /\ KernelAhead'
<1>1. m_events[c] \in SUBSET Events /\ ptr[c[1]] = c
  BY FreeContext
<1>2. PICK S \in SUBSET Events : S = m_events[c] \ gone  BY <1>1
<1>3. PICK op : op = LeftOp(S)  OBVIOUS
<1>4. KernelControl(op, c[1], S, c) /\ Enter(t, c, at, gone) /\ (op = "DEL" <=> S = {})
  BY <1>2, <1>3 DEF Shrink, LeftOp
<1>5. PICK a \in {"count", "uncount", "trigger"} : a = at  OBVIOUS
<1>6. Enter(t, c, a, gone)  BY <1>4, <1>5
<1>7. /\ a # "trigger" => \E ev \in Events : gone = {ev}
      /\ a = "count" => gone \cap m_events[c] = {}
      /\ a = "uncount" => gone \subseteq m_events[c]
      /\ S = IF a = "count" THEN m_events[c] \cup gone ELSE m_events[c] \ gone
  BY <1>2, <1>5
<1>8. Enters(t, c, a, gone, op, S)  BY <1>1, <1>4, <1>6, <1>7 DEF Enters
<1> QED  BY <1>8, EnterKeeps

(* delEvent(), cancelEvent() and cancelAll() enter the section.            *)
LEMMA RemoveKeeps ==
    ASSUME IInv, NEW u \in Users, NEW op, NEW at \in {"uncount", "trigger"},
           NEW gone \in SUBSET Events, at = "uncount" => \E ev \in Events : gone = {ev},
           Remove(u, op, at, gone)
    PROVE  IInv'
<1>1. PICK c \in Contexts :
        /\ c = call[u].ctx /\ Free(c) /\ section[u] = NoSection
        /\ UNCHANGED <<tableVars, ctxVars, batch, history>>
  BY DEF Remove, MayEnter, IInv, CallOK
<1> u \in Threads  BY DEF Threads
<1>2. CASE UNCHANGED <<section, kernelVars>> /\ Returns(u)
  BY <1>1, <1>2, RefusedKeeps DEF Returned, Returns
<1>3. CASE /\ gone # {} /\ gone \subseteq m_events[c]
           /\ Shrink(u, c, m_events[c] \ gone, at, gone) /\ UNCHANGED call
  <2>1. TableOK' /\ BatchOK' /\ CallOK'
    BY <1>1, <1>3 DEF IInv, TableOK, BatchOK, CallOK, tableVars
  <2>2. m_events[c] \cap gone # {}  BY <1>3
  <2>3. /\ ContextTypeOK' /\ KernelTypeOK' /\ SectionOK' /\ CountsOK' /\ KernelAgrees'
        /\ KernelAhead'
    BY <1>1, <1>3, <2>2, ShrinkKeeps
  <2> QED  BY <2>1, <2>3 DEF IInv
<1> QED  BY <1>1, <1>2, <1>3 DEF Remove

(* epoll_wait() returns.                                                   *)
LEMMA EpollWaitKeeps ==
    ASSUME IInv, NEW i \in IOThreads, EpollWait(i)
    PROVE  IInv'
<1>1. UNCHANGED <<tableVars, ctxVars, call, section, mask, ptr, history>>
  BY DEF EpollWait
<1>2. TableOK' /\ CallOK'
  BY <1>1 DEF IInv, TableOK, CallOK, tableVars
<1>3. ASSUME NEW fd \in Fds, KernelReports(fd)
      PROVE  KernelReport(fd) \in Reports /\ KernelReport(fd).ctx[1] = KernelReport(fd).fd
  <2>1. ptr[fd] \in Contexts /\ ptr[fd][1] = fd
    BY <1>3 DEF KernelReports, IInv, KernelTypeOK
  <2>2. ready[fd] \cap mask[fd] \subseteq Events
    BY DEF IInv, KernelTypeOK
  <2> QED  BY <2>1, <2>2 DEF Reports, KernelReport
<1>4. BatchOK'
  <2>1. PICK S \in SUBSET {fd \in Fds : KernelReports(fd)} :
          batch' = [batch EXCEPT ![i] = {KernelReport(fd) : fd \in S}]
    BY DEF EpollWait
  <2> DEFINE T == {KernelReport(fd) : fd \in S}
  <2>2. T \in SUBSET Reports /\ \A r \in T : r.ctx[1] = r.fd
    BY <1>3
  <2> HIDE DEF T
  <2> QED  BY <2>1, <2>2 DEF IInv, BatchOK, T
<1> QED  BY <1>1, <1>2, <1>4, KeepContexts DEF IInv

(* One turn of idle()'s loop.                                              *)
LEMMA HandleEventKeeps ==
    ASSUME IInv, NEW i \in IOThreads, NEW r \in batch[i], HandleEvent(i, r)
    PROVE  IInv'
<1>1. PICK c \in Contexts, real \in SUBSET Events :
        /\ c = r.ctx /\ real = RealEvents(r)
        /\ Free(c) /\ section[i] = NoSection
        /\ UNCHANGED <<tableVars, ctxVars, call, history>>
        /\ batch' = [batch EXCEPT ![i] = @ \ {r}]
  BY DEF HandleEvent, IInv, BatchOK, Reports, RealEvents
<1> i \in Threads  BY DEF Threads
<1>2. TableOK' /\ CallOK' /\ BatchOK'
  BY <1>1 DEF IInv, TableOK, CallOK, BatchOK, tableVars
<1>3. CASE UNCHANGED <<section, kernelVars>>
  BY <1>1, <1>2, <1>3, KeepContexts DEF kernelVars, IInv
<1>4. CASE m_events[c] \cap real # {} /\ Shrink(i, c, Left(c, real), "trigger", real)
  <2>1. Shrink(i, c, m_events[c] \ real, "trigger", real) /\ real # {}  BY <1>4 DEF Left
  <2>2. PICK at \in {"uncount", "trigger"} : at = "trigger"  OBVIOUS
  <2>3. Shrink(i, c, m_events[c] \ real, at, real)  BY <2>1, <2>2
  <2>4. /\ ContextTypeOK' /\ KernelTypeOK' /\ SectionOK' /\ CountsOK' /\ KernelAgrees'
        /\ KernelAhead'
    BY <1>1, <1>4, <2>1, <2>2, <2>3, ShrinkKeeps
  <2> QED  BY <1>2, <2>4 DEF IInv
<1> QED  BY <1>1, <1>3, <1>4 DEF HandleEvent

-----------------------------------------------------------------------------
(* Every step keeps the invariant.                                         *)
LEMMA NextIInv == IInv /\ [Next]_vars => IInv'
<1> SUFFICES ASSUME IInv, [Next]_vars PROVE IInv'  OBVIOUS
<1>1. CASE UNCHANGED vars
  BY <1>1, RefusedKeeps DEF vars, Returned
<1>2. CASE WorldStep
  BY <1>2, WorldStepKeeps
<1>3. ASSUME NEW u \in Users, UserStep(u) PROVE IInv'
  <2>1. u \in Threads  BY DEF Threads
  <2>2. call[u].ev \in Events /\ {call[u].ev} \in SUBSET Events  BY DEF IInv, CallOK
  <2>3. CASE delEvent(u)  BY <2>2, <2>3, RemoveKeeps DEF delEvent
  <2>4. CASE cancelEvent(u)  BY <2>2, <2>4, RemoveKeeps DEF cancelEvent
  <2>5. CASE cancelAll(u)
    <3>1. call[u].ctx \in Contexts  BY <2>5 DEF cancelAll, IInv, CallOK
    <3>2. m_events[call[u].ctx] \in SUBSET Events  BY <3>1 DEF IInv, ContextTypeOK
    <3> QED  BY <2>5, <3>2, RemoveKeeps DEF cancelAll
  <2> QED
    BY <1>3, <2>1, <2>3, <2>4, <2>5, LookupKeeps, GrowKeeps, addEventKeeps, SectionStepKeeps
    DEF UserStep, CallStep
<1>4. ASSUME NEW i \in IOThreads, IOStep(i) PROVE IInv'
  <2>1. i \in Threads  BY DEF Threads
  <2> QED  BY <1>4, <2>1, EpollWaitKeeps, HandleEventKeeps, SectionStepKeeps DEF IOStep
<1> QED  BY <1>1, <1>2, <1>3, <1>4 DEF Next

(* The invariant holds.                                                    *)
LEMMA Invariant == Spec => []IInv
BY InitIInv, NextIInv, PTL DEF Spec

(* m_pendingEventCount is the number of events that are registered, or are *)
(* between their context and the queue, at every moment at which           *)
(* IOManager::stopping() may read it, whichever threads add, delete,       *)
(* cancel and handle events at the same time.                              *)
THEOREM PendingIsCount == Spec => []PendingCounts
<1>1. IInv => PendingCounts  BY DEF IInv, CountsOK
<1> QED  BY <1>1, Invariant, PTL

(* No handler that addEvent() accepted is lost or scheduled twice.         *)
THEOREM NoHandlerLost == Spec => []HandlersConserved
<1>1. IInv => HandlersConserved  BY DEF IInv, CountsOK
<1> QED  BY <1>1, Invariant, PTL

(* epoll watches exactly the events of a context that no thread is         *)
(* changing.                                                               *)
THEOREM EpollAgrees == Spec => []KernelAgrees
<1>1. IInv => KernelAgrees  BY DEF IInv
<1> QED  BY <1>1, Invariant, PTL
=============================================================================
