-------------------------- MODULE IOManagerProofs --------------------------
(***************************************************************************)
(* IOManager implements TaskPool, for any workers, work, pins, delays and  *)
(* sizes, when the constructing thread takes part (use_caller) and work    *)
(* calls nothing but scheduler() while it executes.                        *)
(***************************************************************************)
EXTENDS IOManager, FiniteSetTheorems, SequenceTheorems, TLAPS

-----------------------------------------------------------------------------
(* The queue as a set of work                                              *)

Items == [work: Work, thread: Pins \cup {AnyThread}]
Works(s) == {s[i].work : i \in DOMAIN s}
Once(s) == \A i, j \in DOMAIN s : s[i].work = s[j].work => i = j

(* A queue of one entry.                                                   *)
LEMMA SingleItem ==
    ASSUME NEW x \in Work, NEW thread \in Pins \cup {AnyThread}
    PROVE  /\ <<Item(x, thread)>> \in Seq(Items)
           /\ Works(<<Item(x, thread)>>) = {x} /\ Once(<<Item(x, thread)>>)
BY DEF Items, Item, Works, Once

(* Entries are appended whose work is not in the queue.                    *)
LEMMA AppendedItems ==
    ASSUME NEW s \in Seq(Items), NEW r \in Seq(Items), Once(s), Once(r), Works(s) \cap Works(r) = {}
    PROVE  s \o r \in Seq(Items) /\ Once(s \o r) /\ Works(s \o r) = Works(s) \cup Works(r)
<1>1. PICK q : q = s \o r  OBVIOUS
<1>2. /\ q \in Seq(Items) /\ Len(s) \in Nat /\ Len(r) \in Nat /\ Len(q) = Len(s) + Len(r)
      /\ DOMAIN s = 1..Len(s) /\ DOMAIN r = 1..Len(r) /\ DOMAIN q = 1..(Len(s) + Len(r))
      /\ \A i \in 1..(Len(s) + Len(r)) : q[i] = IF i <= Len(s) THEN s[i] ELSE r[i - Len(s)]
  BY <1>1
<1>3. /\ \A i \in DOMAIN q : \/ i \in DOMAIN s /\ q[i] = s[i]
                             \/ i - Len(s) \in DOMAIN r /\ q[i] = r[i - Len(s)]
      /\ \A i \in DOMAIN s : i \in DOMAIN q /\ q[i] = s[i]
  BY <1>2
<1>4. ASSUME NEW i \in DOMAIN r PROVE i + Len(s) \in DOMAIN q /\ q[i + Len(s)] = r[i]
  <2>1. i + Len(s) \in DOMAIN q /\ ~(i + Len(s) <= Len(s)) /\ (i + Len(s)) - Len(s) = i  BY <1>2
  <2> QED  BY <1>2, <2>1
<1>5. Works(q) = Works(s) \cup Works(r)
  <2>1. \A i \in DOMAIN q : q[i].work \in Works(s) \cup Works(r)  BY <1>3 DEF Works
  <2>2. \A i \in DOMAIN s : s[i].work \in Works(q)  BY <1>3 DEF Works
  <2>3. \A i \in DOMAIN r : r[i].work \in Works(q)  BY <1>4 DEF Works
  <2> QED  BY <2>1, <2>2, <2>3 DEF Works
<1>6. ASSUME NEW i \in DOMAIN q, NEW j \in DOMAIN q, q[i].work = q[j].work PROVE i = j
  <2>1. CASE i \in DOMAIN s /\ q[i] = s[i] /\ j \in DOMAIN s /\ q[j] = s[j]
    BY <1>6, <2>1 DEF Once
  <2>2. CASE i - Len(s) \in DOMAIN r /\ q[i] = r[i - Len(s)] /\ j - Len(s) \in DOMAIN r /\ q[j] = r[j - Len(s)]
    <3>1. i - Len(s) = j - Len(s)  BY <1>6, <2>2 DEF Once
    <3> QED  BY <1>2, <3>1
  <2>3. CASE i \in DOMAIN s /\ q[i] = s[i] /\ j - Len(s) \in DOMAIN r /\ q[j] = r[j - Len(s)]
    <3>1. q[i].work \in Works(s) /\ q[j].work \in Works(r)  BY <2>3 DEF Works
    <3> QED  BY <1>6, <3>1
  <2>4. CASE i - Len(s) \in DOMAIN r /\ q[i] = r[i - Len(s)] /\ j \in DOMAIN s /\ q[j] = s[j]
    <3>1. q[i].work \in Works(r) /\ q[j].work \in Works(s)  BY <2>4 DEF Works
    <3> QED  BY <1>6, <3>1
  <2> QED  BY <1>3, <2>1, <2>2, <2>3, <2>4
<1> QED  BY <1>1, <1>2, <1>5, <1>6 DEF Once

(* One entry is taken out.                                                 *)
LEMMA RemovedItem ==
    ASSUME NEW s \in Seq(Items), Once(s), NEW m \in DOMAIN s
    PROVE  /\ RemoveAt(s, m) \in Seq(Items) /\ Once(RemoveAt(s, m))
           /\ Works(RemoveAt(s, m)) = Works(s) \ {s[m].work}
<1>0. m \in 1..Len(s) /\ DOMAIN s = 1..Len(s) /\ Len(s) \in Nat  OBVIOUS
<1>1. PICK p, q : p = SubSeq(s, 1, m - 1) /\ q = SubSeq(s, m + 1, Len(s))  OBVIOUS
<1>2. p \in Seq(Items) /\ DOMAIN p = 1..(m - 1) /\ \A i \in 1..(m - 1) : p[i] = s[i]
  BY <1>0, <1>1
<1>3. q \in Seq(Items) /\ DOMAIN q = 1..(Len(s) - m) /\ \A i \in 1..(Len(s) - m) : q[i] = s[m + i]
  BY <1>0, <1>1
<1>4. RemoveAt(s, m) = p \o q  BY <1>1 DEF RemoveAt
<1>5. Once(p)
  <2>1. \A i \in DOMAIN p : i \in DOMAIN s /\ p[i] = s[i]  BY <1>0, <1>2
  <2> QED  BY <2>1 DEF Once
<1>6. Once(q)
  <2>1. \A i \in DOMAIN q : m + i \in DOMAIN s /\ q[i] = s[m + i]  BY <1>0, <1>3
  <2>2. ASSUME NEW i \in DOMAIN q, NEW j \in DOMAIN q, q[i].work = q[j].work PROVE i = j
    <3>1. m + i = m + j  BY <2>1, <2>2 DEF Once
    <3> QED  BY <1>0, <1>3, <3>1
  <2> QED  BY <2>2 DEF Once
<1>7. \A k \in DOMAIN s : k = m \/ (k \in DOMAIN p /\ p[k] = s[k]) \/ (k - m \in DOMAIN q /\ q[k - m] = s[k])
  <2> TAKE k \in DOMAIN s
  <2>1. CASE k < m  BY <1>0, <1>2, <2>1
  <2>2. CASE k > m
    <3>1. k - m \in 1..(Len(s) - m) /\ m + (k - m) = k  BY <1>0, <2>2
    <3> QED  BY <1>3, <3>1
  <2> QED  BY <1>0, <2>1, <2>2
<1>8. Works(p) \cup Works(q) = Works(s) \ {s[m].work}
  <2>1. ASSUME NEW i \in DOMAIN p PROVE p[i].work \in Works(s) \ {s[m].work}
    <3>1. i \in DOMAIN s /\ i # m /\ p[i] = s[i]  BY <1>0, <1>2
    <3> QED  BY <3>1 DEF Works, Once
  <2>2. ASSUME NEW i \in DOMAIN q PROVE q[i].work \in Works(s) \ {s[m].work}
    <3>1. m + i \in DOMAIN s /\ m + i # m /\ q[i] = s[m + i]  BY <1>0, <1>3
    <3> QED  BY <3>1 DEF Works, Once
  <2>3. \A k \in DOMAIN s : s[k].work # s[m].work => s[k].work \in Works(p) \cup Works(q)
    BY <1>7 DEF Works
  <2> QED  BY <2>1, <2>2, <2>3 DEF Works
<1>9. Works(p) \cap Works(q) = {}
  <2>1. ASSUME NEW i \in DOMAIN p, NEW j \in DOMAIN q PROVE p[i].work # q[j].work
    <3>1. i \in DOMAIN s /\ m + j \in DOMAIN s /\ i # m + j /\ p[i] = s[i] /\ q[j] = s[m + j]
      BY <1>0, <1>2, <1>3
    <3> QED  BY <3>1 DEF Once
  <2> QED  BY <2>1 DEF Works
<1> QED  BY <1>2, <1>3, <1>4, <1>5, <1>6, <1>8, <1>9, AppendedItems

(* Expired callbacks in some order: each of them, once.                    *)
LEMMA OrderedItems ==
    ASSUME NEW S \in SUBSET Timers, NEW order \in SetToSeqs(S), NEW r,
           r = [i \in DOMAIN order |-> Item(order[i], AnyThread)]
    PROVE  r \in Seq(Items) /\ Once(r) /\ Works(r) = S
<1>1. PICK n : n = Cardinality(S)  OBVIOUS
<1>2. IsFiniteSet(S) /\ n \in Nat
  BY <1>1, WorkAssumption, FS_Subset, FS_CardinalityType
<1>3. order \in [1..n -> S] /\ \A i, j \in 1..n : i # j => order[i] # order[j]
  BY <1>1 DEF SetToSeqs
<1>4. order \in Surjection(1..n, S)
  <2>1. order \in Injection(1..n, S)  BY <1>3 DEF Injection, IsInjective
  <2>2. Cardinality(1..n) = n  BY <1>2, FS_Interval
  <2> QED  BY <1>1, <1>2, <2>1, <2>2, FS_Injection
<1>5. DOMAIN r = 1..n /\ \A i \in 1..n : r[i] = [work |-> order[i], thread |-> AnyThread]
  BY <1>3 DEF Item
<1>6. \A i \in 1..n : order[i] \in Work /\ r[i].work = order[i]
  BY <1>3, <1>5 DEF Work
<1>7. r \in Seq(Items)
  <2>1. r \in [1..n -> Items]  BY <1>5, <1>6 DEF Items
  <2> QED  BY <1>2, <2>1
<1>8. Once(r)
  BY <1>3, <1>5, <1>6 DEF Once
<1>9. Works(r) = S
  <2>1. \A x \in S : \E i \in 1..n : order[i] = x  BY <1>4 DEF Surjection
  <2> QED  BY <1>3, <1>5, <1>6, <2>1 DEF Works
<1> QED  BY <1>7, <1>8, <1>9

-----------------------------------------------------------------------------
(* The inductive invariant                                                 *)

(* How the library is used: the constructing thread takes part, and        *)
(* executing work adds no timer and no event.                              *)
Simple == UseCaller /\ InTasks \subseteq {"schedule"}

CallerPlaces == {"main", "stop timers", "stop events", "stop queue", "join", "done"}
Places == CallerPlaces \cup Idling \cup {"fetch", "run", "nap", "exit"}

TypeOK ==
    /\ m_fibers \in Seq(Items)
    /\ left \in [Timers -> Nat \cup {Unset}]
    /\ registered \in SUBSET Handlers /\ IsFiniteSet(registered) /\ pending \in Int
    /\ pc \in [Threads -> Places] /\ DOMAIN task = Threads
    /\ idleDone \in [Threads -> BOOLEAN]
    /\ cbs \in [Threads -> SUBSET Timers]
    /\ begun \in [Work -> Nat]

(* Work that is accepted is in one place only, and was not executed.       *)
OnePlace ==
    /\ Once(m_fibers)
    /\ \A x \in Works(m_fibers) :
        begun[x] = 0 /\ x \notin registered \cup Armed /\ \A t \in Threads : x \notin cbs[t]
    /\ \A x \in registered \cup Armed : begun[x] = 0
    /\ \A t \in Threads : \A x \in cbs[t] :
        begun[x] = 0 /\ x \notin Armed /\ \A u \in Threads \ {t} : x \notin cbs[u]
    /\ \A t \in Threads : cbs[t] # {} => pc[t] = "post"

(* Threads execute different work.                                         *)
RunOK ==
    \A t \in Threads : pc[t] = "run" =>
        /\ task[t] \in Work /\ begun[task[t]] > 0
        /\ \A u \in Threads \ {t} : pc[u] = "run" => task[u] # task[t]

(* The counter counts the events and those who have still to count one off.*)
Counting == {t \in Threads : pc[t] = "count"}
CountOK == pending = Cardinality(registered) + Cardinality(Counting)

(* Where the caller is, and what it has seen by then.                      *)
TimersSeen ==
    \/ pc[Caller] \in {"stop events", "stop queue", "join", "done", "events", "stopping"}
    \/ idleDone[Caller]
EventsSeen == pc[Caller] \in {"stop queue", "join", "done", "stopping"} \/ idleDone[Caller]
StageOK ==
    /\ \A w \in Workers : pc[w] \notin CallerPlaces
    /\ pc[Caller] # "exit"
    /\ pc[Caller] = "main" => ~idleDone[Caller]
    /\ pc[Caller] = "done" => \A w \in Workers : pc[w] = "exit"
    /\ TimersSeen => Armed = {}
    /\ EventsSeen => registered = {}

(* The counter of active threads counts those that execute.                *)
Running == {t \in Threads : pc[t] = "run"}
ActiveOK == active = Cardinality(Running)

(* A thread is through when it has seen stopping(), although it may still  *)
(* execute what others post.  Once all are, nothing is posted any more.    *)
Through(t) == idleDone[t] \/ pc[t] \in {"join", "done"}
LeaveOK ==
    /\ \A t \in Threads : idleDone[t] => pc[t] \in {"fetch", "run", "exit", "join", "done"}
    /\ \A t \in Threads : pc[t] = "exit" => idleDone[t]
    /\ (\A t \in Threads : Through(t)) => m_fibers = << >> /\ Running = {}

IInv == TypeOK /\ OnePlace /\ RunOK /\ CountOK /\ StageOK
LInv == ActiveOK /\ LeaveOK

(* Constants and threads.                                                  *)
LEMMA ThreadFacts ==
    /\ Caller \in Threads /\ Caller \notin Workers /\ Workers \subseteq Threads
    /\ \A t \in Threads : t \in Workers \/ t = Caller
    /\ IsFiniteSet(Threads)
    /\ Timers \subseteq Work /\ Handlers \subseteq Work /\ Callbacks \subseteq Work
    /\ Timers \cap Handlers = {}
<1>1. IsFiniteSet(Threads)
  BY ThreadsAssumption, FS_AddElement DEF Threads
<1> QED  BY <1>1, ThreadsAssumption, WorkAssumption DEF Threads, Work

(* With the counter at zero nothing is registered and nobody has an event  *)
(* to count off.                                                           *)
LEMMA NoEventMeans ==
    ASSUME IInv, NoEvent PROVE registered = {}
<1>1. IsFiniteSet(registered) /\ IsFiniteSet(Counting)
  BY ThreadFacts, FS_Subset DEF IInv, TypeOK, Counting
<1>2. Cardinality(registered) \in Nat /\ Cardinality(Counting) \in Nat
  BY <1>1, FS_CardinalityType
<1>3. Cardinality(registered) = 0
  BY <1>2 DEF IInv, CountOK, NoEvent
<1> QED  BY <1>1, <1>3, FS_EmptySet

(* What a thread has to execute is known from work, queue and counts.      *)
LEMMA OutstandingIs ==
    /\ \A x : x \in Outstanding <=>
        x \in Work /\ (x \in Armed \cup registered \cup Works(m_fibers) \/ \E t \in Threads : x \in cbs[t])
    /\ \A x : x \in Executing <=> \E t \in Threads : pc[t] = "run" /\ task[t] = x
BY DEF Outstanding, Executing, Works

(* A thread goes from one place to another, and no work is moved.          *)
LEMMA QuietStep ==
    ASSUME IInv, NEW t \in Threads, NEW p \in Places \ {"run", "count"},
           pc' = pc \/ (Go(t, p) /\ pc[t] \notin {"run", "post", "count"}),
           UNCHANGED <<m_fibers, left, registered, pending, cbs, begun, task>>,
           idleDone' \in [Threads -> BOOLEAN]
    PROVE  /\ TypeOK' /\ OnePlace' /\ RunOK' /\ CountOK'
           /\ Outstanding' = Outstanding /\ Executing' = Executing
<1>1. TypeOK /\ OnePlace /\ RunOK /\ CountOK  BY DEF IInv
<1>2. /\ pc' \in [Threads -> Places]
      /\ \A u \in Threads : pc'[u] = pc[u] \/ (pc[u] \notin {"run", "post", "count"} /\ pc'[u] \notin {"run", "count"})
  BY <1>1 DEF TypeOK, Go
<1>3. TypeOK'  BY <1>1, <1>2 DEF TypeOK
<1>4. Armed' = Armed  BY DEF Armed
<1>5. OnePlace'  BY <1>1, <1>2, <1>4 DEF OnePlace, Works, Once
<1>6. RunOK'
  <2> SUFFICES ASSUME NEW u \in Threads, pc'[u] = "run"
               PROVE  /\ task'[u] \in Work /\ begun'[task'[u]] > 0
                      /\ \A v \in Threads \ {u} : pc'[v] = "run" => task'[v] # task'[u]
    BY DEF RunOK
  <2>1. \A v \in Threads : pc'[v] = "run" => pc[v] = "run"  BY <1>2
  <2> QED  BY <1>1, <2>1 DEF RunOK
<1>7. CountOK'
  <2>1. Counting' = Counting  BY <1>2 DEF Counting
  <2> QED  BY <1>1, <2>1 DEF CountOK
<1>8. Outstanding' = Outstanding  BY <1>4 DEF Outstanding
<1>9. Executing' = Executing
  <2>1. \A u \in Threads : pc'[u] = "run" <=> pc[u] = "run"  BY <1>2
  <2> QED  BY <2>1 DEF Executing
<1> QED  BY <1>3, <1>5, <1>6, <1>7, <1>8, <1>9

(* What a move may do to the stages.                                       *)
LEMMA StageStep ==
    ASSUME IInv, NEW t \in Threads, NEW p \in Places, Go(t, p), pc[t] \notin {"exit", "done"},
           t \in Workers => p \notin CallerPlaces /\ idleDone'[Caller] = idleDone[Caller],
           t = Caller => p \notin {"exit", "main"},
           p = "done" => \A w \in Workers : pc[w] = "exit",
           (TimersSeen => Armed = {})', (EventsSeen => registered = {})'
    PROVE  StageOK'
<1>1. /\ pc \in [Threads -> Places] /\ StageOK  BY DEF IInv, TypeOK
<1>2. pc'[t] = p /\ \A u \in Threads \ {t} : pc'[u] = pc[u]  BY <1>1 DEF Go
<1>3. \A w \in Workers : pc'[w] \notin CallerPlaces
  BY <1>1, <1>2, ThreadFacts DEF StageOK
<1>4. /\ pc'[Caller] # "exit" /\ (pc'[Caller] = "main" => ~idleDone'[Caller])
      /\ pc'[Caller] = "done" => \A w \in Workers : pc'[w] = "exit"
  <2>1. CASE t = Caller  BY <1>2, <2>1, ThreadFacts
  <2>2. CASE t # Caller
    <3>1. t \in Workers /\ pc'[Caller] = pc[Caller] /\ idleDone'[Caller] = idleDone[Caller]
      BY <1>2, <2>2, ThreadFacts
    <3>2. pc[Caller] # "done"  BY <1>1, <3>1 DEF StageOK
    <3> QED  BY <1>1, <3>1, <3>2 DEF StageOK
  <2> QED  BY <2>1, <2>2
<1> QED  BY <1>3, <1>4 DEF StageOK

(* A worker's move changes nothing of what the caller has seen.            *)
LEMMA WorkerSees ==
    ASSUME IInv, NEW t \in Workers, NEW p, pc' = pc \/ Go(t, p), idleDone'[Caller] = idleDone[Caller]
    PROVE  TimersSeen' = TimersSeen /\ EventsSeen' = EventsSeen
<1>1. pc'[Caller] = pc[Caller]  BY ThreadFacts DEF IInv, TypeOK, Go
<1> QED  BY <1>1 DEF TimersSeen, EventsSeen

(* What is left alone by moves.                                            *)
Quiet == UNCHANGED <<m_fibers, left, registered, pending, cbs, begun, task>>

(* A step that moves no work.  The pool sees nothing of it, unless it is   *)
(* the one with which stop() returns.                                      *)
Stutters == Outstanding' = Outstanding /\ Executing' = Executing /\ begun' = begun
Unclosed == (pc'[Caller] = "done") = (pc[Caller] = "done")

(* tickle(), and others who stay where they are.                           *)
LEMMA StaysKeeps ==
    ASSUME IInv, Quiet, pc' = pc, idleDone' = idleDone
    PROVE  IInv' /\ Stutters /\ Unclosed
<1>1. Caller \in Threads /\ "fetch" \in Places \ {"run", "count"}
  BY ThreadFacts DEF Places
<1>2. idleDone' \in [Threads -> BOOLEAN]  BY DEF IInv, TypeOK
<1>3. /\ TypeOK' /\ OnePlace' /\ RunOK' /\ CountOK'
      /\ Outstanding' = Outstanding /\ Executing' = Executing
  BY <1>1, <1>2, QuietStep DEF Quiet
<1>4. StageOK'
  BY DEF IInv, StageOK, Quiet, TimersSeen, EventsSeen, Armed
<1> QED  BY <1>3, <1>4 DEF IInv, Stutters, Unclosed, Quiet

(* A thread goes on to the next place.                                     *)
LEMMA MovesKeep ==
    ASSUME IInv, Quiet, NEW t \in Threads, NEW p \in Places \ {"run", "count"}, Go(t, p),
           pc[t] \notin {"run", "post", "count", "exit", "done"},
           t \in Workers => p \notin CallerPlaces /\ idleDone'[Caller] = idleDone[Caller],
           t = Caller => p \notin {"exit", "main"},
           p = "done" => \A w \in Workers : pc[w] = "exit",
           t = Caller /\ TimersSeen' => Armed = {},
           t = Caller /\ EventsSeen' => registered = {},
           idleDone' \in [Threads -> BOOLEAN]
    PROVE  IInv' /\ Stutters
<1>1. /\ TypeOK' /\ OnePlace' /\ RunOK' /\ CountOK'
      /\ Outstanding' = Outstanding /\ Executing' = Executing
  BY QuietStep DEF Quiet
<1>2. Armed' = Armed /\ registered' = registered /\ m_fibers' = m_fibers
  BY DEF Armed, Quiet
<1>3. (TimersSeen => Armed = {})' /\ (EventsSeen => registered = {})'
  <2>1. CASE t = Caller  BY <1>2, <2>1
  <2>2. CASE t # Caller
    <3>1. t \in Workers  BY <2>2, ThreadFacts
    <3>2. TimersSeen' = TimersSeen /\ EventsSeen' = EventsSeen  BY <3>1, WorkerSees
    <3> QED  BY <1>2, <3>2 DEF IInv, StageOK
  <2> QED  BY <2>1, <2>2
<1>4. StageOK'
  <2>1. p \in Places /\ pc[t] \notin {"exit", "done"}  OBVIOUS
  <2> QED  BY <1>2, <1>3, <2>1, StageStep
<1> QED  BY <1>1, <1>4 DEF IInv, Stutters, Quiet

(* A move to another place than the end of stop() closes nothing.          *)
LEMMA MoveUnclosed ==
    ASSUME IInv, NEW t \in Threads, NEW p, Go(t, p), p # "done", pc[t] # "done"
    PROVE  Unclosed
BY ThreadFacts DEF IInv, TypeOK, Go, Unclosed

-----------------------------------------------------------------------------
(* Steps that move no work                                                 *)

(* The caller's way through stop().                                        *)
LEMMA StopsKeep ==
    ASSUME Simple, IInv, StopTimers \/ StopEvents \/ StopQueue
    PROVE  IInv' /\ Stutters /\ Unclosed
<1>1. Quiet /\ idleDone' = idleDone /\ idleDone \in [Threads -> BOOLEAN] /\ Caller \in Threads
  BY ThreadFacts DEF StopTimers, StopEvents, StopQueue, StopCheck, Quiet, queueVars, eventVars, idleVars,
    IInv, TypeOK
<1>2. PICK p \in {"fetch", "stop events", "stop queue", "join"} :
        /\ Go(Caller, p) /\ pc[Caller] \in {"stop timers", "stop events", "stop queue"}
        /\ p = "stop events" => pc[Caller] = "stop timers" /\ Armed = {}
        /\ p = "stop queue" => pc[Caller] = "stop events" /\ NoEvent
        /\ p = "join" => pc[Caller] = "stop queue"
  BY DEF StopTimers, StopEvents, StopQueue, StopCheck, At, NoTimer, SchedulerStopping
<1>3. p \in Places \ {"run", "count"} /\ p \notin {"exit", "main", "done"}
  BY <1>2 DEF Places, CallerPlaces
<1>4. pc'[Caller] = p  BY <1>1, <1>2 DEF IInv, TypeOK, Go
<1>5. TimersSeen' => Armed = {}
  <2>1. CASE p = "stop events"  BY <1>2, <2>1
  <2>2. CASE p \in {"stop queue", "join"} \/ idleDone[Caller]
    <3>1. TimersSeen  BY <1>2, <2>2 DEF TimersSeen
    <3> QED  BY <3>1 DEF IInv, StageOK
  <2>3. TimersSeen' => p \in {"stop events", "stop queue", "join"} \/ idleDone[Caller]
    BY <1>1, <1>2, <1>4 DEF TimersSeen
  <2> QED  BY <2>1, <2>2, <2>3
<1>6. EventsSeen' => registered = {}
  <2>1. CASE p = "stop queue"  BY <1>2, <2>1, NoEventMeans
  <2>2. CASE p = "join" \/ idleDone[Caller]
    <3>1. EventsSeen  BY <1>2, <2>2 DEF EventsSeen
    <3> QED  BY <3>1 DEF IInv, StageOK
  <2>3. EventsSeen' => p \in {"stop queue", "join"} \/ idleDone[Caller]
    BY <1>1, <1>2, <1>4 DEF EventsSeen
  <2> QED  BY <2>1, <2>2, <2>3
<1>7. IInv' /\ Stutters
  BY <1>1, <1>2, <1>3, <1>5, <1>6, MovesKeep, ThreadFacts
<1> QED  BY <1>1, <1>2, <1>3, <1>7, MoveUnclosed

(* Everybody has left: no work is left either.                             *)
LEMMA NothingLeft ==
    ASSUME IInv, LInv, pc[Caller] \in {"join", "done"}, \A w \in Workers : pc[w] = "exit"
    PROVE  m_fibers = << >> /\ Outstanding = {} /\ Executing = {}
<1>1. \A t \in Threads : pc[t] \in {"join", "done", "exit"}  BY ThreadFacts
<1>2. m_fibers = << >>
  <2>1. \A t \in Threads : Through(t)  BY <1>1 DEF LInv, LeaveOK, Through
  <2> QED  BY <2>1 DEF LInv, LeaveOK
<1>3. Armed = {} /\ registered = {}
  BY DEF IInv, StageOK, TimersSeen, EventsSeen
<1>4. \A t \in Threads : cbs[t] = {}
  BY <1>1 DEF IInv, OnePlace
<1>5. DOMAIN m_fibers = {}  BY <1>2
<1> QED  BY <1>1, <1>2, <1>3, <1>4, <1>5 DEF Outstanding, Executing

(* stop() returns after the workers have.                                  *)
LEMMA JoinKeeps ==
    ASSUME IInv, LInv, Join
    PROVE  /\ IInv' /\ Stutters /\ Outstanding = {} /\ Executing = {}
           /\ pc'[Caller] = "done" /\ pc[Caller] # "done"
<1>1. /\ Quiet /\ idleDone' = idleDone /\ idleDone \in [Threads -> BOOLEAN] /\ Caller \in Threads
      /\ pc[Caller] = "join" /\ Go(Caller, "done") /\ \A w \in Workers : pc[w] = "exit"
  BY ThreadFacts DEF Join, At, Quiet, queueVars, timerVars, eventVars, idleVars, IInv, TypeOK
<1>2. "done" \in Places \ {"run", "count"}  BY DEF Places, CallerPlaces
<1>3. m_fibers = << >> /\ Outstanding = {} /\ Executing = {}  BY <1>1, NothingLeft
<1>4. Armed = {} /\ registered = {}
  BY <1>1 DEF IInv, StageOK, TimersSeen, EventsSeen
<1>5. IInv' /\ Stutters
  BY <1>1, <1>2, <1>3, <1>4, MovesKeep, ThreadFacts
<1>6. pc'[Caller] = "done"  BY <1>1 DEF IInv, TypeOK, Go
<1> QED  BY <1>1, <1>3, <1>5, <1>6

(* stop() is called; without workers and work it returns at once.          *)
LEMMA StopKeeps ==
    ASSUME Simple, IInv, Stop
    PROVE  /\ IInv' /\ Stutters
           /\ Unclosed \/ (pc'[Caller] = "done" /\ Outstanding = {} /\ Executing = {})
<1>1. /\ Quiet /\ idleDone' = idleDone /\ idleDone \in [Threads -> BOOLEAN] /\ Caller \in Threads
      /\ pc[Caller] = "main" /\ ~idleDone[Caller]
  BY ThreadFacts DEF Stop, At, Quiet, queueVars, timerVars, eventVars, idleVars, IInv, TypeOK, StageOK
<1>2. CASE Workers = {} /\ NoTimer /\ NoEvent /\ m_fibers = << >> /\ active = 0
  <2>1. Go(Caller, "done")  BY <1>2 DEF Stop
  <2>2. "done" \in Places \ {"run", "count"}  BY DEF Places, CallerPlaces
  <2>3. Armed = {} /\ registered = {}  BY <1>2, NoEventMeans DEF NoTimer
  <2>4. IInv' /\ Stutters
    BY <1>1, <1>2, <2>1, <2>2, <2>3, MovesKeep, ThreadFacts
  <2>5. \A t \in Threads : pc[t] = "main" /\ cbs[t] = {}
    <3>1. \A t \in Threads : pc[t] = "main"  BY <1>1, <1>2, ThreadFacts
    <3> QED  BY <3>1 DEF IInv, OnePlace
  <2>6. DOMAIN m_fibers = {}  BY <1>2
  <2>7. Outstanding = {} /\ Executing = {}
    BY <2>3, <2>5, <2>6 DEF Outstanding, Executing
  <2>8. pc'[Caller] = "done"  BY <1>1, <2>1 DEF IInv, TypeOK, Go
  <2> QED  BY <2>4, <2>7, <2>8
<1>3. CASE ~(Workers = {} /\ NoTimer /\ NoEvent /\ m_fibers = << >> /\ active = 0)
  <2>1. Go(Caller, "stop timers")  BY <1>3 DEF Stop, Simple
  <2>2. "stop timers" \in Places \ {"run", "count"}
    BY DEF Places, CallerPlaces
  <2>3. ~TimersSeen' /\ ~EventsSeen'
    <3>1. pc'[Caller] = "stop timers"  BY <1>1, <2>1 DEF IInv, TypeOK, Go
    <3> QED  BY <1>1, <3>1 DEF TimersSeen, EventsSeen
  <2>4. IInv' /\ Stutters
    BY <1>1, <2>1, <2>2, <2>3, MovesKeep, ThreadFacts
  <2> QED  BY <1>1, <2>1, <2>4, MoveUnclosed
<1> QED  BY <1>2, <1>3

(* run() finds nothing that this thread may take.                          *)
LEMMA NoTaskKeeps ==
    ASSUME IInv, NEW t \in Threads, NoTask(t)
    PROVE  IInv' /\ Stutters /\ Unclosed
<1>1. /\ Quiet /\ idleDone' = idleDone /\ idleDone \in [Threads -> BOOLEAN] /\ pc[t] = "fetch"
  BY DEF NoTask, At, Quiet, queueVars, timerVars, eventVars, idleVars, IInv, TypeOK
<1>2. PICK p \in {"nap", "join", "exit"} :
        Go(t, p) /\ (p # "nap" => idleDone[t]) /\ (p = "join" => t = Caller) /\ (p = "exit" => t # Caller)
  BY DEF NoTask
<1>3. /\ p \in Places \ {"run", "count"} /\ p \notin {"done", "main"}
      /\ t \in Workers => p \notin CallerPlaces
  BY <1>2, ThreadFacts DEF Places, CallerPlaces
<1>4. t = Caller => (TimersSeen' => Armed = {}) /\ (EventsSeen' => registered = {})
  <2> SUFFICES ASSUME t = Caller PROVE (TimersSeen' => Armed = {}) /\ (EventsSeen' => registered = {})
    OBVIOUS
  <2>1. pc'[Caller] = p  BY <1>2, ThreadFacts DEF IInv, TypeOK, Go
  <2>2. (TimersSeen' => TimersSeen) /\ (EventsSeen' => EventsSeen)
    BY <1>1, <1>2, <2>1 DEF TimersSeen, EventsSeen
  <2> QED  BY <2>2 DEF IInv, StageOK
<1>5. IInv' /\ Stutters
  BY <1>1, <1>2, <1>3, <1>4, MovesKeep
<1> QED  BY <1>1, <1>2, <1>3, <1>5, MoveUnclosed

(* The idle fiber: the caller that goes on to the events has seen that     *)
(* there is no timer, and the one that goes on to the queue that there is  *)
(* no event.                                                               *)
LEMMA IdleKeeps ==
    ASSUME IInv, NEW t \in Threads,
           \/ EnterIdle(t) \/ IdleTimers(t) \/ IdleEvents(t) \/ IdleStopping(t) \/ EpollWait(t) \/ LeaveIdle(t)
    PROVE  IInv' /\ Stutters /\ Unclosed
<1>1. Quiet
  BY DEF EnterIdle, IdleTimers, IdleEvents, IdleStopping, EpollWait, LeaveIdle, Quiet, queueVars,
    timerVars, eventVars, idleVars
<1>2. /\ idleDone \in [Threads -> BOOLEAN] /\ idleDone' \in [Threads -> BOOLEAN]
      /\ \A u \in Threads \ {t} : idleDone'[u] = idleDone[u]
      /\ idleDone'[t] => idleDone[t] \/ pc[t] = "stopping"
  <2>1. idleDone \in [Threads -> BOOLEAN]  BY DEF IInv, TypeOK
  <2>2. CASE idleDone' = idleDone  BY <2>1, <2>2
  <2>3. CASE IdleStopping(t)
    <3>1. idleDone' = [idleDone EXCEPT ![t] = SchedulerStopping] /\ SchedulerStopping \in BOOLEAN
          /\ pc[t] = "stopping"
      BY <2>3 DEF IdleStopping, At, SchedulerStopping, IInv
    <3> QED  BY <2>1, <3>1
  <2> QED  BY <2>1, <2>2, <2>3 DEF EnterIdle, IdleTimers, IdleEvents, EpollWait, LeaveIdle, idleVars
<1>3. PICK p \in {"timers", "events", "stopping", "wait", "list", "fetch"} :
        /\ Go(t, p) /\ pc[t] \in {"nap", "timers", "events", "stopping", "wait", "handle"}
        /\ p = "events" => Armed = {}
        /\ p = "stopping" => pc[t] = "events" /\ NoEvent
  BY DEF EnterIdle, IdleTimers, IdleEvents, IdleStopping, EpollWait, LeaveIdle, At, NoTimer
<1>4. p \in Places \ {"run", "count"} /\ p \notin CallerPlaces /\ p \notin {"done", "main", "exit"}
  BY <1>3 DEF Places, CallerPlaces, Idling
<1>5. ASSUME t = Caller PROVE (TimersSeen' => Armed = {}) /\ (EventsSeen' => registered = {})
  <2>1. pc'[Caller] = p  BY <1>3, <1>5, ThreadFacts DEF IInv, TypeOK, Go
  <2>2. TimersSeen' => p = "events" \/ TimersSeen
    BY <1>2, <1>3, <1>5, <2>1 DEF TimersSeen
  <2>3. EventsSeen' => p = "stopping" \/ EventsSeen
    BY <1>2, <1>3, <1>5, <2>1 DEF EventsSeen
  <2> QED  BY <1>3, <2>2, <2>3, NoEventMeans DEF IInv, StageOK
<1>6. t \in Workers => idleDone'[Caller] = idleDone[Caller]
  BY <1>2, ThreadFacts
<1>7. IInv' /\ Stutters
  BY <1>1, <1>2, <1>3, <1>4, <1>5, <1>6, MovesKeep
<1> QED  BY <1>3, <1>4, <1>7, MoveUnclosed

-----------------------------------------------------------------------------
(* Steps that move work                                                    *)

(* Where a thread goes that moves work, stop() does not look.              *)
LEMMA StageMove ==
    ASSUME IInv, NEW t \in Threads, NEW p \in {"run", "fetch", "post", "handle", "count"}, Go(t, p),
           pc[t] \notin {"exit", "done"}, idleDone' = idleDone,
           Armed' \subseteq Armed, registered' \subseteq registered
    PROVE  StageOK' /\ Unclosed /\ pc' \in [Threads -> Places]
<1>1. p \in Places /\ p \notin CallerPlaces /\ p \notin {"exit", "done", "main"}
  BY DEF Places, CallerPlaces, Idling
<1>2. pc' \in [Threads -> Places] /\ pc'[t] = p /\ \A u \in Threads \ {t} : pc'[u] = pc[u]
  BY <1>1 DEF IInv, TypeOK, Go
<1>3. (TimersSeen' => TimersSeen) /\ (EventsSeen' => EventsSeen)
  BY <1>2, ThreadFacts DEF TimersSeen, EventsSeen
<1>4. (TimersSeen => Armed = {})' /\ (EventsSeen => registered = {})'
  BY <1>3 DEF IInv, StageOK
<1>5. StageOK'  BY <1>1, <1>4, StageStep
<1> QED  BY <1>1, <1>2, <1>5, MoveUnclosed

(* The counter when neither events nor those who count change.             *)
LEMMA CountSame ==
    ASSUME IInv, registered' = registered, pending' = pending, Counting' = Counting
    PROVE  CountOK'
BY DEF IInv, CountOK

(* What changes for other threads when one of them moves.                  *)
LEMMA MovePlaces ==
    ASSUME IInv, NEW t \in Threads, NEW p, Go(t, p)
    PROVE  /\ pc'[t] = p /\ \A u \in Threads \ {t} : pc'[u] = pc[u]
           /\ pc[t] # "count" /\ p # "count" => Counting' = Counting
           /\ pc[t] # "count" /\ p = "count" => Counting' = Counting \cup {t} /\ t \notin Counting
           /\ pc[t] = "count" /\ p # "count" => Counting' = Counting \ {t} /\ t \in Counting
<1>1. pc'[t] = p /\ \A u \in Threads \ {t} : pc'[u] = pc[u]
  BY DEF IInv, TypeOK, Go
<1> QED  BY <1>1 DEF Counting

(* The user hands over work x; where it is put differs.                    *)
Accepted(x) ==
    /\ x \in Work /\ x \notin Outstanding /\ begun[x] = 0 /\ pc[Caller] # "done"
    /\ Outstanding' = Outstanding \cup {x} /\ Executing' = Executing /\ begun' = begun
    /\ pc' = pc

(* New work is in no place.                                                *)
LEMMA NewIsNowhere ==
    ASSUME IInv, NEW x \in Work, IsNew(x)
    PROVE  /\ x \notin Outstanding /\ begun[x] = 0 /\ x \notin Works(m_fibers)
           /\ x \notin registered \cup Armed /\ \A t \in Threads : x \notin cbs[t]
BY DEF IsNew, Outstanding, Works, Armed

(* Who may call: the caller before stop(), or a thread that executes work, *)
(* which calls nothing but scheduler().                                    *)
LEMMA WhoCalls ==
    ASSUME Simple, IInv, NEW t \in Threads, NEW op, MayCall(t, op)
    PROVE  /\ pc[t] \in {"main", "run"} /\ (pc[t] = "main" => t = Caller) /\ pc[Caller] # "done"
           /\ op # "schedule" => pc[Caller] = "main" /\ ~TimersSeen /\ ~EventsSeen
<1>1. pc[t] \in {"main", "run"} /\ (op # "schedule" => pc[t] = "main")
  BY DEF MayCall, At, Simple
<1>2. pc[Caller] # "done"
  BY <1>1, ThreadFacts DEF IInv, StageOK
<1>3. pc[t] = "main" => t = Caller
  BY ThreadFacts DEF IInv, StageOK, CallerPlaces
<1>4. pc[Caller] = "main" => ~TimersSeen /\ ~EventsSeen
  BY DEF IInv, StageOK, TimersSeen, EventsSeen
<1> QED  BY <1>1, <1>2, <1>3, <1>4

(* scheduler() by the user.                                                *)
LEMMA ScheduleKeeps ==
    ASSUME Simple, IInv, NEW t \in Threads, MayCall(t, "schedule"), NEW x \in Callbacks,
           NEW thread \in Pins \cup {AnyThread}, Schedule(t, x, thread)
    PROVE  IInv' /\ Accepted(x)
<1>1. x \in Work /\ IsNew(x)  BY ThreadFacts DEF Schedule
<1>2. /\ m_fibers' = m_fibers \o <<Item(x, thread)>>
      /\ UNCHANGED <<left, registered, pending, cbs, begun, task, pc, idleDone>>
  BY <1>1 DEF Schedule, Enqueue, timerVars, eventVars, idleVars
<1>3. /\ x \notin Outstanding /\ begun[x] = 0 /\ x \notin Works(m_fibers)
      /\ x \notin registered \cup Armed /\ \A u \in Threads : x \notin cbs[u]
  BY <1>1, NewIsNowhere
<1>4. /\ m_fibers' \in Seq(Items) /\ Once(m_fibers') /\ Works(m_fibers') = Works(m_fibers) \cup {x}
  <2>1. m_fibers \in Seq(Items) /\ Once(m_fibers)  BY DEF IInv, TypeOK, OnePlace
  <2>2. PICK r : r = <<Item(x, thread)>>  OBVIOUS
  <2>3. r \in Seq(Items) /\ Once(r) /\ Works(r) = {x}  BY <1>1, <2>2, SingleItem
  <2>4. Works(m_fibers) \cap Works(r) = {}  BY <1>3, <2>3
  <2>5. m_fibers' = m_fibers \o r  BY <1>2, <2>2
  <2> QED  BY <2>1, <2>3, <2>4, <2>5, AppendedItems
<1>5. Armed' = Armed  BY <1>2 DEF Armed
<1>6. TypeOK'  BY <1>2, <1>4 DEF IInv, TypeOK
<1>7. OnePlace'
  <2>1. \A y \in Works(m_fibers') : y = x \/ y \in Works(m_fibers)  BY <1>4
  <2> QED  BY <1>2, <1>3, <1>4, <1>5, <2>1 DEF IInv, OnePlace
<1>8. RunOK'  BY <1>2 DEF IInv, RunOK
<1>9. CountOK'  BY <1>2, CountSame DEF Counting
<1>10. pc[Caller] # "done"  BY WhoCalls
<1>11. StageOK'
  BY <1>2, <1>5, <1>10 DEF IInv, StageOK, TimersSeen, EventsSeen
<1>12. Outstanding' = Outstanding \cup {x}
  <2>1. \A y : y \in Outstanding' <=>
          y \in Work /\ (y \in Armed' \cup registered' \cup Works(m_fibers') \/ \E u \in Threads : y \in cbs'[u])
    BY DEF Outstanding, Works
  <2> QED  BY <1>1, <1>2, <1>4, <1>5, <2>1, OutstandingIs
<1>13. Executing' = Executing  BY <1>2 DEF Executing
<1> QED  BY <1>1, <1>2, <1>3, <1>6, <1>7, <1>8, <1>9, <1>10, <1>11, <1>12, <1>13 DEF IInv, Accepted

(* addTimer() by the caller before stop().                                 *)
LEMMA AddTimerKeeps ==
    ASSUME Simple, IInv, NEW t \in Threads, MayCall(t, "timer"), NEW x \in Timers,
           NEW d \in Delays, NEW front \in BOOLEAN, AddTimer(t, x, d, front)
    PROVE  IInv' /\ Accepted(x)
<1>1. x \in Work /\ IsNew(x)  BY ThreadFacts DEF AddTimer
<1>2. /\ left' = [left EXCEPT ![x] = d]
      /\ UNCHANGED <<m_fibers, registered, pending, cbs, begun, task, pc, idleDone>>
  BY DEF AddTimer, queueVars, eventVars, idleVars
<1>3. /\ x \notin Outstanding /\ begun[x] = 0 /\ x \notin Works(m_fibers)
      /\ x \notin registered \cup Armed /\ \A u \in Threads : x \notin cbs[u]
  BY <1>1, NewIsNowhere
<1>4. d \in Nat /\ d # Unset  BY NumbersAssumption DEF Unset
<1>5. left' \in [Timers -> Nat \cup {Unset}] /\ Armed' = Armed \cup {x}
  BY <1>2, <1>4 DEF IInv, TypeOK, Armed
<1>6. TypeOK'  BY <1>2, <1>5 DEF IInv, TypeOK
<1>7. OnePlace'
  BY <1>2, <1>3, <1>5 DEF IInv, OnePlace, Works, Once
<1>8. RunOK'  BY <1>2 DEF IInv, RunOK
<1>9. CountOK'  BY <1>2, CountSame DEF Counting
<1>10. pc[Caller] = "main" /\ pc[Caller] # "done" /\ ~TimersSeen /\ ~EventsSeen
  BY WhoCalls
<1>11. StageOK'
  BY <1>2, <1>10 DEF IInv, StageOK, TimersSeen, EventsSeen
<1>12. Outstanding' = Outstanding \cup {x}
  BY <1>1, <1>2, <1>5 DEF Outstanding
<1>13. Executing' = Executing  BY <1>2 DEF Executing
<1> QED  BY <1>1, <1>2, <1>3, <1>6, <1>7, <1>8, <1>9, <1>10, <1>11, <1>12, <1>13 DEF IInv, Accepted

(* addEvent() by the caller before stop().                                 *)
LEMMA AddEventKeeps ==
    ASSUME Simple, IInv, NEW t \in Threads, MayCall(t, "event"), NEW x \in Handlers, AddEvent(t, x)
    PROVE  IInv' /\ Accepted(x)
<1>1. x \in Work /\ IsNew(x)  BY ThreadFacts DEF AddEvent
<1>2. /\ registered' = registered \cup {x} /\ pending' = pending + 1
      /\ UNCHANGED <<m_fibers, left, cbs, begun, task, pc, idleDone>>
  BY DEF AddEvent, queueVars, timerVars, idleVars
<1>3. /\ x \notin Outstanding /\ begun[x] = 0 /\ x \notin Works(m_fibers)
      /\ x \notin registered \cup Armed /\ \A u \in Threads : x \notin cbs[u]
  BY <1>1, NewIsNowhere
<1>4. Armed' = Armed  BY <1>2 DEF Armed
<1>5. IsFiniteSet(registered') /\ Cardinality(registered') = Cardinality(registered) + 1
  BY <1>2, <1>3, FS_AddElement DEF IInv, TypeOK
<1>6. TypeOK'  BY <1>2, <1>5 DEF IInv, TypeOK
<1>7. OnePlace'
  BY <1>2, <1>3, <1>4 DEF IInv, OnePlace, Works, Once
<1>8. RunOK'  BY <1>2 DEF IInv, RunOK
<1>9. CountOK'
  <2>1. Counting' = Counting  BY <1>2 DEF Counting
  <2>2. Cardinality(registered) \in Nat /\ Cardinality(Counting) \in Nat
    BY ThreadFacts, FS_Subset, FS_CardinalityType DEF IInv, TypeOK, Counting
  <2> QED  BY <1>2, <1>5, <2>1, <2>2 DEF IInv, CountOK
<1>10. pc[Caller] = "main" /\ pc[Caller] # "done" /\ ~TimersSeen /\ ~EventsSeen
  BY WhoCalls
<1>11. StageOK'
  BY <1>2, <1>10 DEF IInv, StageOK, TimersSeen, EventsSeen
<1>12. Outstanding' = Outstanding \cup {x}
  BY <1>1, <1>2, <1>4 DEF Outstanding
<1>13. Executing' = Executing  BY <1>2 DEF Executing
<1> QED  BY <1>1, <1>2, <1>3, <1>6, <1>7, <1>8, <1>9, <1>10, <1>11, <1>12, <1>13 DEF IInv, Accepted

(* Work x is taken from where it was and executed, for the first time.     *)
Begins(x) ==
    /\ x \in Outstanding /\ x \notin Executing /\ begun[x] = 0
    /\ Outstanding' = Outstanding \ {x} /\ Executing' = Executing \cup {x}
    /\ begun' = [begun EXCEPT ![x] = 1]

(* Work is fetched and begun.                                              *)
LEMMA FetchKeeps ==
    ASSUME IInv, NEW t \in Threads, Fetch(t)
    PROVE  IInv' /\ Unclosed /\ \E x \in Work : Begins(x)
<1>1. PICK i \in DOMAIN m_fibers :
        /\ m_fibers' = RemoveAt(m_fibers, i)
        /\ task' = [task EXCEPT ![t] = m_fibers[i].work]
        /\ begun' = [begun EXCEPT ![m_fibers[i].work] = begun[m_fibers[i].work] + 1]
  BY DEF Fetch
<1>2. PICK x : x = m_fibers[i].work  OBVIOUS
<1>3. /\ pc[t] = "fetch" /\ Go(t, "run")
      /\ UNCHANGED <<left, registered, pending, cbs, idleDone>>
      /\ m_fibers \in Seq(Items) /\ Once(m_fibers)
  BY DEF Fetch, At, timerVars, eventVars, idleVars, IInv, TypeOK, OnePlace
<1>4. x \in Work /\ x \in Works(m_fibers)
  <2>1. m_fibers[i] \in Items  BY <1>1, <1>3
  <2> QED  BY <1>1, <1>2, <2>1 DEF Items, Works
<1>5. begun[x] = 0 /\ x \notin registered \cup Armed /\ \A u \in Threads : x \notin cbs[u]
  BY <1>4 DEF IInv, OnePlace
<1>6. m_fibers' \in Seq(Items) /\ Once(m_fibers') /\ Works(m_fibers') = Works(m_fibers) \ {x}
  BY <1>1, <1>2, <1>3, RemovedItem
<1>7. /\ pc'[t] = "run" /\ \A u \in Threads \ {t} : pc'[u] = pc[u]
      /\ Counting' = Counting
  BY <1>3, MovePlaces
<1>8. /\ begun' \in [Work -> Nat] /\ begun'[x] = 1 /\ \A y \in Work \ {x} : begun'[y] = begun[y]
      /\ begun' = [begun EXCEPT ![x] = 1]
  BY <1>1, <1>2, <1>4, <1>5 DEF IInv, TypeOK
<1>9. DOMAIN task' = Threads /\ task'[t] = x /\ \A u \in Threads \ {t} : task'[u] = task[u]
  BY <1>1, <1>2 DEF IInv, TypeOK
<1>10. Armed' = Armed  BY <1>3 DEF Armed
<1>11. StageOK' /\ Unclosed /\ pc' \in [Threads -> Places]
  BY <1>3, <1>10, StageMove
<1>12. TypeOK'  BY <1>3, <1>6, <1>8, <1>9, <1>11 DEF IInv, TypeOK
<1>13. OnePlace'
  <2>1. \A y \in Armed \cup registered : y \in Work
    BY ThreadFacts DEF IInv, TypeOK, Armed
  <2>2. \A u \in Threads : \A y \in cbs[u] : y \in Work
    BY ThreadFacts DEF IInv, TypeOK
  <2>3. Works(m_fibers) \subseteq Work
    <3>1. \A k \in DOMAIN m_fibers : m_fibers[k] \in Items  BY <1>3
    <3> QED  BY <3>1 DEF Works, Items
  <2>4. \A u \in Threads : cbs'[u] # {} => pc'[u] = "post"
    BY <1>3, <1>7 DEF IInv, OnePlace
  <2> QED  BY <1>3, <1>5, <1>6, <1>8, <1>10, <2>1, <2>2, <2>3, <2>4 DEF IInv, OnePlace
<1>14. ASSUME NEW u \in Threads \ {t}, pc[u] = "run"
       PROVE  task[u] \in Work /\ begun[task[u]] > 0 /\ task[u] # x
  BY <1>5, <1>14 DEF IInv, RunOK
<1>15. RunOK'
  <2> SUFFICES ASSUME NEW u \in Threads, pc'[u] = "run"
               PROVE  /\ task'[u] \in Work /\ begun'[task'[u]] > 0
                      /\ \A v \in Threads \ {u} : pc'[v] = "run" => task'[v] # task'[u]
    BY DEF RunOK
  <2>1. CASE u = t  BY <1>4, <1>7, <1>8, <1>9, <1>14, <2>1
  <2>2. CASE u # t
    BY <1>7, <1>8, <1>9, <1>14, <2>2 DEF IInv, RunOK
  <2> QED  BY <2>1, <2>2
<1>16. CountOK'  BY <1>3, <1>7, CountSame
<1>17. Outstanding' = Outstanding \ {x}
  <2>1. \A y : y \in Outstanding' <=>
          y \in Work /\ (y \in Armed' \cup registered' \cup Works(m_fibers') \/ \E u \in Threads : y \in cbs'[u])
    BY DEF Outstanding, Works
  <2>2. UNCHANGED <<registered, cbs>>  BY <1>3
  <2> QED  BY <1>5, <1>6, <1>10, <2>1, <2>2, OutstandingIs
<1>18. x \in Outstanding  BY <1>4, OutstandingIs
<1>19. \A y : y \in Executing' <=> \E u \in Threads : pc'[u] = "run" /\ task'[u] = y
  BY DEF Executing
<1>20. x \notin Executing
  BY <1>3, <1>14, OutstandingIs
<1>21. Executing' = Executing \cup {x}
  BY <1>3, <1>7, <1>9, <1>19, OutstandingIs
<1> QED  BY <1>4, <1>5, <1>8, <1>11, <1>12, <1>13, <1>15, <1>16, <1>17, <1>18, <1>20, <1>21 DEF IInv, Begins

(* Work x is no longer executed.                                           *)
Ends(x) ==
    /\ x \in Executing /\ begun[x] > 0
    /\ Outstanding' = Outstanding /\ Executing' = Executing \ {x} /\ begun' = begun

(* Work returns to run().                                                  *)
LEMMA EndKeeps ==
    ASSUME IInv, NEW t \in Threads, End(t)
    PROVE  IInv' /\ Unclosed /\ \E x \in Work : Ends(x)
<1>1. PICK x : x = task[t]  OBVIOUS
<1>2. /\ pc[t] = "run" /\ Go(t, "fetch") /\ task' = [task EXCEPT ![t] = Null]
      /\ UNCHANGED <<m_fibers, left, registered, pending, cbs, idleDone, begun>>
  BY DEF End, At, timerVars, eventVars, idleVars
<1>3. x \in Work /\ begun[x] > 0 /\ \A u \in Threads \ {t} : pc[u] = "run" => task[u] # x
  BY <1>1, <1>2 DEF IInv, RunOK
<1>4. /\ pc'[t] = "fetch" /\ \A u \in Threads \ {t} : pc'[u] = pc[u]
      /\ Counting' = Counting
  BY <1>2, MovePlaces
<1>5. DOMAIN task' = Threads /\ \A u \in Threads \ {t} : task'[u] = task[u]
  BY <1>2 DEF IInv, TypeOK
<1>6. Armed' = Armed  BY <1>2 DEF Armed
<1>7. StageOK' /\ Unclosed /\ pc' \in [Threads -> Places]
  BY <1>2, <1>6, StageMove
<1>8. TypeOK'  BY <1>2, <1>5, <1>7 DEF IInv, TypeOK
<1>9. OnePlace'
  <2>1. \A u \in Threads : cbs'[u] # {} => pc'[u] = "post"
    BY <1>2, <1>4 DEF IInv, OnePlace
  <2> QED  BY <1>2, <1>6, <2>1 DEF IInv, OnePlace, Works, Once
<1>10. RunOK'
  <2>1. \A u \in Threads : pc'[u] = "run" => u # t /\ pc[u] = "run" /\ task'[u] = task[u]
    BY <1>4, <1>5
  <2> QED  BY <1>2, <2>1 DEF IInv, RunOK
<1>11. CountOK'  BY <1>2, <1>4, CountSame
<1>12. Outstanding' = Outstanding  BY <1>2, <1>6 DEF Outstanding
<1>13. \A y : y \in Executing' <=> \E u \in Threads : pc'[u] = "run" /\ task'[u] = y
  BY DEF Executing
<1>14. x \in Executing  BY <1>1, <1>2, OutstandingIs
<1>15. Executing' = Executing \ {x}
  BY <1>1, <1>2, <1>3, <1>4, <1>5, <1>13, OutstandingIs
<1> QED  BY <1>2, <1>3, <1>7, <1>8, <1>9, <1>10, <1>11, <1>12, <1>14, <1>15 DEF IInv, Ends

(* Work moves from one place to the next without being executed; here, of  *)
(* all variables the places of work, a thread's pc and the counter change. *)
LEMMA HandsOn ==
    ASSUME IInv, NEW t \in Threads, NEW p \in {"post", "handle", "count"}, Go(t, p),
           pc[t] \in {"list", "post", "handle", "count"},
           UNCHANGED <<idleDone, task, begun>>,
           Armed' \subseteq Armed, registered' \subseteq registered
    PROVE  /\ StageOK' /\ Unclosed /\ pc' \in [Threads -> Places] /\ RunOK' /\ Executing' = Executing
<1>1. pc'[t] = p /\ \A u \in Threads \ {t} : pc'[u] = pc[u]
  BY MovePlaces
<1>2. StageOK' /\ Unclosed /\ pc' \in [Threads -> Places]
  BY StageMove
<1>3. \A u \in Threads : pc'[u] = "run" <=> pc[u] = "run"
  BY <1>1
<1>4. RunOK'  BY <1>3 DEF IInv, RunOK
<1>5. Executing' = Executing  BY <1>3 DEF Executing
<1> QED  BY <1>2, <1>4, <1>5

(* listExpiredCb() takes the due timers.                                   *)
LEMMA ListExpiredKeeps ==
    ASSUME IInv, NEW t \in Threads, ListExpired(t)
    PROVE  IInv' /\ Stutters /\ Unclosed
<1>1. PICK S : S = {x \in Timers : left[x] = 0}  OBVIOUS
<1>2. /\ pc[t] = "list" /\ Go(t, "post") /\ cbs' = [cbs EXCEPT ![t] = S]
      /\ left' = [x \in Timers |-> IF left[x] = 0 THEN Unset ELSE left[x]]
      /\ UNCHANGED <<m_fibers, registered, pending, idleDone, task, begun>>
  BY <1>1 DEF ListExpired, At, queueVars, eventVars
<1>3. S \subseteq Armed /\ Armed' = Armed \ S /\ left' \in [Timers -> Nat \cup {Unset}]
  BY <1>1, <1>2 DEF Armed, Unset, IInv, TypeOK
<1>4. /\ StageOK' /\ Unclosed /\ pc' \in [Threads -> Places] /\ RunOK' /\ Executing' = Executing
  BY <1>2, <1>3, HandsOn
<1>5. pc'[t] = "post" /\ (\A u \in Threads \ {t} : pc'[u] = pc[u]) /\ Counting' = Counting
  BY <1>2, MovePlaces
<1>6. /\ cbs' \in [Threads -> SUBSET Timers] /\ cbs'[t] = S /\ cbs[t] = {}
      /\ \A u \in Threads \ {t} : cbs'[u] = cbs[u]
  BY <1>1, <1>2 DEF IInv, TypeOK, OnePlace
<1>7. TypeOK'  BY <1>2, <1>3, <1>4, <1>6 DEF IInv, TypeOK
<1>8. OnePlace'
  <2>1. Works(m_fibers)' = Works(m_fibers) /\ Once(m_fibers)'
    BY <1>2 DEF IInv, OnePlace, Works, Once
  <2>2. \A x \in Works(m_fibers)' :
          begun'[x] = 0 /\ x \notin (registered \cup Armed)' /\ \A u \in Threads : x \notin cbs'[u]
    BY <1>2, <1>3, <1>6, <2>1 DEF IInv, OnePlace
  <2>3. \A x \in (registered \cup Armed)' : begun'[x] = 0
    BY <1>2, <1>3 DEF IInv, OnePlace
  <2>4. ASSUME NEW u \in Threads, NEW x \in cbs'[u]
        PROVE  begun'[x] = 0 /\ x \notin Armed' /\ \A v \in Threads \ {u} : x \notin cbs'[v]
    <3>1. CASE u = t
      <4>1. x \in S /\ x \in Armed  BY <1>3, <1>6, <2>4, <3>1
      <4>2. \A v \in Threads : x \notin cbs[v]  BY <4>1 DEF IInv, OnePlace
      <4> QED  BY <1>2, <1>3, <1>6, <3>1, <4>1, <4>2 DEF IInv, OnePlace
    <3>2. CASE u # t
      <4>1. x \in cbs[u] /\ x \notin Armed /\ x \notin S  BY <1>3, <1>6, <2>4, <3>2 DEF IInv, OnePlace
      <4> QED  BY <1>2, <1>3, <1>6, <3>2, <4>1 DEF IInv, OnePlace
    <3> QED  BY <3>1, <3>2
  <2>5. \A u \in Threads : cbs'[u] # {} => pc'[u] = "post"
    BY <1>5, <1>6 DEF IInv, OnePlace
  <2> QED  BY <2>1, <2>2, <2>3, <2>4, <2>5 DEF OnePlace
<1>9. CountOK'  BY <1>2, <1>5, CountSame
<1>10. Outstanding' = Outstanding
  <2>1. \A y : y \in Outstanding' <=>
          y \in Work /\ (y \in Armed' \cup registered' \cup Works(m_fibers') \/ \E u \in Threads : y \in cbs'[u])
    BY DEF Outstanding, Works
  <2>2. Works(m_fibers') = Works(m_fibers) /\ registered' = registered  BY <1>2
  <2> QED  BY <1>3, <1>6, <2>1, <2>2, OutstandingIs
<1> QED  BY <1>2, <1>4, <1>7, <1>8, <1>9, <1>10 DEF IInv, Stutters

(* The expired callbacks are put into the queue.                           *)
LEMMA PostExpiredKeeps ==
    ASSUME IInv, NEW t \in Threads, PostExpired(t)
    PROVE  IInv' /\ Stutters /\ Unclosed
<1>1. PICK order \in SetToSeqs(cbs[t]) :
        m_fibers' = m_fibers \o [i \in DOMAIN order |-> Item(order[i], AnyThread)]
  BY DEF PostExpired, Enqueue
<1>2. PICK r : r = [i \in DOMAIN order |-> Item(order[i], AnyThread)]  OBVIOUS
<1>3. /\ pc[t] = "post" /\ Go(t, "handle") /\ cbs' = [cbs EXCEPT ![t] = {}]
      /\ UNCHANGED <<left, registered, pending, idleDone, task, begun>>
  BY DEF PostExpired, At, timerVars, eventVars
<1>4. cbs[t] \in SUBSET Timers /\ m_fibers \in Seq(Items) /\ Once(m_fibers)
  BY DEF IInv, TypeOK, OnePlace
<1>5. r \in Seq(Items) /\ Once(r) /\ Works(r) = cbs[t]
  BY <1>2, <1>4, OrderedItems
<1>6. m_fibers' \in Seq(Items) /\ Once(m_fibers') /\ Works(m_fibers') = Works(m_fibers) \cup cbs[t]
  <2>1. Works(m_fibers) \cap Works(r) = {}  BY <1>5 DEF IInv, OnePlace
  <2>2. m_fibers' = m_fibers \o r  BY <1>1, <1>2
  <2> QED  BY <1>4, <1>5, <2>1, <2>2, AppendedItems
<1>7. Armed' = Armed  BY <1>3 DEF Armed
<1>8. /\ StageOK' /\ Unclosed /\ pc' \in [Threads -> Places] /\ RunOK' /\ Executing' = Executing
  BY <1>3, <1>7, HandsOn
<1>9. pc'[t] = "handle" /\ (\A u \in Threads \ {t} : pc'[u] = pc[u]) /\ Counting' = Counting
  BY <1>3, MovePlaces
<1>10. /\ cbs' \in [Threads -> SUBSET Timers] /\ cbs'[t] = {}
       /\ \A u \in Threads \ {t} : cbs'[u] = cbs[u]
  BY <1>3 DEF IInv, TypeOK
<1>11. TypeOK'  BY <1>3, <1>6, <1>8, <1>10 DEF IInv, TypeOK
<1>12. OnePlace'
  <2>1. ASSUME NEW x \in cbs[t]
        PROVE  begun'[x] = 0 /\ x \notin (registered \cup Armed)' /\ \A u \in Threads : x \notin cbs'[u]
    <3>1. begun[x] = 0 /\ x \notin Armed /\ \A u \in Threads \ {t} : x \notin cbs[u]
      BY <2>1 DEF IInv, OnePlace
    <3>2. x \notin registered  BY <1>4, <2>1, ThreadFacts DEF IInv, TypeOK
    <3> QED  BY <1>3, <1>7, <1>10, <3>1, <3>2
  <2>2. ASSUME NEW x \in Works(m_fibers)
        PROVE  begun'[x] = 0 /\ x \notin (registered \cup Armed)' /\ \A u \in Threads : x \notin cbs'[u]
    BY <1>3, <1>7, <1>10, <2>2 DEF IInv, OnePlace
  <2>3. \A x \in (registered \cup Armed)' : begun'[x] = 0
    BY <1>3, <1>7 DEF IInv, OnePlace
  <2>4. \A u \in Threads : \A x \in cbs'[u] : u # t /\ x \in cbs[u]
    BY <1>10
  <2>5. ASSUME NEW u \in Threads, NEW x \in cbs'[u]
        PROVE  begun'[x] = 0 /\ x \notin Armed' /\ \A v \in Threads \ {u} : x \notin cbs'[v]
    <3>1. u # t /\ x \in cbs[u]  BY <2>4, <2>5
    <3> QED  BY <1>3, <1>7, <1>10, <3>1 DEF IInv, OnePlace
  <2>6. \A u \in Threads : cbs'[u] # {} => pc'[u] = "post"
    BY <1>9, <1>10 DEF IInv, OnePlace
  <2>7. Works(m_fibers)' = Works(m_fibers) \cup cbs[t] /\ Once(m_fibers)'  BY <1>6
  <2> QED  BY <2>1, <2>2, <2>3, <2>5, <2>6, <2>7 DEF OnePlace
<1>13. CountOK'  BY <1>3, <1>9, CountSame
<1>14. Outstanding' = Outstanding
  <2>1. \A y : y \in Outstanding' <=>
          y \in Work /\ (y \in Armed' \cup registered' \cup Works(m_fibers') \/ \E u \in Threads : y \in cbs'[u])
    BY DEF Outstanding, Works
  <2>2. registered' = registered  BY <1>3
  <2> QED  BY <1>6, <1>7, <1>10, <2>1, <2>2, OutstandingIs
<1> QED  BY <1>3, <1>8, <1>11, <1>12, <1>13, <1>14 DEF IInv, Stutters

(* An event is triggered: its handler goes to the queue, and the thread    *)
(* that did it still has to count it off.                                  *)
LEMMA TriggerKeeps ==
    ASSUME IInv, NEW t \in Threads, NEW x \in Handlers, Trigger(t, x)
    PROVE  IInv' /\ Stutters /\ Unclosed
<1>1. /\ pc[t] = "handle" /\ Go(t, "count") /\ x \in registered /\ registered' = registered \ {x}
      /\ m_fibers' = m_fibers \o <<Item(x, AnyThread)>> /\ x \in Work
      /\ UNCHANGED <<left, pending, idleDone, cbs, task, begun>>
  BY ThreadFacts DEF Trigger, Enqueue, At, timerVars
<1>2. Armed' = Armed  BY <1>1 DEF Armed
<1>3. /\ begun[x] = 0 /\ x \notin Works(m_fibers) /\ x \notin Armed /\ \A u \in Threads : x \notin cbs[u]
  <2>1. x \notin Timers  BY ThreadFacts
  <2> QED  BY <1>1, <2>1 DEF IInv, TypeOK, OnePlace, Armed
<1>4. /\ m_fibers' \in Seq(Items) /\ Once(m_fibers') /\ Works(m_fibers') = Works(m_fibers) \cup {x}
  <2>1. m_fibers \in Seq(Items) /\ Once(m_fibers)  BY DEF IInv, TypeOK, OnePlace
  <2>2. PICK r : r = <<Item(x, AnyThread)>>  OBVIOUS
  <2>3. r \in Seq(Items) /\ Once(r) /\ Works(r) = {x}  BY <1>1, <2>2, SingleItem
  <2>4. Works(m_fibers) \cap Works(r) = {}  BY <1>3, <2>3
  <2>5. m_fibers' = m_fibers \o r  BY <1>1, <2>2
  <2> QED  BY <2>1, <2>3, <2>4, <2>5, AppendedItems
<1>5. /\ StageOK' /\ Unclosed /\ pc' \in [Threads -> Places] /\ RunOK' /\ Executing' = Executing
  BY <1>1, <1>2, HandsOn
<1>6. /\ pc'[t] = "count" /\ (\A u \in Threads \ {t} : pc'[u] = pc[u])
      /\ Counting' = Counting \cup {t} /\ t \notin Counting
  BY <1>1, MovePlaces
<1>7. IsFiniteSet(registered') /\ Cardinality(registered') = Cardinality(registered) - 1
  BY <1>1, FS_RemoveElement DEF IInv, TypeOK
<1>8. TypeOK'  BY <1>1, <1>4, <1>5, <1>7 DEF IInv, TypeOK
<1>9. OnePlace'
  <2>1. \A y \in Works(m_fibers') : y = x \/ y \in Works(m_fibers)  BY <1>4
  <2>2. \A u \in Threads : cbs'[u] # {} => pc'[u] = "post"
    BY <1>1, <1>6 DEF IInv, OnePlace
  <2> QED  BY <1>1, <1>2, <1>3, <1>4, <2>1, <2>2 DEF IInv, OnePlace
<1>10. CountOK'
  <2>1. IsFiniteSet(Counting)  BY ThreadFacts, FS_Subset DEF Counting
  <2>2. Cardinality(Counting') = Cardinality(Counting) + 1
    BY <1>6, <2>1, FS_AddElement
  <2>3. Cardinality(registered) \in Nat /\ Cardinality(Counting) \in Nat
    BY <2>1, FS_CardinalityType DEF IInv, TypeOK
  <2>4. pending' = pending  BY <1>1
  <2> QED  BY <1>7, <2>2, <2>3, <2>4 DEF IInv, CountOK
<1>11. Outstanding' = Outstanding
  <2>1. \A y : y \in Outstanding' <=>
          y \in Work /\ (y \in Armed' \cup registered' \cup Works(m_fibers') \/ \E u \in Threads : y \in cbs'[u])
    BY DEF Outstanding, Works
  <2>2. cbs' = cbs /\ registered' = registered \ {x} /\ x \in registered  BY <1>1
  <2> QED  BY <1>2, <1>4, <2>1, <2>2, OutstandingIs
<1> QED  BY <1>1, <1>5, <1>8, <1>9, <1>10, <1>11 DEF IInv, Stutters

(* The event is counted off.                                               *)
LEMMA CountOffKeeps ==
    ASSUME IInv, NEW t \in Threads, CountOff(t)
    PROVE  IInv' /\ Stutters /\ Unclosed
<1>1. /\ pc[t] = "count" /\ Go(t, "handle") /\ pending' = pending - 1
      /\ UNCHANGED <<m_fibers, left, registered, idleDone, cbs, task, begun>>
  BY DEF CountOff, At, queueVars, timerVars, idleVars
<1>2. Armed' = Armed  BY <1>1 DEF Armed
<1>3. /\ StageOK' /\ Unclosed /\ pc' \in [Threads -> Places] /\ RunOK' /\ Executing' = Executing
  BY <1>1, <1>2, HandsOn
<1>4. /\ pc'[t] = "handle" /\ (\A u \in Threads \ {t} : pc'[u] = pc[u])
      /\ Counting' = Counting \ {t} /\ t \in Counting
  BY <1>1, MovePlaces
<1>5. TypeOK'  BY <1>1, <1>3 DEF IInv, TypeOK
<1>6. OnePlace'
  <2>1. \A u \in Threads : cbs'[u] # {} => pc'[u] = "post"
    BY <1>1, <1>4 DEF IInv, OnePlace
  <2> QED  BY <1>1, <1>2, <2>1 DEF IInv, OnePlace, Works, Once
<1>7. CountOK'
  <2>1. IsFiniteSet(Counting)  BY ThreadFacts, FS_Subset DEF Counting
  <2>2. Cardinality(Counting') = Cardinality(Counting) - 1
    BY <1>4, <2>1, FS_RemoveElement
  <2>3. Cardinality(registered) \in Nat /\ Cardinality(Counting) \in Nat
    BY <2>1, FS_CardinalityType DEF IInv, TypeOK
  <2> QED  BY <1>1, <2>2, <2>3 DEF IInv, CountOK
<1>8. Outstanding' = Outstanding  BY <1>1, <1>2 DEF Outstanding
<1> QED  BY <1>1, <1>3, <1>5, <1>6, <1>7, <1>8 DEF IInv, Stutters

(* Time passes: the same timers are armed.                                 *)
LEMMA TickKeeps ==
    ASSUME IInv, Tick
    PROVE  IInv' /\ Stutters /\ Unclosed
<1>1. /\ left' = [x \in Timers |-> IF left[x] > 0 THEN left[x] - 1 ELSE left[x]]
      /\ UNCHANGED <<m_fibers, registered, pending, cbs, begun, task, pc, idleDone>>
  BY DEF Tick, queueVars, eventVars, idleVars
<1>2. left' \in [Timers -> Nat \cup {Unset}] /\ Armed' = Armed
  <2>1. ASSUME NEW x \in Timers
        PROVE  left'[x] \in Nat \cup {Unset} /\ (left'[x] # Unset <=> left[x] # Unset)
    <3>1. left[x] \in Nat \/ left[x] = -1  BY DEF IInv, TypeOK, Unset
    <3> QED  BY <1>1, <3>1 DEF Unset
  <2> QED  BY <1>1, <2>1 DEF Armed
<1>3. TypeOK'  BY <1>1, <1>2 DEF IInv, TypeOK
<1>4. OnePlace'  BY <1>1, <1>2 DEF IInv, OnePlace, Works, Once
<1>5. RunOK'  BY <1>1 DEF IInv, RunOK
<1>6. CountOK'  BY <1>1, CountSame DEF Counting
<1>7. StageOK'  BY <1>1, <1>2 DEF IInv, StageOK, TimersSeen, EventsSeen
<1>8. Outstanding' = Outstanding  BY <1>1, <1>2 DEF Outstanding
<1>9. Executing' = Executing  BY <1>1 DEF Executing
<1> QED  BY <1>1, <1>3, <1>4, <1>5, <1>6, <1>7, <1>8, <1>9 DEF IInv, Stutters, Unclosed


-----------------------------------------------------------------------------
(* Who is through                                                          *)

(* With the counter at zero nobody executes.                               *)
LEMMA StoppingMeans ==
    ASSUME LInv, m_fibers = << >>, active = 0
    PROVE  Running = {}
<1>1. IsFiniteSet(Running)  BY ThreadFacts, FS_Subset DEF Running
<1> QED  BY <1>1, FS_EmptySet DEF LInv, ActiveOK

(* A thread moves, and neither begins nor ends work: it is not through     *)
(* then, it was before, or it has found an empty queue and nobody at work. *)
LEMMA LeaveMove ==
    ASSUME IInv, LInv, NEW t \in Threads, NEW p \in Places \ {"run"}, Go(t, p), pc[t] # "run",
           active' = active, idleDone' \in [Threads -> BOOLEAN],
           \A u \in Threads \ {t} : idleDone'[u] = idleDone[u],
           idleDone'[t] => p \in {"fetch", "exit", "join", "done"},
           p = "exit" => idleDone'[t],
           \/ ~idleDone'[t] /\ p \notin {"join", "done"}
           \/ m_fibers' = m_fibers /\ Through(t)
           \/ m_fibers' = m_fibers /\ m_fibers = << >> /\ active = 0
    PROVE  LInv'
<1>1. pc'[t] = p /\ \A u \in Threads \ {t} : pc'[u] = pc[u]  BY DEF IInv, TypeOK, Go
<1>2. Running' = Running  BY <1>1 DEF Running
<1>3. ActiveOK'  BY <1>2 DEF LInv, ActiveOK
<1>4. /\ \A u \in Threads : idleDone'[u] => pc'[u] \in {"fetch", "run", "exit", "join", "done"}
      /\ \A u \in Threads : pc'[u] = "exit" => idleDone'[u]
  BY <1>1 DEF LInv, LeaveOK
<1>5. ASSUME \A u \in Threads : Through(u)' PROVE m_fibers' = << >> /\ Running' = {}
  <2>1. idleDone'[t] \/ p \in {"join", "done"}  BY <1>1, <1>5 DEF Through
  <2>2. CASE m_fibers' = m_fibers /\ Through(t)
    <3>1. \A u \in Threads \ {t} : Through(u)  BY <1>1, <1>5 DEF Through
    <3> QED  BY <1>2, <2>2, <3>1 DEF LInv, LeaveOK
  <2>3. CASE m_fibers' = m_fibers /\ m_fibers = << >> /\ active = 0
    BY <1>2, <2>3, StoppingMeans
  <2> QED  BY <2>1, <2>2, <2>3
<1> QED  BY <1>3, <1>4, <1>5 DEF LInv, LeaveOK

(* Nobody moves, and the queue stays as it is.                             *)
LEMMA LeaveStays ==
    ASSUME LInv, UNCHANGED <<m_fibers, active, pc, idleDone>>
    PROVE  LInv'
BY DEF LInv, ActiveOK, LeaveOK, Running, Through

(* scheduler() by a thread that is not through, or that executes.          *)
LEMMA LeaveSchedule ==
    ASSUME Simple, IInv, LInv, NEW t \in Threads, MayCall(t, "schedule"), UNCHANGED <<active, pc, idleDone>>
    PROVE  LInv'
<1>1. Running' = Running  BY DEF Running
<1>2. ~(\A u \in Threads : Through(u)')
  <2>1. pc[t] \in {"main", "run"} /\ (pc[t] = "main" => t = Caller)  BY WhoCalls
  <2>2. CASE pc[t] = "main"
    <3>1. ~idleDone[t]  BY <2>1, <2>2 DEF IInv, StageOK
    <3> QED  BY <2>2, <3>1 DEF Through
  <2>3. CASE pc[t] = "run"
    <3>1. Running # {}  BY <2>3 DEF Running
    <3>2. \A u \in Threads : Through(u)' <=> Through(u)  BY DEF Through
    <3> QED  BY <3>1, <3>2 DEF LInv, LeaveOK
  <2> QED  BY <2>1, <2>2, <2>3
<1> QED  BY <1>1, <1>2 DEF LInv, ActiveOK, LeaveOK

(* Work begins: also on a thread that is through, while another is not.    *)
LEMMA LeaveFetch ==
    ASSUME IInv, LInv, NEW t \in Threads, Fetch(t)
    PROVE  LInv'
<1>1. /\ pc[t] = "fetch" /\ Go(t, "run") /\ active' = active + 1 /\ idleDone' = idleDone
      /\ m_fibers # << >>
  BY DEF Fetch, At, idleVars
<1>2. pc'[t] = "run" /\ \A u \in Threads \ {t} : pc'[u] = pc[u]  BY <1>1, MovePlaces
<1>3. ActiveOK'
  <2>1. Running' = Running \cup {t} /\ t \notin Running  BY <1>1, <1>2 DEF Running
  <2>2. IsFiniteSet(Running)  BY ThreadFacts, FS_Subset DEF Running
  <2>3. Cardinality(Running') = Cardinality(Running) + 1  BY <2>1, <2>2, FS_AddElement
  <2> QED  BY <1>1, <2>3 DEF LInv, ActiveOK
<1>4. ~(\A u \in Threads : Through(u)')
  <2>1. \A u \in Threads : Through(u)' => Through(u)  BY <1>1, <1>2 DEF Through
  <2> QED  BY <1>1, <2>1 DEF LInv, LeaveOK
<1> QED  BY <1>1, <1>2, <1>3, <1>4 DEF LInv, LeaveOK

(* Work ends.                                                              *)
LEMMA LeaveEnd ==
    ASSUME IInv, LInv, NEW t \in Threads, End(t)
    PROVE  LInv'
<1>1. /\ pc[t] = "run" /\ Go(t, "fetch") /\ active' = active - 1 /\ idleDone' = idleDone
  BY DEF End, At, idleVars
<1>2. pc'[t] = "fetch" /\ \A u \in Threads \ {t} : pc'[u] = pc[u]  BY <1>1, MovePlaces
<1>3. Running' = Running \ {t} /\ t \in Running  BY <1>1, <1>2 DEF Running
<1>4. ActiveOK'
  <2>1. IsFiniteSet(Running)  BY ThreadFacts, FS_Subset DEF Running
  <2>2. Cardinality(Running') = Cardinality(Running) - 1  BY <1>3, <2>1, FS_RemoveElement
  <2> QED  BY <1>1, <2>2 DEF LInv, ActiveOK
<1>5. ~(\A u \in Threads : Through(u)')
  <2>1. \A u \in Threads : Through(u)' => Through(u)  BY <1>1, <1>2 DEF Through
  <2> QED  BY <1>3, <2>1 DEF LInv, LeaveOK
<1> QED  BY <1>1, <1>2, <1>4, <1>5 DEF LInv, LeaveOK

(* The caller's way through stop().                                        *)
LEMMA LeaveStop ==
    ASSUME Simple, IInv, LInv, StopStep \/ Stop
    PROVE  LInv'
<1>1. /\ Caller \in Threads /\ idleDone' = idleDone /\ idleDone \in [Threads -> BOOLEAN]
      /\ active' = active /\ m_fibers' = m_fibers
  BY ThreadFacts DEF StopStep, StopTimers, StopEvents, StopQueue, StopCheck, Join, Stop, queueVars, idleVars,
    IInv, TypeOK
<1>2. CASE Join
  <2>1. pc[Caller] = "join" /\ Go(Caller, "done") /\ "done" \in Places
    BY <1>2 DEF Join, At, Places, CallerPlaces
  <2>2. Through(Caller)  BY <2>1 DEF Through
  <2> QED  BY <1>1, <2>1, <2>2, LeaveMove
<1>3. CASE ~Join
  <2>1. PICK p \in {"stop timers", "stop events", "stop queue", "fetch", "join", "done"} :
          /\ Go(Caller, p) /\ pc[Caller] \in {"main", "stop timers", "stop events", "stop queue"}
          /\ p \in {"join", "done"} => m_fibers = << >> /\ active = 0
    BY <1>3 DEF StopStep, StopTimers, StopEvents, StopQueue, StopCheck, Stop, At, SchedulerStopping, Simple
  <2>2. ~idleDone[Caller]  BY <1>1, <2>1 DEF LInv, LeaveOK
  <2>3. p \in Places \ {"run"} /\ p # "exit"  BY <2>1 DEF Places, CallerPlaces
  <2> QED  BY <1>1, <2>1, <2>2, <2>3, LeaveMove
<1> QED  BY <1>2, <1>3

(* run() finds nothing: on to the idle fiber, or out when that has ended.  *)
LEMMA LeaveNoTask ==
    ASSUME IInv, LInv, NEW t \in Threads, NoTask(t)
    PROVE  LInv'
<1>1. /\ pc[t] = "fetch" /\ idleDone' = idleDone /\ idleDone \in [Threads -> BOOLEAN]
      /\ active' = active /\ m_fibers' = m_fibers
  BY DEF NoTask, At, queueVars, idleVars, IInv, TypeOK
<1>2. PICK p \in {"nap", "join", "exit"} : Go(t, p) /\ (p # "nap" <=> idleDone[t])
  BY <1>1 DEF NoTask
<1>3. p \in Places \ {"run"}  BY <1>2 DEF Places, CallerPlaces
<1>4. idleDone[t] => Through(t)  BY DEF Through
<1> QED  BY <1>1, <1>2, <1>3, <1>4, LeaveMove

(* idle(): only a fiber that has not ended is in it, and it ends when it   *)
(* sees an empty queue and nobody at work.                                 *)
LEMMA LeaveIdling ==
    ASSUME IInv, LInv, NEW t \in Threads, EnterIdle(t) \/ IdleStep(t), ~Drain(t)
    PROVE  LInv'
<1>1. /\ pc[t] \in Idling \cup {"nap"} /\ active' = active
      /\ idleDone \in [Threads -> BOOLEAN] /\ ~idleDone[t]
  <2>1. pc[t] \in Idling \cup {"nap"} /\ active' = active
    BY DEF EnterIdle, IdleStep, IdleTimers, IdleEvents, IdleStopping, EpollWait, ListExpired, PostExpired,
      CountOff, LeaveIdle, Trigger, At, Idling, queueVars
  <2> QED  BY <2>1 DEF Idling, IInv, TypeOK, LInv, LeaveOK
<1>2. CASE IdleStopping(t)
  <2>1. PICK s \in BOOLEAN : s = SchedulerStopping  BY DEF SchedulerStopping
  <2>2. /\ idleDone' = [idleDone EXCEPT ![t] = s] /\ Go(t, IF s THEN "fetch" ELSE "wait")
        /\ m_fibers' = m_fibers
    BY <1>2, <2>1 DEF IdleStopping, queueVars
  <2>3. "fetch" \in Places \ {"run"} /\ "wait" \in Places \ {"run"}  BY DEF Places, Idling
  <2>4. CASE s
    <3>1. m_fibers = << >> /\ active = 0  BY <2>1, <2>4 DEF SchedulerStopping
    <3>2. Go(t, "fetch") /\ pc[t] # "run"  BY <1>1, <2>2, <2>4 DEF Idling
    <3> QED  BY <1>1, <2>2, <2>3, <3>1, <3>2, LeaveMove
  <2>5. CASE ~s
    <3>1. Go(t, "wait") /\ pc[t] # "run" /\ ~idleDone'[t]  BY <1>1, <2>2, <2>5 DEF Idling
    <3> QED  BY <1>1, <2>2, <2>3, <3>1, LeaveMove
  <2> QED  BY <2>4, <2>5
<1>3. CASE ~IdleStopping(t)
  <2>1. idleDone' = idleDone
    BY <1>3 DEF EnterIdle, IdleStep, IdleTimers, IdleEvents, EpollWait, ListExpired, PostExpired,
      CountOff, LeaveIdle, Trigger, idleVars
  <2>2. PICK p \in {"timers", "events", "stopping", "wait", "list", "post", "handle", "count", "fetch"} : Go(t, p)
    BY <1>3 DEF EnterIdle, IdleStep, IdleTimers, IdleEvents, EpollWait, ListExpired, PostExpired,
      CountOff, LeaveIdle, Trigger
  <2>3. p \in Places \ {"run"} /\ p \notin {"exit", "join", "done"} /\ pc[t] # "run"
    BY <1>1, <2>2 DEF Places, Idling
  <2> QED  BY <1>1, <2>1, <2>2, <2>3, LeaveMove
<1> QED  BY <1>2, <1>3

-----------------------------------------------------------------------------
(* The invariant, and the pool                                             *)

(* The initial states.                                                     *)
LEMMA InitInv == Init => IInv /\ LInv
<1> SUFFICES ASSUME Init PROVE IInv /\ LInv  OBVIOUS
<1>1. /\ m_fibers = << >> /\ DOMAIN m_fibers = {} /\ Works(m_fibers) = {} /\ registered = {} /\ pending = 0
      /\ Armed = {} /\ \A t \in Threads : cbs[t] = {} /\ ~idleDone[t]
      /\ \A t \in Threads : pc[t] = IF t = Caller THEN "main" ELSE "fetch"
  BY DEF Init, Works, Armed, Unset
<1>2. IsFiniteSet({}) /\ Cardinality({}) = 0  BY FS_EmptySet
<1>3. "main" \in Places /\ "fetch" \in Places  BY DEF Places, CallerPlaces
<1>4. TypeOK
  <2>1. m_fibers \in Seq(Items)  BY <1>1
  <2>2. pc \in [Threads -> Places]  BY <1>3 DEF Init
  <2> QED  BY <1>1, <1>2, <2>1, <2>2 DEF Init, TypeOK, Unset
<1>5. OnePlace  BY <1>1 DEF OnePlace, Once
<1>6. RunOK  BY <1>1 DEF RunOK
<1>7. CountOK
  <2>1. Counting = {}  BY <1>1 DEF Counting
  <2> QED  BY <1>1, <1>2, <2>1 DEF CountOK
<1>8. StageOK
  <2>1. pc[Caller] = "main" /\ ~idleDone[Caller] /\ \A w \in Workers : pc[w] = "fetch"
    BY <1>1, ThreadFacts
  <2> QED  BY <1>1, <2>1 DEF StageOK, CallerPlaces
<1>9. LInv
  <2>1. Running = {} /\ active = 0  BY <1>1 DEF Running, Init
  <2> QED  BY <1>1, <1>2, <2>1 DEF LInv, ActiveOK, LeaveOK
<1> QED  BY <1>4, <1>5, <1>6, <1>7, <1>8, <1>9 DEF IInv

(* What a step does: nothing that concerns work, stop()'s return, or one   *)
(* piece of work accepted, begun or ended.                                 *)
Returns == Stutters /\ pc'[Caller] = "done" /\ Outstanding = {} /\ Executing = {}
Effect ==
    \/ Stutters /\ Unclosed
    \/ Returns
    \/ \E x \in Work : Accepted(x) \/ (Unclosed /\ (Begins(x) \/ Ends(x)))

(* Every step preserves the invariant and has one of these effects.        *)
LEMMA NextEffect ==
    ASSUME Simple, IInv, LInv, [Next]_vars
    PROVE  IInv' /\ Effect
<1>1. ASSUME NEW t \in Threads, UserCall(t) PROVE IInv' /\ Effect
  <2>1. CASE MayCall(t, "schedule") /\ \E x \in Callbacks, thread \in Pins \cup {AnyThread} : Schedule(t, x, thread)
    <3>1. PICK x \in Callbacks : IInv' /\ Accepted(x)  BY <2>1, ScheduleKeeps
    <3> QED  BY <3>1, ThreadFacts DEF Effect
  <2>2. CASE MayCall(t, "timer") /\ \E x \in Timers, d \in Delays, front \in BOOLEAN : AddTimer(t, x, d, front)
    <3>1. PICK x \in Timers : IInv' /\ Accepted(x)  BY <2>2, AddTimerKeeps
    <3> QED  BY <3>1, ThreadFacts DEF Effect
  <2>3. CASE MayCall(t, "event") /\ \E x \in Handlers : AddEvent(t, x)
    <3>1. PICK x \in Handlers : IInv' /\ Accepted(x)  BY <2>3, AddEventKeeps
    <3> QED  BY <3>1, ThreadFacts DEF Effect
  <2> QED  BY <1>1, <2>1, <2>2, <2>3 DEF UserCall
<1>2. ASSUME NEW t \in Threads, IdleStep(t) \/ EnterIdle(t) PROVE IInv' /\ Effect
  <2>1. CASE Drain(t)
    <3>1. Quiet /\ pc' = pc /\ idleDone' = idleDone
      BY <2>1 DEF Drain, Quiet, queueVars, timerVars, eventVars
    <3> QED  BY <3>1, StaysKeeps DEF Effect
  <2>2. CASE \/ EnterIdle(t) \/ IdleTimers(t) \/ IdleEvents(t) \/ IdleStopping(t) \/ EpollWait(t) \/ LeaveIdle(t)
    BY <2>2, IdleKeeps DEF Effect
  <2>3. CASE ListExpired(t)  BY <2>3, ListExpiredKeeps DEF Effect
  <2>4. CASE PostExpired(t)  BY <2>4, PostExpiredKeeps DEF Effect
  <2>5. CASE CountOff(t)  BY <2>5, CountOffKeeps DEF Effect
  <2>6. CASE \E x \in Handlers : Trigger(t, x)  BY <2>6, TriggerKeeps DEF Effect
  <2> QED  BY <1>2, <2>1, <2>2, <2>3, <2>4, <2>5, <2>6 DEF IdleStep
<1>3. ASSUME NEW t \in Threads, Fetch(t) \/ NoTask(t) \/ End(t) \/ tickle(t) PROVE IInv' /\ Effect
  <2>1. CASE Fetch(t)  BY <2>1, FetchKeeps DEF Effect
  <2>2. CASE NoTask(t)  BY <2>2, NoTaskKeeps DEF Effect
  <2>3. CASE End(t)  BY <2>3, EndKeeps DEF Effect
  <2>4. CASE tickle(t)
    <3>1. Quiet /\ pc' = pc /\ idleDone' = idleDone
      BY <2>4 DEF tickle, Quiet, queueVars, timerVars, eventVars, idleVars
    <3> QED  BY <3>1, StaysKeeps DEF Effect
  <2> QED  BY <1>3, <2>1, <2>2, <2>3, <2>4
<1>4. ASSUME StopStep \/ Stop PROVE IInv' /\ Effect
  <2>1. CASE StopTimers \/ StopEvents \/ StopQueue  BY <2>1, StopsKeep DEF Effect
  <2>2. CASE Join  BY <2>2, JoinKeeps DEF Effect, Returns
  <2>3. CASE Stop  BY <2>3, StopKeeps DEF Effect, Returns
  <2> QED  BY <1>4, <2>1, <2>2, <2>3 DEF StopStep
<1>5. ASSUME WorldStep PROVE IInv' /\ Effect
  <2>1. CASE Tick  BY <2>1, TickKeeps DEF Effect
  <2>2. CASE \E x \in Handlers : BecomesReady(x)
    <3>1. Quiet /\ pc' = pc /\ idleDone' = idleDone
      BY <2>2 DEF BecomesReady, Quiet, queueVars, timerVars, idleVars
    <3> QED  BY <3>1, StaysKeeps DEF Effect
  <2> QED  BY <1>5, <2>1, <2>2 DEF WorldStep
<1>6. ASSUME UNCHANGED vars PROVE IInv' /\ Effect
  <2>1. Quiet /\ pc' = pc /\ idleDone' = idleDone
    BY <1>6 DEF vars, Quiet, queueVars, timerVars, eventVars, idleVars
  <2> QED  BY <2>1, StaysKeeps DEF Effect
<1> QED  BY <1>1, <1>2, <1>3, <1>4, <1>5, <1>6 DEF Next, ThreadStep, RunStep, Terminated

(* Every step preserves what is known of those who are through.            *)
LEMMA NextLeave ==
    ASSUME Simple, IInv, LInv, [Next]_vars
    PROVE  LInv'
<1>1. ASSUME NEW t \in Threads, UserCall(t) PROVE LInv'
  <2>1. CASE MayCall(t, "schedule") /\ \E x \in Callbacks, thread \in Pins \cup {AnyThread} : Schedule(t, x, thread)
    <3>1. UNCHANGED <<active, pc, idleDone>>  BY <2>1 DEF Schedule, idleVars
    <3> QED  BY <2>1, <3>1, LeaveSchedule
  <2>2. CASE \/ \E x \in Timers, d \in Delays, front \in BOOLEAN : AddTimer(t, x, d, front)
             \/ \E x \in Handlers : AddEvent(t, x)
    <3>1. UNCHANGED <<m_fibers, active, pc, idleDone>>
      BY <2>2 DEF AddTimer, AddEvent, queueVars, idleVars
    <3> QED  BY <3>1, LeaveStays
  <2> QED  BY <1>1, <2>1, <2>2 DEF UserCall
<1>2. ASSUME NEW t \in Threads, RunStep(t) PROVE LInv'
  <2>1. CASE Drain(t) \/ tickle(t)
    <3>1. UNCHANGED <<m_fibers, active, pc, idleDone>>
      BY <2>1 DEF Drain, tickle, queueVars, idleVars
    <3> QED  BY <3>1, LeaveStays
  <2>2. CASE ~Drain(t) /\ (EnterIdle(t) \/ IdleStep(t))  BY <2>2, LeaveIdling
  <2>3. CASE Fetch(t)  BY <2>3, LeaveFetch
  <2>4. CASE NoTask(t)  BY <2>4, LeaveNoTask
  <2>5. CASE End(t)  BY <2>5, LeaveEnd
  <2> QED  BY <1>2, <2>1, <2>2, <2>3, <2>4, <2>5 DEF RunStep
<1>3. ASSUME WorldStep \/ UNCHANGED vars PROVE LInv'
  <2>1. UNCHANGED <<m_fibers, active, pc, idleDone>>
    BY <1>3 DEF WorldStep, Tick, BecomesReady, vars, queueVars, idleVars
  <2> QED  BY <2>1, LeaveStays
<1> QED  BY <1>1, <1>2, <1>3, LeaveStop DEF Next, ThreadStep, Terminated

(* The effects are the pool's steps.                                       *)
LEMMA EffectIsPool ==
    ASSUME IInv, Effect
    PROVE  [P!Next]_(P!vars)
<1>1. begun \in [Work -> Nat]  BY DEF IInv, TypeOK
<1>2. \A x \in Executing : x \in Work /\ begun[x] > 0
  BY OutstandingIs DEF IInv, RunOK
<1>3. PICK e : e = {x \in Work : begun[x] > 0} \ Executing  OBVIOUS
<1>4. PICK f : f = ({x \in Work : begun[x] > 0} \ Executing)'  OBVIOUS
<1>5. ASSUME Stutters, Unclosed PROVE [P!Next]_(P!vars)
  <2>1. UNCHANGED P!vars  BY <1>5 DEF Stutters, Unclosed, P!vars
  <2> QED  BY <2>1
<1>6. ASSUME Returns PROVE [P!Next]_(P!vars)
  <2>1. (pc[Caller] = "done")' = TRUE  BY <1>6 DEF Returns
  <2>2. P!Close  BY <1>6, <2>1 DEF Returns, Stutters, P!Close
  <2> QED  BY <2>2 DEF P!Next
<1>7. ASSUME NEW x \in Work, Accepted(x) PROVE [P!Next]_(P!vars)
  <2>1. x \notin Outstanding /\ begun[x] = 0 /\ pc[Caller] # "done"  BY <1>7 DEF Accepted
  <2>2. x \notin Executing /\ ~(begun[x] > 0)  BY <1>2, <2>1
  <2>3. {x} \cap (Outstanding \cup Executing \cup ({y \in Work : begun[y] > 0} \ Executing)) = {}
    BY <2>1, <2>2
  <2>4. P!Submit({x})
    BY <1>7, <2>1, <2>3 DEF Accepted, P!Submit
  <2> QED  BY <2>4 DEF P!Next
<1>8. ASSUME NEW x \in Work, Begins(x), Unclosed PROVE [P!Next]_(P!vars)
  <2>1. /\ begun'[x] = 1 /\ \A y \in Work \ {x} : begun'[y] = begun[y]
        /\ begun[x] = 0 /\ Executing' = Executing \cup {x}
    BY <1>1, <1>8 DEF Begins
  <2>2. \A y \in Work : begun'[y] > 0 <=> (begun[y] > 0 \/ y = x)
    BY <2>1
  <2>3. f = e
    <3>1. ~(begun[x] > 0)  BY <2>1
    <3> QED  BY <1>3, <1>4, <2>1, <2>2, <3>1
  <2>4. P!Begin(x)
    BY <1>3, <1>4, <1>8, <2>3 DEF Begins, Unclosed, P!Begin
  <2> QED  BY <2>4 DEF P!Next
<1>9. ASSUME NEW x \in Work, Ends(x), Unclosed PROVE [P!Next]_(P!vars)
  <2>1. begun' = begun /\ begun[x] > 0 /\ x \in Executing /\ Executing' = Executing \ {x}
    BY <1>9 DEF Ends
  <2>2. f = e \cup {x}  BY <1>3, <1>4, <2>1
  <2>3. P!End(x)
    BY <1>3, <1>4, <1>9, <2>2 DEF Ends, Unclosed, P!End
  <2> QED  BY <2>3 DEF P!Next
<1> QED  BY <1>5, <1>6, <1>7, <1>8, <1>9 DEF Effect

(* The invariant holds.                                                    *)
LEMMA Invariance == ASSUME Simple PROVE Spec => [](IInv /\ LInv)
<1>1. (IInv /\ LInv) /\ [Next]_vars => (IInv /\ LInv)'  BY NextEffect, NextLeave
<1> QED  BY <1>1, InitInv, PTL DEF Spec

(* When stop() returns nothing is left to do, where the constructing       *)
(* thread takes part and executing work adds no timer and no event: no     *)
(* timer, no event, no task, pinned or not, and no callback in the hand of *)
(* a thread between listExpiredCb() and the queue.                         *)
THEOREM NothingLeftBehind == ASSUME Simple PROVE Spec => []StopLeavesNothing
<1>1. IInv /\ LInv => StopLeavesNothing
  <2> SUFFICES ASSUME IInv, LInv, pc[Caller] = "done" PROVE Outstanding = {}
    BY DEF StopLeavesNothing
  <2>1. \A w \in Workers : pc[w] = "exit"  BY DEF IInv, StageOK
  <2> QED  BY <2>1, NothingLeft
<1> QED  BY <1>1, Invariance, PTL

(* Used this way the IOManager is a TaskPool, for any workers, work, pins, *)
(* delays and pipe size: what is given to scheduler(), addTimer() or       *)
(* addEvent() is executed once and by one thread, however often it changes *)
(* hands between m_timers, the FdContexts, idle()'s locals and the queue,  *)
(* and stop() returns only when nothing is outstanding or executing.       *)
THEOREM IOManagerIsPool == ASSUME Simple PROVE Spec => ImplementsTaskPool
<1>1. Init => P!Init
  <2> SUFFICES ASSUME Init PROVE P!Init  OBVIOUS
  <2>1. /\ m_fibers = << >> /\ DOMAIN m_fibers = {} /\ registered = {} /\ Armed = {}
        /\ \A t \in Threads : cbs[t] = {} /\ pc[t] \in {"main", "fetch"}
    BY DEF Init, Armed, Unset
  <2>2. Outstanding = {} /\ Executing = {}  BY <2>1 DEF Outstanding, Executing
  <2>3. {x \in Work : begun[x] > 0} \ Executing = {}  BY DEF Init
  <2>4. (pc[Caller] = "done") = FALSE  BY <2>1, ThreadFacts
  <2> QED  BY <2>2, <2>3, <2>4 DEF P!Init
<1>2. IInv /\ LInv /\ [Next]_vars => [P!Next]_(P!vars)
  BY NextEffect, EffectIsPool
<1> QED  BY <1>1, <1>2, Invariance, PTL DEF Spec, ImplementsTaskPool, P!Spec
=============================================================================
