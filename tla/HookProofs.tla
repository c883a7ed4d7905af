----------------------------- MODULE HookProofs -----------------------------
(***************************************************************************)
(* Theorems about Hook, for any fibers, descriptors and calls.             *)
(***************************************************************************)
EXTENDS Hook, FiniteSetTheorems, TLAPS

Points == {"idle", "try", "timer", "event", "armed", "yield", "sleep", "accepted", "sockerror", "del", "close"}
Results == {"none", "ok", "EAGAIN", "EBADF", "EMFILE", "EINPROGRESS", "ETIMEDOUT", "error"}
Timers == [kind: {"io", "sleep"}, f: Fibers, n: Nat, fd: Fds \cup {Null}, ev: Events,
           st: {"armed", "collected", "noted"}]
Regs == [f: Fibers \cup {Null}, gen: Nat]

FileTypeOK ==
    /\ gen \in [Fds -> Nat]
    /\ open \in [Fds -> BOOLEAN]
WakeTypeOK ==
    /\ reg \in [Fds -> [Events -> Regs]]
    /\ timers \subseteq Timers
    /\ scheduled \in [Fibers -> Nat]
FiberTypeOK ==
    /\ pc \in [Fibers -> Points]
    /\ DOMAIN call = Fibers
    /\ cancelled \in [Fibers -> BOOLEAN]
    /\ ret \in [Fibers -> Results]
    /\ ncalls \in [Fibers -> Nat]

(* A call that waits for a descriptor has one, and a timer for a call with *)
(* a descriptor knows it.                                                  *)
CallOf(f) ==
    /\ call[f].ev \in Events
    /\ call[f].fd \in Fds \cup {Null}
    /\ pc[f] \in {"try", "timer", "event"} => call[f].fd \in Fds
    /\ Waits(f) => call[f].fd \in Fds \/ call[f].op = "sleep"
    /\ pc[f] = "sleep" => call[f].op = "sleep"
CallsOK ==
    /\ \A f \in Fibers : CallOf(f)
    /\ \A x \in timers : x.kind = "io" => x.fd \in Fds

(* Who will schedule the fiber: nobody while it does not wait; then one    *)
(* event, or one timer of sleep(), or it is scheduled already.             *)
Unscheduled(f) == Registrations(f) = {} /\ SleepTimers(f) = {} /\ scheduled[f] = 0
ByEvent(f) == (\E r \in Fds \X Events : Registrations(f) = {r}) /\ SleepTimers(f) = {} /\ scheduled[f] = 0
BySleep(f) == Registrations(f) = {} /\ (\E x \in timers : SleepTimers(f) = {x}) /\ scheduled[f] = 0
IsBack(f) == Registrations(f) = {} /\ SleepTimers(f) = {} /\ scheduled[f] = 1
WaitOf(f) ==
    /\ ~Waits(f) => Unscheduled(f)
    /\ Waits(f) => ByEvent(f) \/ BySleep(f) \/ IsBack(f)

(* A timeout is noted only for the call whose timer was collected.         *)
NotedOK ==
    /\ \A x \in timers : x.st # "armed" => <<x.f, x.n>> \in fired
    /\ \A f \in Fibers : /\ pc[f] # "idle" /\ cancelled[f] => <<f, ncalls[f]>> \in fired
                         /\ pc[f] = "idle" /\ ret[f] = "ETIMEDOUT" => <<f, ncalls[f]>> \in fired

TInv == FileTypeOK /\ WakeTypeOK /\ FiberTypeOK /\ CallsOK
IInv == TInv /\ NotedOK /\ \A f \in Fibers : WaitOf(f)

-----------------------------------------------------------------------------
(* Types and descriptors                                                   *)

(* Variables that a step leaves alone.                                     *)
LEMMA SameWake ==
    ASSUME TInv, UNCHANGED wakeVars
    PROVE  WakeTypeOK' /\ \A x \in timers' : x.kind = "io" => x.fd \in Fds
BY DEF TInv, WakeTypeOK, CallsOK, wakeVars

(* The step of one fiber that goes on with its call, or returns.           *)
LEMMA FiberMoves ==
    ASSUME TInv, NEW f \in Fibers, NEW p \in Points, Goto(f, p),
           ret' = ret \/ \E r \in Results : ret' = [ret EXCEPT ![f] = r],
           UNCHANGED <<call, cancelled, ncalls>>,
           p \in {"try", "timer", "event"} => call[f].fd \in Fds,
           p \in {"armed", "yield"} => call[f].fd \in Fds \/ call[f].op = "sleep",
           p # "sleep"
    PROVE  FiberTypeOK' /\ \A g \in Fibers : CallOf(g)'
<1>1. pc \in [Fibers -> Points] /\ pc' = [pc EXCEPT ![f] = p] /\ ret \in [Fibers -> Results]
  BY DEF TInv, FiberTypeOK, Goto
<1>2. FiberTypeOK'
  BY <1>1 DEF TInv, FiberTypeOK
<1>3. ASSUME NEW g \in Fibers PROVE CallOf(g)'
  <2>1. CallOf(g) /\ pc'[g] = IF g = f THEN p ELSE pc[g]
    BY <1>1 DEF TInv, CallsOK
  <2> QED  BY <2>1 DEF CallOf, Waits
<1> QED  BY <1>2, <1>3

(* A fiber begins a call.                                                  *)
LEMMA FiberBegins ==
    ASSUME TInv, NEW f \in Fibers, NEW op, NEW fd \in Fds \cup {Null}, NEW ev \in Events, NEW to,
           Begins(f, op, fd, ev, to), NEW p \in Points, Goto(f, p),
           ret' = ret \/ \E r \in Results : ret' = [ret EXCEPT ![f] = r],
           p \in {"try", "timer", "event"} => fd \in Fds,
           p \notin {"armed", "yield"}, p = "sleep" => op = "sleep"
    PROVE  FiberTypeOK' /\ \A g \in Fibers : CallOf(g)'
<1>1. /\ pc \in [Fibers -> Points] /\ pc' = [pc EXCEPT ![f] = p] /\ ret \in [Fibers -> Results]
      /\ DOMAIN call = Fibers /\ cancelled \in [Fibers -> BOOLEAN] /\ ncalls \in [Fibers -> Nat]
  BY DEF TInv, FiberTypeOK, Goto
<1>2. /\ call' = [call EXCEPT ![f] =
            [op |-> op, fd |-> fd, ev |-> ev, to |-> to, gen |-> IF fd = Null THEN 0 ELSE gen[fd]]]
      /\ cancelled' = [cancelled EXCEPT ![f] = FALSE]
      /\ ncalls' = [ncalls EXCEPT ![f] = @ + 1]
  BY DEF Begins
<1>3. /\ DOMAIN call' = Fibers /\ call'[f].op = op /\ call'[f].fd = fd /\ call'[f].ev = ev
      /\ \A g \in Fibers \ {f} : call'[g] = call[g]
  BY <1>1, <1>2
<1>4. FiberTypeOK'
  BY <1>1, <1>2, <1>3 DEF FiberTypeOK
<1>5. ASSUME NEW g \in Fibers PROVE CallOf(g)'
  <2>1. CallOf(g) /\ pc'[g] = IF g = f THEN p ELSE pc[g]
    BY <1>1 DEF TInv, CallsOK
  <2> QED  BY <1>3, <2>1 DEF CallOf, Waits
<1> QED  BY <1>4, <1>5

(* triggerEvent(): what is scheduled and what is forgotten.                *)
LEMMA WakeEffect ==
    ASSUME WakeTypeOK, NEW fd \in Fds, NEW evs \in SUBSET Events, Wake(fd, evs)
    PROVE  /\ reg' \in [Fds -> [Events -> Regs]]
           /\ \A d \in Fds, e \in Events :
                reg'[d][e] = IF d = fd /\ e \in evs THEN NoReg ELSE reg[d][e]
           /\ scheduled' \in [Fibers -> Nat]
           /\ \A f \in Fibers :
                scheduled'[f] = scheduled[f] + Cardinality({ev \in evs : reg[fd][ev].f = f})
<1>1. reg \in [Fds -> [Events -> Regs]] /\ scheduled \in [Fibers -> Nat]
  BY DEF WakeTypeOK
<1>2. NoReg \in Regs
  BY DEF NoReg, Regs
<1>3. reg' = [reg EXCEPT ![fd] = [ev \in Events |-> IF ev \in evs THEN NoReg ELSE reg[fd][ev]]]
  BY DEF Wake
<1>4. [ev \in Events |-> IF ev \in evs THEN NoReg ELSE reg[fd][ev]] \in [Events -> Regs]
  BY <1>1, <1>2
<1>5. IsFiniteSet(Events)
  <2>1. IsFiniteSet({"READ"})  BY FS_Singleton
  <2>2. Events = {"READ"} \cup {"WRITE"}  BY DEF Events
  <2> QED  BY <2>1, <2>2, FS_AddElement
<1>6. \A f \in Fibers : Cardinality({ev \in evs : reg[fd][ev].f = f}) \in Nat
  <2> TAKE f \in Fibers
  <2>1. {ev \in evs : reg[fd][ev].f = f} \subseteq Events  OBVIOUS
  <2>2. IsFiniteSet({ev \in evs : reg[fd][ev].f = f})  BY <1>5, <2>1, FS_Subset
  <2> QED  BY <2>2, FS_CardinalityType
<1>7. scheduled' = [f \in Fibers |-> scheduled[f] + Cardinality({ev \in evs : reg[fd][ev].f = f})]
  BY DEF Wake
<1>8. \A f \in Fibers : scheduled[f] + Cardinality({ev \in evs : reg[fd][ev].f = f}) \in Nat
  BY <1>1, <1>6
<1>9. scheduled' \in [Fibers -> Nat]  BY <1>7, <1>8
<1> QED  BY <1>1, <1>3, <1>4, <1>7, <1>9

(* The descriptors: socket() and accept() make a new file.                 *)
LEMMA NewFileType ==
    ASSUME FileTypeOK, NEW fd \in Fds, NewFile(fd)
    PROVE  FileTypeOK'
<1>1. gen \in [Fds -> Nat] /\ open \in [Fds -> BOOLEAN]
  BY DEF FileTypeOK
<1>2. gen' = [gen EXCEPT ![fd] = gen[fd] + 1] /\ open' = [open EXCEPT ![fd] = TRUE]
  BY DEF NewFile
<1> QED  BY <1>1, <1>2 DEF FileTypeOK

-----------------------------------------------------------------------------
(* Noted timeouts                                                          *)

(* A fiber goes on with its call or returns from it, not with ETIMEDOUT    *)
(* unless the timeout was noted.                                           *)
LEMMA NotedMoves ==
    ASSUME TInv, NotedOK, NEW f \in Fibers, NEW p \in Points, pc[f] # "idle", Goto(f, p),
           \/ p # "idle" /\ ret' = ret
           \/ \E r \in Results : /\ p = "idle" /\ ret' = [ret EXCEPT ![f] = r]
                                 /\ r = "ETIMEDOUT" => cancelled[f],
           UNCHANGED <<cancelled, ncalls, fired>>,
           \A x \in timers' : x.st # "armed" => x \in timers
    PROVE  NotedOK'
<1>1. /\ pc \in [Fibers -> Points] /\ pc' = [pc EXCEPT ![f] = p] /\ ret \in [Fibers -> Results]
      /\ cancelled' = cancelled /\ ncalls' = ncalls /\ fired' = fired
  BY DEF TInv, FiberTypeOK, Goto
<1>2. \A x \in timers' : x.st # "armed" => <<x.f, x.n>> \in fired'
  BY <1>1 DEF NotedOK
<1>3. ASSUME NEW g \in Fibers
      PROVE  /\ pc'[g] # "idle" /\ cancelled'[g] => <<g, ncalls'[g]>> \in fired'
             /\ pc'[g] = "idle" /\ ret'[g] = "ETIMEDOUT" => <<g, ncalls'[g]>> \in fired'
  <2>1. /\ pc[g] # "idle" /\ cancelled[g] => <<g, ncalls[g]>> \in fired
        /\ pc[g] = "idle" /\ ret[g] = "ETIMEDOUT" => <<g, ncalls[g]>> \in fired
    BY DEF NotedOK
  <2>2. CASE g # f
    <3>1. pc'[g] = pc[g] /\ ret'[g] = ret[g]
      BY <1>1, <2>2
    <3> QED  BY <1>1, <2>1, <3>1
  <2>3. CASE g = f
    <3>1. pc'[g] = p /\ (p = "idle" => (ret'[g] = "ETIMEDOUT" => cancelled[g]))
      BY <1>1, <2>3
    <3> QED  BY <1>1, <2>1, <2>3, <3>1
  <2> QED  BY <2>2, <2>3
<1> QED  BY <1>2, <1>3 DEF NotedOK

(* A new call starts with a timer_info of its own.                         *)
LEMMA NotedBegins ==
    ASSUME TInv, NotedOK, NEW f \in Fibers, NEW p \in Points, NEW op, NEW fd, NEW ev, NEW to,
           Begins(f, op, fd, ev, to), Goto(f, p),
           \/ p # "idle" /\ ret' = ret
           \/ \E r \in Results : /\ p = "idle" /\ ret' = [ret EXCEPT ![f] = r]
                                 /\ r # "ETIMEDOUT",
           UNCHANGED <<timers, fired>>
    PROVE  NotedOK'
<1>1. /\ pc \in [Fibers -> Points] /\ pc' = [pc EXCEPT ![f] = p] /\ ret \in [Fibers -> Results]
      /\ cancelled \in [Fibers -> BOOLEAN] /\ ncalls \in [Fibers -> Nat]
      /\ cancelled' = [cancelled EXCEPT ![f] = FALSE] /\ ncalls' = [ncalls EXCEPT ![f] = @ + 1]
      /\ fired' = fired /\ timers' = timers
  BY DEF TInv, FiberTypeOK, Goto, Begins
<1>2. \A x \in timers' : x.st # "armed" => <<x.f, x.n>> \in fired'
  BY <1>1 DEF NotedOK
<1>3. ASSUME NEW g \in Fibers
      PROVE  /\ pc'[g] # "idle" /\ cancelled'[g] => <<g, ncalls'[g]>> \in fired'
             /\ pc'[g] = "idle" /\ ret'[g] = "ETIMEDOUT" => <<g, ncalls'[g]>> \in fired'
  <2>1. /\ pc[g] # "idle" /\ cancelled[g] => <<g, ncalls[g]>> \in fired
        /\ pc[g] = "idle" /\ ret[g] = "ETIMEDOUT" => <<g, ncalls[g]>> \in fired
    BY DEF NotedOK
  <2>2. CASE g # f
    <3>1. pc'[g] = pc[g] /\ ret'[g] = ret[g] /\ cancelled'[g] = cancelled[g] /\ ncalls'[g] = ncalls[g]
      BY <1>1, <2>2
    <3> QED  BY <1>1, <2>1, <3>1
  <2>3. CASE g = f
    <3>1. pc'[g] = p /\ (p = "idle" => ret'[g] # "ETIMEDOUT")
      BY <1>1, <2>3
    <3>2. cancelled'[g] = FALSE
      BY <1>1, <2>3
    <3> QED  BY <3>1, <3>2
  <2> QED  BY <2>2, <2>3
<1> QED  BY <1>2, <1>3 DEF NotedOK

-----------------------------------------------------------------------------
(* Who schedules a fiber                                                   *)

(* A step that changes nothing of what concerns the fiber.                 *)
LEMMA WaitSame ==
    ASSUME NEW g \in Fibers, WaitOf(g), Registrations(g)' = Registrations(g),
           SleepTimers(g)' = SleepTimers(g), scheduled'[g] = scheduled[g],
           Waits(g)' <=> Waits(g)
    PROVE  WaitOf(g)'
<1>1. BySleep(g) => BySleep(g)'
  <2>1. SUFFICES ASSUME NEW x \in timers, SleepTimers(g) = {x} PROVE x \in timers'
    BY DEF BySleep
  <2> QED  BY <2>1 DEF SleepTimers
<1>2. (Unscheduled(g) => Unscheduled(g)') /\ (ByEvent(g) => ByEvent(g)') /\ (IsBack(g) => IsBack(g)')
  BY DEF Unscheduled, ByEvent, IsBack
<1> QED  BY <1>1, <1>2 DEF WaitOf

(* A step of a fiber that does not wait and none of events and timers.     *)
LEMMA WaitMoves ==
    ASSUME TInv, NEW f \in Fibers, NEW p, Goto(f, p), ~Waits(f), p \notin {"armed", "yield"},
           UNCHANGED <<reg, scheduled>>, \A g \in Fibers : SleepTimers(g)' = SleepTimers(g),
           \A g \in Fibers : WaitOf(g)
    PROVE  \A g \in Fibers : WaitOf(g)'
<1> TAKE g \in Fibers
<1>1. Waits(g)' <=> Waits(g)
  BY DEF TInv, FiberTypeOK, Goto, Waits
<1>2. Registrations(g)' = Registrations(g) /\ scheduled'[g] = scheduled[g]
  BY DEF Registrations
<1> QED  BY <1>1, <1>2, WaitSame

(* Timers of other calls than sleep() do not count.                        *)
LEMMA IoTimers ==
    ASSUME NEW X, \A x \in X : x.kind # "sleep", timers' \subseteq timers \cup X, timers \subseteq timers' \cup X,
           NEW g
    PROVE  SleepTimers(g)' = SleepTimers(g)
BY DEF SleepTimers

(* triggerEvent() moves a fiber from the event to the queue.               *)
LEMMA WakeWait ==
    ASSUME TInv, NEW fd \in Fds, NEW evs \in SUBSET Events, Wake(fd, evs),
           NEW g \in Fibers, WaitOf(g), SleepTimers(g)' = SleepTimers(g),
           Waits(g)' <=> Waits(g)
    PROVE  WaitOf(g)'
<1> DEFINE mine == {ev \in evs : reg[fd][ev].f = g}
<1>1. WakeTypeOK  BY DEF TInv
<1>2. /\ \A d \in Fds, e \in Events :
            reg'[d][e] = IF d = fd /\ e \in evs THEN NoReg ELSE reg[d][e]
      /\ scheduled'[g] = scheduled[g] + Cardinality(mine)
      /\ scheduled[g] \in Nat
  BY <1>1, WakeEffect DEF WakeTypeOK
<1>3. NoReg.f # g
  BY NullAssumption DEF NoReg
<1>4. Registrations(g)' = {r \in Registrations(g) : ~(r[1] = fd /\ r[2] \in evs)}
  <2>1. ASSUME NEW r \in Fds \X Events
        PROVE  reg'[r[1]][r[2]].f = g <=> reg[r[1]][r[2]].f = g /\ ~(r[1] = fd /\ r[2] \in evs)
    BY <1>2, <1>3
  <2> QED  BY <2>1 DEF Registrations
<1>5. \A ev \in evs : ev \in mine <=> <<fd, ev>> \in Registrations(g)
  BY DEF Registrations
<1>6. ASSUME mine = {} PROVE WaitOf(g)'
  <2>1. Cardinality(mine) = 0  BY <1>6, FS_EmptySet
  <2>2. scheduled'[g] = scheduled[g]  BY <1>2, <2>1
  <2>3. Registrations(g)' = Registrations(g)
    <3>1. ASSUME NEW r \in Registrations(g), r[1] = fd, r[2] \in evs PROVE FALSE
      <4>1. r = <<fd, r[2]>>  BY <3>1 DEF Registrations
      <4> QED  BY <3>1, <4>1, <1>5, <1>6
    <3> QED  BY <1>4, <3>1
  <2> QED  BY <2>2, <2>3, WaitSame
<1>7. ASSUME mine # {} PROVE WaitOf(g)'
  <2>1. PICK ev \in evs : <<fd, ev>> \in Registrations(g)
    BY <1>5, <1>7
  <2>2. Waits(g) /\ ByEvent(g)
    BY <2>1 DEF WaitOf, Unscheduled, BySleep, IsBack
  <2>3. Registrations(g) = {<<fd, ev>>} /\ SleepTimers(g) = {} /\ scheduled[g] = 0
    BY <2>1, <2>2 DEF ByEvent
  <2>4. mine = {ev}
    BY <1>5, <2>3
  <2>5. Cardinality(mine) = 1  BY <2>4, FS_Singleton
  <2>6. scheduled'[g] = 1  BY <1>2, <2>3, <2>5
  <2>7. Registrations(g)' = {}
    BY <1>4, <2>3
  <2> QED  BY <2>2, <2>3, <2>6, <2>7 DEF WaitOf, IsBack
<1> QED  BY <1>6, <1>7

-----------------------------------------------------------------------------
(* The steps of a fiber                                                    *)

(* A fiber that does not wait goes on with its call or returns, and        *)
(* neither the events nor the sleep timers change.                         *)
LEMMA Goes ==
    ASSUME IInv, NEW f \in Fibers, NEW p \in Points \ {"armed", "yield", "sleep"},
           pc[f] \notin {"idle", "armed", "yield"},
           Goto(f, p),
           \/ p # "idle" /\ ret' = ret
           \/ p = "idle" /\ \E r \in Results \ {"ETIMEDOUT"} : ret' = [ret EXCEPT ![f] = r],
           UNCHANGED <<reg, scheduled, call, cancelled, ncalls, fired>>,
           NEW X \in SUBSET Timers,
           \A x \in X : x.kind = "io" /\ x.st = "armed" /\ x.fd \in Fds,
           timers' \subseteq timers \cup X, timers \subseteq timers' \cup X,
           FileTypeOK', p \in {"try", "timer", "event"} => call[f].fd \in Fds
    PROVE  IInv'
<1>1. TInv /\ NotedOK /\ (\A g \in Fibers : WaitOf(g)) /\ reg' = reg /\ scheduled' = scheduled
  BY DEF IInv
<1>2. WakeTypeOK' /\ \A x \in timers' : x.kind = "io" => x.fd \in Fds
  BY <1>1 DEF TInv, WakeTypeOK, CallsOK
<1>3. FiberTypeOK' /\ \A g \in Fibers : CallOf(g)'
  <2>1. ret' = ret \/ \E r \in Results : ret' = [ret EXCEPT ![f] = r]  OBVIOUS
  <2> QED  BY <1>1, <2>1, FiberMoves
<1>4. NotedOK'
  <2>1. \/ p # "idle" /\ ret' = ret
        \/ \E r \in Results : /\ p = "idle" /\ ret' = [ret EXCEPT ![f] = r]
                              /\ r = "ETIMEDOUT" => cancelled[f]
    OBVIOUS
  <2>2. \A x \in timers' : x.st # "armed" => x \in timers  OBVIOUS
  <2> QED  BY <1>1, <2>1, <2>2, NotedMoves
<1>5. \A g \in Fibers : SleepTimers(g)' = SleepTimers(g)
  BY IoTimers
<1>6. \A g \in Fibers : WaitOf(g)'
  <2>1. ~Waits(f)  BY <1>1 DEF Waits
  <2> QED  BY <1>1, <1>5, <2>1, WaitMoves
<1> QED  BY <1>2, <1>3, <1>4, <1>6 DEF IInv, TInv, CallsOK

(* The same, when events and timers are left alone altogether.             *)
LEMMA GoesOn ==
    ASSUME IInv, NEW f \in Fibers, NEW p \in Points \ {"armed", "yield", "sleep"},
           pc[f] \notin {"idle", "armed", "yield"},
           Goto(f, p),
           \/ p # "idle" /\ ret' = ret
           \/ p = "idle" /\ \E r \in Results \ {"ETIMEDOUT"} : ret' = [ret EXCEPT ![f] = r],
           UNCHANGED <<wakeVars, call, cancelled, ncalls, fired>>,
           FileTypeOK', p \in {"try", "timer", "event"} => call[f].fd \in Fds
    PROVE  IInv'
<1>1. {} \in SUBSET Timers /\ timers' = timers /\ UNCHANGED <<reg, scheduled>>
  BY DEF wakeVars
<1> QED  BY <1>1, Goes

(* A fiber makes its next call, and events and timers are left alone.      *)
LEMMA CallBegins ==
    ASSUME IInv, NEW f \in Fibers, NEW op, NEW fd \in Fds \cup {Null}, NEW ev \in Events, NEW to,
           Begins(f, op, fd, ev, to), NEW p \in Points \ {"armed", "yield"}, Goto(f, p),
           \/ p # "idle" /\ ret' = ret
           \/ p = "idle" /\ \E r \in Results \ {"ETIMEDOUT"} : ret' = [ret EXCEPT ![f] = r],
           p \in {"try", "timer", "event"} => fd \in Fds, p = "sleep" => op = "sleep",
           UNCHANGED <<wakeVars, fired>>, FileTypeOK'
    PROVE  IInv'
<1>1. /\ TInv /\ NotedOK /\ \A g \in Fibers : WaitOf(g)
      /\ reg' = reg /\ timers' = timers /\ scheduled' = scheduled /\ pc[f] = "idle"
  BY DEF IInv, wakeVars, Begins
<1>2. WakeTypeOK' /\ \A x \in timers' : x.kind = "io" => x.fd \in Fds
  BY <1>1, SameWake
<1>3. FiberTypeOK' /\ \A g \in Fibers : CallOf(g)'
  <2>1. ret' = ret \/ \E r \in Results : ret' = [ret EXCEPT ![f] = r]  OBVIOUS
  <2> QED  BY <1>1, <2>1, FiberBegins
<1>4. NotedOK'
  <2>1. \/ p # "idle" /\ ret' = ret
        \/ \E r \in Results : p = "idle" /\ ret' = [ret EXCEPT ![f] = r] /\ r # "ETIMEDOUT"
    OBVIOUS
  <2> QED  BY <1>1, <2>1, NotedBegins
<1>5. \A g \in Fibers : SleepTimers(g)' = SleepTimers(g)
  BY <1>1 DEF SleepTimers
<1>6. \A g \in Fibers : WaitOf(g)'
  <2>1. ~Waits(f)  BY <1>1 DEF Waits
  <2> QED  BY <1>1, <1>5, <2>1, WaitMoves
<1> QED  BY <1>2, <1>3, <1>4, <1>6 DEF IInv, TInv, CallsOK

(* do_io()'s system call.                                                  *)
LEMMA TryKeeps ==
    ASSUME IInv, NEW f \in Fibers, Try(f)
    PROVE  IInv'
<1>1. /\ pc[f] = "try" /\ CallOf(f)
      /\ UNCHANGED <<gen, open, wakeVars, call, cancelled, ncalls, fired>>
  BY DEF Try, IInv, TInv, CallsOK
<1>2. FileTypeOK' /\ call[f].fd \in Fds
  BY <1>1 DEF IInv, TInv, FileTypeOK, CallOf
<1>3. PICK p \in {"idle", "accepted", "timer", "event"} :
        /\ Goto(f, p)
        /\ \/ p # "idle" /\ ret' = ret
           \/ p = "idle" /\ \E r \in {"ok", "EBADF"} : ret' = [ret EXCEPT ![f] = r]
  BY DEF Try, Return, Succeeds
<1>4. p \in Points \ {"armed", "yield", "sleep"} /\ pc[f] \notin {"idle", "armed", "yield"}
  BY <1>1 DEF Points
<1>5. \/ p # "idle" /\ ret' = ret
      \/ p = "idle" /\ \E r \in Results \ {"ETIMEDOUT"} : ret' = [ret EXCEPT ![f] = r]
  BY <1>3 DEF Results
<1> QED  BY <1>1, <1>2, <1>3, <1>4, <1>5, GoesOn

(* accept() makes the new descriptor known.                                *)
LEMMA AcceptedKeeps ==
    ASSUME IInv, NEW f \in Fibers, Accepted(f)
    PROVE  IInv'
<1>1. pc[f] = "accepted" /\ UNCHANGED <<wakeVars, call, cancelled, ncalls, fired>>
  BY DEF Accepted
<1>2. FileTypeOK'
  <2>1. FileTypeOK  BY DEF IInv, TInv
  <2>2. CASE \E fd \in Fds : NewFile(fd)
    BY <2>1, <2>2, NewFileType
  <2>3. CASE UNCHANGED fdVars
    BY <2>1, <2>3 DEF fdVars, FileTypeOK
  <2> QED  BY <2>2, <2>3 DEF Accepted
<1>3. Goto(f, "idle") /\ \E r \in {"ok", "EMFILE"} : ret' = [ret EXCEPT ![f] = r]
  BY DEF Accepted, Return
<1>4. "idle" \in Points \ {"armed", "yield", "sleep"} /\ pc[f] \notin {"idle", "armed", "yield"}
  BY <1>1 DEF Points
<1>5. \E r \in Results \ {"ETIMEDOUT"} : ret' = [ret EXCEPT ![f] = r]
  BY <1>3 DEF Results
<1> QED  BY <1>1, <1>2, <1>3, <1>4, <1>5, GoesOn

(* getsockopt(SO_ERROR), and the two steps of close().                     *)
LEMMA LastSteps ==
    ASSUME IInv, NEW f \in Fibers, SockError(f) \/ CloseDel(f) \/ CloseFile(f)
    PROVE  IInv'
<1>1. FileTypeOK'
  <2>1. FileTypeOK  BY DEF IInv, TInv
  <2>2. CASE UNCHANGED <<gen, open>>
    BY <2>1, <2>2 DEF FileTypeOK
  <2>3. CASE CloseFile(f)
    BY <2>1, <2>3 DEF FileTypeOK, CloseFile
  <2> QED  BY <2>2, <2>3 DEF SockError, CloseDel, fdVars
<1>2. /\ pc[f] \in {"sockerror", "del", "close"}
      /\ UNCHANGED <<wakeVars, call, cancelled, ncalls, fired>>
  BY DEF SockError, CloseDel, CloseFile
<1>3. PICK p \in {"idle", "close"} :
        /\ Goto(f, p)
        /\ \/ p # "idle" /\ ret' = ret
           \/ p = "idle" /\ \E r \in {"ok", "error"} : ret' = [ret EXCEPT ![f] = r]
  BY DEF SockError, CloseDel, CloseFile, Return
<1>4. p \in Points \ {"armed", "yield", "sleep"} /\ pc[f] \notin {"idle", "armed", "yield"}
  BY <1>2 DEF Points
<1>5. \/ p # "idle" /\ ret' = ret
      \/ p = "idle" /\ \E r \in Results \ {"ETIMEDOUT"} : ret' = [ret EXCEPT ![f] = r]
  BY <1>3 DEF Results
<1>6. p \notin {"try", "timer", "event"}  BY <1>3
<1> QED  BY <1>1, <1>2, <1>3, <1>4, <1>5, <1>6, GoesOn

(* addConditionTimer().                                                    *)
LEMMA AddTimerKeeps ==
    ASSUME IInv, NEW f \in Fibers, AddTimer(f)
    PROVE  IInv'
<1>1. /\ pc[f] = "timer" /\ CallOf(f) /\ ncalls[f] \in Nat
      /\ UNCHANGED <<fdVars, reg, scheduled, call, cancelled, ret, ncalls, fired>>
      /\ timers' = timers \cup {Timer("io", f, "armed")}
      /\ Goto(f, "event")
  BY DEF AddTimer, IInv, TInv, CallsOK, FiberTypeOK
<1>2. FileTypeOK' /\ call[f].fd \in Fds /\ call[f].ev \in Events
  BY <1>1 DEF IInv, TInv, FileTypeOK, CallOf, fdVars
<1>3. /\ {Timer("io", f, "armed")} \in SUBSET Timers
      /\ \A x \in {Timer("io", f, "armed")} : x.kind = "io" /\ x.st = "armed" /\ x.fd \in Fds
  BY <1>1, <1>2 DEF Timer, Timers
<1>4. /\ "event" \in Points \ {"armed", "yield", "sleep"} /\ pc[f] \notin {"idle", "armed", "yield"}
      /\ "event" # "idle" /\ ret' = ret /\ UNCHANGED <<reg, scheduled, call, cancelled, ncalls, fired>>
  BY <1>1 DEF Points
<1>5. timers' \subseteq timers \cup {Timer("io", f, "armed")} /\ timers \subseteq timers' \cup {Timer("io", f, "armed")}
  BY <1>1
<1> QED  BY <1>1, <1>2, <1>3, <1>4, <1>5, Goes

(* addEvent(): the fiber waits for the event, or its timer is cancelled.   *)
LEMMA AddEventKeeps ==
    ASSUME IInv, NEW f \in Fibers, AddEvent(f)
    PROVE  IInv'
<1>1. PICK fd, ev : fd = call[f].fd /\ ev = call[f].ev  OBVIOUS
<1>2. /\ pc[f] = "event" /\ CallOf(f) /\ ncalls[f] \in Nat /\ TInv /\ NotedOK /\ \A g \in Fibers : WaitOf(g)
      /\ fd \in Fds /\ ev \in Events
      /\ UNCHANGED <<fdVars, scheduled, call, cancelled, ncalls, fired>>
  BY <1>1 DEF AddEvent, IInv, TInv, CallsOK, FiberTypeOK, CallOf
<1>3. FileTypeOK'
  BY <1>2 DEF TInv, FileTypeOK, fdVars
<1>4. CASE UNCHANGED <<reg, timers, pc, ret>>
  <2>1. UNCHANGED <<wakeVars, call, cancelled, ncalls, fired, pc, ret>>
    BY <1>2, <1>4 DEF wakeVars
  <2>2. WakeTypeOK' /\ \A x \in timers' : x.kind = "io" => x.fd \in Fds
    BY <1>2, <2>1, SameWake
  <2>3. FiberTypeOK' /\ \A g \in Fibers : CallOf(g)'
    BY <1>2, <2>1 DEF TInv, FiberTypeOK, CallsOK, CallOf, Waits
  <2>4. NotedOK'
    BY <1>2, <1>4 DEF NotedOK
  <2>5. \A g \in Fibers : WaitOf(g)'
    BY <1>2, <1>4 DEF WaitOf, Waits, Unscheduled, ByEvent, BySleep, IsBack, Registrations, SleepTimers
  <2> QED  BY <1>3, <2>2, <2>3, <2>4, <2>5 DEF IInv, TInv, CallsOK
<1>5. CASE /\ reg[fd][ev] = NoReg /\ reg' = [reg EXCEPT ![fd][ev] = [f |-> f, gen |-> gen[fd]]]
           /\ Goto(f, "armed") /\ UNCHANGED <<timers, ret>>
  <2>1. /\ reg \in [Fds -> [Events -> Regs]] /\ gen[fd] \in Nat /\ reg[fd] \in [Events -> Regs]
        /\ scheduled' = scheduled /\ scheduled \in [Fibers -> Nat] /\ timers' = timers
    BY <1>2, <1>5 DEF TInv, WakeTypeOK, FileTypeOK
  <2>2. [f |-> f, gen |-> gen[fd]] \in Regs
    BY <2>1 DEF Regs
  <2>3. /\ reg' \in [Fds -> [Events -> Regs]]
        /\ \A d \in Fds, e \in Events :
              reg'[d][e] = IF d = fd /\ e = ev THEN [f |-> f, gen |-> gen[fd]] ELSE reg[d][e]
    BY <1>2, <1>5, <2>1, <2>2
  <2>4. WakeTypeOK' /\ \A x \in timers' : x.kind = "io" => x.fd \in Fds
    BY <1>2, <2>1, <2>3 DEF TInv, WakeTypeOK, CallsOK
  <2>5. /\ "armed" \in Points /\ "armed" \notin {"idle", "try", "timer", "event", "sleep"}
        /\ ret' = ret /\ UNCHANGED <<call, cancelled, ncalls, fired>>
        /\ call[f].fd \in Fds
    BY <1>1, <1>2, <1>5 DEF Points
  <2>6. FiberTypeOK' /\ \A g \in Fibers : CallOf(g)'
    BY <1>2, <1>5, <2>5, FiberMoves
  <2>7. NotedOK'
    <3>1. \A x \in timers' : x.st # "armed" => x \in timers  BY <2>1
    <3>2. pc[f] # "idle"  BY <1>2
    <3> QED  BY <1>2, <1>5, <2>5, <3>1, <3>2, NotedMoves
  <2>8. ASSUME NEW g \in Fibers PROVE WaitOf(g)'
    <3>1. reg[fd][ev].f # g
      BY <1>5, NullAssumption DEF NoReg
    <3>2. scheduled'[g] = scheduled[g] /\ SleepTimers(g)' = SleepTimers(g)
      BY <2>1 DEF SleepTimers
    <3>3. CASE g # f
      <4>1. \A r \in Fds \X Events : reg'[r[1]][r[2]].f = g <=> reg[r[1]][r[2]].f = g
        BY <2>3, <3>1, <3>3
      <4>2. Registrations(g)' = Registrations(g)
        BY <4>1 DEF Registrations
      <4>3. Waits(g)' <=> Waits(g)
        BY <1>2, <1>5, <3>3 DEF Goto, TInv, FiberTypeOK, Waits
      <4> QED  BY <1>2, <3>2, <4>2, <4>3, WaitSame
    <3>4. CASE g = f
      <4>1. Registrations(f) = {} /\ SleepTimers(f) = {} /\ scheduled[f] = 0
        BY <1>2 DEF WaitOf, Unscheduled, Waits
      <4>2. \A r \in Fds \X Events : reg'[r[1]][r[2]].f = f <=> r = <<fd, ev>>
        <5> TAKE r \in Fds \X Events
        <5>1. reg[r[1]][r[2]].f # f
          BY <4>1 DEF Registrations
        <5>2. CASE r = <<fd, ev>>
          BY <1>2, <2>3, <5>2
        <5>3. CASE r # <<fd, ev>>
          <6>1. ~(r[1] = fd /\ r[2] = ev) /\ r[1] \in Fds /\ r[2] \in Events
            BY <5>3
          <6> QED  BY <2>3, <5>1, <5>3, <6>1
        <5> QED  BY <5>2, <5>3
      <4>3. Registrations(f)' = {<<fd, ev>>}
        BY <1>2, <4>2 DEF Registrations
      <4>4. Waits(f)'
        BY <1>2, <1>5 DEF Goto, TInv, FiberTypeOK, Waits
      <4> QED  BY <1>2, <3>2, <3>4, <4>1, <4>3, <4>4 DEF WaitOf, ByEvent
    <3> QED  BY <3>3, <3>4
  <2> QED  BY <1>3, <2>4, <2>6, <2>7, <2>8 DEF IInv, TInv, CallsOK
<1>6. CASE /\ timers' = CancelTimer(f) /\ UNCHANGED reg
           /\ \/ Goto(f, "sockerror") /\ UNCHANGED ret
              \/ Return(f, "error")
  <2>1. /\ {Timer("io", f, "armed")} \in SUBSET Timers
        /\ \A x \in {Timer("io", f, "armed")} : x.kind = "io" /\ x.st = "armed" /\ x.fd \in Fds
    BY <1>1, <1>2 DEF Timer, Timers
  <2>2. timers' \subseteq timers \cup {Timer("io", f, "armed")} /\ timers \subseteq timers' \cup {Timer("io", f, "armed")}
    BY <1>6 DEF CancelTimer
  <2>3. PICK p \in {"idle", "sockerror"} :
          /\ Goto(f, p)
          /\ \/ p # "idle" /\ ret' = ret
             \/ p = "idle" /\ ret' = [ret EXCEPT ![f] = "error"]
    BY <1>6 DEF Return
  <2>4. p \in Points \ {"armed", "yield", "sleep"} /\ pc[f] \notin {"idle", "armed", "yield"} /\ p \notin {"try", "timer", "event"}
    BY <1>2, <2>3 DEF Points
  <2>5. \/ p # "idle" /\ ret' = ret
        \/ p = "idle" /\ \E r \in Results \ {"ETIMEDOUT"} : ret' = [ret EXCEPT ![f] = r]
    BY <2>3 DEF Results
  <2>6. UNCHANGED <<reg, scheduled, call, cancelled, ncalls, fired>>
    BY <1>2, <1>6
  <2> QED  BY <1>3, <2>1, <2>2, <2>3, <2>4, <2>5, <2>6, Goes
<1> QED  BY <1>1, <1>4, <1>5, <1>6 DEF AddEvent

(* sleep() adds its timer.                                                 *)
LEMMA AddSleepTimerKeeps ==
    ASSUME IInv, NEW f \in Fibers, AddSleepTimer(f)
    PROVE  IInv'
<1>1. PICK t : t = Timer("sleep", f, "armed")  OBVIOUS
<1>2. /\ pc[f] = "sleep" /\ CallOf(f) /\ ncalls[f] \in Nat /\ TInv /\ NotedOK /\ \A g \in Fibers : WaitOf(g)
      /\ UNCHANGED <<fdVars, reg, scheduled, call, cancelled, ret, ncalls, fired>>
      /\ Goto(f, "armed") /\ timers' = timers \cup {t} /\ scheduled' = scheduled /\ reg' = reg
  BY <1>1 DEF AddSleepTimer, IInv, TInv, CallsOK, FiberTypeOK
<1>3. FileTypeOK'
  BY <1>2 DEF TInv, FileTypeOK, fdVars
<1>4. t \in Timers /\ t.kind = "sleep" /\ t.f = f /\ t.st = "armed"
  BY <1>1, <1>2 DEF Timer, Timers, CallOf
<1>5. WakeTypeOK' /\ \A x \in timers' : x.kind = "io" => x.fd \in Fds
  BY <1>2, <1>4 DEF TInv, WakeTypeOK, CallsOK
<1>6. /\ "armed" \in Points /\ "armed" \notin {"idle", "try", "timer", "event", "sleep"}
      /\ call[f].op = "sleep" /\ pc[f] # "idle"
  BY <1>2 DEF Points, CallOf
<1>7. FiberTypeOK' /\ \A g \in Fibers : CallOf(g)'
  BY <1>2, <1>6, FiberMoves
<1>8. NotedOK'
  <2>1. \A x \in timers' : x.st # "armed" => x \in timers  BY <1>2, <1>4
  <2>2. "armed" # "idle" /\ ret' = ret /\ UNCHANGED <<cancelled, ncalls, fired>>  BY <1>2
  <2> QED  BY <1>2, <1>6, <2>1, <2>2, NotedMoves
<1>9. ASSUME NEW g \in Fibers PROVE WaitOf(g)'
  <2>1. Registrations(g)' = Registrations(g) /\ scheduled'[g] = scheduled[g]
    BY <1>2 DEF Registrations
  <2>2. CASE g # f
    <3>1. SleepTimers(g)' = SleepTimers(g)
      BY <1>2, <1>4, <2>2 DEF SleepTimers
    <3>2. Waits(g)' <=> Waits(g)
      BY <1>2, <2>2 DEF Goto, TInv, FiberTypeOK, Waits
    <3> QED  BY <1>2, <2>1, <3>1, <3>2, WaitSame
  <2>3. CASE g = f
    <3>1. Registrations(f) = {} /\ SleepTimers(f) = {} /\ scheduled[f] = 0
      BY <1>2 DEF WaitOf, Unscheduled, Waits
    <3>2. SleepTimers(f)' = {t} /\ t \in timers'
      BY <1>2, <1>4, <3>1 DEF SleepTimers
    <3>3. Waits(f)'
      BY <1>2 DEF Goto, TInv, FiberTypeOK, Waits
    <3> QED  BY <2>1, <2>3, <3>1, <3>2, <3>3 DEF WaitOf, BySleep
  <2> QED  BY <2>2, <2>3
<1> QED  BY <1>3, <1>5, <1>7, <1>8, <1>9 DEF IInv, TInv, CallsOK

(* The fiber yields, with its wake-up registered or already in the queue.  *)
LEMMA YieldKeeps ==
    ASSUME IInv, NEW f \in Fibers, Yield(f)
    PROVE  IInv'
<1>1. /\ pc[f] = "armed" /\ Goto(f, "yield") /\ CallOf(f)
      /\ UNCHANGED <<fdVars, wakeVars, call, cancelled, ret, ncalls, fired>>
      /\ TInv /\ NotedOK /\ \A g \in Fibers : WaitOf(g)
  BY DEF Yield, IInv, TInv, CallsOK
<1>2. FileTypeOK'
  BY <1>1 DEF TInv, FileTypeOK, fdVars
<1>3. WakeTypeOK' /\ \A x \in timers' : x.kind = "io" => x.fd \in Fds
  BY <1>1, SameWake
<1>4. /\ "yield" \in Points /\ "yield" \notin {"idle", "try", "timer", "event", "sleep"}
      /\ call[f].fd \in Fds \/ call[f].op = "sleep"
      /\ pc[f] # "idle" /\ ret' = ret /\ timers' = timers
  BY <1>1 DEF Points, CallOf, Waits, wakeVars
<1>5. FiberTypeOK' /\ \A g \in Fibers : CallOf(g)'
  BY <1>1, <1>4, FiberMoves
<1>6. NotedOK'
  <2>1. \A x \in timers' : x.st # "armed" => x \in timers  BY <1>4
  <2> QED  BY <1>1, <1>4, <2>1, NotedMoves
<1>7. ASSUME NEW g \in Fibers PROVE WaitOf(g)'
  <2>1. Waits(g)' <=> Waits(g)
    BY <1>1 DEF Goto, TInv, FiberTypeOK, Waits
  <2>2. /\ Registrations(g)' = Registrations(g) /\ SleepTimers(g)' = SleepTimers(g)
        /\ scheduled'[g] = scheduled[g]
    BY <1>1 DEF wakeVars, Registrations, SleepTimers
  <2> QED  BY <1>1, <2>1, <2>2, WaitSame
<1> QED  BY <1>2, <1>3, <1>5, <1>6, <1>7 DEF IInv, TInv, CallsOK

(* The fiber comes back from yield().                                      *)
LEMMA ResumeKeeps ==
    ASSUME IInv, NEW f \in Fibers, Resume(f)
    PROVE  IInv'
<1>1. PICK t : t = Timer("io", f, "armed")  OBVIOUS
<1>2. /\ pc[f] = "yield" /\ CallOf(f) /\ TInv /\ NotedOK /\ \A g \in Fibers : WaitOf(g)
      /\ UNCHANGED <<fdVars, reg, call, cancelled, ncalls, fired>> /\ reg' = reg
      /\ timers' = timers \ {t} /\ scheduled[f] > 0
      /\ scheduled' = [scheduled EXCEPT ![f] = scheduled[f] - 1]
      /\ scheduled \in [Fibers -> Nat] /\ pc \in [Fibers -> Points]
  BY <1>1 DEF Resume, IsScheduled, CancelTimer, IInv, TInv, CallsOK, FiberTypeOK, WakeTypeOK
<1>3. FileTypeOK'
  BY <1>2 DEF TInv, FileTypeOK, fdVars
<1>4. Registrations(f) = {} /\ SleepTimers(f) = {} /\ scheduled[f] = 1
  BY <1>2 DEF WaitOf, Waits, ByEvent, BySleep, IsBack
<1>5. scheduled' \in [Fibers -> Nat] /\ scheduled'[f] = 0 /\ \A g \in Fibers \ {f} : scheduled'[g] = scheduled[g]
  BY <1>2, <1>4
<1>6. WakeTypeOK' /\ \A x \in timers' : x.kind = "io" => x.fd \in Fds
  BY <1>2, <1>5 DEF TInv, WakeTypeOK, CallsOK
<1>7. PICK p \in {"idle", "sockerror", "try"} :
        /\ Goto(f, p)
        /\ p = "try" => call[f].op # "sleep"
        /\ \/ p # "idle" /\ ret' = ret
           \/ p = "idle" /\ \E r \in {"ETIMEDOUT", "ok"} : /\ ret' = [ret EXCEPT ![f] = r]
                                                           /\ r = "ETIMEDOUT" => cancelled[f]
  BY DEF Resume, Return
<1>8. /\ p \in Points /\ p # "sleep" /\ p \notin {"armed", "yield"} /\ pc[f] # "idle"
      /\ p \in {"try", "timer", "event"} => call[f].fd \in Fds
  BY <1>2, <1>7 DEF Points, CallOf, Waits
<1>9. \/ p # "idle" /\ ret' = ret
      \/ \E r \in Results : /\ p = "idle" /\ ret' = [ret EXCEPT ![f] = r]
                            /\ r = "ETIMEDOUT" => cancelled[f]
  BY <1>7 DEF Results
<1>10. FiberTypeOK' /\ \A g \in Fibers : CallOf(g)'
  <2>1. ret' = ret \/ \E r \in Results : ret' = [ret EXCEPT ![f] = r]  BY <1>9
  <2> QED  BY <1>2, <1>7, <1>8, <2>1, FiberMoves
<1>11. NotedOK'
  <2>1. \A x \in timers' : x.st # "armed" => x \in timers  BY <1>2
  <2> QED  BY <1>2, <1>7, <1>8, <1>9, <2>1, NotedMoves
<1>12. ASSUME NEW g \in Fibers PROVE WaitOf(g)'
  <2>1. Registrations(g)' = Registrations(g)
    BY <1>2 DEF Registrations
  <2>2. SleepTimers(g)' = SleepTimers(g)
    <3>1. t.kind = "io"  BY <1>1 DEF Timer
    <3> QED  BY <1>2, <3>1 DEF SleepTimers
  <2>3. CASE g # f
    <3>1. (Waits(g)' <=> Waits(g)) /\ scheduled'[g] = scheduled[g]
      BY <1>2, <1>5, <1>7, <2>3 DEF Goto, Waits
    <3> QED  BY <1>2, <2>1, <2>2, <3>1, WaitSame
  <2>4. CASE g = f
    <3>1. ~Waits(f)'  BY <1>2, <1>7, <1>8 DEF Goto, Waits
    <3> QED  BY <1>4, <1>5, <2>1, <2>2, <2>4, <3>1 DEF WaitOf, Unscheduled
  <2> QED  BY <2>3, <2>4
<1> QED  BY <1>3, <1>6, <1>10, <1>11, <1>12 DEF IInv, TInv, CallsOK

-----------------------------------------------------------------------------
(* The users' calls                                                        *)

(* read(), write(), accept() and the like.                                 *)
LEMMA DoIoKeeps ==
    ASSUME IInv, NEW f \in Fibers, NEW op \in {"io", "accept"}, NEW fd \in Fds, NEW ev \in Events,
           do_io(f, op, fd, ev)
    PROVE  IInv'
<1>1. UNCHANGED <<gen, open>> /\ UNCHANGED <<wakeVars, fired>>
  BY DEF do_io
<1>2. FileTypeOK'
  BY <1>1 DEF IInv, TInv, FileTypeOK
<1>3. PICK to \in {FALSE, ctx[fd].to[ev]} : Begins(f, op, fd, ev, to)
  BY DEF do_io
<1>4. PICK p \in {"idle", "accepted", "try"} :
        /\ Goto(f, p)
        /\ \/ p # "idle" /\ ret' = ret
           \/ p = "idle" /\ \E r \in {"ok", "EAGAIN", "EBADF"} : ret' = [ret EXCEPT ![f] = r]
  BY DEF do_io, Succeeds, Return
<1>5. p \in Points \ {"armed", "yield"} /\ p # "sleep" /\ fd \in Fds \cup {Null}
  BY <1>4 DEF Points
<1>6. \/ p # "idle" /\ ret' = ret
      \/ p = "idle" /\ \E r \in Results \ {"ETIMEDOUT"} : ret' = [ret EXCEPT ![f] = r]
  BY <1>4 DEF Results
<1> QED  BY <1>1, <1>2, <1>3, <1>4, <1>5, <1>6, CallBegins

(* connect().                                                              *)
LEMMA ConnectKeeps ==
    ASSUME IInv, NEW f \in Fibers, NEW fd \in Fds, NEW to \in Timeouts, connect(f, fd, to)
    PROVE  IInv'
<1>1. /\ UNCHANGED <<gen, open>> /\ UNCHANGED <<wakeVars, fired>>
      /\ Begins(f, "connect", fd, "WRITE", to)
  BY DEF connect
<1>2. FileTypeOK'
  BY <1>1 DEF IInv, TInv, FileTypeOK
<1>3. PICK p \in {"idle", "timer", "event"} :
        /\ Goto(f, p)
        /\ \/ p # "idle" /\ ret' = ret
           \/ p = "idle" /\ \E r \in {"ok", "error", "EINPROGRESS"} : ret' = [ret EXCEPT ![f] = r]
  BY DEF connect, Return
<1>4. p \in Points \ {"armed", "yield"} /\ p # "sleep" /\ fd \in Fds \cup {Null} /\ "WRITE" \in Events
  BY <1>3 DEF Points, Events
<1>5. \/ p # "idle" /\ ret' = ret
      \/ p = "idle" /\ \E r \in Results \ {"ETIMEDOUT"} : ret' = [ret EXCEPT ![f] = r]
  BY <1>3 DEF Results
<1> QED  BY <1>1, <1>2, <1>3, <1>4, <1>5, CallBegins

(* sleep().                                                                *)
LEMMA SleepKeeps ==
    ASSUME IInv, NEW f \in Fibers, sleep(f)
    PROVE  IInv'
<1>1. /\ UNCHANGED fdVars /\ UNCHANGED <<wakeVars, fired>> /\ ret' = ret
      /\ Begins(f, "sleep", Null, "READ", FALSE) /\ Goto(f, "sleep")
  BY DEF sleep
<1>2. FileTypeOK'
  BY <1>1 DEF IInv, TInv, FileTypeOK, fdVars
<1>3. /\ "sleep" \in Points \ {"armed", "yield"} /\ "sleep" \notin {"idle", "try", "timer", "event"}
      /\ Null \in Fds \cup {Null} /\ "READ" \in Events
  BY DEF Points, Events
<1> QED  BY <1>1, <1>2, <1>3, CallBegins

(* A step that concerns files only.                                        *)
LEMMA FilesOnly ==
    ASSUME IInv, UNCHANGED <<wakeVars, fiberVars, fired>>, FileTypeOK'
    PROVE  IInv'
<1>1. UNCHANGED <<reg, timers, scheduled, pc, call, cancelled, ret, ncalls, fired>>
  BY DEF wakeVars, fiberVars
<1>2. WakeTypeOK' /\ FiberTypeOK' /\ CallsOK'
  BY <1>1 DEF IInv, TInv, WakeTypeOK, FiberTypeOK, CallsOK, CallOf, Waits
<1>3. NotedOK'
  BY <1>1 DEF IInv, NotedOK
<1>4. \A g \in Fibers : WaitOf(g)'
  BY <1>1 DEF IInv, WaitOf, Waits, Unscheduled, ByEvent, BySleep, IsBack, Registrations, SleepTimers
<1> QED  BY <1>2, <1>3, <1>4 DEF IInv, TInv

(* close() wakes those who wait before the descriptor goes.                *)
LEMMA CloseKeeps ==
    ASSUME IInv, NEW f \in Fibers, NEW fd \in Fds, close(f, fd)
    PROVE  IInv'
<1>1. /\ UNCHANGED fdVars /\ timers' = timers /\ fired' = fired /\ ret' = ret
      /\ Begins(f, "close", fd, "READ", FALSE) /\ pc[f] = "idle"
      /\ TInv /\ NotedOK /\ \A g \in Fibers : WaitOf(g)
  BY DEF close, IInv, Begins
<1>2. FileTypeOK'
  BY <1>1 DEF TInv, FileTypeOK, fdVars
<1>3. PICK p \in {"del", "close"} : Goto(f, p)
  BY DEF close
<1>4. /\ p \in Points /\ p \notin {"idle", "armed", "yield", "sleep", "try", "timer", "event"}
      /\ fd \in Fds \cup {Null} /\ "READ" \in Events
  BY <1>3 DEF Points, Events
<1>5. CASE UNCHANGED <<reg, scheduled>>
  <2>1. UNCHANGED <<wakeVars, fired>>  BY <1>1, <1>5 DEF wakeVars
  <2>2. p \in Points \ {"armed", "yield"}  BY <1>4
  <2> QED  BY <1>1, <1>2, <1>3, <1>4, <2>1, <2>2, CallBegins
<1>6. CASE Cancel(fd, Events)
  <2>1. PICK evs : evs = {ev \in Events : Watched(fd, ev)}  OBVIOUS
  <2>2. evs \in SUBSET Events /\ Wake(fd, evs)
    BY <1>6, <2>1 DEF Cancel
  <2>3. WakeTypeOK' /\ \A x \in timers' : x.kind = "io" => x.fd \in Fds
    <3>1. WakeTypeOK  BY <1>1 DEF TInv
    <3>2. reg' \in [Fds -> [Events -> Regs]] /\ scheduled' \in [Fibers -> Nat]
      BY <2>2, <3>1, WakeEffect
    <3> QED  BY <1>1, <3>1, <3>2 DEF TInv, CallsOK, WakeTypeOK
  <2>4. FiberTypeOK' /\ \A g \in Fibers : CallOf(g)'
    BY <1>1, <1>3, <1>4, FiberBegins
  <2>5. NotedOK'
    BY <1>1, <1>3, <1>4, NotedBegins
  <2>6. ASSUME NEW g \in Fibers PROVE WaitOf(g)'
    <3>1. Waits(g)' <=> Waits(g)
      BY <1>1, <1>3, <1>4 DEF Goto, TInv, FiberTypeOK, Waits
    <3>2. SleepTimers(g)' = SleepTimers(g)
      BY <1>1 DEF SleepTimers
    <3> QED  BY <1>1, <2>2, <3>1, <3>2, WakeWait
  <2> QED  BY <1>2, <2>3, <2>4, <2>5, <2>6 DEF IInv, TInv, CallsOK
<1> QED  BY <1>5, <1>6 DEF close

-----------------------------------------------------------------------------
(* Events and timers                                                       *)

(* triggerEvent(), from idle() or cancelEvent().                           *)
LEMMA WakeKeeps ==
    ASSUME IInv, NEW fd \in Fds, NEW evs \in SUBSET Events, Wake(fd, evs),
           timers' \subseteq timers, \A x \in timers \ timers' : x.kind = "io",
           UNCHANGED <<fdVars, fiberVars, fired>>
    PROVE  IInv'
<1>1. UNCHANGED <<gen, open, pc, call, cancelled, ret, ncalls, fired>>
  BY DEF fdVars, fiberVars
<1>2. TInv /\ NotedOK /\ \A g \in Fibers : WaitOf(g)
  BY DEF IInv
<1>3. WakeTypeOK'
  <2>1. WakeTypeOK  BY <1>2 DEF TInv
  <2>2. reg' \in [Fds -> [Events -> Regs]] /\ scheduled' \in [Fibers -> Nat]
    BY <2>1, WakeEffect
  <2> QED  BY <2>1, <2>2 DEF WakeTypeOK
<1>4. FileTypeOK' /\ FiberTypeOK' /\ CallsOK'
  BY <1>1, <1>2 DEF TInv, FileTypeOK, FiberTypeOK, CallsOK, CallOf, Waits
<1>5. NotedOK'
  BY <1>1, <1>2 DEF NotedOK
<1>6. ASSUME NEW g \in Fibers PROVE WaitOf(g)'
  <2>1. SleepTimers(g)' = SleepTimers(g)
    BY DEF SleepTimers
  <2>2. Waits(g)' <=> Waits(g)
    BY <1>1 DEF Waits
  <2> QED  BY <1>2, <2>1, <2>2, WakeWait
<1> QED  BY <1>3, <1>4, <1>5, <1>6 DEF IInv, TInv

(* idle() finds the descriptor ready; a noted timeout cancels the event.   *)
LEMMA EventsKeep ==
    ASSUME IInv, EventStep \/ \E x \in timers : CancelEvent(x)
    PROVE  IInv'
<1>1. CASE EventStep
  <2>1. PICK fd \in Fds, ev \in Events : Trigger(fd, ev)
    BY <1>1 DEF EventStep
  <2>2. /\ Wake(fd, {ev}) /\ {ev} \in SUBSET Events /\ timers' = timers
        /\ UNCHANGED <<fdVars, fiberVars, fired>>
    BY <2>1 DEF Trigger
  <2> QED  BY <2>2, WakeKeeps
<1>2. CASE \E x \in timers : CancelEvent(x)
  <2>1. PICK x \in timers : CancelEvent(x)
    BY <1>2
  <2>2. x.fd \in Fds /\ x.ev \in Events
    BY <2>1 DEF CancelEvent, IInv, TInv, CallsOK, WakeTypeOK, Timers
  <2>3. PICK evs : evs = {ev \in {x.ev} : Watched(x.fd, ev)}  OBVIOUS
  <2>4. evs \in SUBSET Events /\ Wake(x.fd, evs)
    BY <2>1, <2>2, <2>3 DEF CancelEvent, Cancel
  <2>5. timers' \subseteq timers /\ (\A y \in timers \ timers' : y.kind = "io") /\ UNCHANGED <<fdVars, fiberVars, fired>>
    BY <2>1 DEF CancelEvent
  <2> QED  BY <2>2, <2>4, <2>5, WakeKeeps
<1> QED  BY <1>1, <1>2

(* The timer manager collects a timer.                                     *)
LEMMA ExpireKeeps ==
    ASSUME IInv, NEW x \in timers, Expire(x)
    PROVE  IInv'
<1>1. PICK y : y = [x EXCEPT !.st = "collected"]  OBVIOUS
<1>2. /\ timers' = (timers \ {x}) \cup {y} /\ fired' = fired \cup {<<x.f, x.n>>} /\ x.st = "armed"
      /\ UNCHANGED <<gen, open, reg, scheduled, pc, call, cancelled, ret, ncalls>>
      /\ TInv /\ NotedOK /\ \A g \in Fibers : WaitOf(g)
  BY <1>1 DEF Expire, fdVars, fiberVars, IInv
<1>3. x \in Timers
  BY <1>2 DEF TInv, WakeTypeOK
<1>4. y \in Timers /\ y.kind = x.kind /\ y.f = x.f /\ y.n = x.n /\ y.fd = x.fd /\ y # x
  BY <1>1, <1>2, <1>3 DEF Timers
<1>5. WakeTypeOK' /\ FileTypeOK' /\ FiberTypeOK'
  BY <1>2, <1>4 DEF TInv, WakeTypeOK, FileTypeOK, FiberTypeOK
<1>6. CallsOK'
  BY <1>2, <1>4 DEF TInv, CallsOK, CallOf, Waits
<1>7. NotedOK'
  <2>1. \A z \in timers' : z.st # "armed" => <<z.f, z.n>> \in fired'
    BY <1>2, <1>4 DEF NotedOK
  <2> QED  BY <1>2, <2>1 DEF NotedOK
<1>8. ASSUME NEW g \in Fibers PROVE WaitOf(g)'
  <2>1. Registrations(g)' = Registrations(g) /\ scheduled'[g] = scheduled[g] /\ (Waits(g)' <=> Waits(g)) /\ WaitOf(g)
    BY <1>2 DEF Registrations, Waits
  <2>2. CASE x.kind = "sleep" /\ x.f = g
    <3>1. x \in SleepTimers(g)
      BY <2>2 DEF SleepTimers
    <3>2. Waits(g) /\ BySleep(g)
      BY <2>1, <3>1 DEF WaitOf, Unscheduled, ByEvent, IsBack
    <3>3. SleepTimers(g) = {x}
      BY <3>1, <3>2 DEF BySleep
    <3>4. SleepTimers(g)' = {y} /\ y \in timers'
      BY <1>2, <1>4, <2>2, <3>3 DEF SleepTimers
    <3> QED  BY <2>1, <3>2, <3>4 DEF WaitOf, BySleep
  <2>3. CASE ~(x.kind = "sleep" /\ x.f = g)
    <3>1. SleepTimers(g)' = SleepTimers(g)
      BY <1>2, <1>4, <2>3 DEF SleepTimers
    <3> QED  BY <2>1, <3>1, WaitSame
  <2> QED  BY <2>2, <2>3
<1> QED  BY <1>5, <1>6, <1>7, <1>8 DEF IInv, TInv

(* The condition timer's callback.                                         *)
LEMMA TimedOutKeeps ==
    ASSUME IInv, NEW x \in timers, TimedOut(x)
    PROVE  IInv'
<1>1. PICK y : y = [x EXCEPT !.st = "noted"]  OBVIOUS
<1>2. /\ x.kind = "io" /\ x.st = "collected"
      /\ UNCHANGED <<gen, open, reg, scheduled, pc, call, ret, ncalls, fired>>
      /\ TInv /\ NotedOK /\ \A g \in Fibers : WaitOf(g)
      /\ cancelled \in [Fibers -> BOOLEAN]
  BY DEF TimedOut, fdVars, IInv, TInv, FiberTypeOK
<1>3. x \in Timers /\ x.f \in Fibers
  BY <1>2 DEF TInv, WakeTypeOK, Timers
<1>4. y \in Timers /\ y.kind = "io" /\ y.f = x.f /\ y.n = x.n /\ y.fd = x.fd
  BY <1>1, <1>2, <1>3 DEF Timers
<1>5. timers' \subseteq timers \cup {y} /\ timers \subseteq timers' \cup {x}
  BY <1>1 DEF TimedOut
<1>6. \/ cancelled' = cancelled
      \/ cancelled' = [cancelled EXCEPT ![x.f] = TRUE] /\ ncalls[x.f] = x.n
  BY DEF TimedOut, Locks
<1>7. WakeTypeOK' /\ FileTypeOK' /\ FiberTypeOK'
  <2>1. cancelled' \in [Fibers -> BOOLEAN]
    BY <1>2, <1>3, <1>6
  <2> QED  BY <1>2, <1>4, <1>5, <2>1 DEF TInv, WakeTypeOK, FileTypeOK, FiberTypeOK
<1>8. CallsOK'
  BY <1>2, <1>4, <1>5 DEF TInv, CallsOK, CallOf, Waits
<1>9. <<x.f, x.n>> \in fired
  BY <1>2 DEF NotedOK
<1>10. NotedOK'
  <2>1. \A z \in timers' : z.st # "armed" => <<z.f, z.n>> \in fired'
    BY <1>2, <1>4, <1>5, <1>9 DEF NotedOK
  <2>2. ASSUME NEW g \in Fibers, pc'[g] # "idle", cancelled'[g] PROVE <<g, ncalls'[g]>> \in fired'
    <3>1. CASE cancelled[g]
      BY <1>2, <2>2, <3>1 DEF NotedOK
    <3>2. CASE ~cancelled[g]
      <4>1. g = x.f /\ ncalls[x.f] = x.n
        BY <1>2, <1>3, <1>6, <2>2, <3>2
      <4> QED  BY <1>2, <1>9, <4>1
    <3> QED  BY <3>1, <3>2
  <2>3. \A g \in Fibers : pc'[g] = "idle" /\ ret'[g] = "ETIMEDOUT" => <<g, ncalls'[g]>> \in fired'
    BY <1>2 DEF NotedOK
  <2> QED  BY <2>1, <2>2, <2>3 DEF NotedOK
<1>11. ASSUME NEW g \in Fibers PROVE WaitOf(g)'
  <2>1. Registrations(g)' = Registrations(g) /\ scheduled'[g] = scheduled[g] /\ (Waits(g)' <=> Waits(g)) /\ WaitOf(g)
    BY <1>2 DEF Registrations, Waits
  <2>2. SleepTimers(g)' = SleepTimers(g)
    BY <1>2, <1>4, <1>5 DEF SleepTimers
  <2> QED  BY <2>1, <2>2, WaitSame
<1> QED  BY <1>7, <1>8, <1>10, <1>11 DEF IInv, TInv

(* The end of a sleep schedules the fiber.                                 *)
LEMMA SleepOverKeeps ==
    ASSUME IInv, NEW x \in timers, SleepOver(x)
    PROVE  IInv'
<1>1. /\ x.kind = "sleep" /\ timers' = timers \ {x}
      /\ scheduled' = [scheduled EXCEPT ![x.f] = scheduled[x.f] + 1]
      /\ UNCHANGED <<gen, open, reg, pc, call, cancelled, ret, ncalls, fired>>
      /\ TInv /\ NotedOK /\ \A g \in Fibers : WaitOf(g)
      /\ scheduled \in [Fibers -> Nat] /\ x \in Timers
  BY DEF SleepOver, fdVars, fiberVars, IInv, TInv, WakeTypeOK
<1>2. x.f \in Fibers
  BY <1>1 DEF Timers
<1>3. scheduled' \in [Fibers -> Nat] /\ scheduled'[x.f] = scheduled[x.f] + 1
      /\ \A g \in Fibers \ {x.f} : scheduled'[g] = scheduled[g]
  BY <1>1, <1>2
<1>4. WakeTypeOK' /\ FileTypeOK' /\ FiberTypeOK' /\ CallsOK'
  BY <1>1, <1>3 DEF TInv, WakeTypeOK, FileTypeOK, FiberTypeOK, CallsOK, CallOf, Waits
<1>5. NotedOK'
  BY <1>1 DEF NotedOK
<1>6. ASSUME NEW g \in Fibers PROVE WaitOf(g)'
  <2>1. Registrations(g)' = Registrations(g) /\ (Waits(g)' <=> Waits(g)) /\ WaitOf(g)
    BY <1>1 DEF Registrations, Waits
  <2>2. CASE g = x.f
    <3>1. x \in SleepTimers(g)
      BY <1>1, <2>2 DEF SleepTimers
    <3>2. Waits(g) /\ BySleep(g)
      BY <2>1, <3>1 DEF WaitOf, Unscheduled, ByEvent, IsBack
    <3>3. SleepTimers(g) = {x} /\ Registrations(g) = {} /\ scheduled[g] = 0
      BY <3>1, <3>2 DEF BySleep
    <3>4. SleepTimers(g)' = {} /\ scheduled'[g] = 1
      BY <1>1, <1>3, <2>2, <3>3 DEF SleepTimers
    <3> QED  BY <2>1, <3>2, <3>3, <3>4 DEF WaitOf, IsBack
  <2>3. CASE g # x.f
    <3>1. SleepTimers(g)' = SleepTimers(g) /\ scheduled'[g] = scheduled[g]
      BY <1>1, <1>3, <2>3 DEF SleepTimers
    <3> QED  BY <2>1, <3>1, WaitSame
  <2> QED  BY <2>2, <2>3
<1> QED  BY <1>4, <1>5, <1>6 DEF IInv, TInv

(* socket(), the settings of a descriptor, and what its peer does.         *)
LEMMA FileStepsKeep ==
    ASSUME IInv, NEW fd \in Fds,
           \/ \E f \in Fibers : socket(f, fd)
           \/ Settings(fd)
           \/ Connects(fd) \/ \E ev \in Events : BecomesReady(fd, ev)
    PROVE  IInv'
<1>1. FileTypeOK
  BY DEF IInv, TInv
<1>2. CASE \E f \in Fibers : socket(f, fd)
  <2>1. NewFile(fd) /\ UNCHANGED <<wakeVars, fiberVars, fired>>
    BY <1>2 DEF socket
  <2> QED  BY <1>1, <2>1, NewFileType, FilesOnly
<1>3. CASE Settings(fd)
  <2>1. /\ UNCHANGED <<wakeVars, fiberVars, fired>> /\ gen' = gen /\ open' = open
    BY <1>3 DEF Settings, fcntl, ioctl, setsockopt
  <2>2. FileTypeOK'
    BY <1>1, <2>1 DEF FileTypeOK
  <2> QED  BY <2>1, <2>2, FilesOnly
<1>4. CASE Connects(fd) \/ \E ev \in Events : BecomesReady(fd, ev)
  <2>1. UNCHANGED <<wakeVars, fiberVars, fired>> /\ UNCHANGED <<gen, open>>
    BY <1>4 DEF Connects, BecomesReady
  <2>2. FileTypeOK'
    BY <1>1, <2>1 DEF FileTypeOK
  <2> QED  BY <2>1, <2>2, FilesOnly
<1> QED  BY <1>2, <1>3, <1>4

(* The program starts without calls, events and timers.                    *)
LEMMA InitIInv == Init => IInv
<1> SUFFICES ASSUME Init PROVE IInv
  OBVIOUS
<1>1. FileTypeOK
  BY DEF Init, FileTypeOK
<1>2. NoReg \in Regs
  BY DEF NoReg, Regs
<1>3. WakeTypeOK
  BY <1>2 DEF Init, WakeTypeOK
<1>4. FiberTypeOK
  BY DEF Init, FiberTypeOK, Points, Results
<1>5. CallsOK
  BY DEF Init, CallsOK, CallOf, NoCall, Events, Waits
<1>6. NotedOK
  BY DEF Init, NotedOK
<1>7. ASSUME NEW f \in Fibers PROVE WaitOf(f)
  <2>1. \A r \in Fds \X Events : reg[r[1]][r[2]].f # f
    BY NullAssumption DEF Init, NoReg
  <2>2. Registrations(f) = {} /\ SleepTimers(f) = {} /\ scheduled[f] = 0
    BY <2>1 DEF Init, Registrations, SleepTimers
  <2>3. ~Waits(f)
    BY DEF Init, Waits
  <2> QED  BY <2>2, <2>3 DEF WaitOf, Unscheduled
<1> QED  BY <1>1, <1>3, <1>4, <1>5, <1>6, <1>7 DEF IInv, TInv

(* Every step keeps the invariant.                                         *)
LEMMA NextIInv == IInv /\ [Next]_vars => IInv'
<1> SUFFICES ASSUME IInv, [Next]_vars PROVE IInv'
  OBVIOUS
<1>1. CASE UNCHANGED vars
  <2>1. UNCHANGED <<wakeVars, fiberVars, fired>> /\ FileTypeOK'
    BY <1>1 DEF vars, fdVars, IInv, TInv, FileTypeOK
  <2> QED  BY <2>1, FilesOnly
<1>2. ASSUME NEW f \in Fibers, FiberStep(f) PROVE IInv'
  BY <1>2, TryKeeps, AcceptedKeeps, AddTimerKeeps, AddEventKeeps, YieldKeeps, ResumeKeeps, AddSleepTimerKeeps,
     LastSteps DEF FiberStep
<1>3. ASSUME NEW f \in Fibers, UserCall(f) PROVE IInv'
  BY <1>3, SleepKeeps, FileStepsKeep, CloseKeeps, DoIoKeeps, ConnectKeeps DEF UserCall
<1>4. CASE \E fd \in Fds : Settings(fd)
  BY <1>4, FileStepsKeep
<1>5. CASE TimerStep
  BY <1>5, ExpireKeeps, TimedOutKeeps, EventsKeep, SleepOverKeeps DEF TimerStep
<1>6. CASE EventStep
  BY <1>6, EventsKeep
<1>7. CASE WorldStep
  BY <1>7, FileStepsKeep DEF WorldStep
<1> QED  BY <1>1, <1>2, <1>3, <1>4, <1>5, <1>6, <1>7 DEF Next

-----------------------------------------------------------------------------
(* Theorems                                                                *)

(* A fiber has at most one of: an event, a sleep timer, a place in the     *)
(* queue.                                                                  *)
LEMMA OnceInState == IInv => WokenOnce
<1> SUFFICES ASSUME IInv, NEW f \in Fibers
             PROVE  Cardinality(Registrations(f)) + Cardinality(SleepTimers(f)) + scheduled[f]
                        = IF Waits(f) THEN 1 ELSE 0
  BY DEF WokenOnce
<1>1. WaitOf(f)
  BY DEF IInv
<1>2. Cardinality({}) = 0
  BY FS_EmptySet
<1>3. \A r : Cardinality({r}) = 1
  BY FS_Singleton
<1>4. CASE ~Waits(f)
  BY <1>1, <1>2, <1>4 DEF WaitOf, Unscheduled
<1>5. CASE Waits(f) /\ ByEvent(f)
  <2>1. PICK r : Registrations(f) = {r}  BY <1>5 DEF ByEvent
  <2>2. Cardinality(Registrations(f)) = 1  BY <1>3, <2>1
  <2> QED  BY <1>2, <1>5, <2>2 DEF ByEvent
<1>6. CASE Waits(f) /\ BySleep(f)
  <2>1. PICK x : SleepTimers(f) = {x}  BY <1>6 DEF BySleep
  <2>2. Cardinality(SleepTimers(f)) = 1  BY <1>3, <2>1
  <2> QED  BY <1>2, <1>6, <2>2 DEF BySleep
<1>7. CASE Waits(f) /\ IsBack(f)
  BY <1>2, <1>7 DEF IsBack
<1> QED  BY <1>1, <1>4, <1>5, <1>6, <1>7 DEF WaitOf

(* Of the event, the timeout, close() and the end of a sleep, whatever     *)
(* their order and whether the fiber has reached its yield by then,        *)
(* exactly one puts a fiber that waits into the scheduler's queue, and     *)
(* none a fiber that does not wait.                                        *)
THEOREM ScheduledOnce == Spec => []WokenOnce
<1>1. Spec => []IInv
  BY InitIInv, NextIInv, PTL DEF Spec
<1> QED  BY <1>1, OnceInState, PTL

(* A call ends with ETIMEDOUT only when the timer of this very call was    *)
(* collected: callbacks of earlier calls of the fiber find their timer_info*)
(* gone.                                                                   *)
THEOREM TimeoutOfOwnCall == Spec => []TimeoutIsOwn
<1>1. Spec => []IInv
  BY InitIInv, NextIInv, PTL DEF Spec
<1>2. IInv => TimeoutIsOwn
  BY DEF IInv, NotedOK, TimeoutIsOwn
<1> QED  BY <1>1, <1>2, PTL
=============================================================================
