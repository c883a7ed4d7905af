-------------------------------- MODULE Hook --------------------------------
(***************************************************************************)
(* duan_src/hook.cc: system calls that suspend the calling fiber instead   *)
(* of its thread.  do_io() and connect_with_timeout() register an event    *)
(* and a timer, and yield; the event's trigger or the timer's callback     *)
(* schedules the fiber again, possibly before it has yielded.              *)
(*                                                                         *)
(* The fibers run on several threads of one IOManager, with the hook on    *)
(* (off, each call is the plain system call).  Timers and events are seen  *)
(* as TimerManager and FdEvents describe them: a collected timer's callback*)
(* runs later and cannot be cancelled, a triggered or cancelled event      *)
(* schedules the fiber that registered it.  FdMgr and FdCtx are not part of*)
(* the repository; a descriptor is a socket here, which FdCtx makes        *)
(* nonblocking or not.  Fiber::yield(), not there either, is YieldToHold().*)
(***************************************************************************)
EXTENDS Integers, FiniteSets

CONSTANTS
    Fibers,
    Fds,
    Timeouts,       \* what a timeout can be: TRUE, there is one, or FALSE
    Null,
    MaxCalls,       \* bound: calls of all fibers, but socket() and setsockopt()
    MaxOpens        \* bound: files made per descriptor

Events == {"READ", "WRITE"}

ASSUME TimeoutsAssumption == Timeouts \subseteq BOOLEAN
ASSUME NullAssumption == Null \notin Fibers
ASSUME HookBounds == MaxCalls \in Nat /\ MaxOpens \in Nat

VARIABLES
    ctx,            \* FdMgr: the FdCtx of each descriptor
    gen,            \* which file the descriptor is; files are numbered from 1
    open, nonblock, ready,  \* the state of that file
    link,           \* of a connection: none, going on, up or refused
    reg,            \* the IOManager: who waits for an event, on which file
    timers,         \* the timers in m_timers and the collected callbacks
    scheduled,      \* how often each fiber is in the scheduler's queue
    pc, call,       \* what each fiber is doing
    cancelled,      \* tinfo->cancelled of its call
    ret,            \* result of its last call
    ncalls,         \* number of its calls: identifies the tinfo object
    fired,          \* history: calls of which a timer was collected
    failure,        \* the assertion in addEvent() failed
    calls           \* number of calls, for the bound

fdVars == <<ctx, gen, open, nonblock, ready, link>>
wakeVars == <<reg, timers, scheduled>>
fiberVars == <<pc, call, cancelled, ret, ncalls>>
vars == <<fdVars, wakeVars, fiberVars, fired, failure, calls>>

NoReg == [f |-> Null, gen |-> 0]
NoCall == [op |-> "none", fd |-> Null, ev |-> "READ", to |-> FALSE, gen |-> 0]
NewCtx(sys) == [user |-> FALSE, sys |-> sys, to |-> [ev \in Events |-> FALSE]]

Init ==
    /\ ctx = [fd \in Fds |-> Null]
    /\ gen = [fd \in Fds |-> 0]
    /\ open = [fd \in Fds |-> FALSE]
    /\ nonblock = [fd \in Fds |-> FALSE]
    /\ ready = [fd \in Fds |-> {}]
    /\ link = [fd \in Fds |-> "none"]
    /\ reg = [fd \in Fds |-> [ev \in Events |-> NoReg]]
    /\ timers = {}
    /\ scheduled = [f \in Fibers |-> 0]
    /\ pc = [f \in Fibers |-> "idle"]
    /\ call = [f \in Fibers |-> NoCall]
    /\ cancelled = [f \in Fibers |-> FALSE]
    /\ ret = [f \in Fibers |-> "none"]
    /\ ncalls = [f \in Fibers |-> 0]
    /\ fired = {}
    /\ failure = FALSE
    /\ calls = 0

-----------------------------------------------------------------------------
(* The world and the IOManager                                             *)

BecomesReady(fd, ev) ==
    /\ open[fd] /\ ev \notin ready[fd] /\ link[fd] # "going on"
    /\ ready' = [ready EXCEPT ![fd] = @ \cup {ev}]
    /\ UNCHANGED <<ctx, gen, open, nonblock, link, wakeVars, fiberVars, fired, failure, calls>>

(* The peer accepts or refuses; either makes the socket writable.          *)
Connects(fd) ==
    /\ open[fd] /\ link[fd] = "going on"
    /\ \E l \in {"up", "refused"} : link' = [link EXCEPT ![fd] = l]
    /\ ready' = [ready EXCEPT ![fd] = @ \cup {"WRITE"}]
    /\ UNCHANGED <<ctx, gen, open, nonblock, wakeVars, fiberVars, fired, failure, calls>>

(* A new file under number fd, as socket() and accept() make it known; its *)
(* FdCtx makes it nonblocking, or leaves it as it is.                      *)
NewFile(fd) ==
    /\ ~open[fd] /\ gen[fd] < MaxOpens
    /\ gen' = [gen EXCEPT ![fd] = @ + 1]
    /\ open' = [open EXCEPT ![fd] = TRUE]
    /\ ready' = [ready EXCEPT ![fd] = {}]
    /\ link' = [link EXCEPT ![fd] = "none"]
    /\ \E sys \in BOOLEAN :
        /\ ctx' = [ctx EXCEPT ![fd] = IF @ = Null THEN NewCtx(sys) ELSE @]
        /\ nonblock' = [nonblock EXCEPT ![fd] = sys]

(* epoll knows the registration: it forgets a file that is closed.         *)
Watched(fd, ev) == reg[fd][ev] # NoReg /\ open[fd] /\ reg[fd][ev].gen = gen[fd]

(* Mutant: the event context keeps the fiber.                              *)
Wake_Keeps(fd, evs) ==
    /\ scheduled' = [f \in Fibers |->
            scheduled[f] + Cardinality({ev \in evs : reg[fd][ev].f = f})]
    /\ reg' = reg

(* triggerEvent(): each fiber is scheduled and its registration cleared.   *)
Wake(fd, evs) ==
    /\ scheduled' = [f \in Fibers |->
            scheduled[f] + Cardinality({ev \in evs : reg[fd][ev].f = f})]
    /\ reg' = [reg EXCEPT ![fd] = [ev \in Events |-> IF ev \in evs THEN NoReg ELSE @[ev]]]

(* idle() finds the descriptor ready.                                      *)
Trigger(fd, ev) ==
    /\ Watched(fd, ev) /\ ev \in ready[fd]
    /\ Wake(fd, {ev})
    /\ UNCHANGED <<fdVars, timers, fiberVars, fired, failure, calls>>

(* cancelEvent() and cancelAll(), both without effect when epoll_ctl()     *)
(* refuses.                                                                *)
Cancel(fd, evs) == Wake(fd, {ev \in evs : Watched(fd, ev)})

-----------------------------------------------------------------------------
(* Timers                                                                  *)

Timer(kind, f, st) ==
    [kind |-> kind, f |-> f, n |-> ncalls[f], fd |-> call[f].fd, ev |-> call[f].ev, st |-> st]

(* Mutant: the timer_info is gone once the fiber has yielded.              *)
Locks_Never(x) == FALSE

(* Mutant: the callback holds the timer_info of whichever call there is.   *)
Locks_Any(x) == pc[x.f] # "idle"

(* winfo.lock() finds the tinfo of the call that made the timer.           *)
Locks(x) == pc[x.f] # "idle" /\ ncalls[x.f] = x.n

(* listExpiredCb() takes the timer; from now on cancel() has no effect.    *)
Expire(x) ==
    /\ x.st = "armed"
    /\ timers' = (timers \ {x}) \cup {[x EXCEPT !.st = "collected"]}
    /\ fired' = fired \cup {<<x.f, x.n>>}
    /\ UNCHANGED <<fdVars, reg, scheduled, fiberVars, failure, calls>>

(* The condition timer's callback: nothing, when the call has returned or  *)
(* another callback was first; otherwise it notes the timeout ...          *)
TimedOut(x) ==
    /\ x.kind = "io" /\ x.st = "collected"
    /\ IF Locks(x) /\ ~cancelled[x.f]
       THEN /\ cancelled' = [cancelled EXCEPT ![x.f] = TRUE]
            /\ timers' = (timers \ {x}) \cup {[x EXCEPT !.st = "noted"]}
       ELSE timers' = timers \ {x} /\ UNCHANGED cancelled
    /\ UNCHANGED <<fdVars, reg, scheduled, pc, call, ret, ncalls, fired, failure, calls>>

(* ... and cancels the event, whoever waits for it by now.                 *)
CancelEvent(x) ==
    /\ x.kind = "io" /\ x.st = "noted"
    /\ timers' = timers \ {x}
    /\ Cancel(x.fd, {x.ev})
    /\ UNCHANGED <<fdVars, fiberVars, fired, failure, calls>>

(* sleep()'s callback schedules the fiber.                                 *)
SleepOver(x) ==
    /\ x.kind = "sleep" /\ x.st = "collected"
    /\ timers' = timers \ {x}
    /\ scheduled' = [scheduled EXCEPT ![x.f] = @ + 1]
    /\ UNCHANGED <<fdVars, reg, fiberVars, fired, failure, calls>>

-----------------------------------------------------------------------------
(* Calls                                                                   *)

Goto(f, p) == pc' = [pc EXCEPT ![f] = p]
Return(f, r) == Goto(f, "idle") /\ ret' = [ret EXCEPT ![f] = r]

Counted == calls < MaxCalls /\ calls' = calls + 1

(* A fiber makes its next call.                                            *)
Begins(f, op, fd, ev, to) ==
    /\ pc[f] = "idle" /\ Counted
    /\ ncalls' = [ncalls EXCEPT ![f] = @ + 1]
    /\ call' = [call EXCEPT ![f] =
            [op |-> op, fd |-> fd, ev |-> ev, to |-> to, gen |-> IF fd = Null THEN 0 ELSE gen[fd]]]
    /\ cancelled' = [cancelled EXCEPT ![f] = FALSE]

(* The system call, when it does not have to wait, uses up what is there   *)
(* or leaves some.                                                         *)
Takes(fd, ev) == \E left \in {ready[fd], ready[fd] \ {ev}} : ready' = [ready EXCEPT ![fd] = left]

(* accept() still has to make the new descriptor known.                    *)
Succeeds(f, op) == IF op = "accept" THEN Goto(f, "accepted") /\ UNCHANGED ret ELSE Return(f, "ok")

(* read(), write() and the like go to do_io(); without an FdCtx, or when   *)
(* the user asked for nonblocking, it only makes the system call.          *)
do_io(f, op, fd, ev) ==
    /\ op = "accept" => ev = "READ"
    /\ IF ctx[fd] # Null /\ ~ctx[fd].user
       THEN Begins(f, op, fd, ev, ctx[fd].to[ev]) /\ Goto(f, "try") /\ UNCHANGED <<ready, ret>>
       ELSE /\ Begins(f, op, fd, ev, FALSE)
            /\ IF open[fd] /\ ev \in ready[fd]
               THEN Takes(fd, ev) /\ Succeeds(f, op)
               ELSE Return(f, IF open[fd] THEN "EAGAIN" ELSE "EBADF") /\ UNCHANGED ready
    /\ UNCHANGED <<ctx, gen, open, nonblock, link, wakeVars, fired, failure>>

(* The system call in do_io(), repeated after each wait.  A file that is   *)
(* not nonblocking would block the thread here.                            *)
Try(f) ==
    LET fd == call[f].fd
        ev == call[f].ev IN
    /\ pc[f] = "try"
    /\ \/ /\ ~open[fd]
          /\ Return(f, "EBADF") /\ UNCHANGED ready
       \/ /\ open[fd] /\ ev \in ready[fd]
          /\ Takes(fd, ev)
          /\ Succeeds(f, call[f].op)
       \/ /\ open[fd] /\ ev \notin ready[fd] /\ nonblock[fd]
          /\ Goto(f, IF call[f].to THEN "timer" ELSE "event") /\ UNCHANGED <<ready, ret>>
    /\ UNCHANGED <<ctx, gen, open, nonblock, link, wakeVars, call, cancelled, ncalls, fired, failure, calls>>

(* accept() makes the new descriptor known to FdMgr.                       *)
Accepted(f) ==
    /\ pc[f] = "accepted"
    /\ \/ \E fd \in Fds : NewFile(fd) /\ Return(f, "ok")
       \/ (\A fd \in Fds : open[fd] \/ gen[fd] = MaxOpens) /\ Return(f, "EMFILE") /\ UNCHANGED fdVars
    /\ UNCHANGED <<wakeVars, call, cancelled, ncalls, fired, failure, calls>>

(* connect_with_timeout(); connect_f() succeeds, fails or is in progress.  *)
connect(f, fd, to) ==
    /\ Begins(f, "connect", fd, "WRITE", to)
    /\ IF ctx[fd] = Null \/ ~open[fd] \/ link[fd] # "none"
       THEN Return(f, "error") /\ UNCHANGED link
       ELSE \/ link' = [link EXCEPT ![fd] = "up"] /\ Return(f, "ok")
            \/ Return(f, "error") /\ UNCHANGED link
            \/ /\ link' = [link EXCEPT ![fd] = "going on"]
               /\ IF ctx[fd].user
                  THEN Return(f, "EINPROGRESS")
                  ELSE Goto(f, IF to THEN "timer" ELSE "event") /\ UNCHANGED ret
    /\ UNCHANGED <<ctx, gen, open, nonblock, ready, wakeVars, fired, failure>>

(* getsockopt(SO_ERROR) tells how the connection went.                     *)
SockError(f) ==
    /\ pc[f] = "sockerror"
    /\ Return(f, IF open[call[f].fd] /\ link[call[f].fd] # "refused" THEN "ok" ELSE "error")
    /\ UNCHANGED <<fdVars, wakeVars, call, cancelled, ncalls, fired, failure, calls>>

(* addConditionTimer().                                                    *)
AddTimer(f) ==
    /\ pc[f] = "timer"
    /\ timers' = timers \cup {Timer("io", f, "armed")}
    /\ Goto(f, "event")
    /\ UNCHANGED <<fdVars, reg, scheduled, call, cancelled, ret, ncalls, fired, failure, calls>>

(* timer->cancel(): no effect once the timer was collected.                *)
CancelTimer(f) == timers \ {Timer("io", f, "armed")}

(* addEvent(): asserts that nobody else waits for the event; epoll_ctl()   *)
(* refuses a closed file, and a change of what it has forgotten.           *)
AddEvent(f) ==
    LET fd == call[f].fd
        ev == call[f].ev IN
    /\ pc[f] = "event"
    /\ IF reg[fd][ev] # NoReg
       THEN failure' = TRUE /\ UNCHANGED <<reg, timers, pc, ret>>
       ELSE /\ UNCHANGED failure
            /\ IF open[fd] /\ \A e \in Events : reg[fd][e] = NoReg \/ Watched(fd, e)
               THEN /\ reg' = [reg EXCEPT ![fd][ev] = [f |-> f, gen |-> gen[fd]]]
                    /\ Goto(f, "armed")
                    /\ UNCHANGED <<timers, ret>>
               ELSE /\ timers' = CancelTimer(f)
                    /\ IF call[f].op = "connect"
                       THEN Goto(f, "sockerror") /\ UNCHANGED ret
                       ELSE Return(f, "error")
                    /\ UNCHANGED reg
    /\ UNCHANGED <<fdVars, scheduled, call, cancelled, ncalls, fired, calls>>

(* Only now, armed, does it yield.                                         *)
Yield(f) ==
    /\ pc[f] = "armed"
    /\ Goto(f, "yield")
    /\ UNCHANGED <<fdVars, wakeVars, call, cancelled, ret, ncalls, fired, failure, calls>>

IsScheduled(f) == scheduled[f] > 0

(* The fiber comes back from yield().                                      *)
Resume(f) ==
    /\ pc[f] = "yield" /\ IsScheduled(f)
    /\ scheduled' = [scheduled EXCEPT ![f] = @ - 1]
    /\ timers' = CancelTimer(f)
    /\ \/ cancelled[f] /\ Return(f, "ETIMEDOUT")
       \/ ~cancelled[f] /\ call[f].op = "sleep" /\ Return(f, "ok")
       \/ ~cancelled[f] /\ call[f].op = "connect" /\ Goto(f, "sockerror") /\ UNCHANGED ret
       \/ ~cancelled[f] /\ call[f].op \in {"io", "accept"} /\ Goto(f, "try") /\ UNCHANGED ret
    /\ UNCHANGED <<fdVars, reg, call, cancelled, ncalls, fired, failure, calls>>

(* sleep(), usleep() and nanosleep().                                      *)
sleep(f) ==
    /\ Begins(f, "sleep", Null, "READ", FALSE)
    /\ Goto(f, "sleep")
    /\ UNCHANGED <<fdVars, wakeVars, ret, fired, failure>>

AddSleepTimer(f) ==
    /\ pc[f] = "sleep"
    /\ timers' = timers \cup {Timer("sleep", f, "armed")}
    /\ Goto(f, "armed")
    /\ UNCHANGED <<fdVars, reg, scheduled, call, cancelled, ret, ncalls, fired, failure, calls>>

socket(f, fd) ==
    /\ pc[f] = "idle"
    /\ NewFile(fd)
    /\ UNCHANGED <<wakeVars, fiberVars, fired, failure, calls>>

(* close(): those who wait are woken, the FdCtx goes, then the file.       *)
close(f, fd) ==
    /\ ctx[fd] # Null \/ open[fd]
    /\ Begins(f, "close", fd, "READ", FALSE)
    /\ IF ctx[fd] # Null
       THEN Cancel(fd, Events) /\ Goto(f, "del")
       ELSE Goto(f, "close") /\ UNCHANGED <<reg, scheduled>>
    /\ UNCHANGED <<fdVars, timers, ret, fired, failure>>

CloseDel(f) ==
    /\ pc[f] = "del"
    /\ ctx' = [ctx EXCEPT ![call[f].fd] = Null]
    /\ Goto(f, "close")
    /\ UNCHANGED <<gen, open, nonblock, ready, link, wakeVars, call, cancelled, ret, ncalls, fired, failure, calls>>

CloseFile(f) ==
    /\ pc[f] = "close"
    /\ open' = [open EXCEPT ![call[f].fd] = FALSE]
    /\ Return(f, "ok")
    /\ UNCHANGED <<ctx, gen, nonblock, ready, link, wakeVars, call, cancelled, ncalls, fired, failure, calls>>

(* F_SETFL leaves the file as the FdCtx made it (getSysNonblock()).        *)
fcntl(fd, arg) ==
    /\ open[fd] /\ ctx[fd] # Null /\ Counted
    /\ ctx' = [ctx EXCEPT ![fd].user = arg]
    /\ nonblock' = [nonblock EXCEPT ![fd] = ctx[fd].sys]
    /\ UNCHANGED <<gen, open, ready, link, wakeVars, fiberVars, fired, failure>>

(* ioctl(FIONBIO) hands the user's flag on as it is.                       *)
ioctl(fd, arg) ==
    /\ open[fd] /\ ctx[fd] # Null /\ Counted
    /\ ctx' = [ctx EXCEPT ![fd].user = arg]
    /\ nonblock' = [nonblock EXCEPT ![fd] = arg]
    /\ UNCHANGED <<gen, open, ready, link, wakeVars, fiberVars, fired, failure>>

setsockopt(fd, ev, to) ==
    /\ ctx[fd] # Null
    /\ ctx' = [ctx EXCEPT ![fd].to[ev] = to]
    /\ UNCHANGED <<gen, open, nonblock, ready, link, wakeVars, fiberVars, fired, failure, calls>>

-----------------------------------------------------------------------------
FiberStep(f) ==
    \/ Try(f) \/ Accepted(f) \/ AddTimer(f) \/ AddEvent(f) \/ Yield(f) \/ Resume(f) \/ SockError(f)
    \/ AddSleepTimer(f) \/ CloseDel(f) \/ CloseFile(f)

UserCall(f) ==
    \/ sleep(f)
    \/ \E fd \in Fds :
        \/ socket(f, fd) \/ close(f, fd)
        \/ \E op \in {"io", "accept"}, ev \in Events : do_io(f, op, fd, ev)
        \/ \E to \in Timeouts : connect(f, fd, to)

Settings(fd) ==
    \/ \E arg \in BOOLEAN : fcntl(fd, arg) \/ ioctl(fd, arg)
    \/ \E ev \in Events, to \in Timeouts : setsockopt(fd, ev, to)

TimerStep == \E x \in timers : Expire(x) \/ TimedOut(x) \/ CancelEvent(x) \/ SleepOver(x)
EventStep == \E fd \in Fds, ev \in Events : Trigger(fd, ev)
WorldStep == \E fd \in Fds : Connects(fd) \/ \E ev \in Events : BecomesReady(fd, ev)

Next ==
    /\ ~failure
    /\ \/ \E f \in Fibers : FiberStep(f) \/ UserCall(f)
       \/ \E fd \in Fds : Settings(fd)
       \/ TimerStep \/ EventStep \/ WorldStep

Spec == Init /\ [][Next]_vars

(* The scheduler runs every fiber that is ready, time passes, and idle()   *)
(* handles what is ready.  Nothing is assumed of users, peers and data.    *)
Fairness ==
    /\ \A f \in Fibers : WF_vars(~failure /\ FiberStep(f))
    /\ WF_vars(~failure /\ TimerStep)
    /\ WF_vars(~failure /\ EventStep)
FairSpec == Spec /\ Fairness

-----------------------------------------------------------------------------
(* Properties                                                              *)

Registrations(f) == {r \in Fds \X Events : reg[r[1]][r[2]].f = f}
SleepTimers(f) == {x \in timers : x.kind = "sleep" /\ x.f = f}

(* The fiber has registered its wake-up; it may not have yielded yet.      *)
Waits(f) == pc[f] \in {"armed", "yield"}

(* A fiber that waits, or is about to yield, has exactly one of an event,  *)
(* a sleep timer and a place in the scheduler's queue, whichever of the    *)
(* event, the timeout, close() and the end of the sleep comes first and    *)
(* even when it comes before the yield; any other fiber has none: what the *)
(* scheduler relies on, whose queue must not hold a fiber twice.           *)
WokenOnce ==
    \A f \in Fibers :
        Cardinality(Registrations(f)) + Cardinality(SleepTimers(f)) + scheduled[f]
            = IF Waits(f) THEN 1 ELSE 0

(* ETIMEDOUT is the result only of a call whose own timer has run out: a   *)
(* callback that comes late does not end a later call of the same fiber.   *)
TimeoutIsOwn == \A f \in Fibers : pc[f] = "idle" /\ ret[f] = "ETIMEDOUT" => <<f, ncalls[f]>> \in fired

Timed(f) == call[f].op = "sleep" \/ (call[f].to /\ open[call[f].fd] /\ gen[call[f].fd] = call[f].gen)

(* A sleep, and a wait with a timeout on a file that nobody closes, ends,  *)
(* also when the wake-up comes before the yield; provided that the timeout *)
(* was not noted before the event was registered.                          *)
WaitEnds ==
    \A f \in Fibers :
        Waits(f) /\ ~cancelled[f] /\ Timed(f) ~> ~Waits(f) \/ ~Timed(f) \/ failure
=============================================================================
