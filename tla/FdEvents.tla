------------------------------ MODULE FdEvents ------------------------------
(***************************************************************************)
(* The file descriptor side of duan_src/iomanager.{h,cc}: the table of     *)
(* FdContext objects, addEvent(), delEvent(), cancelEvent(), cancelAll()   *)
(* called from several threads, and the part of idle() that handles what   *)
(* epoll_wait() returned.                                                  *)
(*                                                                         *)
(* Each critical section of m_mutex (the table) is one action.  That of an *)
(* FdContext's mutex is one per effect that others see before it is left:  *)
(* epoll_ctl(), which other threads' epoll_wait() sees; the change of      *)
(* m_pendingEventCount, which stopping() reads without any lock; and the   *)
(* handing over of each handler to the scheduler.  epoll is outside the    *)
(* repository: Kernel* model what the code relies on, edge triggered       *)
(* reporting included.                                                     *)
(*                                                                         *)
(* A context is a pair <<fd, n>>: the n-th object made for fd.             *)
(***************************************************************************)
EXTENDS Integers, FiniteSets, FiniteSetsExt

CONSTANTS
    Fds,            \* file descriptors, natural numbers
    Users,          \* threads that call the four operations
    IOThreads,      \* threads in idle()
    InitialSize,    \* contextResize(32) of the constructor
    Ops,            \* the operations the users call
    Errors,         \* descriptors on which EPOLLERR or EPOLLHUP may occur
    Null,
    MaxAdds,        \* bound: successful addEvent() calls
    MaxObjects      \* bound: FdContext objects made per descriptor

Events == {"READ", "WRITE"}
Contexts == Fds \X (1 .. MaxObjects)
Threads == Users \cup IOThreads

ASSUME FdsAssumption == Fds \subseteq Nat /\ IsFiniteSet(Fds) /\ Errors \subseteq Fds
ASSUME NullAssumption == Null \notin Contexts
ASSUME ThreadsAssumption == Users \cap IOThreads = {}
ASSUME OpsAssumption == Ops \subseteq {"add", "del", "cancel", "all"}
ASSUME SizeAssumption == InitialSize \in Nat /\ InitialSize >= 2
ASSUME BoundsAssumption == MaxAdds \in Nat /\ MaxObjects \in Nat \ {0}

VARIABLES
    size,           \* m_fdContexts.size()
    made,           \* number of FdContext objects made for each descriptor
    m_events,       \* FdContext::m_events, as a set
    set,            \* the EventContexts that are not empty
    pending,        \* m_pendingEventCount
    call,           \* what each user thread is doing
    batch,          \* what epoll_wait() returned to each IO thread
    section,        \* the FdContext whose mutex each thread holds, and its next step
    mask, ptr,      \* the epoll instance: events and data.ptr per descriptor
    armed,          \* it will report the descriptor
    ready, error,   \* the state of the descriptors
    adds, triggered, deleted,   \* history: handlers registered, scheduled, removed
    failure         \* the DUAN_ASSERT that failed, if any

tableVars == <<size, made>>
ctxVars == <<m_events, set, pending>>
kernelVars == <<mask, ptr, armed>>
worldVars == <<ready, error>>
history == <<adds, triggered, deleted>>
vars == <<tableVars, ctxVars, call, batch, section, kernelVars, worldVars, history,
          failure>>

NoCall == [op |-> "none", fd |-> 0, ev |-> "READ", ctx |-> Null]

(* at is the thread's next step, for event ev; rest are the events that    *)
(* follow.                                                                 *)
NoSection == [ctx |-> Null, at |-> "none", ev |-> "READ", rest |-> {}]

Init ==
    /\ size = InitialSize
    /\ made = [fd \in Fds |-> IF fd < InitialSize THEN 1 ELSE 0]
    /\ m_events = [c \in Contexts |-> {}]
    /\ set = {}
    /\ pending = 0
    /\ call = [u \in Users |-> NoCall]
    /\ batch = [i \in IOThreads |-> {}]
    /\ section = [t \in Threads |-> NoSection]
    /\ mask = [fd \in Fds |-> {}]
    /\ ptr = [fd \in Fds |-> Null]
    /\ armed = [fd \in Fds |-> FALSE]
    /\ ready = [fd \in Fds |-> {}]
    /\ error = [fd \in Fds |-> FALSE]
    /\ adds = 0 /\ triggered = 0 /\ deleted = 0
    /\ failure = "none"

-----------------------------------------------------------------------------
(* epoll: a registration is present iff ptr is set.                        *)

KernelAccepts(op, fd) == (op = "ADD") <=> (ptr[fd] = Null)

(* A successful epoll_ctl(); ADD and MOD look at the descriptor again.     *)
KernelControl(op, fd, events, ctx) ==
    /\ mask' = [mask EXCEPT ![fd] = events]
    /\ ptr' = [ptr EXCEPT ![fd] = IF op = "DEL" THEN Null ELSE ctx]
    /\ armed' = [armed EXCEPT ![fd] = op # "DEL"]

KernelReports(fd) == ptr[fd] # Null /\ armed[fd] /\ (ready[fd] \cap mask[fd] # {} \/ error[fd])

KernelReport(fd) ==
    [fd |-> fd, ctx |-> ptr[fd],
     events |-> (ready[fd] \cap mask[fd]) \cup (IF error[fd] THEN {"ERR"} ELSE {})]

(* Data arrive, or room for data; the peer goes away; a handler consumes.  *)
(* New data are reported again, whether or not old data are still there.   *)
BecomesReady(fd, ev) ==
    /\ ev \notin ready[fd] \/ (ptr[fd] # Null /\ ~armed[fd])
    /\ ready' = [ready EXCEPT ![fd] = @ \cup {ev}]
    /\ armed' = [armed EXCEPT ![fd] = ptr[fd] # Null]
    /\ UNCHANGED <<tableVars, ctxVars, call, batch, section, mask, ptr, error, history, failure>>

Fails(fd) ==
    /\ fd \in Errors /\ ~error[fd]
    /\ error' = [error EXCEPT ![fd] = TRUE]
    /\ armed' = [armed EXCEPT ![fd] = ptr[fd] # Null]
    /\ UNCHANGED <<tableVars, ctxVars, call, batch, section, mask, ptr, ready, history, failure>>

Consumed(fd, ev) ==
    /\ ev \in ready[fd]
    /\ \A n \in 1 .. MaxObjects : ev \notin m_events[<<fd, n>>]
    /\ ready' = [ready EXCEPT ![fd] = @ \ {ev}]
    /\ UNCHANGED <<tableVars, ctxVars, call, batch, section, kernelVars, error, history, failure>>

-----------------------------------------------------------------------------
(* The table m_fdContexts                                                  *)

GrownSize(fd) == (fd * 3) \div 2

(* contextResize(n): a shorter vector forgets contexts, without deleting   *)
(* them; a longer one gets new ones.                                       *)
contextResize(n) ==
    /\ size' = n
    /\ made' = [fd \in Fds |-> IF fd < n /\ fd >= size THEN made[fd] + 1 ELSE made[fd]]
    /\ \A fd \in Fds : made'[fd] <= MaxObjects

(* The first critical section of all four, under the read lock: find the   *)
(* context.  addEvent() goes on to grow the table, the others return false.*)
Lookup(u, op, fd, ev) ==
    /\ call[u] = NoCall
    /\ op = "all" => ev = "READ"     \* cancelAll() has no event
    /\ op = "add" => adds + Cardinality({v \in Users : call[v].op = "add"}) < MaxAdds
    /\ \/ /\ size > fd
          /\ call' = [call EXCEPT ![u] = [op |-> op, fd |-> fd, ev |-> ev, ctx |-> <<fd, made[fd]>>]]
       \/ /\ size <= fd /\ op = "add"
          /\ call' = [call EXCEPT ![u] = [op |-> op, fd |-> fd, ev |-> ev, ctx |-> Null]]
    /\ UNCHANGED <<tableVars, ctxVars, batch, section, kernelVars, worldVars, history, failure>>

(* addEvent() under the write lock, with what it saw before.               *)
Grow(u) ==
    /\ call[u].op = "add" /\ call[u].ctx = Null
    /\ contextResize(GrownSize(call[u].fd))
    /\ call' = [call EXCEPT ![u].ctx = <<call[u].fd, made'[call[u].fd]>>]
    /\ UNCHANGED <<ctxVars, batch, section, kernelVars, worldVars, history, failure>>

-----------------------------------------------------------------------------
(* The critical sections of an FdContext                                   *)

First(S) == IF "READ" \in S THEN "READ" ELSE "WRITE"

(* The context's mutex is taken; the thread does `at' to each event of evs.*)
Enter(t, c, at, evs) ==
    section' = [section EXCEPT ![t] =
        [ctx |-> c, at |-> at, ev |-> First(evs), rest |-> evs \ {First(evs)}]]
Goto(t, at) == section' = [section EXCEPT ![t].at = at]

(* The mutex is released; a user's call returns.                           *)
Returns(t) == call' = [u \in Users |-> IF u = t THEN NoCall ELSE call[u]]
Leave(t) == section' = [section EXCEPT ![t] = NoSection] /\ Returns(t)

Free(c) == \A t \in Threads : section[t].ctx # c

(* The user has found its context and gets its mutex.                      *)
MayEnter(u, op) ==
    /\ call[u].op = op
    /\ call[u].ctx # Null /\ section[u] = NoSection
    /\ Free(call[u].ctx)

(* addEvent(): asserts that the event is not there; epoll_ctl() fails when *)
(* the descriptor is registered for another context, and addEvent()        *)
(* returns -1.                                                             *)
addEvent(u) ==
    LET c == call[u].ctx
        ev == call[u].ev
        op == IF m_events[c] = {} THEN "ADD" ELSE "MOD" IN
    /\ MayEnter(u, "add")
    /\ \/ /\ ev \in m_events[c]
          /\ failure' = "addEvent"
          /\ UNCHANGED <<call, section, kernelVars>>
       \/ /\ ev \notin m_events[c] /\ ~KernelAccepts(op, c[1])
          /\ Returns(u)
          /\ UNCHANGED <<section, kernelVars, failure>>
       \/ /\ ev \notin m_events[c] /\ KernelAccepts(op, c[1])
          /\ KernelControl(op, c[1], m_events[c] \cup {ev}, c)
          /\ Enter(u, c, "count", {ev})
          /\ UNCHANGED <<call, failure>>
    /\ UNCHANGED <<tableVars, ctxVars, batch, worldVars, history>>

(* Mutant: the kernel is told to forget the descriptor altogether.         *)
LeftOp_Del(left) == "DEL"
LeftOp(left) == IF left = {} THEN "DEL" ELSE "MOD"

(* What delEvent(), cancelEvent(), cancelAll() and idle() have in common:  *)
(* the kernel is told that left remains in context c, and t goes on to     *)
(* take the events of gone out of it.                                      *)
Shrink(t, c, left, at, gone) ==
    /\ KernelControl(LeftOp(left), c[1], left, c)
    /\ Enter(t, c, at, gone)

(* delEvent(), cancelEvent() and cancelAll() return false when there is no *)
(* such event or epoll_ctl() fails.                                        *)
Remove(u, op, at, gone) ==
    LET c == call[u].ctx IN
    /\ MayEnter(u, op)
    /\ \/ /\ gone # {} /\ gone \subseteq m_events[c] /\ KernelAccepts("MOD", c[1])
          /\ Shrink(u, c, m_events[c] \ gone, at, gone)
          /\ UNCHANGED call
       \/ /\ ~(gone # {} /\ gone \subseteq m_events[c] /\ KernelAccepts("MOD", c[1]))
          /\ Returns(u)
          /\ UNCHANGED <<section, kernelVars>>
    /\ UNCHANGED <<tableVars, ctxVars, batch, worldVars, history, failure>>

delEvent(u) == Remove(u, "del", "uncount", {call[u].ev})
cancelEvent(u) == Remove(u, "cancel", "trigger", {call[u].ev})
cancelAll(u) == call[u].ctx # Null /\ Remove(u, "all", "trigger", m_events[call[u].ctx])

(* The steps of a thread that holds the mutex.  addEvent() counts first    *)
(* and then registers the handler, ...                                     *)
Count(t) ==
    /\ section[t].at = "count"
    /\ pending' = pending + 1
    /\ Goto(t, "register")
    /\ UNCHANGED <<tableVars, m_events, set, call, batch, kernelVars, worldVars, history, failure>>

Register(t) ==
    LET c == section[t].ctx
        ev == section[t].ev IN
    /\ section[t].at = "register"
    /\ m_events' = [m_events EXCEPT ![c] = @ \cup {ev}]
    /\ set' = set \cup {<<c, ev>>}
    /\ failure' = IF <<c, ev>> \in set THEN "event context in use" ELSE failure
    /\ adds' = adds + 1
    /\ Leave(t)
    /\ UNCHANGED <<tableVars, pending, batch, kernelVars, worldVars, triggered, deleted>>

(* ... delEvent() counts first and then drops the handler.                 *)
Uncount(t) ==
    /\ section[t].at = "uncount"
    /\ pending' = pending - 1
    /\ Goto(t, "drop")
    /\ UNCHANGED <<tableVars, m_events, set, call, batch, kernelVars, worldVars, history, failure>>

(* m_events loses the event, and its EventContext the handler.             *)
Vacate(c, ev) ==
    /\ m_events' = [m_events EXCEPT ![c] = @ \ {ev}]
    /\ set' = set \ {<<c, ev>>}

Drop(t) ==
    /\ section[t].at = "drop"
    /\ Vacate(section[t].ctx, section[t].ev)
    /\ deleted' = deleted + 1
    /\ Leave(t)
    /\ UNCHANGED <<tableVars, pending, batch, kernelVars, worldVars, adds, triggered, failure>>

(* Mutant: triggerEvent() leaves the bit in m_events.                      *)
triggerEvent_Keeps(t) ==
    /\ section[t].at = "trigger"
    /\ m_events' = m_events
    /\ set' = set \ {<<section[t].ctx, section[t].ev>>}
    /\ triggered' = triggered + 1
    /\ Goto(t, "count off")
    /\ UNCHANGED <<tableVars, pending, call, batch, kernelVars, worldVars, adds, deleted, failure>>

(* triggerEvent(): asserts that the event is there, and hands its handler  *)
(* to the scheduler.                                                       *)
triggerEvent(t) ==
    /\ section[t].at = "trigger"
    /\ IF section[t].ev \in m_events[section[t].ctx]
       THEN /\ Vacate(section[t].ctx, section[t].ev)
            /\ triggered' = triggered + 1
            /\ Goto(t, "count off")
            /\ UNCHANGED failure
       ELSE failure' = "triggerEvent" /\ UNCHANGED <<m_events, set, triggered, section>>
    /\ UNCHANGED <<tableVars, pending, call, batch, kernelVars, worldVars, adds, deleted>>

(* Mutant: both events are counted off whichever was triggered.            *)
CountOff_Both(t) ==
    /\ section[t].at = "count off"
    /\ pending' = pending - Cardinality(Events)
    /\ Leave(t)
    /\ UNCHANGED <<tableVars, m_events, set, batch, kernelVars, worldVars, history, failure>>

(* Only then it is counted off, and the next one follows.                  *)
CountOff(t) ==
    /\ section[t].at = "count off"
    /\ pending' = pending - 1
    /\ IF section[t].rest = {} THEN Leave(t)
       ELSE Enter(t, section[t].ctx, "trigger", section[t].rest) /\ UNCHANGED call
    /\ UNCHANGED <<tableVars, m_events, set, batch, kernelVars, worldVars, history, failure>>

SectionStep(t) ==
    Count(t) \/ Register(t) \/ Uncount(t) \/ Drop(t) \/ triggerEvent(t) \/ CountOff(t)

-----------------------------------------------------------------------------
(* idle()                                                                  *)

EpollWait(i) ==
    /\ batch[i] = {} /\ section[i] = NoSection
    /\ \E S \in SUBSET {fd \in Fds : KernelReports(fd)} :
        /\ S # {}
        /\ batch' = [batch EXCEPT ![i] = {KernelReport(fd) : fd \in S}]
        /\ armed' = [fd \in Fds |-> armed[fd] /\ fd \notin S]
    /\ UNCHANGED <<tableVars, ctxVars, call, section, mask, ptr, worldVars, history, failure>>

(* EPOLLERR and EPOLLHUP count as both events, registered or not.          *)
RealEvents(r) == IF "ERR" \in r.events THEN Events ELSE r.events

(* Mutant: the events that stay are not told to the kernel.                *)
Left_None(c, real) == {}
Left(c, real) == m_events[c] \ real

(* One turn of the loop over the returned events, up to the triggering.    *)
HandleEvent(i, r) ==
    LET c == r.ctx
        real == RealEvents(r) IN
    /\ r \in batch[i] /\ section[i] = NoSection
    /\ Free(c)
    /\ batch' = [batch EXCEPT ![i] = @ \ {r}]
    /\ IF m_events[c] \cap real = {} \/ ~KernelAccepts("MOD", r.fd)
       THEN UNCHANGED <<section, kernelVars>>
       ELSE Shrink(i, c, Left(c, real), "trigger", real)
    /\ UNCHANGED <<tableVars, ctxVars, call, worldVars, history, failure>>

-----------------------------------------------------------------------------
(* A call that has begun goes on.                                          *)
CallStep(u) ==
    \/ Grow(u) \/ addEvent(u) \/ delEvent(u) \/ cancelEvent(u) \/ cancelAll(u)
    \/ SectionStep(u)

UserStep(u) ==
    \/ \E op \in Ops, fd \in Fds, ev \in Events : Lookup(u, op, fd, ev)
    \/ CallStep(u)

IOStep(i) == EpollWait(i) \/ (\E r \in batch[i] : HandleEvent(i, r)) \/ SectionStep(i)

WorldStep ==
    \E fd \in Fds : Fails(fd) \/ \E ev \in Events : BecomesReady(fd, ev) \/ Consumed(fd, ev)

Next ==
    /\ failure = "none"     \* a failed assertion ends the program
    /\ WorldStep \/ (\E u \in Users : UserStep(u)) \/ \E i \in IOThreads : IOStep(i)

Spec == Init /\ [][Next]_vars

(* idle() runs again and again on some thread, descriptors that were       *)
(* reported are handled, and whoever called an operation goes on.          *)
Fairness ==
    /\ \A i \in IOThreads : WF_vars(failure = "none" /\ IOStep(i))
    /\ \A u \in Users : WF_vars(failure = "none" /\ CallStep(u))
FairSpec == Spec /\ Fairness

-----------------------------------------------------------------------------
(* Properties                                                              *)

Registered == {x \in Contexts \X Events : x[2] \in m_events[x[1]]}

(* What is counted at each moment: an event is counted before addEvent()   *)
(* registers it, and counted off before delEvent() drops it, but only      *)
(* after triggerEvent() has queued its handler.                            *)
InSection(x, places) ==
    \E t \in Threads : section[t].at \in places /\ x = <<section[t].ctx, section[t].ev>>
Counted ==
    {x \in Contexts \X Events :
        /\ x \in Registered \/ InSection(x, {"register", "count off"})
        /\ ~InSection(x, {"drop"})}

(* m_pendingEventCount, which stopping() reads without any lock, is the    *)
(* number of these events over all contexts, whichever of the five         *)
(* operations interleave on however many threads: it is never zero while a *)
(* handler is registered that nobody is deleting, or is on its way from    *)
(* its context to the queue.                                               *)
PendingCounts == pending = Cardinality(Counted)

(* Every handler that addEvent() accepted is scheduled once, or removed by *)
(* delEvent() once, or still in its EventContext: none is lost and none    *)
(* runs twice.                                                             *)
HandlersConserved == adds = triggered + deleted + Cardinality(set)

(* epoll and the contexts agree: while no thread is in the critical        *)
(* section of a context, the kernel watches exactly its events if it has a *)
(* pointer to it, and the context has none otherwise.                      *)
KernelAgrees ==
    \A c \in Contexts : Free(c) => m_events[c] = IF ptr[c[1]] = c THEN mask[c[1]] ELSE {}

(* triggerEvent() is called only for registered events ("DUAN_ASSERT(      *)
(* m_events & event)", iomanager.cc:38).                                   *)
TriggersRegistered == failure # "triggerEvent"

(* A registered event whose descriptor is ready is triggered, deleted or   *)
(* cancelled in the end: no edge of the edge-triggered epoll is lost       *)
(* between the threads that add, remove and handle events.                 *)
ReadyIsTriggered ==
    \A x \in Contexts \X Events :
        x \in Registered /\ x[2] \in ready[x[1][1]]
            ~> x \notin Registered \/ failure # "none"
=============================================================================
