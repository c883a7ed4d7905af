----------------------------- MODULE IOManager -----------------------------
(***************************************************************************)
(* IOManager of duan_src/iomanager.{h,cc}: the scheduler whose threads     *)
(* sleep in epoll_wait() when the queue is empty, together with the timers *)
(* and the descriptor events that put work into that queue.                *)
(*                                                                         *)
(* The parts are modelled in full elsewhere (Scheduler, TimerManager,      *)
(* FdEvents).  Here they are reduced to what their composition depends on: *)
(* work is callbacks that run to their end, a timer is the time that is    *)
(* left, a descriptor has one event; and what the parts leave out is here: *)
(* tickle() and its pipe, epoll_wait()'s timeout, and stopping(), which    *)
(* looks at timers, events and queue one after the other, under three      *)
(* different locks or none.                                                *)
(***************************************************************************)
EXTENDS Integers, Sequences, FiniteSets, SequencesExt

CONSTANTS
    Workers,        \* threads that start() creates
    Caller,         \* the thread that constructs and destroys the IOManager
    UseCaller,      \* the constructor's use_caller
    Callbacks,      \* functions given to scheduler()
    Timers,         \* functions given to addTimer()
    Handlers,       \* functions given to addEvent(), each for its own fd
    Pins,           \* threads that scheduler(fc, thread) is called with
    InTasks,        \* what executing work calls: "schedule", "timer", "event"
    Delays,         \* arguments of addTimer(), milliseconds
    MaxTimeout,     \* MAX_TIMEOUT
    Half,           \* 2^31: an int has the values -Half .. Half - 1
    PipeCapacity,   \* bytes the tickle pipe holds
    AnyThread, Null

Threads == Workers \cup {Caller}
Pool == IF UseCaller THEN Threads ELSE Workers
Work == Callbacks \cup Timers \cup Handlers

ASSUME ThreadsAssumption ==
    /\ IsFiniteSet(Workers) /\ Caller \notin Workers /\ AnyThread \notin Threads
    /\ UseCaller \in BOOLEAN /\ Pool # {} /\ Pins \subseteq Pool
ASSUME WorkAssumption ==
    /\ Callbacks \cap Timers = {} /\ Callbacks \cap Handlers = {} /\ Timers \cap Handlers = {}
    /\ Null \notin Work /\ "pipe" \notin Handlers /\ IsFiniteSet(Timers)
ASSUME NumbersAssumption ==
    /\ Delays \subseteq Nat /\ MaxTimeout \in Nat /\ Half \in Nat /\ MaxTimeout < Half
    /\ PipeCapacity \in Nat

VARIABLES
    m_fibers,       \* the task queue: work and the thread it is for
    active,         \* m_activeThreadCount
    m_stopping,     \* m_stopping and m_autoStop, set together by stop()
    left,           \* m_timers: the time until each timer is due
    m_tickled,      \* TimerManager::m_tickled
    registered,     \* the events in the FdContexts
    pending,        \* m_pendingEventCount
    pipe,           \* bytes in the tickle pipe
    armed,          \* what epoll would report once ready
    ready,          \* descriptors that are ready
    pc,             \* where each thread is
    owed,           \* tickle() calls a thread makes before it goes on
    task,           \* the work a thread executes
    idleDone,       \* the idle fiber has terminated
    limit,          \* epoll_wait()'s timeout argument
    cbs, got,       \* idle()'s locals: expired callbacks, reported descriptors
    begun           \* history: how often each work was executed

queueVars == <<m_fibers, active>>
timerVars == <<left, m_tickled>>
eventVars == <<registered, pending, ready>>
pipeVars == <<pipe, armed>>
idleVars == <<idleDone, limit, cbs, got>>
vars == <<queueVars, m_stopping, timerVars, eventVars, pipeVars, pc, owed, task, idleVars, begun>>

Unset == -1         \* a timer that is not in m_timers

(* The constructor: pipe and epoll are made, start() has made the threads. *)
Init ==
    /\ m_fibers = << >> /\ active = 0
    /\ m_stopping = FALSE
    /\ left = [x \in Timers |-> Unset] /\ m_tickled = FALSE
    /\ registered = {} /\ pending = 0 /\ ready = {}
    /\ pipe = 0 /\ armed = {}
    /\ pc = [t \in Threads |-> IF t = Caller THEN "main" ELSE "fetch"]
    /\ owed = [t \in Threads |-> 0]
    /\ task = [t \in Threads |-> Null]
    /\ idleDone = [t \in Threads |-> FALSE]
    /\ limit = [t \in Threads |-> 0]
    /\ cbs = [t \in Threads |-> {}]
    /\ got = [t \in Threads |-> {}]
    /\ begun = [x \in Work |-> 0]

-----------------------------------------------------------------------------
(* tickle()                                                                *)

Idling == {"timers", "events", "stopping", "wait", "list", "post", "handle", "count"}

(* m_idleThreadCount > 0                                                   *)
hasIdleThreads == \E t \in Threads : pc[t] \in Idling

(* tickle() does nothing when there are idle threads, and otherwise writes *)
(* a byte; the writing end of the pipe blocks when the pipe is full.       *)
tickle(t) ==
    /\ owed[t] > 0
    /\ owed' = [owed EXCEPT ![t] = @ - 1]
    /\ \/ hasIdleThreads /\ UNCHANGED pipeVars
       \/ ~hasIdleThreads /\ pipe < PipeCapacity
          /\ pipe' = pipe + 1 /\ armed' = armed \cup {"pipe"}
    /\ UNCHANGED <<queueVars, m_stopping, timerVars, eventVars, pc, task, idleVars, begun>>

Owes(t, n) == owed' = [owed EXCEPT ![t] = n]
At(t, place) == pc[t] = place /\ owed[t] = 0
Go(t, place) == pc' = [pc EXCEPT ![t] = place]

(* scheduler(): append and, if the queue was empty, tickle().              *)
Enqueue(t, items) ==
    /\ m_fibers' = m_fibers \o items
    /\ Owes(t, IF m_fibers = << >> /\ items # << >> THEN 1 ELSE 0)

Item(x, thread) == [work |-> x, thread |-> thread]
IsNew(x) ==
    /\ begun[x] = 0
    /\ x \notin registered
    /\ x \in Timers => left[x] = Unset
    /\ \A i \in DOMAIN m_fibers : m_fibers[i].work # x
    /\ \A t \in Threads : x \notin cbs[t]

-----------------------------------------------------------------------------
(* What the user calls: the caller before stop(), and every executing work *)
(* (addEvent() only on a thread that has a Scheduler::GetThis()).          *)

Schedule(t, x, thread) ==
    /\ x \in Callbacks /\ IsNew(x)
    /\ Enqueue(t, <<Item(x, thread)>>)
    /\ UNCHANGED <<active, m_stopping, timerVars, eventVars, pipeVars, pc, task, idleVars, begun>>

Armed == {x \in Timers : left[x] # Unset}

(* addTimer(): of timers due at the same time any may come first.          *)
AddTimer(t, x, d, front) ==
    /\ x \in Timers /\ IsNew(x)
    /\ front => \A y \in Armed : d <= left[y]
    /\ ~front => \E y \in Armed : left[y] <= d
    /\ left' = [left EXCEPT ![x] = d]
    /\ m_tickled' = (m_tickled \/ front)
    /\ Owes(t, IF front /\ ~m_tickled THEN 1 ELSE 0)
    /\ UNCHANGED <<queueVars, m_stopping, eventVars, pipeVars, pc, task, idleVars, begun>>

AddEvent(t, x) ==
    /\ x \in Handlers /\ IsNew(x)
    /\ t = Caller => UseCaller
    /\ registered' = registered \cup {x}
    /\ pending' = pending + 1
    /\ armed' = armed \cup {x}
    /\ UNCHANGED <<queueVars, m_stopping, timerVars, ready, pipe, pc, owed, task, idleVars, begun>>

MayCall(t, op) == At(t, "main") \/ (At(t, "run") /\ op \in InTasks)

UserCall(t) ==
    \/ /\ MayCall(t, "schedule")
       /\ \E x \in Callbacks, thread \in Pins \cup {AnyThread} : Schedule(t, x, thread)
    \/ /\ MayCall(t, "timer")
       /\ \E x \in Timers, d \in Delays, front \in BOOLEAN : AddTimer(t, x, d, front)
    \/ /\ MayCall(t, "event")
       /\ \E x \in Handlers : AddEvent(t, x)

-----------------------------------------------------------------------------
(* stop(), called by the destructor                                        *)

(* Mutant: stopping() as its commented-out predecessor had it, without the *)
(* timers.                                                                 *)
NoTimer_Ignored == TRUE

(* The three parts of IOManager::stopping()                                *)
NoTimer == Armed = {}
NoEvent == pending = 0
SchedulerStopping == m_stopping /\ m_fibers = << >> /\ active = 0

Stop ==
    /\ At(Caller, "main")
    /\ m_stopping' = TRUE
    /\ IF Workers = {} /\ NoTimer /\ NoEvent /\ m_fibers = << >> /\ active = 0
       THEN Go(Caller, "done") /\ UNCHANGED owed
       ELSE /\ Go(Caller, IF UseCaller THEN "stop timers" ELSE "join")
            /\ Owes(Caller, Cardinality(Pool))
    /\ UNCHANGED <<queueVars, timerVars, eventVars, pipeVars, task, idleVars, begun>>

(* With use_caller: `if(!stopping()) m_rootFiber->call()'.                 *)
StopCheck(from, holds, next) ==
    /\ At(Caller, from)
    /\ Go(Caller, IF holds THEN next ELSE "fetch")
    /\ UNCHANGED <<queueVars, m_stopping, left, eventVars, pipeVars, owed, task, idleVars, begun>>

StopTimers == StopCheck("stop timers", NoTimer, "stop events") /\ m_tickled' = FALSE
StopEvents == StopCheck("stop events", NoEvent, "stop queue") /\ UNCHANGED m_tickled
StopQueue == StopCheck("stop queue", SchedulerStopping, "join") /\ UNCHANGED m_tickled

Join ==
    /\ At(Caller, "join")
    /\ \A w \in Workers : At(w, "exit")
    /\ Go(Caller, "done")
    /\ UNCHANGED <<queueVars, m_stopping, timerVars, eventVars, pipeVars, owed, task, idleVars, begun>>

-----------------------------------------------------------------------------
(* run()                                                                   *)

Foreign(t, item) == item.thread \notin {AnyThread, t}
IsNext(t, i) == ~Foreign(t, m_fibers[i]) /\ \A j \in 1 .. i - 1 : Foreign(t, m_fibers[j])

(* Work is found; tickle() follows when work for other threads was passed  *)
(* over.                                                                   *)
Fetch(t) ==
    /\ At(t, "fetch")
    /\ \E i \in DOMAIN m_fibers :
        /\ IsNext(t, i)
        /\ m_fibers' = RemoveAt(m_fibers, i)
        /\ task' = [task EXCEPT ![t] = m_fibers[i].work]
        /\ begun' = [begun EXCEPT ![m_fibers[i].work] = @ + 1]
        /\ Owes(t, IF i > 1 THEN 1 ELSE 0)
    /\ active' = active + 1
    /\ Go(t, "run")
    /\ UNCHANGED <<m_stopping, timerVars, eventVars, pipeVars, idleVars>>

(* Nothing is found: on to the idle fiber, or out of run().                *)
NoTask(t) ==
    /\ At(t, "fetch")
    /\ \A i \in DOMAIN m_fibers : Foreign(t, m_fibers[i])
    /\ Owes(t, (IF m_fibers # << >> THEN 1 ELSE 0) + (IF idleDone[t] THEN 1 ELSE 0))
    /\ Go(t, IF ~idleDone[t] THEN "nap" ELSE IF t = Caller THEN "join" ELSE "exit")
    /\ UNCHANGED <<queueVars, m_stopping, timerVars, eventVars, pipeVars, task, idleVars, begun>>

(* Mutant: the counter is decremented twice.                               *)
End_Twice(t) ==
    /\ At(t, "run")
    /\ task' = [task EXCEPT ![t] = Null]
    /\ active' = active - 2
    /\ Go(t, "fetch")
    /\ UNCHANGED <<m_fibers, m_stopping, timerVars, eventVars, pipeVars, owed, idleVars, begun>>

(* The callback returns.                                                   *)
End(t) ==
    /\ At(t, "run")
    /\ task' = [task EXCEPT ![t] = Null]
    /\ active' = active - 1
    /\ Go(t, "fetch")
    /\ UNCHANGED <<m_fibers, m_stopping, timerVars, eventVars, pipeVars, owed, idleVars, begun>>

EnterIdle(t) ==
    /\ At(t, "nap")
    /\ Go(t, "timers")
    /\ UNCHANGED <<queueVars, m_stopping, timerVars, eventVars, pipeVars, owed, task, idleVars, begun>>

-----------------------------------------------------------------------------
(* idle()                                                                  *)

(* The conversion of a uint64_t to int.                                    *)
ToInt(v) == ((v + Half) % (2 * Half)) - Half

(* Mutant: without a timer, wait without a limit.                          *)
WaitTime_NoMax(S) ==
    IF S = {} THEN -1
    ELSE LET v == CHOOSE a \in S : \A b \in S : a <= b
         IN  IF ToInt(v) > MaxTimeout THEN MaxTimeout ELSE ToInt(v)

(* The argument of epoll_wait(), S being the times left of the timers.     *)
WaitTime(S) ==
    IF S = {} THEN MaxTimeout
    ELSE LET v == CHOOSE a \in S : \A b \in S : a <= b
         IN  IF ToInt(v) > MaxTimeout THEN MaxTimeout ELSE ToInt(v)

(* stopping(next_timeout): getNextTimer() decides the timeout as well.     *)
IdleTimers(t) ==
    /\ At(t, "timers")
    /\ m_tickled' = FALSE
    /\ limit' = [limit EXCEPT ![t] = WaitTime({left[x] : x \in Armed})]
    /\ Go(t, IF NoTimer THEN "events" ELSE "wait")
    /\ UNCHANGED <<queueVars, m_stopping, left, eventVars, pipeVars, owed, task, idleDone, cbs, got, begun>>

IdleEvents(t) ==
    /\ At(t, "events")
    /\ Go(t, IF NoEvent THEN "stopping" ELSE "wait")
    /\ UNCHANGED <<queueVars, m_stopping, timerVars, eventVars, pipeVars, owed, task, idleVars, begun>>

IdleStopping(t) ==
    /\ At(t, "stopping")
    /\ idleDone' = [idleDone EXCEPT ![t] = SchedulerStopping]
    /\ Go(t, IF SchedulerStopping THEN "fetch" ELSE "wait")
    /\ UNCHANGED <<queueVars, m_stopping, timerVars, eventVars, pipeVars, owed, task, limit, cbs, got, begun>>

Reportable == {x \in armed : IF x = "pipe" THEN pipe > 0 ELSE x \in ready}

(* epoll_wait() returns because of descriptors (edge triggered: it reports *)
(* each to one thread), or because its time is over.                       *)
EpollWait(t) ==
    /\ At(t, "wait")
    /\ Reportable # {} \/ limit[t] >= 0
    /\ got' = [got EXCEPT ![t] = Reportable]
    /\ armed' = armed \ Reportable
    /\ Go(t, "list")
    /\ UNCHANGED <<queueVars, m_stopping, timerVars, eventVars, pipe, owed, task, idleDone, limit, cbs, begun>>

(* listExpiredCb(): the due timers leave m_timers.                         *)
ListExpired(t) ==
    /\ At(t, "list")
    /\ cbs' = [cbs EXCEPT ![t] = {x \in Timers : left[x] = 0}]
    /\ left' = [x \in Timers |-> IF left[x] = 0 THEN Unset ELSE left[x]]
    /\ Go(t, "post")
    /\ UNCHANGED <<queueVars, m_stopping, m_tickled, eventVars, pipeVars, owed, task, idleDone, limit, got, begun>>

(* scheduler(cbs.begin(), cbs.end())                                       *)
PostExpired(t) ==
    /\ At(t, "post")
    /\ \E order \in SetToSeqs(cbs[t]) :
        Enqueue(t, [i \in DOMAIN order |-> Item(order[i], AnyThread)])
    /\ cbs' = [cbs EXCEPT ![t] = {}]
    /\ Go(t, "handle")
    /\ UNCHANGED <<active, m_stopping, timerVars, eventVars, pipeVars, task, idleDone, limit, got, begun>>

(* The loop over the reported descriptors: the pipe is read empty, ...     *)
Drain(t) ==
    /\ At(t, "handle")
    /\ "pipe" \in got[t]
    /\ pipe' = 0
    /\ got' = [got EXCEPT ![t] = @ \ {"pipe"}]
    /\ UNCHANGED <<queueVars, m_stopping, timerVars, eventVars, armed, pc, owed, task, idleDone, limit, cbs, begun>>

(* ... an event is triggered, and counted off only then.                   *)
Trigger(t, x) ==
    /\ At(t, "handle")
    /\ x \in got[t] \cap registered
    /\ registered' = registered \ {x}
    /\ Enqueue(t, <<Item(x, AnyThread)>>)
    /\ got' = [got EXCEPT ![t] = @ \ {x}]
    /\ Go(t, "count")
    /\ UNCHANGED <<active, m_stopping, timerVars, pending, ready, pipeVars, task, idleDone, limit, cbs, begun>>

CountOff(t) ==
    /\ At(t, "count")
    /\ pending' = pending - 1
    /\ Go(t, "handle")
    /\ UNCHANGED <<queueVars, m_stopping, timerVars, registered, ready, pipeVars, owed, task, idleVars, begun>>

(* swapOut() at the end of the loop body                                   *)
LeaveIdle(t) ==
    /\ At(t, "handle")
    /\ got[t] = {}
    /\ Go(t, "fetch")
    /\ UNCHANGED <<queueVars, m_stopping, timerVars, eventVars, pipeVars, owed, task, idleVars, begun>>

-----------------------------------------------------------------------------
(* Time passes; descriptors become ready.                                  *)

Tick ==
    /\ \E x \in Timers : left[x] > 0
    /\ left' = [x \in Timers |-> IF left[x] > 0 THEN left[x] - 1 ELSE left[x]]
    /\ UNCHANGED <<queueVars, m_stopping, m_tickled, eventVars, pipeVars, pc, owed, task, idleVars, begun>>

BecomesReady(x) ==
    /\ x \notin ready
    /\ ready' = ready \cup {x}
    /\ UNCHANGED <<queueVars, m_stopping, timerVars, registered, pending, pipeVars, pc, owed, task, idleVars, begun>>

IdleStep(t) ==
    \/ IdleTimers(t) \/ IdleEvents(t) \/ IdleStopping(t) \/ EpollWait(t)
    \/ ListExpired(t) \/ PostExpired(t) \/ Drain(t) \/ CountOff(t) \/ LeaveIdle(t)
    \/ \E x \in Handlers : Trigger(t, x)

RunStep(t) == Fetch(t) \/ NoTask(t) \/ End(t) \/ EnterIdle(t) \/ IdleStep(t) \/ tickle(t)
StopStep == StopTimers \/ StopEvents \/ StopQueue \/ Join

ThreadStep(t) == RunStep(t) \/ UserCall(t) \/ (t = Caller /\ StopStep)
WorldStep == Tick \/ \E x \in Handlers : BecomesReady(x)
Terminated == pc[Caller] = "done" /\ UNCHANGED vars

Next == (\E t \in Threads : ThreadStep(t)) \/ Stop \/ WorldStep \/ Terminated

Spec == Init /\ [][Next]_vars

(* Every thread runs, a wait with a limit ends, time passes and the peers  *)
(* answer.  Nothing makes the user call stop() or anything else.           *)
Fairness ==
    /\ \A t \in Threads : WF_vars(RunStep(t) \/ (t = Caller /\ StopStep))
    /\ WF_vars(WorldStep)

FairSpec == Spec /\ Fairness

-----------------------------------------------------------------------------
(* Properties                                                              *)

(* Work that was accepted and has not been executed: waiting for its time, *)
(* for its descriptor, in the queue or between two of these.               *)
Outstanding ==
    {x \in Work : \/ x \in Armed \/ x \in registered
                  \/ \E i \in DOMAIN m_fibers : m_fibers[i].work = x
                  \/ \E t \in Threads : x \in cbs[t]}

Executing == {task[t] : t \in {u \in Threads : pc[u] = "run"}}

P == INSTANCE TaskPool WITH
        Tasks <- Work,
        pending <- Outstanding,
        running <- Executing,
        ended <- {x \in Work : begun[x] > 0} \ Executing,
        closed <- pc[Caller] = "done"

(* With use_caller, and as long as executing work adds no timer and no     *)
(* event, the IOManager implements the pool: what was given to scheduler(),*)
(* addTimer() or addEvent() is executed once, and stop() returns only when *)
(* no timer, no event and no task is left, although a callback that        *)
(* listExpiredCb() has taken is for a while in none of the places that     *)
(* stopping() looks at.                                                    *)
ImplementsTaskPool == P!Spec

(* When stop() has returned nothing is left to do: stopping() has seen     *)
(* that there is no timer ("并且没有定时器要执行", iomanager.cc:284), no   *)
(* event and no task.                                                      *)
StopLeavesNothing == pc[Caller] = "done" => Outstanding = {}

(* As long as stop() is not called, accepted work is executed: a wake-up   *)
(* that tickle() does not send is made up for by MAX_TIMEOUT.              *)
WorkRuns ==
    \A x \in Work : x \in Outstanding /\ Workers # {} ~> begun[x] > 0 \/ m_stopping

(* stop() returns, once the last timer and the last event are through.     *)
StopReturns == m_stopping ~> pc[Caller] = "done"

(* When work is queued and every thread sleeps in epoll_wait(), a byte in  *)
(* the pipe wakes one of them ("唤醒线程", iomanager.cc:267).              *)
QueuedWakes ==
    m_fibers # << >> /\ (\A t \in Threads : pc[t] \in {"wait", "main"} /\ owed[t] = 0)
        => "pipe" \in armed /\ pipe > 0
=============================================================================
