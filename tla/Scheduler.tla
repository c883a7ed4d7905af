----------------------------- MODULE Scheduler -----------------------------
(***************************************************************************)
(* The N:M coroutine scheduler of duan_src/scheduler.{h,cc} together with  *)
(* the Fiber objects it runs (duan_src/fiber.{h,cc}).                      *)
(*                                                                         *)
(* Every pool thread executes Scheduler::run().  One action is one stretch *)
(* of that loop between two points at which another thread can interfere:  *)
(* a critical section of m_mutex, one access to an atomic counter, one     *)
(* access to Fiber::m_state (which no lock protects), one context switch.  *)
(*                                                                         *)
(* Fiber objects are named by what they run: a fiber of UserFibers is made *)
(* by the user with itself as its body; the object `new Fiber(cb)' that    *)
(* run() makes for a callback is named by that callback.  A callback value *)
(* stands for one call of scheduler(cb).                                   *)
(***************************************************************************)
EXTENDS Integers, Sequences, FiniteSets, SequencesExt

CONSTANTS
    Workers,        \* threads that start() creates
    Caller,         \* the thread that constructs, starts and stops
    UseCaller,      \* the constructor's use_caller: Caller also runs run()
    UserFibers,     \* Fiber objects handed to scheduler(fiber)
    Callbacks,      \* functions handed to scheduler(cb)
    Pins,           \* threads that scheduler(fc, thread) is called with
    Behaviours,     \* what bodies do besides returning
    AnyThread,      \* the thread argument -1
    Null,           \* nullptr
    MaxYields,      \* bound: suspensions of one body
    MaxSubmits,     \* bound: scheduler(f) calls of the user per fiber
    MaxStarts       \* bound: start() calls

Threads == Workers \cup {Caller}
Tasks == UserFibers \cup Callbacks

ASSUME ThreadsAssumption == Caller \notin Workers /\ AnyThread \notin Threads
ASSUME FiniteAssumption == IsFiniteSet(Workers)
ASSUME SizeAssumption == UseCaller \/ Workers # {}       \* DUAN_ASSERT(threads > 0)
ASSUME TasksAssumption == UserFibers \cap Callbacks = {} /\ Null \notin Tasks
ASSUME PinsAssumption == Pins \subseteq Threads /\ (~UseCaller => Caller \notin Pins)
ASSUME OptionsAssumption ==
    /\ UseCaller \in BOOLEAN
    /\ Behaviours \subseteq {"ready", "hold", "throw", "spawn", "register"}
ASSUME BoundsAssumption == MaxYields \in Nat /\ MaxSubmits \in Nat /\ MaxStarts \in Nat

VARIABLES
    m_state,        \* Fiber::m_state
    m_cb,           \* Fiber::m_cb
    at,             \* where the fiber's saved context resumes
    m_fibers,       \* the task queue
    active,         \* m_activeThreadCount
    autoStop,       \* m_autoStop
    stopping,       \* m_stopping
    pc,             \* where each thread is in run() or in stop()
    ft,             \* run()'s local FiberAndThread
    cb_fiber,       \* run()'s local Fiber::ptr cb_fiber
    idleState,      \* state of run()'s idle_fiber: "live" or "TERM"
    rootState,      \* m_rootFiber->m_state
    waiting,        \* fibers registered with an event source
    overtaken,      \* fibers woken while run() still had them in hand
    submits,        \* how often the user scheduled each task
    pin,            \* the thread argument of that call
    begun,          \* how often each body was entered
    yields,         \* how often each body suspended itself
    starts,         \* how often start() created the threads
    failure         \* how the program has failed, if it has

fiberVars == <<m_state, m_cb, at>>
queueVars == <<m_fibers, active>>
stopVars == <<autoStop, stopping, rootState, starts>>
localVars == <<ft, cb_fiber, idleState>>
eventVars == <<waiting, overtaken>>
userVars == <<eventVars, submits, pin, begun, yields>>
vars == <<fiberVars, queueVars, stopVars, pc, localVars, userVars, failure>>

-----------------------------------------------------------------------------
(* Data                                                                    *)

States == {"INIT", "HOLD", "EXEC", "TERM", "READY", "EXCEPT"}
Finished == {"TERM", "EXCEPT"}
Resettable == {"TERM", "INIT", "EXCEPT"}

Items == [fiber: UserFibers \cup Callbacks \cup {Null},
          cb: Callbacks \cup {Null},
          thread: Threads \cup {AnyThread}]

FiberItem(f, thread) == [fiber |-> f, cb |-> Null, thread |-> thread]
CbItem(c, thread) == [fiber |-> Null, cb |-> c, thread |-> thread]
NoItem == [fiber |-> Null, cb |-> Null, thread |-> AnyThread]

(* The overloads of FiberAndThread's constructor.                          *)
ItemOf(x, thread) ==
    IF x \in UserFibers THEN FiberItem(x, thread) ELSE CbItem(x, thread)

(* The fiber that thread t has swapped in: ft.fiber, or its cb_fiber.      *)
Hand(t) == IF ft[t].fiber # Null THEN ft[t].fiber ELSE cb_fiber[t]

Running == {"run", "leave"}
Handling == {"run", "leave", "back", "settle", "hold"}
OnCpu(t, f) == pc[t] \in Running /\ Hand(t) = f

-----------------------------------------------------------------------------
Init ==
    /\ m_state = [f \in Tasks |-> "INIT"]
    /\ m_cb = [f \in Tasks |-> IF f \in UserFibers THEN f ELSE Null]
    /\ at = [f \in Tasks |-> IF f \in UserFibers THEN "entry" ELSE "none"]
    /\ m_fibers = << >>
    /\ active = 0
    /\ autoStop = FALSE
    /\ stopping = TRUE
    /\ pc = [t \in Threads |-> IF t = Caller THEN "main" ELSE "off"]
    /\ ft = [t \in Threads |-> NoItem]
    /\ cb_fiber = [t \in Threads |-> Null]
    /\ idleState = [t \in Threads |-> "live"]
    /\ rootState = "INIT"
    /\ waiting = {}
    /\ overtaken = {}
    /\ submits = [x \in Tasks |-> 0]
    /\ pin = [x \in Tasks |-> AnyThread]
    /\ begun = [x \in Tasks |-> 0]
    /\ yields = [x \in Tasks |-> 0]
    /\ starts = 0
    /\ failure = "none"

-----------------------------------------------------------------------------
(* scheduler(fc, thread): append under the lock.  The tickle() that may    *)
(* follow only logs in the base class.                                     *)

(* Mutant: push_back only when the queue was empty.                        *)
scheduleNoLock_IfEmpty(q, item) == IF q = << >> THEN Append(q, item) ELSE q

scheduleNoLock(q, item) == Append(q, item)

MaySubmit(x) == submits[x] < (IF x \in Callbacks THEN 1 ELSE MaxSubmits)

Submit(x, thread) ==
    /\ MaySubmit(x)
    /\ m_fibers' = scheduleNoLock(m_fibers, ItemOf(x, thread))
    /\ submits' = [submits EXCEPT ![x] = @ + 1]
    /\ pin' = [pin EXCEPT ![x] = thread]

MainSchedule(x) ==
    /\ pc[Caller] = "main"
    /\ \E thread \in Pins \cup {AnyThread} : Submit(x, thread)
    /\ UNCHANGED <<fiberVars, active, stopVars, pc, localVars, eventVars, begun, yields>>

(* scheduler(begin, end): one critical section for all of them.            *)
MainScheduleBatch(x, y) ==
    /\ pc[Caller] = "main"
    /\ x # y /\ MaySubmit(x) /\ MaySubmit(y)
    /\ m_fibers' = scheduleNoLock(scheduleNoLock(m_fibers, ItemOf(x, AnyThread)),
                                  ItemOf(y, AnyThread))
    /\ submits' = [submits EXCEPT ![x] = @ + 1, ![y] = @ + 1]
    /\ pin' = [pin EXCEPT ![x] = AnyThread, ![y] = AnyThread]
    /\ UNCHANGED <<fiberVars, active, stopVars, pc, localVars, eventVars, begun, yields>>

-----------------------------------------------------------------------------
(* start() and stop()                                                      *)

(* start() holds m_mutex while it creates the threads, so none of them     *)
(* reaches the queue before all exist.  run() makes a new idle fiber and   *)
(* has no cb_fiber.                                                        *)
Start ==
    /\ pc[Caller] = "main"
    /\ stopping
    /\ starts < MaxStarts
    /\ starts' = starts + 1
    /\ stopping' = FALSE
    /\ pc' = [t \in Threads |-> IF t = Caller THEN "main" ELSE "fetch"]
    /\ idleState' = [t \in Threads |-> "live"]
    /\ cb_fiber' = [t \in Threads |-> Null]
    /\ UNCHANGED <<fiberVars, queueVars, autoStop, rootState, ft, userVars>>

(* stop() up to its `if(!stopping())'.  The caller stops what it started.  *)
StopRequest ==
    /\ pc[Caller] = "main"
    /\ ~stopping
    /\ autoStop' = TRUE
    /\ stopping' = TRUE
    /\ pc' = [pc EXCEPT ![Caller] = "stop"]
    /\ UNCHANGED <<fiberVars, queueVars, rootState, starts, localVars, userVars>>

(* Mutants: stopping() forgets m_activeThreadCount; forgets the queue.     *)
Stopping_NoActive == autoStop /\ stopping /\ m_fibers = << >>
Stopping_NoQueue == autoStop /\ stopping /\ active = 0

(* Scheduler::stopping(), evaluated under m_mutex.                         *)
Stopping == autoStop /\ stopping /\ m_fibers = << >> /\ active = 0

(* With use_caller, stop() calls the root fiber once, which executes run() *)
(* on the calling thread; a root fiber that has terminated resumes behind  *)
(* its last swapOut().                                                     *)
StopCall ==
    /\ pc[Caller] = "stop"
    /\ UseCaller
    /\ ~Stopping
    /\ rootState' = "EXEC"
    /\ IF rootState \in Finished
       THEN failure' = "never reach" /\ UNCHANGED pc
       ELSE pc' = [pc EXCEPT ![Caller] = "fetch"] /\ UNCHANGED failure
    /\ UNCHANGED <<fiberVars, queueVars, autoStop, stopping, starts, localVars, userVars>>

StopNoCall ==
    /\ pc[Caller] = "stop"
    /\ ~UseCaller \/ Stopping
    /\ pc' = [pc EXCEPT ![Caller] = "join"]
    /\ UNCHANGED <<fiberVars, queueVars, stopVars, localVars, userVars>>

(* The joins at the end of stop(): it returns once every thread has left   *)
(* run().  The caller may then use the scheduler again.                    *)
Join ==
    /\ pc[Caller] = "join"
    /\ \A w \in Workers : pc[w] \in {"off", "exit"}
    /\ pc' = [t \in Threads |-> IF t = Caller
                                THEN IF starts < MaxStarts THEN "main" ELSE "done"
                                ELSE "off"]
    /\ UNCHANGED <<fiberVars, queueVars, stopVars, localVars, userVars>>

-----------------------------------------------------------------------------
(* run(): taking a task                                                    *)

(* Mutants: a pinned task is passed over by every thread; a fiber that     *)
(* waits in HOLD is passed over like one that executes.                    *)
Eligible_NoPinned(t, item) ==
    /\ item.thread = AnyThread
    /\ item.fiber # Null => m_state[item.fiber] # "EXEC"
Eligible_NoHold(t, item) ==
    /\ item.thread \in {AnyThread, t}
    /\ item.fiber # Null => m_state[item.fiber] \notin {"EXEC", "HOLD"}

(* The two `continue's of the search loop: a task for another thread and a *)
(* fiber that is executing are passed over.                                *)
Eligible(t, item) ==
    /\ item.thread \in {AnyThread, t}
    /\ item.fiber # Null => m_state[item.fiber] # "EXEC"

Candidates(t) == {i \in DOMAIN m_fibers : Eligible(t, m_fibers[i])}
IsFirst(i, S) == i \in S /\ \A j \in S : i <= j

(* The critical section that finds a task: it is erased from the queue and *)
(* counted as active before the lock is released.                          *)
Fetch(t) ==
    /\ pc[t] = "fetch"
    /\ \E i \in DOMAIN m_fibers :
        /\ IsFirst(i, Candidates(t))
        /\ ft' = [ft EXCEPT ![t] = m_fibers[i]]
        /\ m_fibers' = RemoveAt(m_fibers, i)
    /\ active' = active + 1
    /\ pc' = [pc EXCEPT ![t] = "dispatch"]
    /\ UNCHANGED <<fiberVars, stopVars, cb_fiber, idleState, userVars>>

(* The critical section that finds none: swap in the idle fiber, or leave  *)
(* run() when that fiber has terminated.                                   *)
NoTask(t) ==
    /\ pc[t] = "fetch"
    /\ Candidates(t) = {}
    /\ idleState[t] # "TERM"
    /\ pc' = [pc EXCEPT ![t] = "idle"]
    /\ UNCHANGED <<fiberVars, queueVars, stopVars, localVars, userVars>>

Exit(t) ==
    /\ pc[t] = "fetch"
    /\ Candidates(t) = {}
    /\ idleState[t] = "TERM"
    /\ pc' = [pc EXCEPT ![t] = IF t = Caller THEN "join" ELSE "exit"]
    /\ rootState' = IF t = Caller THEN "TERM" ELSE rootState
    /\ UNCHANGED <<fiberVars, queueVars, autoStop, stopping, starts, localVars, userVars>>

(* One turn of Scheduler::idle(): test stopping(), then yield or return.   *)
Idle(t) ==
    /\ pc[t] = "idle"
    /\ idleState' = [idleState EXCEPT ![t] = IF Stopping THEN "TERM" ELSE @]
    /\ pc' = [pc EXCEPT ![t] = "fetch"]
    /\ UNCHANGED <<fiberVars, queueVars, stopVars, ft, cb_fiber, userVars>>

-----------------------------------------------------------------------------
(* run(): executing a task                                                 *)

(* Fiber::swapIn() of ft.fiber, with the second ++m_activeThreadCount.     *)
(* MainFunc enters the body, a suspended body goes on, and a fiber that    *)
(* has run to its end meets the assertion behind MainFunc's swapOut().  A  *)
(* fiber that another thread executes or has not switched away from yet    *)
(* has no saved context: what the switch resumes is undefined.             *)
RunFiber(t) ==
    LET f == ft[t].fiber IN
    /\ pc[t] = "dispatch"
    /\ f # Null
    /\ active' = active + 1
    /\ IF m_state[f] = "EXEC"
       THEN failure' = "swapIn" /\ UNCHANGED <<fiberVars, pc, begun>>
       ELSE /\ m_state' = [m_state EXCEPT ![f] = "EXEC"]
            /\ at' = [at EXCEPT ![f] = IF @ = "entry" THEN "body" ELSE @]
            /\ begun' = IF at[f] = "entry" /\ m_cb[f] # Null
                        THEN [begun EXCEPT ![m_cb[f]] = @ + 1] ELSE begun
            /\ pc' = [pc EXCEPT ![t] = "run"]
            /\ failure' = IF \E u \in Threads : OnCpu(u, f) THEN "unsaved"
                          ELSE IF at[f] = "end" THEN "never reach" ELSE failure
            /\ UNCHANGED m_cb
    /\ UNCHANGED <<m_fibers, stopVars, localVars, eventVars, submits, pin, yields>>

(* The callback branch: Fiber::reset(ft.cb) of the cb_fiber left over from *)
(* an earlier callback, or a new Fiber, then swapIn().                     *)
RunCb(t) ==
    LET c == ft[t].cb
        f == IF cb_fiber[t] = Null THEN c ELSE cb_fiber[t] IN
    /\ pc[t] = "dispatch"
    /\ c # Null
    /\ IF cb_fiber[t] # Null /\ m_state[f] \notin Resettable
       THEN failure' = "reset" /\ UNCHANGED <<fiberVars, pc, ft, cb_fiber, begun>>
       ELSE /\ m_state' = [m_state EXCEPT ![f] = "EXEC"]
            /\ m_cb' = [m_cb EXCEPT ![f] = c]
            /\ at' = [at EXCEPT ![f] = "body"]
            /\ begun' = [begun EXCEPT ![c] = @ + 1]
            /\ cb_fiber' = [cb_fiber EXCEPT ![t] = f]
            /\ ft' = [ft EXCEPT ![t] = NoItem]
            /\ pc' = [pc EXCEPT ![t] = "run"]
            /\ UNCHANGED failure
    /\ UNCHANGED <<queueVars, stopVars, idleState, eventVars, submits, pin, yields>>

-----------------------------------------------------------------------------
(* What a body does on thread t.  Every way of giving up the processor     *)
(* writes m_state first and switches the context afterwards (Leave).       *)

InBody(t) == pc[t] = "run" /\ at[Hand(t)] = "body"
CanStep(t) == InBody(t) /\ m_cb[Hand(t)] # Null
CanSuspend(t) == CanStep(t) /\ yields[m_cb[Hand(t)]] < MaxYields
Count(t) == yields' = [yields EXCEPT ![m_cb[Hand(t)]] = @ + 1]

GiveUp(t, state) ==
    /\ m_state' = [m_state EXCEPT ![Hand(t)] = state]
    /\ pc' = [pc EXCEPT ![t] = "leave"]
    /\ UNCHANGED <<queueVars, stopVars, localVars, eventVars, submits, pin, begun>>

(* MainFunc after m_cb() returned.                                         *)
Return(t) ==
    /\ CanStep(t)
    /\ m_cb' = [m_cb EXCEPT ![Hand(t)] = Null]
    /\ at' = [at EXCEPT ![Hand(t)] = "end"]
    /\ GiveUp(t, "TERM")
    /\ UNCHANGED yields

(* MainFunc's catch clauses: m_cb is kept.  An empty m_cb throws.          *)
Throw(t) ==
    /\ InBody(t)
    /\ "throw" \in Behaviours \/ m_cb[Hand(t)] = Null
    /\ at' = [at EXCEPT ![Hand(t)] = "end"]
    /\ GiveUp(t, "EXCEPT")
    /\ UNCHANGED <<m_cb, yields>>

YieldToReady(t) ==
    /\ "ready" \in Behaviours
    /\ CanSuspend(t)
    /\ Count(t)
    /\ GiveUp(t, "READY")
    /\ UNCHANGED <<m_cb, at>>

YieldToHold(t) ==
    /\ pc[t] = "run"
    /\ \/ at[Hand(t)] = "armed" /\ UNCHANGED yields
       \/ "hold" \in Behaviours /\ CanSuspend(t) /\ Count(t)
    /\ at' = [at EXCEPT ![Hand(t)] = "body"]
    /\ GiveUp(t, "HOLD")
    /\ UNCHANGED m_cb

(* A body hands its own fiber to an event source before it suspends itself *)
(* (IOManager::addEvent without a callback does so with Fiber::GetThis(),  *)
(* and asserts that the fiber's state is EXEC).                            *)
Register(t) ==
    /\ "register" \in Behaviours
    /\ CanSuspend(t)
    /\ Count(t)
    /\ waiting' = waiting \cup {Hand(t)}
    /\ at' = [at EXCEPT ![Hand(t)] = "armed"]
    /\ failure' = IF m_state[Hand(t)] = "EXEC" THEN failure ELSE "addEvent"
    /\ UNCHANGED <<m_state, m_cb, queueVars, stopVars, pc, localVars>>
    /\ UNCHANGED <<overtaken, submits, pin, begun>>

(* A body schedules another task, for any thread or for its own (as        *)
(* tests/test_scheduler.cc does).                                          *)
Spawn(t, x) ==
    /\ "spawn" \in Behaviours
    /\ CanStep(t)
    /\ \E thread \in {AnyThread, t} : Submit(x, thread)
    /\ UNCHANGED <<fiberVars, active, stopVars, pc, localVars, eventVars, begun, yields>>

(* Run() has not finished with the fiber: a thread executes it, switches   *)
(* away from it or is about to write its state.                            *)
InHand(f) == \E t \in Threads : pc[t] \in Handling /\ Hand(t) = f

(* Mutant: the registration is not cleared when the event fires.           *)
Fire_Keeps(f) ==
    /\ f \in waiting
    /\ Len(m_fibers) < 3
    /\ overtaken' = IF InHand(f) THEN overtaken \cup {f} ELSE overtaken
    /\ m_fibers' = scheduleNoLock(m_fibers, FiberItem(f, AnyThread))
    /\ UNCHANGED <<fiberVars, active, stopVars, pc, localVars, waiting, submits, pin, begun, yields>>

(* The event source reschedules a registered fiber, at any moment: also    *)
(* before the fiber has suspended itself, and before run() has looked at   *)
(* the state it suspended itself in.                                       *)
Fire(f) ==
    /\ f \in waiting
    /\ waiting' = waiting \ {f}
    /\ overtaken' = IF InHand(f) THEN overtaken \cup {f} ELSE overtaken
    /\ m_fibers' = scheduleNoLock(m_fibers, FiberItem(f, AnyThread))
    /\ UNCHANGED <<fiberVars, active, stopVars, pc, localVars, submits, pin, begun, yields>>

-----------------------------------------------------------------------------
(* run(): after swapIn() returned                                          *)

(* swapOut(): the context is saved and the thread is back in run().        *)
Leave(t) ==
    /\ pc[t] = "leave"
    /\ pc' = [pc EXCEPT ![t] = "back"]
    /\ UNCHANGED <<fiberVars, queueVars, stopVars, localVars, userVars>>

(* Mutants: the counter goes down twice; it does not go down.              *)
Back_Twice(t) ==
    /\ pc[t] = "back"
    /\ active' = active - 2
    /\ pc' = [pc EXCEPT ![t] = "settle"]
    /\ UNCHANGED <<fiberVars, m_fibers, stopVars, localVars, userVars>>
Back_Never(t) ==
    /\ pc[t] = "back"
    /\ pc' = [pc EXCEPT ![t] = "settle"]
    /\ UNCHANGED <<fiberVars, queueVars, stopVars, localVars, userVars>>

(* One --m_activeThreadCount in either branch.                             *)
Back(t) ==
    /\ pc[t] = "back"
    /\ active' = active - 1
    /\ pc' = [pc EXCEPT ![t] = "settle"]
    /\ UNCHANGED <<fiberVars, m_fibers, stopVars, localVars, userVars>>

(* cb_fiber.reset() after READY and HOLD: the callback's fiber lives on    *)
(* and run() must not reuse it.  Mutant: it keeps the pointer.             *)
Released_Kept(t) == cb_fiber
Released(t) == IF ft[t].fiber = Null THEN [cb_fiber EXCEPT ![t] = Null] ELSE cb_fiber

(* READY: back into the queue, for any thread.                             *)
SettleReady(t) ==
    /\ pc[t] = "settle"
    /\ m_state[Hand(t)] = "READY"
    /\ m_fibers' = scheduleNoLock(m_fibers, FiberItem(Hand(t), AnyThread))
    /\ cb_fiber' = Released(t)
    /\ ft' = [ft EXCEPT ![t] = NoItem]
    /\ pc' = [pc EXCEPT ![t] = "fetch"]
    /\ UNCHANGED <<fiberVars, active, stopVars, idleState, userVars>>

(* TERM or EXCEPT: a callback's fiber is kept for the next callback.       *)
SettleFinished(t) ==
    /\ pc[t] = "settle"
    /\ m_state[Hand(t)] \in Finished
    /\ IF ft[t].fiber = Null
       THEN /\ m_state' = [m_state EXCEPT ![cb_fiber[t]] = "INIT"]
            /\ m_cb' = [m_cb EXCEPT ![cb_fiber[t]] = Null]
            /\ at' = [at EXCEPT ![cb_fiber[t]] = "entry"]
       ELSE UNCHANGED fiberVars
    /\ ft' = [ft EXCEPT ![t] = NoItem]
    /\ pc' = [pc EXCEPT ![t] = "fetch"]
    /\ UNCHANGED <<queueVars, stopVars, cb_fiber, idleState, userVars>>

(* Any other state is overwritten with HOLD, in a later step than the test.*)
SettleElse(t) ==
    /\ pc[t] = "settle"
    /\ m_state[Hand(t)] \notin Finished \cup {"READY"}
    /\ pc' = [pc EXCEPT ![t] = "hold"]
    /\ UNCHANGED <<fiberVars, queueVars, stopVars, localVars, userVars>>

SetHold(t) ==
    /\ pc[t] = "hold"
    /\ m_state' = [m_state EXCEPT ![Hand(t)] = "HOLD"]
    /\ cb_fiber' = Released(t)
    /\ ft' = [ft EXCEPT ![t] = NoItem]
    /\ pc' = [pc EXCEPT ![t] = "fetch"]
    /\ UNCHANGED <<m_cb, at, queueVars, stopVars, idleState, userVars>>

-----------------------------------------------------------------------------
BodyStep(t) ==
    \/ Return(t) \/ Throw(t) \/ YieldToReady(t) \/ YieldToHold(t)
    \/ \E x \in Tasks : Spawn(t, x)

RunStep(t) ==
    \/ /\ UNCHANGED failure
       /\ \/ Fetch(t) \/ NoTask(t) \/ Exit(t) \/ Idle(t)
          \/ BodyStep(t)
          \/ Leave(t) \/ Back(t)
          \/ SettleReady(t) \/ SettleFinished(t) \/ SettleElse(t) \/ SetHold(t)
    \/ RunFiber(t) \/ RunCb(t) \/ Register(t)

(* What the caller does inside stop(), and the calls it may make.          *)
StopStep ==
    \/ UNCHANGED failure /\ (StopNoCall \/ Join)
    \/ StopCall

UserStep ==
    \/ \E x \in Tasks : MainSchedule(x)
    \/ \E x, y \in Tasks : MainScheduleBatch(x, y)
    \/ Start \/ StopRequest

MainStep == StopStep \/ (UNCHANGED failure /\ UserStep)

ThreadStep(t) == failure = "none" /\ (RunStep(t) \/ (t = Caller /\ MainStep))

EventStep == failure = "none" /\ UNCHANGED failure /\ \E f \in Tasks : Fire(f)

(* stop() has returned for the last time, or the program has failed.       *)
Terminated == (pc[Caller] = "done" \/ failure # "none") /\ UNCHANGED vars

Next == EventStep \/ Terminated \/ \E t \in Threads : ThreadStep(t)

(* The operating system runs every thread, and what a thread waits for     *)
(* (m_mutex, held for a few instructions) is granted to it eventually.     *)
(* Nothing makes the user schedule, start or stop, but a stop() that was   *)
(* called goes on; nothing makes an event arrive.                          *)
Fairness ==
    /\ \A t \in Threads : WF_vars(failure = "none" /\ RunStep(t))
    /\ WF_vars(failure = "none" /\ StopStep)

Spec == Init /\ [][Next]_vars
FairSpec == Spec /\ Fairness

-----------------------------------------------------------------------------
(* Properties                                                              *)

Places == {"none", "entry", "body", "armed", "end"}
Points == {"off", "main", "stop", "join", "done", "exit", "fetch", "idle", "dispatch"}
              \cup Handling

FiberTypeOK ==
    /\ m_state \in [Tasks -> States]
    /\ m_cb \in [Tasks -> Tasks \cup {Null}]
    /\ at \in [Tasks -> Places]

QueueTypeOK == m_fibers \in Seq(Items) /\ active \in Nat

StopTypeOK ==
    /\ autoStop \in BOOLEAN
    /\ stopping \in BOOLEAN
    /\ rootState \in States
    /\ starts \in Nat

LocalTypeOK ==
    /\ pc \in [Threads -> Points]
    /\ ft \in [Threads -> Items]
    /\ cb_fiber \in [Threads -> Tasks \cup {Null}]
    /\ idleState \in [Threads -> {"live", "TERM"}]

UserTypeOK ==
    /\ waiting \subseteq Tasks
    /\ overtaken \subseteq Tasks
    /\ submits \in [Tasks -> Nat]
    /\ pin \in [Tasks -> Threads \cup {AnyThread}]
    /\ begun \in [Tasks -> Nat]
    /\ yields \in [Tasks -> Nat]

(* The variables have the types of the fields and locals they stand for;   *)
(* in particular m_activeThreadCount, a size_t, never goes below zero.     *)
TypeOK ==
    /\ FiberTypeOK
    /\ QueueTypeOK
    /\ StopTypeOK
    /\ LocalTypeOK
    /\ UserTypeOK
    /\ failure \in {"none", "swapIn", "reset", "never reach", "addEvent", "unsaved"}

(* The threads that have taken a task and not yet counted it off.          *)
Busy == {t \in Threads : pc[t] \in {"dispatch", "run", "leave", "back"}}

(* m_activeThreadCount never runs below the number of threads that work on *)
(* a task ("工作线程数量", scheduler.h:137), whatever mix of tasks they    *)
(* run: stopping() never takes a scheduler for idle that executes one.     *)
ActiveBoundsWorkers == active >= Cardinality(Busy)

(* When stop() has returned, every task that was ever scheduled has been   *)
(* entered, each exactly as often as it was scheduled ("避免有的任务没有做 *)
(* 完", scheduler.cc:107), tasks that other tasks scheduled during the     *)
(* shutdown included.                                                      *)
StopDrains ==
    pc[Caller] = "done" => \A x \in Tasks : begun[x] = submits[x]

(* No DUAN_ASSERT of swapIn(), reset() or MainFunc() fires: no fiber is    *)
(* swapped in while it executes or after it ended, and the cb_fiber that   *)
(* run() reuses has always finished.                                       *)
NoAssertFails == failure = "none"

(* Every way to reach fiber f: its queue entries, the threads that have it *)
(* in hand, and its registration with an event source.                     *)
References(f) ==
    ({"queue"} \X {i \in DOMAIN m_fibers : m_fibers[i].fiber = f})
        \cup ({"hand"} \X {t \in Threads : \/ pc[t] = "dispatch" /\ ft[t].fiber = f
                                           \/ pc[t] \in Handling /\ Hand(t) = f})

(* Of a fiber whose wake-ups came after run() was through with it, at most *)
(* one queue entry or thread has hold at any time, and none while it is    *)
(* registered with an event source, but the thread that still has it in    *)
(* hand: whatever happens to other fibers, its stack is never used by two  *)
(* threads (fiber state is protected by no lock: single ownership is all   *)
(* there is).                                                              *)
SingleOwner ==
    \A f \in Tasks \ overtaken :
        /\ Cardinality(References(f)) <= 1
        /\ f \in waiting => \A i \in DOMAIN m_fibers : m_fibers[i].fiber # f

(* No two threads execute on the stack of one fiber: run() passes over a   *)
(* fiber in state EXEC for that reason (scheduler.cc:181).                 *)
OneThreadPerFiber ==
    \A t, u \in Threads : \A f \in Tasks : OnCpu(t, f) /\ OnCpu(u, f) => t = u

(* A fiber whose body is executing is in state EXEC ("执行中状态",         *)
(* fiber.h), which is what run() and swapIn() test before they switch.     *)
ExecutingIsEXEC == \A t \in Threads : pc[t] = "run" => m_state[Hand(t)] = "EXEC"

(* A fiber that yielded READY is never dropped: it is in the queue or in   *)
(* the hand of the thread that will put it there.                          *)
ReadyIsHeld ==
    \A f \in Tasks : m_state[f] = "READY" => References(f) # {}

(* A task scheduled for a thread executes on that thread only ("thread：协 *)
(* 程执行的线程id", scheduler.h:42).                                       *)
PinKept ==
    \A t \in Threads :
        pc[t] = "run" /\ m_cb[Hand(t)] # Null => pin[m_cb[Hand(t)]] \in {t, AnyThread}

(* stop() returns: every thread leaves run() and is joined (停止协程调度器,*)
(* scheduler.h:40).                                                        *)
StopReturns == pc[Caller] = "stop" ~> pc[Caller] \in {"main", "done"}

(* A task in the queue of a started scheduler is eventually executed, also *)
(* when it waits for a pinned thread; one that is pinned to the caller,    *)
(* which executes run() only inside stop(), once stop() is called.         *)
QueuedRuns ==
    \A x \in Tasks :
        (submits[x] > 0 /\ (IF pin[x] = Caller THEN pc[Caller] = "stop" ELSE ~stopping))
            ~> (begun[x] > 0)

(* A fiber in the queue does not stay there: run() passes it over only     *)
(* while it executes, so that a wake-up that comes before the fiber has    *)
(* suspended itself is served after it has.                                *)
InQueueOf(f) == \E i \in DOMAIN m_fibers : m_fibers[i].fiber = f
StopReturned == stopping /\ pc[Caller] \in {"main", "done"}
WokenIsTaken ==
    \A f \in Tasks :
        InQueueOf(f) ~> (~InQueueOf(f) \/ StopReturned \/ failure # "none")

(* A fiber that yielded READY runs on ("继续处理", scheduler.cc:204),      *)
(* unless stop() has returned meanwhile.                                   *)
YieldedRunsOn ==
    \A f \in Tasks :
        (m_state[f] = "READY") ~> (at[f] = "end" \/ StopReturned \/ failure # "none")

(* Some thread has seen stopping() and will leave run(), and stop() has    *)
(* not joined it yet.                                                      *)
Closed ==
    \E t \in Threads : idleState[t] = "TERM" /\ pc[t] \notin {"off", "main", "done"}

(* The promise to the user: a TaskPool (see there) over the tasks.         *)
InQueue(x) ==
    \/ \E i \in DOMAIN m_fibers : x \in {m_fibers[i].fiber, m_fibers[i].cb}
    \/ \E t \in Threads : pc[t] = "dispatch" /\ x \in {ft[t].fiber, ft[t].cb}
Executing == {m_cb[Hand(t)] : t \in {u \in Threads : pc[u] = "run"}}

Pool == INSTANCE TaskPool WITH
            pending <- {x \in Tasks : InQueue(x)},
            running <- Executing,
            ended <- {x \in Tasks : begun[x] > 0} \ Executing,
            closed <- Closed

(* The scheduler implements the pool: a task is executed once, by one      *)
(* thread, after it was scheduled; threads are told to leave only when     *)
(* nothing is pending or executing, and nothing is scheduled after that.   *)
ImplementsTaskPool == Pool!Spec
=============================================================================
