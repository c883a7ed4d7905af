# TLA+ models of the Coroutine library (`duan_src`)

The library is an N:M coroutine runtime in C++: stackful fibers (`ucontext`), a
scheduler that runs them on a pool of threads, an IO manager that lets idle threads sleep in
`epoll_wait`, timers, hooked system calls, and a configuration and a log system
around them.  This directory holds TLA+ models of it, TLC runs on small
instances, and TLAPS proofs of nearly all safety properties for every instance.

Contents: [1 the system](#1-the-system) · [2 modules](#2-modules-and-how-they-follow-the-code) ·
[3 runs](#3-runs) · [4 fairness](#4-fairness) · [5 proofs](#5-proofs) ·
[6 where the code and its promises part](#6-where-the-code-and-its-promises-part) ·
[7 not modelled](#7-not-modelled) · [8 plan](#8-plan)

    tlc -workers 2 -config MCTimers.cfg MCTimerManager      # any run of PROJECT.json
    tlapm HookProofs.tla                                    # any module of section 5

## 1 The system

| component | state | operations |
|---|---|---|
| Fiber (`fiber.*`) | `m_state`, `m_cb`, the saved context; per thread the current and the main fiber | `reset`, `call`, `swapIn`, `swapOut`, `YieldToReady`, `YieldToHold`, `MainFunc` |
| Scheduler (`scheduler.*`) | the queue `m_fibers` under `m_mutex`; the counters `m_activeThreadCount`, `m_idleThreadCount`; `m_stopping`, `m_autoStop`; the root fiber | `scheduler(fc)`, `scheduler(begin, end)`, `start`, `run`, `idle`, `stopping`, `stop` |
| TimerManager (`timer.*`) | the set `m_timers` ordered by due time and address, `m_tickled`, `m_previousTime`, all under a read-write lock | `addTimer`, `addConditionTimer`, `cancel`, `refresh`, `reset`, `getNextTimer`, `listExpiredCb` |
| IOManager (`iomanager.*`), a Scheduler and a TimerManager | the epoll instance, the tickle pipe, `m_pendingEventCount`, the table of FdContexts, each with its mutex | `addEvent`, `delEvent`, `cancelEvent`, `cancelAll`, `tickle`, `stopping`, `idle`, `onTimerInsertedAtFront` |
| Hook (`hook.*`) | FdCtx of each descriptor, `timer_info` shared by call and timer | `do_io` and all calls built on it, `connect`, `accept`, `sleep`, `close`, `fcntl`, `ioctl`, `setsockopt` |
| Config (`config.*`) | the registry; per variable a value, listeners and a read-write lock; the shared `s_fun_id` | `Lookup`, `LookupBase`, `setValue`, `addListener`, `delListener`, `clearListener`, `LoadFromYaml` |
| Log (`log.*`) | the manager's map of loggers; per logger level, formatter and appenders under a mutex; per appender a formatter, a file and `m_lastTime` | `log`, `getLogger`, `addAppender`, `delAppender`, `clearAppenders`, `setFormatter`, `reopen`, `toYamlString`, the listener of `logs`; `LogFormatter::init` and `format` |
| Thread and locks (`thread.*`) | the pthread handle, id, callback and name; a semaphore for the start-up | constructor, `run`, `join`, destructor, `SetName` |
| util, macro, singleton, noncopyable | none | ids, time, backtrace, assertions |

How they interact.  Users call `scheduler()` from any thread; pool threads take
entries from the queue, swap the fiber in, and after it swaps out look at
`m_state` to decide what becomes of it.  With an empty queue they run the idle
fiber: in a plain Scheduler it yields at once, in an IOManager it asks the
timers how long it may sleep, waits in `epoll_wait`, and turns what has expired
or become ready into queue entries.  `tickle()` writes a byte into a pipe that
is part of the epoll set.  Hooked calls register an event and a timer and yield.
`stop()` sets two flags and waits until every thread has seen `stopping()`.
`start()` makes the threads one after the other under the lock that `run()`
begins with.  Loading a document announces new definitions to the log's listener,
which rebuilds loggers while everybody goes on logging.

What is hard here, and what the properties are about:

* Fiber state is protected by no lock: everything rests on each fiber being
  held by one queue entry, one thread or one event source at a time.
* Whether everybody is done is read from a queue, a counter, a timer set and
  another counter, under different locks, one after the other.
* `listExpiredCb` and `addEvent` test a condition under a lock, release it and
  use the result under the next.
* `m_tickled` suppresses notifications; the suppressed ones must not be needed.
* epoll is edge triggered: an edge that is consumed must be armed again.
* An event, a timeout and `close()` compete to wake one suspended fiber, and
  the timeout's callback may run long after its timer was cancelled.
* Listeners are called under a read lock, may throw, and may be deleted by
  others meanwhile.
* A logger without appenders holds its own lock while the root logger takes
  another; a file appender's time stamp is under no lock of its own.
* A new thread uses its Thread object through a plain pointer while the creator
  waits, with a lock in hand that the thread is about to want.

The list with lines is under `hazards` in PROJECT.json.

## 2 Modules and how they follow the code

| module | models | composition |
|---|---|---|
| `TaskPool` | what a scheduler promises: every task at most once, after it was submitted, closing only when drained | abstract |
| `Scheduler` | `scheduler.*` and `fiber.*` | implements `TaskPool` |
| `TimerManager` | `timer.*` and the loop of IO threads around it | |
| `FdEvents` | the context table and the four operations of `iomanager.*`, the event loop of `idle()` | |
| `IOManager` | Scheduler, TimerManager and FdEvents, each reduced to what their composition depends on, with `tickle`, the timeouts and `stopping` | implements `TaskPool` |
| `Config` | `config.*` | |
| `Hook` | `hook.cc`, over the events and timers of an IOManager | |
| `Log` | loggers, appenders, manager and listener of `log.*` | extends `LogFormatter` (`isError`); its loads are calls of Config's `setValue` |
| `LogFormatter` | `LogFormatter::init` and `format`, against a reference grammar | |
| `Thread` | `thread.*`, with `Scheduler::start` as the creator | |
| `SchedulerProofs`, `TimerManagerProofs`, `FdEventsProofs`, `IOManagerProofs`, `ConfigProofs`, `HookProofs`, `LogProofs`, `ThreadProofs` | theorems about the module in the name | |
| `MC*` | instances for TLC | |

Granularity.  An action is one stretch of code between two points at which
another thread can interfere: one critical section, one access to an atomic or
to unprotected shared state, one context switch, one system call that others
can observe.  Local variables that live across such a point are variables of
the model (`ft`, `cb_fiber`, `now`, `call`, `batch`, `cbs`, `got`, `arg`).
Variables keep the names of the fields.  History variables (`begun`, `fired`,
`heard`, `triggered`, ...) are written and never read by an action's guard.
A `DUAN_ASSERT` that fails sets `failure`, and nothing happens afterwards.

**Scheduler.**  `pc` follows `run()`: `fetch` (the critical section that
searches the queue) → `dispatch` → `run` (the body executes) → `leave` (state
written, context not yet saved) → `back` (counted off) → `settle` → `hold`.
What a body does is a constant: it returns, throws, yields READY or HOLD,
schedules others, or registers with an event source.  That source may reschedule it at
any moment after that (`Fire`), as `triggerEvent()` does: also before the fiber has
yielded, before its context is saved, and before `run()` has looked at its state.  The
history variable `overtaken` collects the fibers this has happened to.  A fiber object made
for a callback is named after it, and `cb_fiber` is the pointer that `run()`
reuses.  The count of idle threads is left out: only `tickle` reads it, in
`IOManager`.

**TimerManager.**  Timers are addresses, because the order of the set depends
on them: `lower_bound` compares with a Timer object at a fresh address
(`Addresses`).  The clock may be set back (`MaxJumps`), and `Hour` is the
threshold of `detectClockRollover`.  `told` records that `onTimerInsertedAtFront()` was
called since a thread last asked for its timeout.  What the call does is up to the derived class;
here a thread's sleep may end at any time, and no property relies on it that a call
ends one.  (IOManager's `tickle()` in fact does nothing while a thread sleeps.)

**FdEvents.*  The counter, the handlers and epoll's masks agree only together, and
not at every moment: inside a context's critical section the kernel is ahead of `m_events`
(`KernelAhead`), and `PendingCounts` says exactly which events count before they are
registered or after they were removed.  `SectionOK` is mutual exclusion of the
contexts' mutexes and what their holder knows of the events.  A call works on a context of its
descriptor (`CallOK`), the table has a context for every descriptor it covers
(`TableOK`), and reports are about contexts of their descriptor (`BatchOK`).

*Hook.**  A fiber that has registered its wake-up is "armed" until it yields
(`Yield`); the wake-up may come before that.  Whether a file is nonblocking already when
`FdCtx` is made is left open, and `ioctl` may make it blocking again.
A descriptor number can be closed and used again (`gen`).  A timer
that was collected becomes a callback that runs later, whatever `cancel()` says.
`hook.cc` is not in CMakeLists.txt and uses names that do not exist in the
repository (`FdManager`, `Fiber::yield`, `Scheduler::schedule`), although
the repository's README says "hook已实现"; what they do is taken from their use.

**Log.**  A logger's mutex is held over several actions (all its appenders
write under it), with its `owner`; an appender's mutex is never held while
another lock is taken, so each of its sections is one action.  `LogFile`,
`LogReopen`, `LogStamp` and `LogWrite` are the four steps of `FileLogAppender::log` between
which another logger's thread can come: the test of `m_lastTime`, `reopen()`, the assignment,
the writing.  A line is its event and the second in
which it was written; opening a file empties it.  Events are at level INFO and an
appender's own level lets them pass, as its default and `UNKNOW` both do.  A
document is a sequence of nodes, `Define` the conversion of one (with the key
`levle` that the code looks for), `Definitions` the `std::set` of them, and the
listener goes through it in `ConfNew` to `ConfGone`; the logger that a new
definition configures is unknown to the manager, so all that remains of it are the
files it opened.  A line of the listener goes through `log()` like any other.

**LogFormatter.**  Patterns are sequences of characters of the classes that `init`
tells apart; `Round` is one round of its loop, `Rounds` the loop, one round per character
at most.  The reference builds the patterns of each length from texts and directives, together with what a line should hold;
`ReadsPatterns` compares in both directions.

**Thread.**  `RunSteps` is the order of the statements of `run()`; the callback begins with
a section under the creator's mutex, as `Scheduler::run` does, and may call
`SetName`.  `pthread_create` may fail and a signal may interrupt `sem_wait`; the
object is then gone, with or without a thread that points to it.

## 3 Runs

Twelve runs, one question each.  State counts are distinct states.

| run | instance | shows |
|---|---|---|
| `sched_callbacks` | two workers and the caller, two callbacks that may throw, hold, schedule each other, pinned or not | nobody leaves while work is left (`StopDrains`), the fiber reused for callbacks is free (`NoAssertFails`), the scheduler is a `TaskPool`, `stop()` returns, every task runs |
| `sched_fibers` | two workers, a fiber and a callback that yield twice, register and are woken; `start()` again after `stop()`; 170 000 states | the counter covers every working thread (`ActiveBoundsWorkers`), one owner per fiber that was not woken too early (`SingleOwner`), READY fibers are not dropped, queued fibers are taken in the end (`WokenIsTaken`), although wake-ups may come before the fiber has suspended itself |
| `sched_stop_fiber` | one worker, one fiber | violated: `StopReturns` (section 6) |
| `timers` | two timers, one recurring, two IO threads, clock set back once; 843 000 states | `ArmedIffInSet`, `OneShotOnce`, `CollectsExactlyDue`, `FrontAnnounced` |
| `fd_ops` | two descriptors beyond the table's size, two users, one IO thread, errors; 1 311 000 states | counter, contexts, kernel agree (`PendingCounts`, `KernelAgrees`), no handler is lost or runs twice (`HandlersConserved`) |
| `fd_live` | one user, two IO threads; 37 000 states | no edge is lost (`ReadyIsTriggered`) |
| `io_caller` | a worker and the caller, a callback, a timer, an event; 109 000 states | the composition is a `TaskPool`; accepted work runs; `stop()` returns after it |
| `io_early_stop` | one worker, a callback that adds a timer | violated: `StopLeavesNothing` |
| `config` | two threads, two variables, two listeners, one of which throws, a document with every kind of key; 194 000 states | `ValueHeard`, `DeletedIsSilent`, `LoadApplies`, `CallsReturn` |
| `hook` | two fibers, one descriptor number opened twice, two calls and any number of `setsockopt`; 511 000 states | `WokenOnce`, `TimeoutIsOwn`, `WaitEnds`, with wake-ups before the yield |
| `log` | a writer, a user with two calls, a loader with three loads of four documents, the root logger and one more; patterns of up to five characters; 692 000 states | events reach each appender once (`DeliveredOnce`), appenders follow formatter and definition (`InheritedFollows`, `NoStaleAppenders`), no deadlock (`LocksInOrder`), patterns without `%%` are read right (`PatternsRead`) |
| `thread` | a creator and three threads, failing creation and interrupted waits; 27 000 states | objects are ready and not used too late (`Handover`), `start()` and the callbacks end (`StartReturns`) |

Each property is stated with its reason in the module, under "Properties".

Bounds, and why they are enough.  Interference in this code is between pairs:
two pool threads over one fiber, a user and an IO thread over one timer or one
context, two users over the table, a fiber and a late callback.  Every run has
such a pair and one step more: two tasks for two threads (one pinned), a second
call after the first (`MaxCalls`, `MaxAdds`, `MaxYields` of 2 or 3), a
descriptor number or a context object used again (`MaxOpens`, `MaxObjects` of
2).  `Fds = {2, 4}` with `InitialSize = 2` makes the table grow twice, and lets a stale
size test shrink it.  `Periods = {0, 2}` with `MaxClock = 2` gives timers due
at once, at the last instant, and beyond it; two timers can be due at the same
time, so that the order by address matters.  The clock is set back by less than
`Hour`; for a rollover `TypeOK`, `ArmedIffInSet`, `OneShotOnce` and
`CollectsExactlyDue` rest on the proofs, which hold for any distance.  That a timer
that comes due is also executed is `WorkRuns` of `IOManager`.  The documents of `log`
define, change, repeat and remove a logger, with valid and invalid patterns and
appenders; three loads are what it takes to define, change and remove.  Patterns of five
characters hold a directive with a format and one character more.  Clock ticks, submissions, calls and
starts are capped in guards by the constants named `Max*`.

Symmetry is used in the runs without liveness, for users and IO threads that
are interchangeable.  Deadlock is checked in the runs of Scheduler,
TimerManager and IOManager, where a final stuttering step stands for the
regular end; in FdEvents, Config, Hook, Log and Thread the users may simply make
no further call, and the bounded number of calls ends the run.  That no lock of
`Log` deadlocks is an invariant of its own, and that no wait of `Thread` lasts for ever
a liveness property.

Only `Scheduler` and `TimerManager` have a type invariant: theirs say something of
unsigned counters and times that a decrement or a difference could take below zero.

Each property has a mutant: a form of one definition with a plausible slip
(a counter decremented twice, `epoll_ctl` with DEL for MOD, `<` for `<=`, a
callback not cleared) under which TLC finds the property violated.  They stand
before the definition they distort, named `Definition_Slip`, and are used
nowhere else.

## 4 Fairness

Only what the operating system and the loop structure give:

* in Scheduler and IOManager, a thread that is in `run()` goes on, and a `stop()` that was
  called goes on; a lock that is held for a few instructions is granted (weak fairness per
  thread; no fairness between the alternatives of a thread).  Events of Scheduler need not
  arrive;
* in IOManager, time passes, a wait with a limit ends, and descriptors become ready in the
  end.  The last is an assumption on the peers, not something the code does: without it a
  registered event keeps `stop()` from returning, as it should;
* in FdEvents, idle threads come back to `epoll_wait` and handle what it returned, and an
  operation that was called is continued; nothing is assumed of users and of data;
* in Config, a call that has begun is continued; nobody has to call anything.
  The lock is assumed not to starve a waiter for ever, which the bounded number
  of calls makes harmless;
* in Hook, runnable fibers run, time passes and `idle()` handles what is ready;
  peers need not answer, so only waits with a timeout have to end;
* in Thread, threads run and what the creator has begun it goes on with; it need
  not join anybody.

In no module does anything make a user call an operation, `start()`, `stop()` and
`scheduler()` included.  `QueuedRuns` therefore asks of a task pinned to the caller, which
executes `run()` only inside `stop()`, that it runs once `stop()` was called, and of the
others that they run in a started scheduler.

## 5 Proofs

TLAPS proves the following for any sets of threads, tasks, timers, descriptors
and all other constants that satisfy the ASSUMEs of the module.  The bounds
(`Max*`) are arbitrary too, unless a hypothesis names one.

| module | theorem | states | hypothesis |
|---|---|---|---|
| `SchedulerProofs` | `TypeCorrect` | `TypeOK`; the unsigned counter does not go below zero | |
| | `ActiveBound` | `ActiveBoundsWorkers` | |
| | `FiberHasOneOwner` | `SingleOwner` | `Orderly` |
| | `ReadyNotLost` | `ReadyIsHeld` | |
| | `AssertionsHold` | `NoAssertFails` | `Orderly`; while `OnTime` |
| | `QueueDrained` | `StopDrains` | `Orderly`; while `OnTime` |
| | `SchedulerIsPool` | `ImplementsTaskPool` | `OnePiece` |
| `TimerManagerProofs` | `TypeCorrect`, `ArmedInSet`, `OneShot` | `TypeOK`, `ArmedIffInSet`, `OneShotOnce` | |
| | `CollectsDue` | `CollectsExactlyDue` | |
| | `FirstTimerTold` | `FrontAnnounced` | |
| `FdEventsProofs` | `PendingIsCount`, `NoHandlerLost`, `EpollAgrees` | `PendingCounts`, `HandlersConserved`, `KernelAgrees` | |
| `IOManagerProofs` | `IOManagerIsPool` | `ImplementsTaskPool` | `Simple` |
| | `NothingLeftBehind` | `StopLeavesNothing` | `Simple` |
| `HookProofs` | `ScheduledOnce`, `TimeoutOfOwnCall` | `WokenOnce`, `TimeoutIsOwn` | |
| `ConfigProofs` | `EveryValueHeard`, `DeletedNotCalled` | `ValueHeard`, `DeletedIsSilent` | `~Late` |
| | `EveryNodeApplied` | `LoadApplies` | `~Late` |
| `LogProofs` | `LocksOrdered`, `EventsDelivered` | `LocksInOrder`, `DeliveredOnce` | |
| | `FormattersInherited` | `InheritedFollows` | `Sharing = "once"` |
| | `ListsDefined` | `NoStaleAppenders` | `OneLoader` |
| | `PatternsOfAnyLength`, `PatternsAreRead` | `ReadsPatterns`, `PatternsRead` | |
| `ThreadProofs` | `HandoverHolds` | `Handover` | |

Each hypothesis is about how the library is used.  Without it the property does
not hold: section 6 has the instances.  TLC checks the same properties on
instances that satisfy it.

* `Orderly`: every task is scheduled once, and with `use_caller` the scheduler is started
  once.  Fibers may still yield, wait and come back any number of times, and may be woken at
  any moment.  `SingleOwner` then holds for each fiber that was never woken before `run()`
  was through with it (`f \notin overtaken`), whatever happens to the others; a fiber
  woken earlier can indeed get two owners (section 6).
* `OnTime`: no fiber has been woken too early so far (`overtaken = {}`).  It is not an assumption on
  `Spec` but a premise inside the invariant: `Spec => [](OnTime => NoAssertFails)`.  A single early
  wake-up can bring any assertion down, because the fiber it concerns may then execute twice.
* `OnePiece`: `Orderly`, and bodies neither yield READY nor wait for events.
  `TaskPool` executes a task in one piece, so a body that comes back has no
  counterpart there.
* `Simple`: the constructing thread takes part (`use_caller`), and work that is being
  executed calls `scheduler()` but neither `addTimer()` nor `addEvent()`.  Before
  `stop()` its caller may call everything, and work may be pinned to any thread.
* `~Late`: variables and listeners are added by the static initialisers, as
  those of `log.cc` and `hook.cc` are.
* `Sharing`: users attach their appender to one logger, once ("once"), again after it
  was taken off ("again"), or to several at a time ("shared").
* `OneLoader`: one thread loads documents.

Assumptions on constants: null pointers are none of the objects
(`NullAssumption`, `TasksAssumption`, `ChildrenAssumption`), there is a thread
(`SizeAssumption` of `Scheduler`, the constructor's `DUAN_ASSERT(threads > 0)`),
`Workers`, `IOManager`'s `Timers` and `Fds` are finite, sizes and times are natural numbers.
What `ListAllMember` rejects `Lookup` rejects too (`NamesAssumption` of `Config`),
appenders are different objects (`AppendersAssumption` of `Log`), and documents are
sequences whose nodes name loggers or nothing (`DocsAssumption`).

*Scheduler: counter.*  Neither property is inductive.  `Back` decrements the counter:
that it stays in Nat follows from the bound and from the thread itself being
busy, and the bound needs the type.  The steps of a body name a fiber through
the thread's locals (`Hand`), which is a task only because a thread that has
swapped something in still has the pointer.  Hence
`IInv == TypeOK /\ HandOK /\ ActiveBoundsWorkers`.  The bound is an inequality
because a fiber task is counted twice (section 6).

*Scheduler: ownership.*  `FInv` says for every queue entry, every thread and every task
who has what: entries are pairwise different, at most one thread holds a
pointer to a fiber (`OneHolder`), a queued fiber is held by nobody and may be
swapped in (`QueuedOK`), and at each point of `run()` the fiber in the thread's hand
has the state that the next test of `run()` expects (`InHandOf`).  The spare fiber of
`cb_fiber` is in state INIT (`SpareOf`): this is what makes `reset()`'s assertion
hold.  Removing an entry shifts the queue, which needs lemmas of its own on
`RemoveAt`.  `PInv` adds the phases of `start()` and `stop()` and the root fiber.

`FInv` holds while `OnTime`, since an early wake-up lets any assertion fail.  For `SingleOwner`
this is not enough: it must hold of the other fibers even then.  `OInv` is the part of
`FInv` that speaks of one fiber at a time, without its state: for each fiber outside `overtaken` it
says that it has one queue entry or one thread (`OwnedOK`), and that a registered fiber in a
thread's hand is on its way to HOLD (`WaitsOnly`); it is inductive whatever becomes of the fibers in
`overtaken`.  `ReadyIsHeld` rests on a third, smaller invariant (`GInv`: entries name
one thing, nobody is in `run()` when `start()` is called, a READY fiber can be reached),
and needs no hypothesis.

*Scheduler: tasks.*  `StopDrains` rests on two facts.  `CountsOK`: a task was entered as
often as scheduled exactly when it is not on its way (`Unbegun`).  `ServedOK`: for every
task on its way there is a thread that may take it and will look again before
`stop()` returns, although threads leave one after the other and pins exclude some;
`stopping()` seen with an empty queue by the last thread is what ends this.  For the
refinement `RInv` adds that no fiber comes back, that two threads execute different
tasks, and that a pool once closed has an empty queue and nobody at work
(`ClosedOK`).  Each action then maps to one of four effects on `TaskPool` (nothing,
scheduling, beginning or ending a task), with closing as a change of `Closed`.

*TimerManager.*  `OneShotOnce` speaks of history; what keeps it is that a
one-shot timer that still has its callback was neither collected nor cancelled
(`UnspentOK`).  That in turn needs the life cycle (`LifeOK`: a timer not handed
out yet is not in the set) and `ArmedIffInSet`.  `reset()` computes
`m_next - m_ms`, a natural number only by `StartOK`.  `CollectsExactlyDue` is an
action property; it rests on `ExpiredIsDue`, which says that `lower_bound` with
a fresh object and the loop behind it cut the set exactly behind the due timers,
whatever the object's address.  `FrontAnnounced` needs that `m_tickled` is set only
while a notification is under way, was made, or a thread is up (`TickledOK`), that every period
began in the past (`PastOK`, so that `refresh()`, which notifies nobody, moves no timer
forward), and that without any of these some thread's deadline is at or before
the first timer (`FrontOK`).

*FdEvents.*  The counter, the handlers and epoll's masks agree only together, and only if
a call works on a context of its descriptor (`CallOK`), users do not add what is
registered (`AddsAlone`), the table has a context for every descriptor it covers
(`TableOK`), and reports in a thread's batch are about the kernel's context and
fresh as long as nothing was removed (`BatchOK`).  For `OneUser`, `CallIsCurrent`
says that nobody resized the table between the two critical sections of `addEvent()`.

*Hook.*  `WaitOf` splits `WokenOnce` into the ways a fiber can wait: by one
registration, by one sleep timer, or scheduled already; each wake-up moves it from
one to the next.  That the timeout is the call's own needs that the `timer_info`
object identifies the call (`NotedOK`).  A fiber waits from the registration on (`Waits`), not from
the yield, since it can be scheduled in between.

*Config.*  `setValue()` announces under the read lock and stores later under the
write lock.  `SetOf` says that the thread is among the readers, that those still to be
called are in the map, and that all the others have heard the value; who deletes
waits for the readers, so a deletion cannot come between.  `CbsOK` says that a listener
is in its own variable's map only, under the key its client was given, which is
what `~Late` is for.

*Config: loading.*  `ListAllMember` is a recursive function over the document.  That it
is defined, and that the list has exactly the nodes with valid names, is proved by
taking the least length for which it fails (`WFMin` on the natural numbers).  `LoadOf`
then says of every node that can be set that it is set already, still in the list, or in
the hand of the `setValue()` that the loop is in (`Served`); no exception leaves the loop
with a node unserved, because a node that throws was not settable.

*IOManager.*  `OnePlace` says that accepted work is in exactly one of `m_timers`, the
FdContexts, the hand of a thread between `listExpiredCb()` and the queue, and the queue,
and was not executed.  `m_pendingEventCount` is the number of registered events and of
threads that have still to count one off (`CountOK`), so that a zero means that there is
none.  What the caller has seen on its way through `stopping()` stays true (`StageOK`),
because executing work adds neither timers nor events.  The queue is the last place looked at,
and the delicate one: a callback that was collected is in none of the places, and a thread
that has seen `stopping()` may still execute what others post.  `LeaveOK` says that when all
threads are through, the queue is empty and nobody executes: whoever has something in
hand is not through, and the last one saw an empty queue and a counter of zero, which
counts exactly those who execute (`ActiveOK`).  Each action then has one of five effects on
`TaskPool` (nothing, accepting, beginning or ending one piece of work, closing).

*Log.*  `LInv` relates where a thread is to the locks it holds (`Lockings`) and to what
its locals mean there (`Stages`).  Who is in a logger's loop holds its mutex, so the list
does not change under it, and what it has done is a prefix of the list (`Deliveries`).  An
object that a listener made is in one list or in one hand (`ObjectsSingle`); an appender
without a formatter of its own has its logger's, or the thread that changes the formatter
has not reached it yet (`Follows`).  During a reload (`Reloads`) the loggers that the
listener has not reached have the lists of the old definitions, those behind it the new
ones, and the one it works on a part of the new, or what is left of it after a
user cleared it.

*LogFormatter.*  Two inductions, each over a set of numbers (`StrongInduction`,
`StepInduction`, which rest on the least element of the complement).  Over the length of
a pattern: if `y` is written, then on any pattern that goes on after it, in a way that is
not read as part of its last directive, the loop reaches the end of `y` without an
error, and the items so far write what `y` asks for (`LoopReads`).  Over the rounds: as
long as there is no error, what is behind the loop is a written pattern that does not end
in a text, and the text that `nstr` holds (`Accepts`); each round gets further, so the
last is at the end.  Both rest on what a round does at a name without and with a
format (`RoundBare`, `RoundFull`), and on the fact that nothing else passes (`RoundCases`).

*Thread.*  `ProgressOf` relates the object, the semaphore and the step of `run()`: only
`run()` raises the semaphore, after it has read the object.

The layout is the same everywhere: one lemma per action, on top of lemmas on
what a group of actions leaves alone; TLC checked the inductive invariants on small
instances first.

Only model-checked, and why:

* all liveness properties (`StopReturns`, `QueuedRuns`, `WokenIsTaken`, `ReadyIsTriggered`,
  `WorkRuns`, `CallsReturn`, `WaitEnds`, `StartReturns`): fairness and ENABLED are
  out of this prover's reach.

What recursive functions compute (`ListAllMember`, `Rounds`, `Written`) is proved all the same:
the induction theorems of the library take an operator, which the provers cannot
instantiate, but a set of numbers does as well.

## 6 Where the code and its promises part

Two disagreements have a run of their own:

* **`stop()` after a Fiber was scheduled** (`sched_stop_fiber`).  The fiber
  branch of `run()` increments `m_activeThreadCount` once more than it
  decrements it (scheduler.cc:189, 199, 201); `stopping()` stays false for ever.
* **a worker that leaves early** (`io_early_stop`).  `stopping()` reads the
  timers before it reads `m_stopping` (iomanager.cc:280).

The following properties are stated in the modules and are in no run, or are
checked under an assumption that is part of the instance, because the code
does not keep them in general.  The values that show it:

| property | fails when | reason |
|---|---|---|
| `Scheduler!ExecutingIsEXEC`, `OneThreadPerFiber`, `SingleOwner` without `\ overtaken`, `NoAssertFails` | two workers, one fiber, `Behaviours = {"register"}`, `MaxYields = 1` | the event schedules the fiber before `run()` has looked at its state (iomanager.cc:37-49); a second thread swaps it in, and the first one writes HOLD (scheduler.cc:207) over its EXEC, which is "执行中状态" (fiber.h:27) and what keeps a third thread away (scheduler.cc:181) |
| `Scheduler!YieldedRunsOn` | the same with "ready", `MaxYields = 2` | the same HOLD written over READY: the second thread does not put the fiber back although it asked to go on ("继续处理", scheduler.cc:204), and it is in no queue any more |
| `Scheduler!NoAssertFails` | `MaxSubmits = 2` with a fiber; or `UseCaller`, `MaxStarts = 2` | a fiber that is queued twice is swapped in after its end; the root fiber is called after its end |
| `Scheduler!ImplementsTaskPool` | "ready" or "register" among `Behaviours` | no fault of the code: a body that yields is executed in several pieces, which `TaskPool` does not have |
| `Scheduler!PinKept` | a fiber with a pin, "ready" | `run()` puts it back for any thread (scheduler.cc:204) |
| `TimerManager!NoNullDereference` | one timer, one IO thread | `cancel()` between the two locks of `listExpiredCb` (timer.cc:152–158) |
| `TimerManager!FrontAnnounced` without `jumps = 0` | the clock is set back | `refresh()` does not notify (timer.cc:66) |
| `FdEvents!TriggersRegistered` ("DUAN_ASSERT(m_events & event)", iomanager.cc:38) | one user who adds WRITE, one IO thread, an error (`Errors` not empty) | EPOLLERR and EPOLLHUP count as both events without a mask of the registered ones (iomanager.cc:359); the assertion fails for READ |
| the same | `Ops` with "add" and "del", `MaxAdds = 2`, one user, one IO thread, no errors | both events were reported and one is removed before the report is handled: `idle()` triggers what was reported, not what is still registered (iomanager.cc:388) |
| `IOManager!ImplementsTaskPool`, `StopLeavesNothing` | `UseCaller = FALSE` and a timer added before `stop()`; or "timer" or "event" among `InTasks`, and a timer | no thread, or not the last one to leave, looks at the timers again after it has seen that there is none (iomanager.cc:280) |
| `IOManager!QueuedWakes` ("唤醒线程", iomanager.cc:267) | any instance | `tickle()` returns when a thread is idle and writes only when none is (iomanager.cc:269), so it never wakes a sleeping one, neither for a queued task nor for a new first timer; that is left to MAX_TIMEOUT |
| `IOManager!WorkRuns` | `Delays` reaching `Half`; `PipeCapacity = 1` | the timeout is truncated to `int`; `write()` blocks with nobody idle to read |
| `IOManager!StopReturns` | `Pins` of a worker, work that schedules pinned work or adds timers during the shutdown | the worker has left and nobody else takes work pinned to it |
| `Config!CopiesFollow` ("当一个配置项发生修改的时候，可以反向通知对应的代码，回调", src/README.md:89) | two setters of one variable, `MaxCalls = 3`, `Throwing = {}` | announced under the read lock, stored under the write lock, in different orders: the listeners keep a value that is not in force (config.h:308-319) |
| `Config!DeletedIsSilent` (a key must be unique, "要求唯一", config.h:350) | two variables of one type, two threads, `Late = TRUE`, `MaxCalls = 5` | `s_fun_id` is shared and incremented under each variable's own lock, then read again: `addListener()` returns a key under which it stored nothing, and `delListener()` deletes nothing (config.h:327-329) |
| `Config!LoadApplies` | `Late = TRUE` | a variable that `Lookup` makes after the loop has passed its name keeps its default |
| `Hook!WaitEnds` without `~cancelled` | one fiber, one timeout | the timer is armed before `addEvent`; a timeout in between finds no event to cancel, and the fiber waits for ever |
| `Hook!WaitEnds` without the test of the file | two fibers | a fiber woken by `close()`'s `cancelAll` registers again before `close_f` |
| `Log!InheritedFollows` | `Sharing = "again"` | an appender that was taken off keeps the formatter it inherited; the next logger finds it set and does not replace it (log.cc:298) |
| `Log!LinesStay` (reopening is for files that were deleted, src/README.md:154) | one writer, two events, `MaxClock = 2` | `reopen()` opens the file without `std::ios::app`, which empties it, in every second in which the appender writes (log.cc:389): only the lines of the last second remain |
| the same, within one second | `Sharing = "shared"`, two writers, three calls, `MaxClock = 1` | two loggers hold different mutexes; `m_lastTime` is tested and set under neither the appender's (log.cc:396-398), so both reopen the file and the second `reopen()` takes the line of the first.  (bin/conf/test.yml:7,14 names one file for two loggers: two appenders, each of which empties it for the other.) |
| `Log!DefinedIsSetUp` ("新增logger", log.cc:701; tests/test_config.cc:206-220) | one loader, one document that defines a logger | the listener makes a Logger of its own, which the manager does not know (log.cc:702); the logger of that name has no appenders |
| `Log!DoubledRead` ("格式 %xxx %xxx{xxx} %%", log.cc:435) | any instance, patterns of two characters | `init()` appends one `%` and reads the second again as the start of a directive (log.cc:446-449): `%%` is an error |
| `Log!NoStaleAppenders` | two loaders | `setValue()` announces under the read lock, so two listeners run at once and both fill the logger (log.cc:715) |
| `Thread!Handover` without `interrupted` | any instance | a signal makes `sem_wait` fail and the constructor throw; `run()` uses the object that is gone (thread.cc:77) |

What the log does on reload, as the actions of `Log` show it: a logger that is newly
defined is set up outside the manager, so it has no effect but to empty its files
(log.cc:702, `ConfNew`); a definition that is unchanged next to one that
changed is a null pointer (log.cc:710, `ConfSame`, after which the model stops); a
level is read only from nodes that also have a key `levle` (log.cc:612); a
logger that was removed has level 100 and stays silent when it is defined
again as new.  A `Thread` whose constructor throws
in `Scheduler::start()` leaves `m_threads` with null entries that `stop()` joins
(scheduler.cc:66).

## 7 Not modelled

* **Stacks, ids, counts and destructors of fibers**: memory management, no
  decision depends on it.  `CallerMainFunc` and `back` are never executed.
* **Log**: an appender's own level, events at other levels, names of levels,
  `LogEvent::format` and the text of dumps.  Files fail to open or to take a line
  without a consequence in the code but a message.  `setFormatter(nullptr)` on an
  attached appender, whose next line would use a null pointer, is not among the calls.
* **Spinlock, CASLock, the Null locks**: used by nothing.  `mutex.h` and
  `mutex.cc` are a copy of the lock classes that nothing includes.
* **LexicalCast** of containers: data conversion through yaml-cpp; one
  predicate (`Converts`) stands for it.
* **Listeners that call back into their own variable**: they would wait for a
  write lock under their own read lock.  Stated as a hazard.
* **Hooked calls with the hook off**, and those that only pass on arguments.
* **A signal during `epoll_wait`**: `idle()` repeats the call with the timeout it had
  (iomanager.cc:311-328), which only lengthens the wait.
* **MAX_TIMEOUT in TimerManager**: a sleep there may end at any time, which includes it;
  `IOManager` has it.
* **util, macro, singleton, noncopyable**: stateless.

## 8 Plan

Done: all modules of section 2, and the proofs of section 5.  Next, in this order:

1. A timer part of `IOManager` shown to implement `TimerManager`'s promise, so
   that the composition rests on the detailed module.
2. `LexicalCast` of containers against a reference definition.
