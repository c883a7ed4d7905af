---------------------------- MODULE TimerManager ----------------------------
(***************************************************************************)
(* Timers: duan_src/timer.{h,cc}.                                          *)
(*                                                                         *)
(* IO threads execute the part of IOManager::idle() that deals with        *)
(* timers: getNextTimer(), sleep that long, listExpiredCb().  Users create *)
(* timers and call cancel(), refresh() and reset() on them from any        *)
(* thread.  Every critical section of m_mutex is one action; the clock is  *)
(* read outside of it where the code does so.                              *)
(*                                                                         *)
(* onTimerInsertedAtFront() is virtual.  The class promises to call it;    *)
(* whether a call ends a thread's sleep is up to the derived class (in     *)
(* IOManager it need not, see there), so here a sleep may end at any time. *)
(*                                                                         *)
(* A timer is its address, a natural number: the set m_timers is ordered   *)
(* by m_next and then by address.  clock is the wall clock GetCurrentMS(), *)
(* which may be set back; a sleeping thread's timeout is not affected by   *)
(* that, so its deadline moves with the clock.                             *)
(***************************************************************************)
EXTENDS Integers, FiniteSets

CONSTANTS
    Timers,         \* addresses of Timer objects
    Addresses,      \* where the Timer object that listExpiredCb makes may lie
    IOThreads,      \* threads in IOManager::idle()
    Recurring,      \* the timers made with recurring = true
    Periods,        \* values of ms that users pass
    Hour,           \* what detectClockRollover takes for a rollover
    MaxClock,       \* bound: the latest time
    MaxJumps        \* bound: how often the clock is set back

ASSUME TimersAssumption == Timers \subseteq Nat /\ Addresses \subseteq Nat
ASSUME RecurringAssumption == Recurring \subseteq Timers
ASSUME PeriodsAssumption == Periods \subseteq Nat
ASSUME ClockAssumption == Hour \in Nat /\ MaxClock \in Nat /\ Hour < MaxClock /\ MaxJumps \in Nat

VARIABLES
    clock,          \* GetCurrentMS()
    jumps,          \* how often it was set back
    m_timers,       \* TimerManager::m_timers, as a set: see Before
    m_next, m_ms,
    m_cb,           \* is Timer::m_cb set?
    m_tickled,
    m_previousTime,
    life,           \* of each timer: "none", "made" (not inserted yet), "known"
    notifying,      \* calls of onTimerInsertedAtFront() not made yet
    told,           \* history: it was called since the last getNextTimer()
    pc, now,        \* IO threads: point, now_ms
    deadline,       \* when the timeout that getNextTimer() returned is over
    fired,          \* history: how often each one-shot callback was collected (0..2)
    cancelled,      \* history: timers whose cancel() returned true
    failure         \* a null pointer was dereferenced

timerVars == <<m_next, m_ms, m_cb>>
threadVars == <<pc, now, deadline>>
vars == <<clock, jumps, m_timers, timerVars, m_tickled, m_previousTime, life, notifying,
          told, threadVars, fired, cancelled, failure>>

-----------------------------------------------------------------------------
Forever == MaxClock + Hour + 100        \* what ~0ull stands for

(* Timer::Comparator against a key (time, address).                        *)
Before(x, time, address) == m_next[x] < time \/ (m_next[x] = time /\ x < address)

(* m_timers.begin().                                                       *)
IsFront(x, S) == x \in S /\ \A y \in S \ {x} : Before(x, m_next[y], y)

Init ==
    /\ clock = Hour
    /\ jumps = 0
    /\ m_timers = {}
    /\ m_next = [x \in Timers |-> 0]
    /\ m_ms = [x \in Timers |-> 0]
    /\ m_cb = [x \in Timers |-> FALSE]
    /\ m_tickled = FALSE
    /\ m_previousTime = clock
    /\ life = [x \in Timers |-> "none"]
    /\ notifying = {}
    /\ told = FALSE
    /\ pc = [t \in IOThreads |-> "next"]
    /\ now = [t \in IOThreads |-> 0]
    /\ deadline = [t \in IOThreads |-> 0]
    /\ fired = [x \in Timers |-> 0]
    /\ cancelled = {}
    /\ failure = FALSE

-----------------------------------------------------------------------------
(* The clock                                                               *)

Tick ==
    /\ clock < MaxClock
    /\ clock' = clock + 1
    /\ UNCHANGED <<jumps, m_timers, timerVars, m_tickled, m_previousTime, life, notifying,
                   told, threadVars, fired, cancelled, failure>>

SetBack ==
    /\ jumps < MaxJumps
    /\ jumps' = jumps + 1
    /\ \E c \in Hour .. clock - 1 :
        /\ clock' = c
        /\ deadline' = [t \in IOThreads |-> IF pc[t] = "wait" THEN deadline[t] - (clock - c)
                                                              ELSE deadline[t]]
    /\ UNCHANGED <<m_timers, timerVars, m_tickled, m_previousTime, life, notifying, told,
                   pc, now, fired, cancelled, failure>>

-----------------------------------------------------------------------------
(* Users                                                                   *)

(* The constructor, which reads the clock before addTimer() has the lock.  *)
NewTimer(x, ms) ==
    /\ life[x] = "none"
    /\ life' = [life EXCEPT ![x] = "made"]
    /\ m_ms' = [m_ms EXCEPT ![x] = ms]
    /\ m_next' = [m_next EXCEPT ![x] = clock + ms]
    /\ m_cb' = [m_cb EXCEPT ![x] = TRUE]
    /\ UNCHANGED <<clock, jumps, m_timers, m_tickled, m_previousTime, notifying,
                   told, threadVars, fired, cancelled, failure>>

(* it == m_timers.begin() for the iterator that insert() returned.         *)
AtFront(x, time) ==
    \A y \in m_timers \ {x} : time < m_next[y] \/ (time = m_next[y] /\ x < y)

(* addTimer(val, lock).                                                    *)
insertTimer(x, time) ==
    /\ m_timers' = m_timers \cup {x}
    /\ IF AtFront(x, time) /\ ~m_tickled
       THEN m_tickled' = TRUE /\ notifying' = notifying \cup {x}
       ELSE UNCHANGED <<m_tickled, notifying>>

(* The critical section of addTimer(ms, cb, recurring).                    *)
AddTimer(x) ==
    /\ life[x] = "made"
    /\ life' = [life EXCEPT ![x] = "known"]
    /\ insertTimer(x, m_next[x])
    /\ UNCHANGED <<clock, jumps, timerVars, m_previousTime, told, threadVars, fired, cancelled,
                   failure>>

(* onTimerInsertedAtFront(), called after the lock was released.           *)
Notify(x) ==
    /\ x \in notifying
    /\ notifying' = notifying \ {x}
    /\ told' = TRUE
    /\ UNCHANGED <<clock, jumps, m_timers, timerVars, m_tickled, m_previousTime, life,
                   threadVars, fired, cancelled, failure>>

(* Timer::cancel(): m_timers.erase(find(this)) without looking at the      *)
(* iterator that find() returned.  false leaves everything alone.          *)
Cancel(x) ==
    /\ life[x] = "known"
    /\ m_cb[x]
    /\ m_cb' = [m_cb EXCEPT ![x] = FALSE]
    /\ m_timers' = m_timers \ {x}
    /\ cancelled' = cancelled \cup {x}
    /\ UNCHANGED <<clock, jumps, m_next, m_ms, m_tickled, m_previousTime, life,
                   notifying, told, threadVars, fired, failure>>

(* Timer::refresh(): no onTimerInsertedAtFront().                          *)
Refresh(x) ==
    /\ life[x] = "known"
    /\ m_cb[x] /\ x \in m_timers
    /\ m_next' = [m_next EXCEPT ![x] = clock + m_ms[x]]
    /\ UNCHANGED <<clock, jumps, m_timers, m_ms, m_cb, m_tickled, m_previousTime,
                   life, notifying, told, threadVars, fired, cancelled, failure>>

(* What reset() counts the new period from.  Mutant: operands swapped.     *)
ResetStart_Swapped(x, from_now) == IF from_now THEN clock ELSE m_ms[x] - m_next[x]
ResetStart(x, from_now) == IF from_now THEN clock ELSE m_next[x] - m_ms[x]

(* Timer::reset(ms, from_now).  The first test, without the lock, returns  *)
(* true and changes nothing.                                               *)
Reset(x, ms, from_now) ==
    LET start == ResetStart(x, from_now) IN
    /\ life[x] = "known"
    /\ ~(ms = m_ms[x] /\ ~from_now)
    /\ m_cb[x] /\ x \in m_timers
    /\ m_ms' = [m_ms EXCEPT ![x] = ms]
    /\ m_next' = [m_next EXCEPT ![x] = start + ms]
    /\ insertTimer(x, start + ms)
    /\ UNCHANGED <<clock, jumps, m_cb, m_previousTime, life, told, threadVars, fired,
                   cancelled, failure>>

-----------------------------------------------------------------------------
(* IO threads                                                              *)

(* Mutant: the flag stays set.                                             *)
TickledAfterNext_Kept == m_tickled
TickledAfterNext == FALSE

(* getNextTimer(), then the thread sleeps that long.                       *)
getNextTimer(t) ==
    /\ pc[t] = "next"
    /\ m_tickled' = TickledAfterNext
    /\ told' = FALSE
    /\ \/ m_timers = {} /\ deadline' = [deadline EXCEPT ![t] = clock + Forever]
       \/ \E x \in m_timers :
            /\ IsFront(x, m_timers)
            /\ deadline' = [deadline EXCEPT ![t] = IF clock >= m_next[x] THEN clock ELSE m_next[x]]
    /\ pc' = [pc EXCEPT ![t] = "wait"]
    /\ UNCHANGED <<clock, jumps, m_timers, timerVars, m_previousTime, life, notifying,
                   now, fired, cancelled, failure>>

(* The sleep ends: its time is up, an event came, or somebody wrote to the *)
(* pipe.  listExpiredCb() begins and reads the clock.                      *)
WakeUp(t) ==
    /\ pc[t] = "wait"
    /\ now' = [now EXCEPT ![t] = clock]
    /\ deadline' = [deadline EXCEPT ![t] = 0]
    /\ pc' = [pc EXCEPT ![t] = "check"]
    /\ UNCHANGED <<clock, jumps, m_timers, timerVars, m_tickled, m_previousTime, life,
                   notifying, told, fired, cancelled, failure>>

(* listExpiredCb() tests for emptiness under the read lock and releases it *)
(* before it takes the write lock.                                         *)
CheckEmpty(t) ==
    /\ pc[t] = "check"
    /\ pc' = [pc EXCEPT ![t] = IF m_timers = {} THEN "next" ELSE "collect"]
    /\ now' = [now EXCEPT ![t] = IF m_timers = {} THEN 0 ELSE @]
    /\ UNCHANGED <<clock, jumps, m_timers, timerVars, m_tickled, m_previousTime, life,
                   notifying, told, deadline, fired, cancelled, failure>>

(* detectClockRollover(now_ms), before it stores now_ms.                   *)
Rollover(now_ms) == now_ms < m_previousTime /\ now_ms < m_previousTime - Hour

(* Mutant: the timers that are due exactly now are left.                   *)
Expired_Strict(now_ms, address) == {x \in m_timers : m_next[x] < now_ms}
(* Everything before the iterator: lower_bound() of a Timer object with    *)
(* m_next = now_ms, which lies at some address, then on over the timers    *)
(* that are due at now_ms.                                                 *)
Expired(now_ms, address) ==
    LET below == {x \in m_timers : Before(x, now_ms, address)} IN
    IF Rollover(now_ms) THEN m_timers
    ELSE below \cup {x \in m_timers \ below : m_next[x] = now_ms}

Capped(n) == IF n < 2 THEN n + 1 ELSE 2

(* Mutant: m_cb of a one-shot timer is kept.                               *)
CbAfter_Kept(E) == m_cb
CbAfter(E) == [x \in Timers |-> m_cb[x] /\ (x \in E => x \in Recurring)]

(* The critical section that collects the callbacks.                       *)
Collect(t) ==
    /\ pc[t] = "collect"
    /\ Rollover(now[t]) \/ m_timers # {}
    /\ m_previousTime' = now[t]
    /\ IF ~Rollover(now[t]) /\ \E x \in m_timers : IsFront(x, m_timers) /\ m_next[x] > now[t]
       THEN UNCHANGED <<m_timers, timerVars, fired>>
       ELSE \E address \in Addresses :
              LET E == Expired(now[t], address) IN
              /\ m_timers' = {x \in m_timers : x \in E => x \in Recurring}
              /\ m_next' = [x \in Timers |-> IF x \in E /\ x \in Recurring
                                             THEN now[t] + m_ms[x] ELSE m_next[x]]
              /\ m_cb' = CbAfter(E)
              /\ fired' = [x \in Timers |-> IF x \in E \ Recurring
                                            THEN Capped(fired[x]) ELSE fired[x]]
              /\ UNCHANGED m_ms
    /\ pc' = [pc EXCEPT ![t] = "next"]
    /\ now' = [now EXCEPT ![t] = 0]
    /\ UNCHANGED <<clock, jumps, m_tickled, life, notifying, told, deadline, cancelled, failure>>

(* The set became empty since CheckEmpty: *m_timers.begin() is a null      *)
(* pointer.                                                                *)
CollectNone(t) ==
    /\ pc[t] = "collect"
    /\ ~Rollover(now[t]) /\ m_timers = {}
    /\ failure' = TRUE
    /\ UNCHANGED <<clock, jumps, m_timers, timerVars, m_tickled, m_previousTime, life,
                   notifying, told, threadVars, fired, cancelled>>

-----------------------------------------------------------------------------
IOStep(t) ==
    \/ getNextTimer(t) \/ WakeUp(t)
    \/ CheckEmpty(t) \/ Collect(t) \/ CollectNone(t)

UserStep ==
    \E x \in Timers :
        \/ \E ms \in Periods : NewTimer(x, ms)
        \/ AddTimer(x) \/ Notify(x) \/ Cancel(x) \/ Refresh(x)
        \/ \E ms \in Periods, from_now \in BOOLEAN : Reset(x, ms, from_now)

(* The process is gone, or every thread sleeps and time does not go on.    *)
Stop ==
    /\ failure \/ clock = MaxClock
    /\ UNCHANGED vars

Next == Stop \/ (~failure /\ (Tick \/ SetBack \/ UserStep \/ \E t \in IOThreads : IOStep(t)))

Spec == Init /\ [][Next]_vars

-----------------------------------------------------------------------------
(* Properties                                                              *)

ClockTypeOK == clock \in Nat /\ jumps \in Nat /\ m_previousTime \in Nat

TimerTypeOK ==
    /\ m_timers \subseteq Timers
    /\ m_next \in [Timers -> Nat]
    /\ m_ms \in [Timers -> Nat]
    /\ m_cb \in [Timers -> BOOLEAN]
    /\ life \in [Timers -> {"none", "made", "known"}]

HistoryTypeOK == fired \in [Timers -> 0..2] /\ cancelled \subseteq Timers

ThreadTypeOK ==
    /\ pc \in [IOThreads -> {"next", "wait", "check", "collect"}]
    /\ now \in [IOThreads -> Nat]
    /\ deadline \in [IOThreads -> Int]

FlagTypeOK ==
    /\ m_tickled \in BOOLEAN /\ told \in BOOLEAN /\ failure \in BOOLEAN
    /\ notifying \subseteq Timers

(* The variables have the types of the fields and locals they stand for;   *)
(* m_next is unsigned: no operation takes it below zero.                   *)
TypeOK == ClockTypeOK /\ TimerTypeOK /\ HistoryTypeOK /\ ThreadTypeOK /\ FlagTypeOK

(* A timer that users know has a callback exactly while it is in m_timers. *)
(* cancel() relies on it: it tests m_cb and then erases what find()        *)
(* returns, end() or not.                                                  *)
ArmedIffInSet == \A x \in Timers : life[x] = "known" => (m_cb[x] <=> x \in m_timers)

(* The callback of a timer that does not recur is collected at most once,  *)
(* and not at all when cancel() returned true, however cancel(), reset(),  *)
(* refresh() and listExpiredCb() of several threads interleave.            *)
OneShotOnce ==
    \A x \in Timers :
        x \notin Recurring => fired[x] + (IF x \in cancelled THEN 1 ELSE 0) <= 1

(* listExpiredCb() takes exactly the timers that are due at the time it    *)
(* read, wherever in memory its comparison object lies: none early, and    *)
(* none left behind ("返回现在这个时间点 满足条件的回调", iomanager.cc:334).*)
CollectsExactlyDue ==
    [][\A t \in IOThreads :
        pc[t] = "collect" /\ pc'[t] = "next" /\ ~Rollover(now[t]) =>
            \A x \in m_timers :
                IF m_next[x] <= now[t]
                THEN x \in m_timers' => x \in Recurring /\ m_next'[x] = now[t] + m_ms[x]
                ELSE x \in m_timers' /\ m_next'[x] = m_next[x]]_vars

(* When every thread sleeps beyond the first timer, the derived class has  *)
(* been told, or is about to be: onTimerInsertedAtFront() is being called  *)
(* or was called after the last thread had asked for its timeout.  The     *)
(* flag m_tickled, which suppresses repeated calls (timer.cc:186), never   *)
(* suppresses a needed one.  (Once the clock has been set back, refresh()  *)
(* can move a timer to the front without a call.)                          *)
FrontAnnounced ==
    m_timers # {} /\ jumps = 0 =>
        \/ told \/ notifying # {}
        \/ \E t \in IOThreads :
            \/ pc[t] # "wait" \/ deadline[t] <= clock
            \/ \A x \in m_timers : deadline[t] <= m_next[x]

(* listExpiredCb() dereferences m_timers.begin() only when there is one.   *)
NoNullDereference == ~failure
=============================================================================
