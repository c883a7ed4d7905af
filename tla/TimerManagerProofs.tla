------------------------- MODULE TimerManagerProofs -------------------------
(***************************************************************************)
(* Theorems about TimerManager, for any timers, IO threads and periods.    *)
(***************************************************************************)
EXTENDS TimerManager, TLAPS

(* The life of a timer object.                                             *)
LifeOK ==
    \A x \in Timers :
        /\ life[x] # "known" => x \notin m_timers /\ fired[x] = 0 /\ x \notin cancelled
        /\ life[x] = "none" => ~m_cb[x]
        /\ life[x] = "made" => m_cb[x]
        /\ life[x] = "known" => (m_cb[x] <=> x \in m_timers)

(* A one-shot timer that still has its callback has neither been collected *)
(* nor cancelled: what makes OneShotOnce inductive.                        *)
UnspentOK ==
    \A x \in Timers \ Recurring :
        /\ m_cb[x] => fired[x] = 0 /\ x \notin cancelled
        /\ fired[x] \in {0, 1}
        /\ x \in cancelled => fired[x] = 0

(* m_next - m_ms, which reset() computes, is a time.                       *)
StartOK == \A x \in Timers : m_ms[x] <= m_next[x]

IInv == TypeOK /\ LifeOK /\ UnspentOK /\ StartOK

-----------------------------------------------------------------------------
(* lower_bound() and the loop behind it stop behind the last timer that is *)
(* due, whatever the address of the object they compare with.              *)
LEMMA ExpiredIsDue ==
    ASSUME TimerTypeOK, NEW n \in Nat, NEW address \in Nat, ~Rollover(n)
    PROVE  Expired(n, address) = {x \in m_timers : m_next[x] <= n}
BY DEF Expired, Before, TimerTypeOK

(* Only timers in the set are collected.                                   *)
LEMMA ExpiredSubset ==
    ASSUME NEW n, NEW address
    PROVE  Expired(n, address) \subseteq m_timers
BY DEF Expired

(* No timer exists in the initial state.                                   *)
LEMMA InitIInv == Init => IInv
<1> SUFFICES ASSUME Init PROVE IInv  OBVIOUS
<1>1. ClockTypeOK  BY ClockAssumption DEF Init, ClockTypeOK
<1>2. TimerTypeOK  BY DEF Init, TimerTypeOK
<1>3. HistoryTypeOK  BY DEF Init, HistoryTypeOK
<1>4. ThreadTypeOK  BY DEF Init, ThreadTypeOK
<1>5. FlagTypeOK  BY DEF Init, FlagTypeOK
<1>6. LifeOK /\ UnspentOK /\ StartOK  BY DEF Init, LifeOK, UnspentOK, StartOK
<1> QED  BY <1>1, <1>2, <1>3, <1>4, <1>5, <1>6 DEF IInv, TypeOK

(* What a step leaves alone stays as it is.                                *)
LEMMA Keep ==
    ASSUME IInv
    PROVE  /\ UNCHANGED <<clock, jumps, m_previousTime>> => ClockTypeOK'
           /\ UNCHANGED <<m_timers, timerVars, life>> => TimerTypeOK' /\ StartOK'
           /\ UNCHANGED <<fired, cancelled>> => HistoryTypeOK'
           /\ UNCHANGED threadVars => ThreadTypeOK'
           /\ UNCHANGED <<m_tickled, told, failure, notifying>> => FlagTypeOK'
           /\ UNCHANGED <<m_timers, timerVars, life, fired, cancelled>> => LifeOK' /\ UnspentOK'
BY DEF IInv, TypeOK, ClockTypeOK, TimerTypeOK, HistoryTypeOK, ThreadTypeOK, FlagTypeOK, LifeOK,
       UnspentOK, StartOK, timerVars, threadVars

(* The clock goes on, or is set back.                                      *)
LEMMA TickStep == ASSUME IInv, Tick PROVE IInv'
<1>1. ClockTypeOK'  BY DEF Tick, IInv, TypeOK, ClockTypeOK
<1> QED  BY <1>1, Keep DEF Tick, IInv, TypeOK

(* Setting the clock back preserves the invariant: no due time changes.    *)
LEMMA SetBackStep == ASSUME IInv, SetBack PROVE IInv'
<1>1. PICK c \in Hour .. clock - 1 :
        /\ clock' = c
        /\ deadline' = [t \in IOThreads |-> IF pc[t] = "wait" THEN deadline[t] - (clock - c)
                                                              ELSE deadline[t]]
  BY DEF SetBack
<1>2. c \in Nat /\ clock \in Nat
  BY ClockAssumption DEF IInv, TypeOK, ClockTypeOK
<1>3. ClockTypeOK'
  BY <1>1, <1>2 DEF SetBack, IInv, TypeOK, ClockTypeOK
<1>4. ThreadTypeOK'
  BY <1>1, <1>2 DEF SetBack, IInv, TypeOK, ThreadTypeOK
<1> QED  BY <1>3, <1>4, Keep DEF SetBack, IInv, TypeOK

(* A Timer object is constructed.                                          *)
LEMMA NewTimerStep == ASSUME IInv, NEW x \in Timers, NEW ms \in Periods, NewTimer(x, ms) PROVE IInv'
<1>1. ms \in Nat /\ clock \in Nat /\ clock + ms \in Nat /\ ms <= clock + ms
  BY PeriodsAssumption DEF IInv, TypeOK, ClockTypeOK
<1>2. TimerTypeOK'
  BY <1>1 DEF NewTimer, IInv, TypeOK, TimerTypeOK
<1>3. StartOK'
  BY <1>1 DEF NewTimer, IInv, TypeOK, TimerTypeOK, StartOK
<1>4. LifeOK' /\ UnspentOK'
  BY DEF NewTimer, IInv, TypeOK, TimerTypeOK, LifeOK, UnspentOK
<1> QED  BY <1>2, <1>3, <1>4, Keep DEF NewTimer, IInv, TypeOK

(* It is inserted.                                                         *)
LEMMA AddTimerStep == ASSUME IInv, NEW x \in Timers, AddTimer(x) PROVE IInv'
<1>1. TimerTypeOK' /\ FlagTypeOK'
  BY DEF AddTimer, insertTimer, IInv, TypeOK, TimerTypeOK, FlagTypeOK, timerVars
<1>2. LifeOK' /\ UnspentOK' /\ StartOK'
  BY DEF AddTimer, insertTimer, IInv, TypeOK, TimerTypeOK, LifeOK, UnspentOK, StartOK, timerVars
<1> QED  BY <1>1, <1>2, Keep DEF AddTimer, IInv, TypeOK

(* The notification is sent.                                               *)
LEMMA NotifyStep == ASSUME IInv, NEW x \in Timers, Notify(x) PROVE IInv'
<1>1. FlagTypeOK'  BY DEF Notify, IInv, TypeOK, FlagTypeOK
<1> QED  BY <1>1, Keep DEF Notify, IInv, TypeOK

(* cancel().                                                               *)
LEMMA CancelStep == ASSUME IInv, NEW x \in Timers, Cancel(x) PROVE IInv'
<1>1. TimerTypeOK' /\ HistoryTypeOK'
  BY DEF Cancel, IInv, TypeOK, TimerTypeOK, HistoryTypeOK
<1>2. LifeOK' /\ UnspentOK' /\ StartOK'
  BY DEF Cancel, IInv, TypeOK, TimerTypeOK, LifeOK, UnspentOK, StartOK
<1> QED  BY <1>1, <1>2, Keep DEF Cancel, IInv, TypeOK

(* refresh().                                                              *)
LEMMA RefreshStep == ASSUME IInv, NEW x \in Timers, Refresh(x) PROVE IInv'
<1>1. clock + m_ms[x] \in Nat /\ m_ms[x] <= clock + m_ms[x]
  BY DEF IInv, TypeOK, ClockTypeOK, TimerTypeOK
<1>2. TimerTypeOK' /\ StartOK'
  BY <1>1 DEF Refresh, IInv, TypeOK, TimerTypeOK, StartOK
<1>3. LifeOK' /\ UnspentOK'
  BY DEF Refresh, IInv, LifeOK, UnspentOK
<1> QED  BY <1>2, <1>3, Keep DEF Refresh, IInv, TypeOK

(* reset(): the difference m_next - m_ms is a natural number.              *)
LEMMA ResetStep ==
    ASSUME IInv, NEW x \in Timers, NEW ms \in Periods, NEW from_now \in BOOLEAN,
           Reset(x, ms, from_now)
    PROVE  IInv'
<1> DEFINE start == ResetStart(x, from_now)
<1>1. start \in Nat
  BY DEF ResetStart, IInv, TypeOK, ClockTypeOK, TimerTypeOK, StartOK
<1>2. ms \in Nat /\ start + ms \in Nat /\ ms <= start + ms
  BY <1>1, PeriodsAssumption
<1>3. m_next' = [m_next EXCEPT ![x] = start + ms] /\ m_ms' = [m_ms EXCEPT ![x] = ms]
  BY DEF Reset
<1> HIDE DEF start
<1>4. m_timers' = m_timers
  BY DEF Reset, insertTimer
<1>5. TimerTypeOK' /\ StartOK'
  BY <1>2, <1>3, <1>4 DEF Reset, IInv, TypeOK, TimerTypeOK, StartOK
<1>6. LifeOK' /\ UnspentOK'
  BY <1>4 DEF Reset, IInv, LifeOK, UnspentOK
<1>7. FlagTypeOK'
  BY DEF Reset, insertTimer, IInv, TypeOK, FlagTypeOK
<1> QED  BY <1>5, <1>6, <1>7, Keep DEF Reset, IInv, TypeOK

(* getNextTimer().                                                         *)
LEMMA getNextTimerStep == ASSUME IInv, NEW t \in IOThreads, getNextTimer(t) PROVE IInv'
<1>1. clock \in Nat /\ clock + Forever \in Int /\ \A x \in m_timers : m_next[x] \in Int
  BY ClockAssumption DEF IInv, TypeOK, ClockTypeOK, TimerTypeOK, Forever
<1>2. ThreadTypeOK'
  BY <1>1 DEF getNextTimer, IInv, TypeOK, ThreadTypeOK
<1>3. FlagTypeOK'
  BY DEF getNextTimer, TickledAfterNext, IInv, TypeOK, FlagTypeOK
<1> QED  BY <1>2, <1>3, Keep DEF getNextTimer, IInv, TypeOK

(* The sleep ends.                                                         *)
LEMMA WakeUpStep == ASSUME IInv, NEW t \in IOThreads, WakeUp(t) PROVE IInv'
<1>1. ThreadTypeOK'
  BY DEF WakeUp, IInv, TypeOK, ThreadTypeOK, ClockTypeOK
<1> QED  BY <1>1, Keep DEF WakeUp, IInv, TypeOK

(* The test for emptiness.                                                 *)
LEMMA CheckEmptyStep == ASSUME IInv, NEW t \in IOThreads, CheckEmpty(t) PROVE IInv'
<1>1. ThreadTypeOK'
  BY DEF CheckEmpty, IInv, TypeOK, ThreadTypeOK
<1> QED  BY <1>1, Keep DEF CheckEmpty, IInv, TypeOK

(* The callbacks are collected.                                            *)
LEMMA CollectStep == ASSUME IInv, NEW t \in IOThreads, Collect(t) PROVE IInv'
<1>1. now[t] \in Nat
  BY DEF IInv, TypeOK, ThreadTypeOK
<1>2. ClockTypeOK' /\ ThreadTypeOK'
  BY <1>1 DEF Collect, IInv, TypeOK, ClockTypeOK, ThreadTypeOK
<1>3. FlagTypeOK'
  BY Keep DEF Collect
<1>4. CASE UNCHANGED <<m_timers, timerVars, fired>>
  BY <1>2, <1>3, <1>4, Keep DEF Collect, IInv, TypeOK
<1>5. CASE ~UNCHANGED <<m_timers, timerVars, fired>>
  <2>1. PICK address \in Addresses :
          LET E == Expired(now[t], address) IN
          /\ m_timers' = {x \in m_timers : x \in E => x \in Recurring}
          /\ m_next' = [x \in Timers |-> IF x \in E /\ x \in Recurring
                                         THEN now[t] + m_ms[x] ELSE m_next[x]]
          /\ m_cb' = CbAfter(E)
          /\ fired' = [x \in Timers |-> IF x \in E \ Recurring
                                        THEN Capped(fired[x]) ELSE fired[x]]
          /\ UNCHANGED m_ms
    BY <1>5 DEF Collect
  <2> DEFINE E == Expired(now[t], address)
  <2>2. E \subseteq m_timers /\ m_timers \subseteq Timers
    BY ExpiredSubset DEF IInv, TypeOK, TimerTypeOK
  <2>3. /\ m_timers' = {x \in m_timers : x \in E => x \in Recurring}
        /\ m_next' = [x \in Timers |-> IF x \in E /\ x \in Recurring
                                       THEN now[t] + m_ms[x] ELSE m_next[x]]
        /\ m_cb' = [x \in Timers |-> m_cb[x] /\ (x \in E => x \in Recurring)]
        /\ fired' = [x \in Timers |-> IF x \in E \ Recurring
                                      THEN Capped(fired[x]) ELSE fired[x]]
        /\ m_ms' = m_ms /\ life' = life /\ cancelled' = cancelled
    BY <2>1 DEF Collect, CbAfter
  <2> HIDE DEF E
  <2>4. TimerTypeOK'
    BY <1>1, <2>2, <2>3 DEF IInv, TypeOK, TimerTypeOK
  <2>5. StartOK'
    BY <1>1, <2>3 DEF IInv, TypeOK, TimerTypeOK, StartOK
  <2>6. \A n \in 0..2 : Capped(n) \in 0..2
    BY DEF Capped
  <2>7. HistoryTypeOK'
    BY <2>3, <2>6 DEF IInv, TypeOK, HistoryTypeOK
  <2>8. LifeOK'
    BY <2>2, <2>3 DEF IInv, TypeOK, TimerTypeOK, HistoryTypeOK, LifeOK
  <2>9. Capped(0) = 1
    BY DEF Capped
  <2>10. UnspentOK'
    BY <2>2, <2>3, <2>9 DEF IInv, TypeOK, TimerTypeOK, HistoryTypeOK, LifeOK, UnspentOK
  <2> QED  BY <1>2, <1>3, <2>4, <2>5, <2>7, <2>8, <2>10 DEF IInv, TypeOK
<1> QED  BY <1>4, <1>5

(* The null pointer.                                                       *)
LEMMA CollectNoneStep == ASSUME IInv, NEW t \in IOThreads, CollectNone(t) PROVE IInv'
<1>1. FlagTypeOK'  BY DEF CollectNone, IInv, TypeOK, FlagTypeOK
<1> QED  BY <1>1, Keep DEF CollectNone, IInv, TypeOK

-----------------------------------------------------------------------------
(* Every step keeps IInv.                                                  *)
LEMMA NextIInv == IInv /\ [Next]_vars => IInv'
<1> SUFFICES ASSUME IInv, [Next]_vars PROVE IInv'  OBVIOUS
<1>1. CASE UNCHANGED vars
  BY <1>1, Keep DEF vars, IInv, TypeOK
<1>2. CASE Tick \/ SetBack
  BY <1>2, TickStep, SetBackStep
<1>3. CASE UserStep
  BY <1>3, NewTimerStep, AddTimerStep, NotifyStep, CancelStep, RefreshStep, ResetStep DEF UserStep
<1>4. ASSUME NEW t \in IOThreads, IOStep(t) PROVE IInv'
  BY <1>4, getNextTimerStep, WakeUpStep, CheckEmptyStep, CollectStep, CollectNoneStep DEF IOStep
<1> QED  BY <1>1, <1>2, <1>3, <1>4 DEF Next, Stop

(* The types of the fields; m_next never wraps below zero.                 *)
THEOREM TypeCorrect == Spec => []TypeOK
<1>1. IInv => TypeOK  BY DEF IInv
<1> QED  BY <1>1, InitIInv, NextIInv, PTL DEF Spec

(* m_cb says whether the timer is in the set: the iterator that cancel()   *)
(* erases is never end().                                                  *)
THEOREM ArmedInSet == Spec => []ArmedIffInSet
<1>1. IInv => ArmedIffInSet  BY DEF IInv, LifeOK, ArmedIffInSet
<1> QED  BY <1>1, InitIInv, NextIInv, PTL DEF Spec

(* A one-shot callback is collected at most once and never after cancel()  *)
(* returned true, for any number of threads.                               *)
THEOREM OneShot == Spec => []OneShotOnce
<1>1. IInv => OneShotOnce
  BY DEF IInv, TypeOK, HistoryTypeOK, UnspentOK, OneShotOnce
<1> QED  BY <1>1, InitIInv, NextIInv, PTL DEF Spec

(* Only the critical section of listExpiredCb() takes a thread from        *)
(* "collect" to "next".                                                    *)
LEMMA OnlyCollect ==
    ASSUME IInv, [Next]_vars, NEW t \in IOThreads, pc[t] = "collect", pc'[t] = "next"
    PROVE  Collect(t)
<1>1. pc \in [IOThreads -> {"next", "wait", "check", "collect"}]
  BY DEF IInv, TypeOK, ThreadTypeOK
<1>2. pc' # pc
  OBVIOUS
<1>3. PICK u \in IOThreads : IOStep(u)
  BY <1>2 DEF Next, Stop, vars, threadVars, Tick, SetBack, UserStep, NewTimer, AddTimer, Notify,
              Cancel, Refresh, Reset
<1>4. u = t
  BY <1>1, <1>3 DEF IOStep, getNextTimer, WakeUp, CheckEmpty, Collect,
                    CollectNone, threadVars
<1> QED
  BY <1>1, <1>3, <1>4 DEF IOStep, getNextTimer, WakeUp, CheckEmpty,
                          CollectNone, threadVars

(* listExpiredCb() takes exactly the due timers, for any timers, times and *)
(* addresses, unless it believes that the clock rolled over.               *)
THEOREM CollectsDue == Spec => CollectsExactlyDue
<1>1. ASSUME IInv, [Next]_vars, NEW t \in IOThreads, NEW x \in m_timers,
             pc[t] = "collect", pc'[t] = "next", ~Rollover(now[t])
      PROVE  IF m_next[x] <= now[t]
             THEN x \in m_timers' => x \in Recurring /\ m_next'[x] = now[t] + m_ms[x]
             ELSE x \in m_timers' /\ m_next'[x] = m_next[x]
  <2>1. Collect(t)
    BY <1>1, OnlyCollect
  <2>2. TimerTypeOK /\ now[t] \in Nat /\ x \in Timers /\ m_next[x] \in Nat
    BY <1>1 DEF IInv, TypeOK, TimerTypeOK, ThreadTypeOK
  <2>3. CASE \E y \in m_timers : IsFront(y, m_timers) /\ m_next[y] > now[t]
    <3>1. UNCHANGED <<m_timers, timerVars>>
      BY <1>1, <2>1, <2>3 DEF Collect
    <3>2. m_next[x] > now[t]
      <4>1. PICK y \in m_timers : IsFront(y, m_timers) /\ m_next[y] > now[t]
        BY <2>3
      <4>2. m_next[y] \in Nat
        BY <2>2 DEF TimerTypeOK
      <4>3. CASE x = y  BY <4>1, <4>3
      <4>4. CASE x # y
        <5>1. Before(y, m_next[x], x)  BY <4>1, <4>4 DEF IsFront
        <5> QED  BY <2>2, <4>1, <4>2, <5>1 DEF Before
      <4> QED  BY <4>3, <4>4
    <3> QED  BY <2>2, <3>1, <3>2 DEF timerVars
  <2>4. CASE ~\E y \in m_timers : IsFront(y, m_timers) /\ m_next[y] > now[t]
    <3>1. PICK address \in Addresses :
            LET E == Expired(now[t], address) IN
            /\ m_timers' = {y \in m_timers : y \in E => y \in Recurring}
            /\ m_next' = [y \in Timers |-> IF y \in E /\ y \in Recurring
                                           THEN now[t] + m_ms[y] ELSE m_next[y]]
      BY <2>1, <2>4 DEF Collect
    <3>2. Expired(now[t], address) = {y \in m_timers : m_next[y] <= now[t]}
      BY <1>1, <2>2, ExpiredIsDue, TimersAssumption
    <3> QED  BY <2>2, <3>1, <3>2
  <2> QED  BY <2>3, <2>4
<1>2. IInv /\ [Next]_vars =>
        [\A t \in IOThreads :
            pc[t] = "collect" /\ pc'[t] = "next" /\ ~Rollover(now[t]) =>
                \A x \in m_timers :
                    IF m_next[x] <= now[t]
                    THEN x \in m_timers' => x \in Recurring /\ m_next'[x] = now[t] + m_ms[x]
                    ELSE x \in m_timers' /\ m_next'[x] = m_next[x]]_vars
  BY <1>1
<1> QED  BY <1>2, InitIInv, NextIInv, PTL DEF Spec, CollectsExactlyDue

-----------------------------------------------------------------------------
(* Announcing the first timer                                              *)

(* The derived class has been told, or is about to be, or a thread is up   *)
(* and will call getNextTimer() before all threads sleep again.            *)
Attention == told \/ notifying # {} \/ \E t \in IOThreads : pc[t] # "wait"

(* The flag that suppresses calls is set only while one is on its way, was *)
(* made, or a thread has not looked again yet.                             *)
TickledOK == m_tickled => Attention

(* While the clock only goes forward, every period began in the past, and  *)
(* so did every listExpiredCb(): refresh() moves no timer forward.         *)
PastOK ==
    jumps = 0 =>
        /\ \A x \in Timers : m_next[x] - m_ms[x] <= clock
        /\ \A t \in IOThreads : now[t] <= clock

(* The first timer is looked at in time.                                   *)
InTime(t) == deadline[t] <= clock \/ \A x \in m_timers : deadline[t] <= m_next[x]
FrontOK == jumps = 0 /\ m_timers # {} => Attention \/ \E t \in IOThreads : InTime(t)

WInv == TickledOK /\ PastOK /\ FrontOK

(* In the initial state there is nothing to wait for.                      *)
LEMMA InitWInv == Init => WInv
BY ClockAssumption DEF Init, WInv, TickledOK, PastOK, FrontOK

(* A thread that is up is attention enough.                                *)
LEMMA UpIsAttention ==
    ASSUME IInv, NEW t \in IOThreads, pc'[t] # "wait"
    PROVE  Attention'
BY DEF Attention

(* The periods and the times read stay in the past when nothing touches    *)
(* them.                                                                   *)
LEMMA KeepPast ==
    ASSUME PastOK, UNCHANGED <<clock, jumps, m_next, m_ms, now>>
    PROVE  PastOK'
BY DEF PastOK

(* A timer is inserted, by addTimer() or reset(): when it is not the first *)
(* one, whoever watched the first one watches this one.                    *)
LEMMA InsertFront ==
    ASSUME IInv, WInv, NEW x \in Timers, NEW time \in Nat, insertTimer(x, time),
           UNCHANGED <<clock, jumps, told, threadVars>>,
           m_next' \in [Timers -> Nat], m_next'[x] = time,
           \A y \in Timers \ {x} : m_next'[y] = m_next[y]
    PROVE  TickledOK' /\ FrontOK'
<1>1. pc' = pc /\ deadline' = deadline /\ clock' = clock /\ jumps' = jumps /\ told' = told
  BY DEF threadVars
<1>2. CASE AtFront(x, time) /\ ~m_tickled
  <2>1. notifying' # {}  BY <1>2 DEF insertTimer
  <2> QED  BY <2>1 DEF TickledOK, FrontOK, Attention
<1>3. CASE ~(AtFront(x, time) /\ ~m_tickled)
  <2>1. m_tickled' = m_tickled /\ notifying' = notifying /\ m_timers' = m_timers \cup {x}
    BY <1>3 DEF insertTimer
  <2>2. Attention' <=> Attention
    BY <1>1, <2>1 DEF Attention
  <2>3. TickledOK'
    BY <2>1, <2>2 DEF TickledOK, WInv
  <2>4. CASE m_tickled
    BY <2>2, <2>4 DEF WInv, TickledOK, FrontOK
  <2>5. CASE ~AtFront(x, time)
    <3>1. m_timers \subseteq Timers /\ m_next \in [Timers -> Nat] /\ deadline \in [IOThreads -> Int]
      BY DEF IInv, TypeOK, TimerTypeOK, ThreadTypeOK
    <3>2. PICK y \in m_timers \ {x} : ~(time < m_next[y] \/ (time = m_next[y] /\ x < y))
      BY <2>5 DEF AtFront
    <3>3. y \in Timers /\ m_next[y] \in Nat /\ m_next[y] <= time
      BY <3>1, <3>2
    <3>4. SUFFICES ASSUME jumps = 0, NEW t \in IOThreads, InTime(t), ~Attention
                   PROVE  InTime(t)'
      <4>1. m_timers # {} /\ (jumps' = 0 <=> jumps = 0)  BY <1>1, <3>2
      <4> QED  BY <2>2, <2>3, <4>1 DEF WInv, FrontOK
    <3>5. CASE deadline[t] <= clock
      BY <1>1, <3>5 DEF InTime
    <3>6. CASE \A z \in m_timers : deadline[t] <= m_next[z]
      <4>1. deadline[t] \in Int /\ deadline[t] <= m_next[y]
        BY <3>1, <3>2, <3>6
      <4>2. deadline[t] <= time
        BY <3>3, <4>1
      <4>3. ASSUME NEW z \in m_timers' PROVE deadline'[t] <= m_next'[z]
        <5>1. CASE z = x  BY <1>1, <4>2, <5>1
        <5>2. CASE z # x  BY <1>1, <2>1, <3>1, <3>6, <5>2
        <5> QED  BY <5>1, <5>2
      <4> QED  BY <4>3 DEF InTime
    <3> QED  BY <3>4, <3>5, <3>6 DEF InTime
  <2> QED  BY <1>3, <2>3, <2>4, <2>5
<1> QED  BY <1>2, <1>3

(* The clock goes on.                                                      *)
LEMMA TickWakes == ASSUME IInv, WInv, Tick PROVE WInv'
<1>1. clock \in Nat /\ clock' = clock + 1 /\ jumps' = jumps /\ m_tickled' = m_tickled
      /\ m_timers' = m_timers /\ m_next' = m_next /\ m_ms' = m_ms
      /\ now' = now /\ deadline' = deadline /\ (Attention' <=> Attention)
  BY DEF Tick, IInv, TypeOK, ClockTypeOK, timerVars, threadVars, Attention
<1>2. TickledOK'  BY <1>1 DEF WInv, TickledOK
<1>3. m_next \in [Timers -> Nat] /\ m_ms \in [Timers -> Nat] /\ now \in [IOThreads -> Nat]
      /\ deadline \in [IOThreads -> Int]
  BY DEF IInv, TypeOK, TimerTypeOK, ThreadTypeOK
<1>4. PastOK'  BY <1>1, <1>3 DEF WInv, PastOK
<1>5. \A t \in IOThreads : InTime(t) => InTime(t)'
  BY <1>1, <1>3 DEF InTime
<1>6. FrontOK'  BY <1>1, <1>5 DEF WInv, FrontOK
<1> QED  BY <1>2, <1>4, <1>6 DEF WInv

(* After the clock was set back only the flag is spoken of.                *)
LEMMA SetBackWakes == ASSUME IInv, WInv, SetBack PROVE WInv'
<1>1. jumps' # 0 /\ m_tickled' = m_tickled
  BY DEF SetBack, IInv, TypeOK, ClockTypeOK
<1>2. Attention' <=> Attention  BY DEF SetBack, Attention
<1> QED  BY <1>1, <1>2 DEF WInv, TickledOK, PastOK, FrontOK

(* A new Timer object is not in the set yet.                               *)
LEMMA NewTimerWakes ==
    ASSUME IInv, WInv, NEW x \in Timers, NEW ms \in Periods, NewTimer(x, ms)
    PROVE  WInv'
<1>1. clock \in Nat /\ ms \in Nat /\ m_next \in [Timers -> Nat] /\ m_ms \in [Timers -> Nat]
  BY PeriodsAssumption DEF IInv, TypeOK, ClockTypeOK, TimerTypeOK
<1>2. x \notin m_timers /\ m_timers \subseteq Timers
  BY DEF NewTimer, IInv, TypeOK, TimerTypeOK, LifeOK
<1>3. (Attention' <=> Attention) /\ TickledOK'
  BY DEF NewTimer, threadVars, WInv, TickledOK, Attention
<1>4. PastOK'
  BY <1>1 DEF NewTimer, threadVars, WInv, PastOK
<1>5. \A t \in IOThreads : InTime(t) => InTime(t)'
  BY <1>1, <1>2 DEF NewTimer, threadVars, InTime
<1>6. FrontOK'
  BY <1>3, <1>5 DEF NewTimer, WInv, FrontOK
<1> QED  BY <1>3, <1>4, <1>6 DEF WInv

(* addTimer() notifies when it has to.                                     *)
LEMMA AddTimerWakes == ASSUME IInv, WInv, NEW x \in Timers, AddTimer(x) PROVE WInv'
<1>1. m_next \in [Timers -> Nat]
  BY DEF IInv, TypeOK, TimerTypeOK
<1>2. /\ insertTimer(x, m_next[x]) /\ UNCHANGED <<clock, jumps, told, threadVars>>
      /\ m_next' = m_next /\ m_ms' = m_ms /\ now' = now
  BY DEF AddTimer, timerVars, threadVars
<1>3. TickledOK' /\ FrontOK'
  BY <1>1, <1>2, InsertFront
<1>4. PastOK'  BY <1>2, KeepPast DEF WInv
<1> QED  BY <1>3, <1>4 DEF WInv

(* The notification arrives.                                               *)
LEMMA NotifyWakes == ASSUME IInv, WInv, NEW x \in Timers, Notify(x) PROVE WInv'
<1>1. Attention'  BY DEF Notify, Attention
<1>2. PastOK'  BY KeepPast DEF Notify, WInv, timerVars, threadVars
<1> QED  BY <1>1, <1>2 DEF WInv, TickledOK, FrontOK

(* cancel() only takes a timer away.                                       *)
LEMMA CancelWakes == ASSUME IInv, WInv, NEW x \in Timers, Cancel(x) PROVE WInv'
<1>1. (Attention' <=> Attention) /\ TickledOK'
  BY DEF Cancel, threadVars, WInv, TickledOK, Attention
<1>2. PastOK'  BY KeepPast DEF Cancel, WInv, threadVars
<1>3. \A t \in IOThreads : InTime(t) => InTime(t)'
  BY DEF Cancel, threadVars, InTime
<1>4. FrontOK'  BY <1>1, <1>3 DEF Cancel, WInv, FrontOK
<1> QED  BY <1>1, <1>2, <1>4 DEF WInv

(* refresh() notifies nobody, and need not: the timer moves back.          *)
LEMMA RefreshWakes == ASSUME IInv, WInv, NEW x \in Timers, Refresh(x) PROVE WInv'
<1>1. /\ clock \in Nat /\ m_next \in [Timers -> Nat] /\ m_ms \in [Timers -> Nat]
      /\ m_timers \subseteq Timers /\ deadline \in [IOThreads -> Int]
  BY DEF IInv, TypeOK, ClockTypeOK, TimerTypeOK, ThreadTypeOK
<1>2. (Attention' <=> Attention) /\ TickledOK'
  BY DEF Refresh, threadVars, WInv, TickledOK, Attention
<1>3. PastOK'
  BY <1>1 DEF Refresh, threadVars, WInv, PastOK
<1>4. SUFFICES FrontOK'  BY <1>2, <1>3 DEF WInv
<1>5. SUFFICES ASSUME jumps = 0, NEW t \in IOThreads, InTime(t)
               PROVE  InTime(t)'
  BY <1>2 DEF Refresh, WInv, FrontOK
<1>6. clock' = clock /\ deadline' = deadline /\ m_timers' = m_timers
      /\ m_next' = [m_next EXCEPT ![x] = clock + m_ms[x]]
  BY DEF Refresh, threadVars
<1>7. m_next[x] <= m_next'[x]
  BY <1>1, <1>5, <1>6 DEF WInv, PastOK
<1>8. \A y \in Timers : m_next[y] <= m_next'[y] /\ m_next'[y] \in Int /\ m_next[y] \in Int
  BY <1>1, <1>6, <1>7
<1> QED  BY <1>1, <1>5, <1>6, <1>8 DEF InTime

(* reset() may move the timer forward; it inserts it anew.                 *)
LEMMA ResetWakes ==
    ASSUME IInv, WInv, NEW x \in Timers, NEW ms \in Periods, NEW from_now \in BOOLEAN,
           Reset(x, ms, from_now)
    PROVE  WInv'
<1> DEFINE start == ResetStart(x, from_now)
<1>1. /\ clock \in Nat /\ m_next \in [Timers -> Nat] /\ m_ms \in [Timers -> Nat] /\ ms \in Nat
  BY PeriodsAssumption DEF IInv, TypeOK, ClockTypeOK, TimerTypeOK
<1>2. start \in Nat /\ (jumps = 0 => start <= clock)
  BY <1>1 DEF ResetStart, IInv, StartOK, WInv, PastOK
<1>3. /\ m_next' = [m_next EXCEPT ![x] = start + ms] /\ m_ms' = [m_ms EXCEPT ![x] = ms]
      /\ insertTimer(x, start + ms) /\ UNCHANGED <<clock, jumps, told, threadVars>>
  BY DEF Reset
<1> HIDE DEF start
<1>4. start + ms \in Nat /\ (start + ms) - ms = start
  BY <1>1, <1>2
<1>5. m_next' \in [Timers -> Nat] /\ m_next'[x] = start + ms
      /\ \A y \in Timers \ {x} : m_next'[y] = m_next[y]
  BY <1>1, <1>3, <1>4
<1>6. TickledOK' /\ FrontOK'
  BY <1>3, <1>4, <1>5, InsertFront
<1>7. PastOK'
  BY <1>1, <1>2, <1>3, <1>4 DEF WInv, PastOK, threadVars
<1> QED  BY <1>6, <1>7 DEF WInv

(* getNextTimer() clears the flag: its caller now sleeps until the first   *)
(* timer is due.                                                           *)
LEMMA getNextTimerWakes == ASSUME IInv, WInv, NEW t \in IOThreads, getNextTimer(t) PROVE WInv'
<1>1. /\ clock \in Nat /\ m_next \in [Timers -> Nat] /\ m_timers \subseteq Timers
      /\ deadline \in [IOThreads -> Int]
  BY DEF IInv, TypeOK, ClockTypeOK, TimerTypeOK, ThreadTypeOK
<1>2. TickledOK'  BY DEF getNextTimer, TickledAfterNext, TickledOK
<1>3. PastOK'  BY KeepPast DEF getNextTimer, timerVars, WInv
<1>4. SUFFICES ASSUME m_timers # {} PROVE InTime(t)'
  BY <1>2, <1>3 DEF getNextTimer, WInv, FrontOK
<1>5. PICK x \in m_timers : /\ IsFront(x, m_timers)
                            /\ deadline' = [deadline EXCEPT ![t] = IF clock >= m_next[x] THEN clock
                                                                   ELSE m_next[x]]
  BY <1>4 DEF getNextTimer
<1>6. \A y \in m_timers : m_next[x] <= m_next[y]
  BY <1>1, <1>5 DEF IsFront, Before
<1>7. clock' = clock /\ m_timers' = m_timers /\ m_next' = m_next
  BY DEF getNextTimer, timerVars
<1>8. CASE clock >= m_next[x]
  BY <1>1, <1>5, <1>7, <1>8 DEF InTime
<1>9. CASE ~(clock >= m_next[x])
  BY <1>1, <1>5, <1>6, <1>7, <1>9 DEF InTime
<1> QED  BY <1>8, <1>9

(* A thread that gets up keeps everybody's deadlines.                      *)
LEMMA WakeUpWakes == ASSUME IInv, WInv, NEW t \in IOThreads, WakeUp(t) PROVE WInv'
<1>1. pc \in [IOThreads -> {"next", "wait", "check", "collect"}] /\ clock \in Nat
      /\ now \in [IOThreads -> Nat]
  BY DEF IInv, TypeOK, ThreadTypeOK, ClockTypeOK
<1>2. Attention'
  BY <1>1, UpIsAttention DEF WakeUp
<1>3. PastOK'
  BY <1>1 DEF WakeUp, timerVars, WInv, PastOK
<1> QED  BY <1>2, <1>3 DEF WInv, TickledOK, FrontOK

(* The test for emptiness.                                                 *)
LEMMA CheckEmptyWakes == ASSUME IInv, WInv, NEW t \in IOThreads, CheckEmpty(t) PROVE WInv'
<1>1. pc \in [IOThreads -> {"next", "wait", "check", "collect"}] /\ clock \in Nat
      /\ now \in [IOThreads -> Nat]
  BY DEF IInv, TypeOK, ThreadTypeOK, ClockTypeOK
<1>2. Attention'
  BY <1>1, UpIsAttention DEF CheckEmpty
<1>3. PastOK'
  BY <1>1 DEF CheckEmpty, timerVars, WInv, PastOK
<1> QED  BY <1>2, <1>3 DEF WInv, TickledOK, FrontOK

(* Recurring timers begin a new period when they are collected.            *)
LEMMA CollectWakes == ASSUME IInv, WInv, NEW t \in IOThreads, Collect(t) PROVE WInv'
<1>1. /\ pc \in [IOThreads -> {"next", "wait", "check", "collect"}] /\ clock \in Nat
      /\ now \in [IOThreads -> Nat] /\ m_next \in [Timers -> Nat] /\ m_ms \in [Timers -> Nat]
  BY DEF IInv, TypeOK, ThreadTypeOK, ClockTypeOK, TimerTypeOK
<1>2. Attention'
  BY <1>1, UpIsAttention DEF Collect
<1>3. /\ \A u \in IOThreads : now'[u] = now[u] \/ now'[u] = 0
      /\ clock' = clock /\ jumps' = jumps /\ m_ms' = m_ms
  BY <1>1 DEF Collect, timerVars
<1>4. \A x \in Timers : m_next'[x] = m_next[x] \/ m_next'[x] = now[t] + m_ms[x]
  BY <1>1 DEF Collect, timerVars
<1>5. PastOK'
  BY <1>1, <1>3, <1>4 DEF WInv, PastOK
<1> QED  BY <1>2, <1>5 DEF WInv, TickledOK, FrontOK

(* The null pointer changes nothing that counts here.                      *)
LEMMA CollectNoneWakes == ASSUME IInv, WInv, NEW t \in IOThreads, CollectNone(t) PROVE WInv'
<1>1. Attention'
  BY UpIsAttention DEF CollectNone, threadVars
<1>2. PastOK'  BY KeepPast DEF CollectNone, WInv, timerVars, threadVars
<1> QED  BY <1>1, <1>2 DEF WInv, TickledOK, FrontOK

(* Every step keeps WInv.                                                  *)
LEMMA NextWInv == IInv /\ WInv /\ [Next]_vars => WInv'
<1> SUFFICES ASSUME IInv, WInv, [Next]_vars PROVE WInv'  OBVIOUS
<1>1. CASE UNCHANGED vars
  BY <1>1 DEF vars, timerVars, threadVars, WInv, TickledOK, PastOK, FrontOK, InTime, Attention
<1>2. CASE Tick \/ SetBack
  BY <1>2, TickWakes, SetBackWakes
<1>3. CASE UserStep
  BY <1>3, NewTimerWakes, AddTimerWakes, NotifyWakes, CancelWakes, RefreshWakes, ResetWakes
     DEF UserStep
<1>4. ASSUME NEW t \in IOThreads, IOStep(t) PROVE WInv'
  BY <1>4, getNextTimerWakes, WakeUpWakes, CheckEmptyWakes, CollectWakes, CollectNoneWakes
     DEF IOStep
<1> QED  BY <1>1, <1>2, <1>3, <1>4 DEF Next, Stop

(* While the clock only goes forward, onTimerInsertedAtFront() is called   *)
(* whenever all threads sleep beyond the first timer, for any number of    *)
(* threads and timers: the calls that m_tickled suppresses, and the one    *)
(* refresh() never makes, are not needed.                                  *)
THEOREM FirstTimerTold == Spec => []FrontAnnounced
<1>1. WInv => FrontAnnounced
  BY DEF WInv, FrontOK, InTime, Attention, FrontAnnounced
<1> QED  BY <1>1, InitIInv, NextIInv, InitWInv, NextWInv, PTL DEF Spec
=============================================================================
