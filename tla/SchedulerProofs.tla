-------------------------- MODULE SchedulerProofs --------------------------
(***************************************************************************)
(* Theorems about Scheduler, for any set of threads, any tasks and any     *)
(* behaviour of the tasks.                                                 *)
(***************************************************************************)
EXTENDS Scheduler, FiniteSetTheorems, SequenceTheorems, TLAPS

(* A thread that has swapped a fiber in still has a pointer to it.         *)
USE DEF eventVars

HandOK == \A t \in Threads : pc[t] \in Handling => Hand(t) \in Tasks

(* The inductive invariant.  TypeOK alone is not inductive: Back decrements*)
(* the counter, which stays in Nat only because it is at least the number  *)
(* of busy threads, and Register needs the pointer in the thread's hand.   *)
IInv == TypeOK /\ HandOK /\ ActiveBoundsWorkers

-----------------------------------------------------------------------------
(* Erasing an entry from the queue leaves a queue.                         *)
LEMMA RemoveAtType ==
    ASSUME NEW S, NEW q \in Seq(S), NEW i \in DOMAIN q
    PROVE  RemoveAt(q, i) \in Seq(S)
<1>1. i \in 1..Len(q)  BY LenProperties
<1>2. SubSeq(q, 1, i - 1) \in Seq(S)
  BY <1>1, SubSeqProperties
<1>3. SubSeq(q, i + 1, Len(q)) \in Seq(S)
  BY <1>1, SubSeqProperties
<1> QED  BY <1>2, <1>3, ConcatProperties DEF RemoveAt

(* The set of threads is finite, so counting the busy ones makes sense.    *)
LEMMA BusyFinite == IsFiniteSet(Busy) /\ IsFiniteSet(Busy')
<1>1. IsFiniteSet(Threads)
  BY FiniteAssumption, FS_AddElement DEF Threads
<1> QED  BY <1>1, FS_Subset DEF Busy

(* One thread more counts one more at most, one thread less one less.      *)
LEMMA CountOne ==
    ASSUME NEW S, IsFiniteSet(S), NEW x
    PROVE  /\ Cardinality(S) \in Nat
           /\ Cardinality(S \cup {x}) <= Cardinality(S) + 1
           /\ x \in S => Cardinality(S \ {x}) = Cardinality(S) - 1
<1>1. Cardinality(S) \in Nat  BY FS_CardinalityType
<1>2. Cardinality(S \cup {x}) = Cardinality(S) \/ Cardinality(S \cup {x}) = Cardinality(S) + 1
  BY FS_AddElement
<1>3. x \in S => Cardinality(S \ {x}) = Cardinality(S) - 1
  BY FS_RemoveElement
<1> QED  BY <1>1, <1>2, <1>3

(* The queue is empty and every thread outside run() in the initial state. *)
LEMMA InitIInv == Init => IInv
<1> SUFFICES ASSUME Init PROVE IInv  OBVIOUS
<1>1. NoItem \in Items
  BY TasksAssumption DEF NoItem, Items, Threads
<1>2. TypeOK
  <2>1. FiberTypeOK
    BY TasksAssumption DEF Init, FiberTypeOK, States, Places, Tasks
  <2>2. QueueTypeOK
    BY DEF Init, QueueTypeOK
  <2>3. StopTypeOK
    BY DEF Init, StopTypeOK, States
  <2>4. LocalTypeOK
    BY <1>1 DEF Init, LocalTypeOK, Points
  <2>5. UserTypeOK
    BY DEF Init, UserTypeOK
  <2> QED  BY <2>1, <2>2, <2>3, <2>4, <2>5 DEF TypeOK, Init
<1>3. HandOK
  BY DEF Init, HandOK, Handling
<1>4. Busy = {}
  BY DEF Init, Busy
<1>5. ActiveBoundsWorkers
  BY <1>4, FS_EmptySet DEF Init, ActiveBoundsWorkers
<1> QED  BY <1>2, <1>3, <1>5 DEF IInv



(* A step that leaves the set of busy threads alone and does not lower the *)
(* counter keeps the bound.                                                *)
LEMMA SameBusy ==
    ASSUME ActiveBoundsWorkers, active \in Nat, Busy' = Busy, active' \in {active, active + 1}
    PROVE  ActiveBoundsWorkers'
<1>1. Cardinality(Busy) \in Nat  BY BusyFinite, CountOne
<1> QED  BY <1>1 DEF ActiveBoundsWorkers

(* A step that makes one thread busy and counts it keeps the bound.        *)
LEMMA OneMoreBusy ==
    ASSUME ActiveBoundsWorkers, active \in Nat, NEW t, Busy' = Busy \cup {t},
           active' = active + 1
    PROVE  ActiveBoundsWorkers'
<1>1. Cardinality(Busy) \in Nat /\ Cardinality(Busy \cup {t}) <= Cardinality(Busy) + 1
  BY BusyFinite, CountOne
<1>2. Cardinality(Busy') \in Nat  BY BusyFinite, CountOne
<1>3. Cardinality(Busy') <= Cardinality(Busy) + 1  BY <1>1
<1>4. active >= Cardinality(Busy)  BY DEF ActiveBoundsWorkers
<1>5. active' >= Cardinality(Busy')  BY <1>1, <1>2, <1>3, <1>4
<1> QED  BY <1>5 DEF ActiveBoundsWorkers

(* A busy thread that counts itself off keeps the bound, and the counter   *)
(* does not wrap.                                                          *)
LEMMA OneLessBusy ==
    ASSUME ActiveBoundsWorkers, active \in Nat, NEW t \in Busy, Busy' = Busy \ {t},
           active' = active - 1
    PROVE  active' \in Nat /\ ActiveBoundsWorkers'
<1>1. Cardinality(Busy) \in Nat /\ Cardinality(Busy \ {t}) = Cardinality(Busy) - 1
  BY BusyFinite, CountOne
<1>2. Cardinality(Busy') \in Nat  BY BusyFinite, CountOne
<1>3. Cardinality(Busy') = Cardinality(Busy) - 1  BY <1>1
<1>4. active >= Cardinality(Busy)  BY DEF ActiveBoundsWorkers
<1>5. active' \in Nat /\ active' >= Cardinality(Busy')  BY <1>1, <1>2, <1>3, <1>4
<1> QED  BY <1>5 DEF ActiveBoundsWorkers

(* Variables that a step leaves alone keep their type.                     *)
LEMMA KeepTypes ==
    ASSUME TypeOK
    PROVE  /\ UNCHANGED fiberVars => FiberTypeOK'
           /\ UNCHANGED queueVars => QueueTypeOK'
           /\ UNCHANGED stopVars => StopTypeOK'
           /\ UNCHANGED <<pc, localVars>> => LocalTypeOK'
           /\ UNCHANGED userVars => UserTypeOK'
BY DEF TypeOK, fiberVars, queueVars, stopVars, localVars, userVars, FiberTypeOK, QueueTypeOK,
       StopTypeOK, LocalTypeOK, UserTypeOK

(* FiberAndThread::reset() clears the fiber.                               *)
LEMMA NoItemFiber == NoItem.fiber = Null
BY DEF NoItem

(* The items that the code makes are items.                                *)
LEMMA ItemTypes ==
    /\ NoItem \in Items
    /\ \A f \in Tasks, thread \in Threads \cup {AnyThread} : FiberItem(f, thread) \in Items
    /\ \A x \in Tasks, thread \in Threads \cup {AnyThread} : ItemOf(x, thread) \in Items
BY DEF NoItem, FiberItem, CbItem, ItemOf, Items, Tasks

(* Counting up keeps a table of counters.                                  *)
LEMMA Increment ==
    ASSUME NEW S, NEW f \in [S -> Nat], NEW x
    PROVE  [f EXCEPT ![x] = @ + 1] \in [S -> Nat]
<1>1. CASE x \in S
  <2>1. f[x] + 1 \in Nat  BY <1>1
  <2> QED  BY <2>1
<1>2. CASE x \notin S  BY <1>2
<1> QED  BY <1>1, <1>2

(* Counting two of them up.                                                *)
LEMMA IncrementTwo ==
    ASSUME NEW S, NEW f \in [S -> Nat], NEW x \in S, NEW y \in S
    PROVE  [f EXCEPT ![x] = @ + 1, ![y] = @ + 1] \in [S -> Nat]
<1>1. [f EXCEPT ![x] = @ + 1] \in [S -> Nat]  BY Increment
<1> QED  BY <1>1, Increment

(* Counting up stays in the naturals.                                      *)
LEMMA Successor == \A n \in Nat : n + 1 \in Nat
OBVIOUS

(* Appending an item to the queue.                                         *)
LEMMA AppendType ==
    ASSUME NEW S, NEW q \in Seq(S), NEW e \in S
    PROVE  Append(q, e) \in Seq(S)
OBVIOUS

(* Where no thread is busy, any counter will do.                           *)
LEMMA NoneBusy ==
    ASSUME active' \in Nat, Busy' = {}
    PROVE  ActiveBoundsWorkers'
BY FS_EmptySet DEF ActiveBoundsWorkers

(* scheduler(x, thread) keeps the types of what it changes.                *)
LEMMA SubmitTypes ==
    ASSUME TypeOK, NEW x \in Tasks, NEW thread \in Threads \cup {AnyThread}, Submit(x, thread)
    PROVE  /\ m_fibers' \in Seq(Items)
           /\ submits' \in [Tasks -> Nat]
           /\ pin' \in [Tasks -> Threads \cup {AnyThread}]
<1>1. m_fibers \in Seq(Items) /\ ItemOf(x, thread) \in Items
  BY ItemTypes DEF TypeOK, QueueTypeOK
<1>2. m_fibers' = Append(m_fibers, ItemOf(x, thread))
  BY DEF Submit, scheduleNoLock
<1>3. m_fibers' \in Seq(Items)
  BY <1>1, <1>2, AppendType
<1>4. submits \in [Tasks -> Nat] /\ submits' = [submits EXCEPT ![x] = @ + 1]
  BY DEF TypeOK, UserTypeOK, Submit
<1>5. submits' \in [Tasks -> Nat]
  BY <1>4, Increment
<1>6. pin' \in [Tasks -> Threads \cup {AnyThread}]
  BY DEF TypeOK, UserTypeOK, Submit
<1> QED  BY <1>3, <1>5, <1>6

(* Counting a suspension of the executing body keeps yields a function to *)
(* the natural numbers: the fiber in hand has a body to count it for.      *)
LEMMA CountType ==
    ASSUME TypeOK, NEW t \in Threads, Count(t)
    PROVE  yields' \in [Tasks -> Nat]
<1>1. yields \in [Tasks -> Nat]  BY DEF TypeOK, UserTypeOK
<1>2. yields' = [yields EXCEPT ![m_cb[Hand(t)]] = @ + 1]  BY DEF Count
<1> QED  BY <1>1, <1>2, Increment

(* scheduler() called by the user.                                         *)
LEMMA MainScheduleStep ==
    ASSUME IInv, NEW x \in Tasks, MainSchedule(x), UNCHANGED failure
    PROVE  IInv'
<1> USE DEF IInv, TypeOK, MainSchedule
<1>1. FiberTypeOK' /\ StopTypeOK' /\ LocalTypeOK'
  BY KeepTypes
<1>2. m_fibers' \in Seq(Items) /\ submits' \in [Tasks -> Nat]
         /\ pin' \in [Tasks -> Threads \cup {AnyThread}]
  BY SubmitTypes, PinsAssumption
<1>3. QueueTypeOK'
  BY <1>2 DEF QueueTypeOK
<1>4. UserTypeOK'
  BY <1>2 DEF UserTypeOK
<1>5. HandOK'
  BY DEF HandOK, Hand, Handling, LocalTypeOK, localVars
<1>6. Busy' = Busy
  BY DEF Busy, LocalTypeOK
<1>7. ActiveBoundsWorkers'
  BY <1>6, SameBusy DEF QueueTypeOK, queueVars
<1> QED  BY <1>1, <1>3, <1>4, <1>5, <1>7

(* scheduler(begin, end) called by the user.                               *)
LEMMA MainScheduleBatchStep ==
    ASSUME IInv, NEW x \in Tasks, NEW y \in Tasks, MainScheduleBatch(x, y), UNCHANGED failure
    PROVE  IInv'
<1> USE DEF IInv, TypeOK, MainScheduleBatch
<1>1. FiberTypeOK' /\ StopTypeOK' /\ LocalTypeOK'
  BY KeepTypes
<1>2. m_fibers \in Seq(Items) /\ ItemOf(x, AnyThread) \in Items /\ ItemOf(y, AnyThread) \in Items
  BY ItemTypes DEF QueueTypeOK
<1>3. Append(m_fibers, ItemOf(x, AnyThread)) \in Seq(Items)
  BY <1>2, AppendType
<1>4. m_fibers' \in Seq(Items)
  BY <1>2, <1>3, AppendType DEF scheduleNoLock
<1>5. submits \in [Tasks -> Nat]
  BY DEF UserTypeOK
<1>6. submits' = [submits EXCEPT ![x] = @ + 1, ![y] = @ + 1]
  OBVIOUS
<1>7. submits' \in [Tasks -> Nat]
  <2> HIDE DEF IInv, TypeOK, MainScheduleBatch
  <2> QED  BY <1>5, <1>6, IncrementTwo
<1>8. pin' \in [Tasks -> Threads \cup {AnyThread}]
  BY DEF UserTypeOK
<1>9. QueueTypeOK'
  BY <1>4 DEF QueueTypeOK
<1>10. UserTypeOK'
  BY <1>7, <1>8 DEF UserTypeOK
<1>11. HandOK'
  BY DEF HandOK, Hand, Handling, LocalTypeOK, localVars
<1>12. Busy' = Busy
  BY DEF Busy, LocalTypeOK
<1>13. ActiveBoundsWorkers'
  BY <1>12, SameBusy DEF QueueTypeOK, queueVars
<1> QED  BY <1>1, <1>9, <1>10, <1>11, <1>13

(* start().                                                                *)
LEMMA StartStep ==
    ASSUME IInv, Start, UNCHANGED failure
    PROVE  IInv'
<1> USE DEF IInv, TypeOK, Start
<1>1. FiberTypeOK' /\ QueueTypeOK' /\ UserTypeOK'
  BY KeepTypes
<1>2. starts' \in Nat
  BY Successor, Zenon DEF StopTypeOK
<1>3. StopTypeOK'
  BY <1>2 DEF StopTypeOK
<1>4. LocalTypeOK'
  BY DEF LocalTypeOK, Points, Handling
<1>5. HandOK'
  BY DEF HandOK, Hand, Handling, LocalTypeOK
<1>6. Busy' = {}
  BY DEF Busy, LocalTypeOK
<1>7. ActiveBoundsWorkers'
  BY <1>6, NoneBusy DEF QueueTypeOK, queueVars
<1> QED  BY <1>1, <1>3, <1>4, <1>5, <1>7

(* stop() sets its flags.                                                  *)
LEMMA StopRequestStep ==
    ASSUME IInv, StopRequest, UNCHANGED failure
    PROVE  IInv'
<1> USE DEF IInv, TypeOK, StopRequest
<1>1. FiberTypeOK' /\ QueueTypeOK' /\ UserTypeOK'
  BY KeepTypes
<1>2. StopTypeOK'
  BY DEF StopTypeOK
<1>3. LocalTypeOK'
  BY DEF LocalTypeOK, Points, Handling, localVars
<1>4. HandOK'
  BY DEF HandOK, Hand, Handling, LocalTypeOK, localVars
<1>5. Busy' = Busy
  BY DEF Busy, LocalTypeOK
<1>6. ActiveBoundsWorkers'
  BY <1>5, SameBusy DEF QueueTypeOK, queueVars
<1> QED  BY <1>1, <1>2, <1>3, <1>4, <1>6

(* stop() calls the root fiber.                                            *)
LEMMA StopCallStep ==
    ASSUME IInv, StopCall
    PROVE  IInv'
<1> USE DEF IInv, TypeOK, StopCall
<1>1. FiberTypeOK' /\ QueueTypeOK' /\ UserTypeOK'
  BY KeepTypes
<1>2. StopTypeOK'
  BY DEF StopTypeOK, States
<1>3. LocalTypeOK'
  BY DEF LocalTypeOK, Points, Handling, localVars
<1>4. HandOK'
  BY DEF HandOK, Hand, Handling, LocalTypeOK, localVars
<1>5. Busy' = Busy
  BY DEF Busy, LocalTypeOK
<1>6. ActiveBoundsWorkers'
  BY <1>5, SameBusy DEF QueueTypeOK, queueVars
<1> QED  BY <1>1, <1>2, <1>3, <1>4, <1>6

(* stop() has nothing to call.                                             *)
LEMMA StopNoCallStep ==
    ASSUME IInv, StopNoCall, UNCHANGED failure
    PROVE  IInv'
<1> USE DEF IInv, TypeOK, StopNoCall
<1>1. FiberTypeOK' /\ QueueTypeOK' /\ StopTypeOK' /\ UserTypeOK'
  BY KeepTypes
<1>2. LocalTypeOK'
  BY DEF LocalTypeOK, Points, Handling, localVars
<1>3. HandOK'
  BY DEF HandOK, Hand, Handling, LocalTypeOK, localVars
<1>4. Busy' = Busy
  BY DEF Busy, LocalTypeOK
<1>5. ActiveBoundsWorkers'
  BY <1>4, SameBusy DEF QueueTypeOK, queueVars
<1> QED  BY <1>1, <1>2, <1>3, <1>5

(* stop() returns.                                                         *)
LEMMA JoinStep ==
    ASSUME IInv, Join, UNCHANGED failure
    PROVE  IInv'
<1> USE DEF IInv, TypeOK, Join
<1>1. FiberTypeOK' /\ QueueTypeOK' /\ StopTypeOK' /\ UserTypeOK'
  BY KeepTypes
<1>2. LocalTypeOK'
  BY DEF LocalTypeOK, Points, Handling, localVars
<1>3. HandOK'
  BY DEF HandOK, Hand, Handling, LocalTypeOK, localVars
<1>4. Busy' = {}
  BY DEF Busy, LocalTypeOK
<1>5. ActiveBoundsWorkers'
  BY <1>4, NoneBusy DEF QueueTypeOK, queueVars
<1> QED  BY <1>1, <1>2, <1>3, <1>5

(* A thread takes a task.                                                  *)
LEMMA FetchStep ==
    ASSUME IInv, NEW t \in Threads, Fetch(t), UNCHANGED failure
    PROVE  IInv'
<1> USE DEF IInv, TypeOK, Fetch
<1>1. FiberTypeOK' /\ StopTypeOK' /\ UserTypeOK'
  BY KeepTypes
<1>2. PICK i \in DOMAIN m_fibers : ft' = [ft EXCEPT ![t] = m_fibers[i]] /\ m_fibers' = RemoveAt(m_fibers, i)
  OBVIOUS
<1>3. m_fibers \in Seq(Items)
  BY DEF QueueTypeOK
<1>4. m_fibers[i] \in Items
  BY <1>3, ElementOfSeq, LenProperties
<1>5. m_fibers' \in Seq(Items)
  BY <1>2, <1>3, RemoveAtType
<1>6. m_fibers' \in Seq(Items) /\ ft' \in [Threads -> Items]
  BY <1>2, <1>4, <1>5 DEF LocalTypeOK
<1>7. active' \in Nat
  BY Successor, Zenon DEF QueueTypeOK
<1>8. QueueTypeOK'
  BY <1>6, <1>7 DEF QueueTypeOK
<1>9. LocalTypeOK'
  BY <1>6 DEF LocalTypeOK, Points, Handling
<1>10. HandOK'
  BY DEF HandOK, Hand, Handling, LocalTypeOK
<1>11. Busy' = Busy \cup {t}
  BY DEF Busy, LocalTypeOK
<1>12. ActiveBoundsWorkers'
  BY <1>11, OneMoreBusy DEF QueueTypeOK, queueVars
<1> QED  BY <1>1, <1>8, <1>9, <1>10, <1>12

(* A thread finds no task.                                                 *)
LEMMA NoTaskStep ==
    ASSUME IInv, NEW t \in Threads, NoTask(t), UNCHANGED failure
    PROVE  IInv'
<1> USE DEF IInv, TypeOK, NoTask
<1>1. FiberTypeOK' /\ QueueTypeOK' /\ StopTypeOK' /\ UserTypeOK'
  BY KeepTypes
<1>2. LocalTypeOK'
  BY DEF LocalTypeOK, Points, Handling, localVars
<1>3. HandOK'
  BY DEF HandOK, Hand, Handling, LocalTypeOK, localVars
<1>4. Busy' = Busy
  BY DEF Busy, LocalTypeOK
<1>5. ActiveBoundsWorkers'
  BY <1>4, SameBusy DEF QueueTypeOK, queueVars
<1> QED  BY <1>1, <1>2, <1>3, <1>5

(* A thread leaves run().                                                  *)
LEMMA ExitStep ==
    ASSUME IInv, NEW t \in Threads, Exit(t), UNCHANGED failure
    PROVE  IInv'
<1> USE DEF IInv, TypeOK, Exit
<1>1. FiberTypeOK' /\ QueueTypeOK' /\ UserTypeOK'
  BY KeepTypes
<1>2. StopTypeOK'
  BY DEF StopTypeOK, States
<1>3. LocalTypeOK'
  BY DEF LocalTypeOK, Points, Handling, localVars
<1>4. HandOK'
  BY DEF HandOK, Hand, Handling, LocalTypeOK, localVars
<1>5. Busy' = Busy
  BY DEF Busy, LocalTypeOK
<1>6. ActiveBoundsWorkers'
  BY <1>5, SameBusy DEF QueueTypeOK, queueVars
<1> QED  BY <1>1, <1>2, <1>3, <1>4, <1>6

(* The idle fiber tests stopping().                                        *)
LEMMA IdleStep ==
    ASSUME IInv, NEW t \in Threads, Idle(t), UNCHANGED failure
    PROVE  IInv'
<1> USE DEF IInv, TypeOK, Idle
<1>1. FiberTypeOK' /\ QueueTypeOK' /\ StopTypeOK' /\ UserTypeOK'
  BY KeepTypes
<1>2. LocalTypeOK'
  BY DEF LocalTypeOK, Points, Handling, localVars
<1>3. HandOK'
  BY DEF HandOK, Hand, Handling, LocalTypeOK, localVars
<1>4. Busy' = Busy
  BY DEF Busy, LocalTypeOK
<1>5. ActiveBoundsWorkers'
  BY <1>4, SameBusy DEF QueueTypeOK, queueVars
<1> QED  BY <1>1, <1>2, <1>3, <1>5

(* A fiber is swapped in.                                                  *)
LEMMA RunFiberStep ==
    ASSUME IInv, NEW t \in Threads, RunFiber(t)
    PROVE  IInv'
<1> USE DEF IInv, TypeOK, RunFiber
<1>1. StopTypeOK'
  BY KeepTypes
<1>2. active' \in Nat
  BY Successor, Zenon DEF QueueTypeOK
<1>3. [begun EXCEPT ![m_cb[ft[t].fiber]] = @ + 1] \in [Tasks -> Nat]
  BY Increment DEF UserTypeOK
<1>4. begun' \in [Tasks -> Nat]
  BY <1>3 DEF UserTypeOK
<1>5. FiberTypeOK'
  BY DEF FiberTypeOK, States, Places, fiberVars
<1>6. QueueTypeOK'
  BY <1>2 DEF QueueTypeOK
<1>7. LocalTypeOK'
  BY DEF LocalTypeOK, Points, Handling, localVars
<1>8. UserTypeOK'
  BY <1>4 DEF UserTypeOK
<1>9. HandOK'
  BY DEF HandOK, Hand, Handling, LocalTypeOK, localVars, Items, Tasks
<1>10. Busy' = Busy
  BY DEF Busy, LocalTypeOK
<1>11. ActiveBoundsWorkers'
  BY <1>10, SameBusy DEF QueueTypeOK, queueVars
<1> QED  BY <1>1, <1>5, <1>6, <1>7, <1>8, <1>9, <1>11

(* A callback is swapped in.                                               *)
LEMMA RunCbStep ==
    ASSUME IInv, NEW t \in Threads, RunCb(t)
    PROVE  IInv'
<1> USE DEF IInv, TypeOK, RunCb
<1>1. QueueTypeOK' /\ StopTypeOK'
  BY KeepTypes
<1>2. ft[t].cb \in Tasks
  BY DEF LocalTypeOK, Items, Tasks
<1>3. [begun EXCEPT ![ft[t].cb] = @ + 1] \in [Tasks -> Nat]
  BY Increment DEF UserTypeOK
<1>4. begun' \in [Tasks -> Nat]
  BY <1>3 DEF UserTypeOK
<1>5. FiberTypeOK'
  BY <1>2 DEF FiberTypeOK, States, Places, fiberVars
<1>6. LocalTypeOK'
  BY <1>2, ItemTypes DEF LocalTypeOK, Points, Handling
<1>7. UserTypeOK'
  BY <1>4 DEF UserTypeOK
<1>8. HandOK'
  <2> SUFFICES ASSUME NEW u \in Threads, pc'[u] \in Handling PROVE Hand(u)' \in Tasks
    BY DEF HandOK
  <2>1. CASE u = t /\ pc' # pc
    <3>1. cb_fiber'[t] = IF cb_fiber[t] = Null THEN ft[t].cb ELSE cb_fiber[t]
      BY <2>1 DEF LocalTypeOK
    <3>2. cb_fiber'[t] \in Tasks
      BY <1>2, <3>1 DEF LocalTypeOK
    <3>3. ft' = [ft EXCEPT ![t] = NoItem]
      BY <2>1
    <3>4. ft'[t] = NoItem
      BY <3>3 DEF LocalTypeOK
    <3>5. ft'[t].fiber = Null
      BY <3>4, NoItemFiber, Zenon
    <3> QED  BY <2>1, <3>2, <3>5 DEF Hand
  <2>2. CASE u # t \/ pc' = pc
    <3>1. pc[u] \in Handling /\ u # t
      BY <2>2 DEF Handling, LocalTypeOK
    <3> QED  BY <3>1 DEF HandOK, Hand, LocalTypeOK
  <2> QED  BY <2>1, <2>2
<1>9. Busy' = Busy
  BY DEF Busy, LocalTypeOK
<1>10. ActiveBoundsWorkers'
  BY <1>9, SameBusy DEF QueueTypeOK, queueVars
<1> QED  BY <1>1, <1>5, <1>6, <1>7, <1>8, <1>10

(* A body returns.                                                         *)
LEMMA ReturnStep ==
    ASSUME IInv, NEW t \in Threads, Return(t), UNCHANGED failure
    PROVE  IInv'
<1> USE DEF IInv, TypeOK, Return, GiveUp, CanStep, InBody
<1>1. QueueTypeOK' /\ StopTypeOK'
  BY KeepTypes
<1>2. FiberTypeOK'
  BY DEF FiberTypeOK, States, Places
<1>3. LocalTypeOK'
  BY DEF LocalTypeOK, Points, Handling, localVars
<1>4. UserTypeOK'
  BY DEF UserTypeOK
<1>5. HandOK'
  BY DEF HandOK, Hand, Handling, LocalTypeOK, localVars
<1>6. Busy' = Busy
  BY DEF Busy, LocalTypeOK
<1>7. ActiveBoundsWorkers'
  BY <1>6, SameBusy DEF QueueTypeOK, queueVars
<1> QED  BY <1>1, <1>2, <1>3, <1>4, <1>5, <1>7

(* A body throws.                                                          *)
LEMMA ThrowStep ==
    ASSUME IInv, NEW t \in Threads, Throw(t), UNCHANGED failure
    PROVE  IInv'
<1> USE DEF IInv, TypeOK, Throw, GiveUp, CanStep, InBody
<1>1. QueueTypeOK' /\ StopTypeOK'
  BY KeepTypes
<1>2. FiberTypeOK'
  BY DEF FiberTypeOK, States, Places
<1>3. LocalTypeOK'
  BY DEF LocalTypeOK, Points, Handling, localVars
<1>4. UserTypeOK'
  BY DEF UserTypeOK
<1>5. HandOK'
  BY DEF HandOK, Hand, Handling, LocalTypeOK, localVars
<1>6. Busy' = Busy
  BY DEF Busy, LocalTypeOK
<1>7. ActiveBoundsWorkers'
  BY <1>6, SameBusy DEF QueueTypeOK, queueVars
<1> QED  BY <1>1, <1>2, <1>3, <1>4, <1>5, <1>7

(* A body yields READY.                                                    *)
LEMMA YieldToReadyStep ==
    ASSUME IInv, NEW t \in Threads, YieldToReady(t), UNCHANGED failure
    PROVE  IInv'
<1> USE DEF IInv, TypeOK, YieldToReady, GiveUp, CanStep, InBody, CanSuspend
<1>1. QueueTypeOK' /\ StopTypeOK'
  BY KeepTypes
<1>2. yields' \in [Tasks -> Nat]
  BY CountType DEF UserTypeOK
<1>3. FiberTypeOK'
  BY DEF FiberTypeOK, States, Places
<1>4. LocalTypeOK'
  BY DEF LocalTypeOK, Points, Handling, localVars
<1>5. UserTypeOK'
  BY <1>2 DEF UserTypeOK
<1>6. HandOK'
  BY DEF HandOK, Hand, Handling, LocalTypeOK, localVars
<1>7. Busy' = Busy
  BY DEF Busy, LocalTypeOK
<1>8. ActiveBoundsWorkers'
  BY <1>7, SameBusy DEF QueueTypeOK, queueVars
<1> QED  BY <1>1, <1>3, <1>4, <1>5, <1>6, <1>8

(* A body yields HOLD.                                                     *)
LEMMA YieldToHoldStep ==
    ASSUME IInv, NEW t \in Threads, YieldToHold(t), UNCHANGED failure
    PROVE  IInv'
<1> USE DEF IInv, TypeOK, YieldToHold, GiveUp, CanStep, InBody, CanSuspend
<1>1. QueueTypeOK' /\ StopTypeOK'
  BY KeepTypes
<1>2. yields' \in [Tasks -> Nat]
  BY CountType DEF UserTypeOK
<1>3. FiberTypeOK'
  BY DEF FiberTypeOK, States, Places
<1>4. LocalTypeOK'
  BY DEF LocalTypeOK, Points, Handling, localVars
<1>5. UserTypeOK'
  BY <1>2 DEF UserTypeOK
<1>6. HandOK'
  BY DEF HandOK, Hand, Handling, LocalTypeOK, localVars
<1>7. Busy' = Busy
  BY DEF Busy, LocalTypeOK
<1>8. ActiveBoundsWorkers'
  BY <1>7, SameBusy DEF QueueTypeOK, queueVars
<1> QED  BY <1>1, <1>3, <1>4, <1>5, <1>6, <1>8

(* A body registers its fiber.                                             *)
LEMMA RegisterStep ==
    ASSUME IInv, NEW t \in Threads, Register(t)
    PROVE  IInv'
<1> USE DEF IInv, TypeOK, Register, CanSuspend, CanStep, InBody
<1>1. QueueTypeOK' /\ StopTypeOK' /\ LocalTypeOK'
  BY KeepTypes
<1>2. yields' \in [Tasks -> Nat]
  BY CountType
<1>3. Hand(t) \in Tasks
  BY DEF HandOK, Handling
<1>4. FiberTypeOK'
  BY DEF FiberTypeOK, Places
<1>5. UserTypeOK'
  BY <1>2, <1>3 DEF UserTypeOK
<1>6. HandOK'
  BY DEF HandOK, Hand, Handling, LocalTypeOK, localVars
<1>7. Busy' = Busy
  BY DEF Busy, LocalTypeOK
<1>8. ActiveBoundsWorkers'
  BY <1>7, SameBusy DEF QueueTypeOK, queueVars
<1> QED  BY <1>1, <1>4, <1>5, <1>6, <1>8

(* A body schedules a task.                                                *)
LEMMA SpawnStep ==
    ASSUME IInv, NEW t \in Threads, NEW x \in Tasks, Spawn(t, x), UNCHANGED failure
    PROVE  IInv'
<1> USE DEF IInv, TypeOK, Spawn
<1>1. FiberTypeOK' /\ StopTypeOK' /\ LocalTypeOK'
  BY KeepTypes
<1>2. m_fibers' \in Seq(Items) /\ submits' \in [Tasks -> Nat]
         /\ pin' \in [Tasks -> Threads \cup {AnyThread}]
  BY SubmitTypes
<1>3. QueueTypeOK'
  BY <1>2 DEF QueueTypeOK
<1>4. UserTypeOK'
  BY <1>2 DEF UserTypeOK
<1>5. HandOK'
  BY DEF HandOK, Hand, Handling, LocalTypeOK, localVars
<1>6. Busy' = Busy
  BY DEF Busy, LocalTypeOK
<1>7. ActiveBoundsWorkers'
  BY <1>6, SameBusy DEF QueueTypeOK, queueVars
<1> QED  BY <1>1, <1>3, <1>4, <1>5, <1>7

(* An event reschedules a fiber.                                           *)
LEMMA FireStep ==
    ASSUME IInv, NEW f \in Tasks, Fire(f), UNCHANGED failure
    PROVE  IInv'
<1> USE DEF IInv, TypeOK, Fire
<1>1. FiberTypeOK' /\ StopTypeOK' /\ LocalTypeOK'
  BY KeepTypes
<1>2. m_fibers \in Seq(Items) /\ FiberItem(f, AnyThread) \in Items
  BY ItemTypes DEF QueueTypeOK
<1>3. m_fibers' \in Seq(Items)
  BY <1>2, AppendType DEF scheduleNoLock
<1>4. QueueTypeOK'
  BY <1>3 DEF QueueTypeOK
<1>5. UserTypeOK'
  BY DEF UserTypeOK
<1>6. HandOK'
  BY DEF HandOK, Hand, Handling, LocalTypeOK, localVars
<1>7. Busy' = Busy
  BY DEF Busy, LocalTypeOK
<1>8. ActiveBoundsWorkers'
  BY <1>7, SameBusy DEF QueueTypeOK, queueVars
<1> QED  BY <1>1, <1>4, <1>5, <1>6, <1>8

(* The context switch back to run().                                       *)
LEMMA LeaveStep ==
    ASSUME IInv, NEW t \in Threads, Leave(t), UNCHANGED failure
    PROVE  IInv'
<1> USE DEF IInv, TypeOK, Leave
<1>1. FiberTypeOK' /\ QueueTypeOK' /\ StopTypeOK' /\ UserTypeOK'
  BY KeepTypes
<1>2. LocalTypeOK'
  BY DEF LocalTypeOK, Points, Handling, localVars
<1>3. HandOK'
  BY DEF HandOK, Hand, Handling, LocalTypeOK, localVars
<1>4. Busy' = Busy
  BY DEF Busy, LocalTypeOK
<1>5. ActiveBoundsWorkers'
  BY <1>4, SameBusy DEF QueueTypeOK, queueVars
<1> QED  BY <1>1, <1>2, <1>3, <1>5

(* A thread counts itself off.                                             *)
LEMMA BackStep ==
    ASSUME IInv, NEW t \in Threads, Back(t), UNCHANGED failure
    PROVE  IInv'
<1> USE DEF IInv, TypeOK, Back
<1>1. FiberTypeOK' /\ StopTypeOK' /\ UserTypeOK'
  BY KeepTypes
<1>2. t \in Busy /\ Busy' = Busy \ {t}
  BY DEF Busy, LocalTypeOK
<1>3. active' \in Nat /\ ActiveBoundsWorkers'
  BY <1>2, OneLessBusy DEF QueueTypeOK
<1>4. QueueTypeOK'
  BY <1>3 DEF QueueTypeOK
<1>5. LocalTypeOK'
  BY DEF LocalTypeOK, Points, Handling, localVars
<1>6. HandOK'
  BY DEF HandOK, Hand, Handling, LocalTypeOK, localVars
<1> QED  BY <1>1, <1>4, <1>5, <1>6, <1>3

(* A READY fiber goes back into the queue.                                 *)
LEMMA SettleReadyStep ==
    ASSUME IInv, NEW t \in Threads, SettleReady(t), UNCHANGED failure
    PROVE  IInv'
<1> USE DEF IInv, TypeOK, SettleReady
<1>1. FiberTypeOK' /\ StopTypeOK' /\ UserTypeOK'
  BY KeepTypes
<1>2. m_fibers \in Seq(Items) /\ FiberItem(Hand(t), AnyThread) \in Items
  BY ItemTypes DEF QueueTypeOK, HandOK, Handling
<1>3. m_fibers' \in Seq(Items)
  BY <1>2, AppendType DEF scheduleNoLock
<1>4. QueueTypeOK'
  BY <1>3 DEF QueueTypeOK
<1>5. LocalTypeOK'
  BY ItemTypes DEF LocalTypeOK, Points, Handling, Released
<1>6. HandOK'
  BY DEF HandOK, Hand, Handling, LocalTypeOK, Released
<1>7. Busy' = Busy
  BY DEF Busy, LocalTypeOK
<1>8. ActiveBoundsWorkers'
  BY <1>7, SameBusy DEF QueueTypeOK, queueVars
<1> QED  BY <1>1, <1>4, <1>5, <1>6, <1>8

(* A finished fiber is settled.                                            *)
LEMMA SettleFinishedStep ==
    ASSUME IInv, NEW t \in Threads, SettleFinished(t), UNCHANGED failure
    PROVE  IInv'
<1> USE DEF IInv, TypeOK, SettleFinished
<1>1. QueueTypeOK' /\ StopTypeOK' /\ UserTypeOK'
  BY KeepTypes
<1>2. FiberTypeOK'
  BY DEF FiberTypeOK, States, Places, fiberVars
<1>3. LocalTypeOK'
  BY ItemTypes DEF LocalTypeOK, Points, Handling
<1>4. HandOK'
  BY DEF HandOK, Hand, Handling, LocalTypeOK
<1>5. Busy' = Busy
  BY DEF Busy, LocalTypeOK
<1>6. ActiveBoundsWorkers'
  BY <1>5, SameBusy DEF QueueTypeOK, queueVars
<1> QED  BY <1>1, <1>2, <1>3, <1>4, <1>6

(* A suspended fiber is found.                                             *)
LEMMA SettleElseStep ==
    ASSUME IInv, NEW t \in Threads, SettleElse(t), UNCHANGED failure
    PROVE  IInv'
<1> USE DEF IInv, TypeOK, SettleElse
<1>1. FiberTypeOK' /\ QueueTypeOK' /\ StopTypeOK' /\ UserTypeOK'
  BY KeepTypes
<1>2. LocalTypeOK'
  BY DEF LocalTypeOK, Points, Handling, localVars
<1>3. HandOK'
  BY DEF HandOK, Hand, Handling, LocalTypeOK, localVars
<1>4. Busy' = Busy
  BY DEF Busy, LocalTypeOK
<1>5. ActiveBoundsWorkers'
  BY <1>4, SameBusy DEF QueueTypeOK, queueVars
<1> QED  BY <1>1, <1>2, <1>3, <1>5

(* HOLD is written.                                                        *)
LEMMA SetHoldStep ==
    ASSUME IInv, NEW t \in Threads, SetHold(t), UNCHANGED failure
    PROVE  IInv'
<1> USE DEF IInv, TypeOK, SetHold
<1>1. QueueTypeOK' /\ StopTypeOK' /\ UserTypeOK'
  BY KeepTypes
<1>2. FiberTypeOK'
  BY DEF FiberTypeOK, States
<1>3. LocalTypeOK'
  BY ItemTypes DEF LocalTypeOK, Points, Handling, Released
<1>4. HandOK'
  BY DEF HandOK, Hand, Handling, LocalTypeOK, Released
<1>5. Busy' = Busy
  BY DEF Busy, LocalTypeOK
<1>6. ActiveBoundsWorkers'
  BY <1>5, SameBusy DEF QueueTypeOK, queueVars
<1> QED  BY <1>1, <1>2, <1>3, <1>4, <1>6

-----------------------------------------------------------------------------
(* Every step of the scheduler, its tasks and its users keeps IInv.        *)
LEMMA NextIInv == IInv /\ [Next]_vars => IInv'
<1> SUFFICES ASSUME IInv, [Next]_vars PROVE IInv'  OBVIOUS
<1>1. CASE UNCHANGED vars
  BY <1>1, SameBusy, KeepTypes
  DEF vars, IInv, TypeOK, HandOK, Hand, Busy, fiberVars, queueVars, stopVars, localVars, userVars, QueueTypeOK
<1>2. CASE EventStep
  BY <1>2, FireStep DEF EventStep
<1>3. ASSUME NEW t \in Threads, RunStep(t) PROVE IInv'
  BY <1>3, FetchStep, NoTaskStep, ExitStep, IdleStep, ReturnStep, ThrowStep, YieldToReadyStep,
     YieldToHoldStep, RegisterStep, SpawnStep, LeaveStep, BackStep, SettleReadyStep,
     SettleFinishedStep, SettleElseStep, SetHoldStep, RunFiberStep, RunCbStep
  DEF RunStep, BodyStep
<1>4. CASE MainStep
  BY <1>4, MainScheduleStep, MainScheduleBatchStep, StartStep, StopRequestStep, StopCallStep,
     StopNoCallStep, JoinStep
  DEF MainStep, StopStep, UserStep
<1> QED  BY <1>1, <1>2, <1>3, <1>4 DEF Next, ThreadStep, Terminated

(* m_activeThreadCount never runs below the number of threads that hold a  *)
(* task, whatever tasks do: stopping() never reports an idle scheduler     *)
(* while run() executes one.                                               *)
THEOREM ActiveBound == Spec => []ActiveBoundsWorkers
<1>1. IInv => ActiveBoundsWorkers  BY DEF IInv
<1> QED  BY <1>1, InitIInv, NextIInv, PTL DEF Spec

(* Every variable keeps its type; the unsigned counter never wraps.        *)
THEOREM TypeCorrect == Spec => []TypeOK
<1>1. IInv => TypeOK  BY DEF IInv
<1> QED  BY <1>1, InitIInv, NextIInv, PTL DEF Spec

-----------------------------------------------------------------------------
(* Who may use a fiber.  Nothing in the code protects a Fiber but the rule *)
(* that one party has it at a time: the queue, one thread, or the event    *)
(* source it waits for.  The theorems say under which use of the scheduler *)
(* that rule holds.                                                        *)


(* How the scheduler has to be used: the user schedules a fiber once; with *)
(* use_caller it is started once (the root fiber does not run twice).      *)
Orderly ==
    /\ MaxSubmits <= 1
    /\ UseCaller => MaxStarts <= 1

(* Every wake-up so far came after run() was through with the fiber.       *)
OnTime == overtaken = {}

-----------------------------------------------------------------------------
(* Fibers                                                                  *)

Queued(f) == \E i \in DOMAIN m_fibers : m_fibers[i].fiber = f
CbQueued(c) == \E i \in DOMAIN m_fibers : m_fibers[i].cb = c

(* A queue entry is a fiber or a callback, not both.                       *)
OneOf(item) ==
    \/ item.fiber \in Tasks /\ item.cb = Null
    \/ item.fiber = Null /\ item.cb \in Callbacks

Differ(a, b) == (a.fiber = b.fiber => a.fiber = Null) /\ (a.cb = b.cb => a.cb = Null)

(* The queue holds no fiber and no callback twice.                         *)
EntriesOK ==
    /\ \A i \in DOMAIN m_fibers : OneOf(m_fibers[i])
    /\ \A i, j \in DOMAIN m_fibers : i # j => Differ(m_fibers[i], m_fibers[j])

(* The pointers of thread t: ft.fiber, and cb_fiber.                       *)
Held(t, f) == ft[t].fiber = f \/ cb_fiber[t] = f

(* The fiber may be swapped in.                                            *)
Loose(f) ==
    /\ m_state[f] \in {"INIT", "READY", "HOLD"}
    /\ \/ at[f] = "body"
       \/ at[f] = "entry" /\ f \in UserFibers /\ m_cb[f] = f

(* Nobody has the fiber, and it has not run.                               *)
Untouched(f) ==
    /\ ~Queued(f) /\ f \notin waiting
    /\ \A t \in Threads : ~Held(t, f)
    /\ m_state[f] = "INIT"

(* The locals of run() at each point.                                      *)
LocalsOf(t) ==
    /\ pc[t] \notin {"dispatch"} \cup Handling => ft[t] = NoItem
    /\ pc[t] = "dispatch" => OneOf(ft[t])
    /\ pc[t] \in Handling => ft[t].cb = Null
    /\ cb_fiber[t] \in Callbacks \cup {Null}
    /\ ft[t].fiber # Null => ft[t].fiber # cb_fiber[t]

(* The state of the fiber in the thread's hand at each point, and of the   *)
(* spare one it keeps for the next callback.                               *)
InHandOf(t) ==
    LET f == Hand(t) IN
    /\ pc[t] = "run" => /\ m_state[f] = "EXEC"
                        /\ at[f] \in {"body", "armed"}
                        /\ f \in waiting => at[f] = "armed"
    /\ pc[t] \in {"leave", "back", "settle"} =>
        \/ m_state[f] \in Finished /\ at[f] = "end" /\ f \notin waiting
        \/ m_state[f] = "READY" /\ at[f] = "body" /\ f \notin waiting
        \/ m_state[f] = "HOLD" /\ at[f] = "body"
    /\ pc[t] = "hold" => m_state[f] = "HOLD" /\ at[f] = "body"

TakenOf(t) ==
    pc[t] = "dispatch" /\ ft[t].fiber # Null =>
        Loose(ft[t].fiber) /\ ft[t].fiber \notin waiting

SpareOf(t) ==
    cb_fiber[t] # Null /\ ~(pc[t] \in Handling /\ ft[t].fiber = Null) =>
        m_state[cb_fiber[t]] = "INIT" /\ cb_fiber[t] \notin waiting

ThreadOK(t) == LocalsOf(t) /\ InHandOf(t) /\ TakenOf(t) /\ SpareOf(t)

(* One thread at most has a pointer to it.                                 *)
OneHolder(f) == \A t, u \in Threads : Held(t, f) /\ Held(u, f) => t = u

(* A fiber in the queue is nowhere else, and may be swapped in.            *)
QueuedOK(f) ==
    Queued(f) => Loose(f) /\ f \notin waiting /\ \A t \in Threads : ~Held(t, f)

(* A fiber that waits for an event and that run() is through with.         *)
WaitingOK(f) ==
    f \in waiting /\ (\A t \in Threads : ~Held(t, f)) => m_state[f] = "HOLD" /\ at[f] = "body"

ReadyOK(f) == m_state[f] = "READY" => Queued(f) \/ \E t \in Threads : Held(t, f)

(* A callback is in one place until run() makes a fiber for it.            *)
CbTaken(c) == \E t \in Threads : ft[t].cb = c
CallbackOK(c) ==
    c \in Callbacks =>
        /\ CbQueued(c) \/ CbTaken(c) => Untouched(c)
        /\ ~(CbQueued(c) /\ CbTaken(c))
        /\ \A t, u \in Threads : ft[t].cb = c /\ ft[u].cb = c => t = u

(* What was never scheduled is nowhere.                                    *)
FreshOK(x) ==
    submits[x] = 0 => /\ Untouched(x)
                      /\ x \in Callbacks => ~CbQueued(x) /\ ~CbTaken(x)
                      /\ x \in UserFibers => at[x] = "entry" /\ m_cb[x] = x

TaskOK(x) ==
    OneHolder(x) /\ QueuedOK(x) /\ WaitingOK(x) /\ ReadyOK(x) /\ CallbackOK(x) /\ FreshOK(x)

FInv ==
    /\ EntriesOK
    /\ \A t \in Threads : ThreadOK(t)
    /\ \A x \in Tasks : TaskOK(x)

-----------------------------------------------------------------------------
(* Phases                                                                  *)

InRun == {"fetch", "idle", "dispatch"} \cup Handling

(* What the caller of start() and stop() does, and what the other threads  *)
(* can be doing meanwhile.                                                 *)
PhaseOK ==
    /\ pc[Caller] \in {"main", "stop", "join", "done"} \cup InRun
    /\ pc[Caller] # "main" => stopping
    /\ pc[Caller] = "main" =>
        \A w \in Workers : IF stopping THEN pc[w] = "off"
                           ELSE pc[w] \in InRun /\ idleState[w] = "live"
    /\ pc[Caller] \notin {"main", "done"} => \A w \in Workers : pc[w] \in InRun \cup {"exit"}
    /\ pc[Caller] = "done" => \A w \in Workers : pc[w] = "off"
    /\ pc[Caller] \in InRun => UseCaller

(* The root fiber has not terminated when stop() calls it.                 *)
RootOK ==
    /\ pc[Caller] # "main" \/ ~stopping => starts >= 1
    /\ UseCaller /\ rootState \in Finished => pc[Caller] \in {"join", "done"}
    /\ ~UseCaller => rootState = "INIT"

PInv == PhaseOK /\ RootOK /\ failure = "none"

-----------------------------------------------------------------------------
(* The queue                                                               *)

(* Where the j-th entry was before entry i was erased.                     *)
Old(i, j) == IF j < i THEN j ELSE j + 1

(* What an append leaves in the queue.                                     *)
LEMMA Appended ==
    ASSUME NEW S, NEW q \in Seq(S), NEW e \in S
    PROVE  /\ \A j \in DOMAIN Append(q, e) :
                 \/ j \in DOMAIN q /\ Append(q, e)[j] = q[j]
                 \/ j \notin DOMAIN q /\ j = Len(q) + 1 /\ Append(q, e)[j] = e
           /\ \A j \in DOMAIN q : j \in DOMAIN Append(q, e) /\ Append(q, e)[j] = q[j]
           /\ \E j \in DOMAIN Append(q, e) : Append(q, e)[j] = e
<1>1. DOMAIN q = 1..Len(q) /\ Len(q) \in Nat
  BY LenProperties
<1>2. /\ Append(q, e) \in Seq(S) /\ Len(Append(q, e)) = Len(q) + 1
      /\ \A i \in 1..Len(q) : Append(q, e)[i] = q[i]
      /\ Append(q, e)[Len(q) + 1] = e
  BY AppendProperties
<1>3. DOMAIN Append(q, e) = 1..(Len(q) + 1)
  BY <1>2, LenProperties
<1> QED  BY <1>1, <1>2, <1>3

(* What an erase leaves in the queue: the other entries, each in one place.*)
LEMMA Removed ==
    ASSUME NEW S, NEW q \in Seq(S), NEW i \in DOMAIN q
    PROVE  /\ \A j \in DOMAIN RemoveAt(q, i) :
                 Old(i, j) \in DOMAIN q \ {i} /\ RemoveAt(q, i)[j] = q[Old(i, j)]
           /\ \A j, k \in DOMAIN RemoveAt(q, i) : Old(i, j) = Old(i, k) => j = k
           /\ \A k \in DOMAIN q \ {i} : \E j \in DOMAIN RemoveAt(q, i) : RemoveAt(q, i)[j] = q[k]
<1> DEFINE a == SubSeq(q, 1, i - 1)
           b == SubSeq(q, i + 1, Len(q))
           r == RemoveAt(q, i)
<1>1. DOMAIN q = 1..Len(q) /\ Len(q) \in Nat /\ i \in 1..Len(q) /\ \A j \in 1..Len(q) : q[j] \in S
  BY LenProperties
<1>2. /\ a \in Seq(S) /\ Len(a) = i - 1
      /\ \A j \in 1..(i - 1) : a[j] = q[j]
  <2>1. \A j \in 1..(i - 1) : q[j] \in S  BY <1>1
  <2>2. a \in Seq(S) /\ Len(a) = (IF 1 <= i - 1 THEN (i - 1) - 1 + 1 ELSE 0)
        /\ \A j \in 1..((i - 1) - 1 + 1) : a[j] = q[1 + j - 1]
    BY <1>1, <2>1, SubSeqProperties
  <2> QED  BY <1>1, <2>2
<1>3. /\ b \in Seq(S) /\ Len(b) = Len(q) - i
      /\ \A j \in 1..(Len(q) - i) : b[j] = q[i + j]
  <2>1. \A j \in (i + 1)..Len(q) : q[j] \in S  BY <1>1
  <2>2. b \in Seq(S) /\ Len(b) = (IF i + 1 <= Len(q) THEN Len(q) - (i + 1) + 1 ELSE 0)
        /\ \A j \in 1..(Len(q) - (i + 1) + 1) : b[j] = q[(i + 1) + j - 1]
    BY <1>1, <2>1, SubSeqProperties
  <2>3. Len(b) = Len(q) - i  BY <1>1, <2>2
  <2>4. Len(q) - (i + 1) + 1 = Len(q) - i  BY <1>1
  <2>5. \A j \in 1..(Len(q) - i) : (i + 1) + j - 1 = i + j  BY <1>1
  <2> QED  BY <2>2, <2>3, <2>4, <2>5
<1>4. r = a \o b  BY DEF RemoveAt
<1> HIDE DEF a, b
<1>5. /\ r \in Seq(S) /\ Len(r) = Len(q) - 1
      /\ \A j \in 1..(Len(q) - 1) : r[j] = IF j <= i - 1 THEN a[j] ELSE b[j - (i - 1)]
  <2>1. /\ a \o b \in Seq(S) /\ Len(a \o b) = Len(a) + Len(b)
        /\ \A j \in 1..(Len(a) + Len(b)) : (a \o b)[j] = IF j <= Len(a) THEN a[j] ELSE b[j - Len(a)]
    BY <1>2, <1>3, ConcatProperties
  <2>2. Len(a) + Len(b) = Len(q) - 1  BY <1>1, <1>2, <1>3
  <2> QED  BY <1>2, <1>4, <2>1, <2>2
<1>6. DOMAIN r = 1..(Len(q) - 1)
  BY <1>5, LenProperties
<1> HIDE DEF r
<1>7. ASSUME NEW j \in DOMAIN r PROVE Old(i, j) \in DOMAIN q \ {i} /\ r[j] = q[Old(i, j)]
  <2>1. CASE j < i  BY <1>1, <1>2, <1>5, <1>6, <2>1 DEF Old
  <2>2. CASE ~(j < i)
    <3>1. j - (i - 1) \in 1..(Len(q) - i) /\ i + (j - (i - 1)) = j + 1
      BY <1>1, <1>6, <2>2
    <3> QED  BY <1>1, <1>3, <1>5, <1>6, <2>2, <3>1 DEF Old
  <2> QED  BY <2>1, <2>2
<1>8. \A j, k \in DOMAIN r : Old(i, j) = Old(i, k) => j = k
  BY <1>1, <1>6 DEF Old
<1>9. ASSUME NEW k \in DOMAIN q \ {i} PROVE \E j \in DOMAIN r : r[j] = q[k]
  <2>1. CASE k < i
    BY <1>1, <1>6, <1>7, <2>1 DEF Old
  <2>2. CASE ~(k < i)
    <3>1. k - 1 \in DOMAIN r /\ Old(i, k - 1) = k  BY <1>1, <1>6, <2>2 DEF Old
    <3> QED  BY <1>7, <3>1
  <2> QED  BY <2>1, <2>2
<1> QED  BY <1>7, <1>8, <1>9 DEF r

(* scheduleNoLock() of what is not in the queue yet.                       *)
LEMMA EntryAdded ==
    ASSUME TypeOK, EntriesOK, NEW item \in Items, m_fibers' = Append(m_fibers, item)
    PROVE  /\ \A f : Queued(f)' <=> (Queued(f) \/ item.fiber = f)
           /\ \A c : CbQueued(c)' <=> (CbQueued(c) \/ item.cb = c)
           /\ /\ OneOf(item)
              /\ item.fiber # Null => ~Queued(item.fiber)
              /\ item.cb # Null => ~CbQueued(item.cb)
              => EntriesOK'
<1>1. m_fibers \in Seq(Items)  BY DEF TypeOK, QueueTypeOK
<1>2. /\ \A j \in DOMAIN m_fibers' :
           \/ j \in DOMAIN m_fibers /\ m_fibers'[j] = m_fibers[j]
           \/ j \notin DOMAIN m_fibers /\ j = Len(m_fibers) + 1 /\ m_fibers'[j] = item
      /\ \A j \in DOMAIN m_fibers : j \in DOMAIN m_fibers' /\ m_fibers'[j] = m_fibers[j]
      /\ \E j \in DOMAIN m_fibers' : m_fibers'[j] = item
  BY <1>1, Appended
<1>3. \A f : Queued(f)' <=> (Queued(f) \/ item.fiber = f)
  BY <1>2 DEF Queued
<1>4. \A c : CbQueued(c)' <=> (CbQueued(c) \/ item.cb = c)
  BY <1>2 DEF CbQueued
<1>5. ASSUME OneOf(item), item.fiber # Null => ~Queued(item.fiber),
             item.cb # Null => ~CbQueued(item.cb)
      PROVE  EntriesOK'
  <2>1. \A j \in DOMAIN m_fibers' : OneOf(m_fibers'[j])
    BY <1>2, <1>5 DEF EntriesOK
  <2>2. \A j \in DOMAIN m_fibers : Differ(m_fibers[j], item) /\ Differ(item, m_fibers[j])
    BY <1>5 DEF Queued, CbQueued, Differ
  <2>3. \A j, k \in DOMAIN m_fibers' : j # k => Differ(m_fibers'[j], m_fibers'[k])
    BY <1>2, <2>2 DEF EntriesOK
  <2> QED  BY <2>1, <2>3 DEF EntriesOK, OneOf, Differ
<1> QED  BY <1>3, <1>4, <1>5

(* The same for two of them in one critical section.                       *)
LEMMA EntriesAdded ==
    ASSUME TypeOK, EntriesOK, NEW a \in Items, NEW b \in Items,
           m_fibers' = Append(Append(m_fibers, a), b),
           OneOf(a), OneOf(b), Differ(a, b),
           a.fiber # Null => ~Queued(a.fiber), b.fiber # Null => ~Queued(b.fiber),
           a.cb # Null => ~CbQueued(a.cb), b.cb # Null => ~CbQueued(b.cb)
    PROVE  /\ EntriesOK'
           /\ \A f : Queued(f)' <=> (Queued(f) \/ a.fiber = f \/ b.fiber = f)
           /\ \A c : CbQueued(c)' <=> (CbQueued(c) \/ a.cb = c \/ b.cb = c)
<1> DEFINE q == Append(m_fibers, a)
<1>1. m_fibers \in Seq(Items) /\ q \in Seq(Items)  BY AppendProperties DEF TypeOK, QueueTypeOK
<1>2. /\ \A j \in DOMAIN q :
           \/ j \in DOMAIN m_fibers /\ q[j] = m_fibers[j]
           \/ j \notin DOMAIN m_fibers /\ j = Len(m_fibers) + 1 /\ q[j] = a
      /\ \A j \in DOMAIN m_fibers : j \in DOMAIN q /\ q[j] = m_fibers[j]
      /\ \E j \in DOMAIN q : q[j] = a
  BY <1>1, Appended
<1>3. m_fibers' = Append(q, b)  OBVIOUS
<1> HIDE DEF q
<1>4. /\ \A j \in DOMAIN m_fibers' :
           \/ j \in DOMAIN q /\ m_fibers'[j] = q[j]
           \/ j \notin DOMAIN q /\ j = Len(q) + 1 /\ m_fibers'[j] = b
      /\ \A j \in DOMAIN q : j \in DOMAIN m_fibers' /\ m_fibers'[j] = q[j]
      /\ \E j \in DOMAIN m_fibers' : m_fibers'[j] = b
  <2>1. /\ \A j \in DOMAIN Append(q, b) :
             \/ j \in DOMAIN q /\ Append(q, b)[j] = q[j]
             \/ j \notin DOMAIN q /\ j = Len(q) + 1 /\ Append(q, b)[j] = b
        /\ \A j \in DOMAIN q : j \in DOMAIN Append(q, b) /\ Append(q, b)[j] = q[j]
        /\ \E j \in DOMAIN Append(q, b) : Append(q, b)[j] = b
    BY <1>1, Appended
  <2> QED  BY <1>3, <2>1
<1>5. \A f : Queued(f)' <=> (Queued(f) \/ a.fiber = f \/ b.fiber = f)
  BY <1>2, <1>4 DEF Queued
<1>6. \A c : CbQueued(c)' <=> (CbQueued(c) \/ a.cb = c \/ b.cb = c)
  BY <1>2, <1>4 DEF CbQueued
<1>7. \A j \in DOMAIN q : OneOf(q[j]) /\ Differ(q[j], b) /\ Differ(b, q[j])
  BY <1>2 DEF EntriesOK, Queued, CbQueued, Differ
<1>8. \A j, k \in DOMAIN q : j # k => Differ(q[j], q[k])
  <2>1. \A j \in DOMAIN m_fibers : Differ(m_fibers[j], a) /\ Differ(a, m_fibers[j])
    BY DEF Queued, CbQueued, Differ
  <2> QED  BY <1>2, <2>1 DEF EntriesOK
<1>9. \A j \in DOMAIN m_fibers' : OneOf(m_fibers'[j])
  BY <1>4, <1>7
<1>10. \A j, k \in DOMAIN m_fibers' : j # k => Differ(m_fibers'[j], m_fibers'[k])
  BY <1>4, <1>7, <1>8
<1> QED  BY <1>5, <1>6, <1>9, <1>10 DEF EntriesOK, OneOf, Differ

(* Erasing entry i takes away the one place of what it holds.              *)
LEMMA EntryErased ==
    ASSUME TypeOK, EntriesOK, NEW i \in DOMAIN m_fibers, m_fibers' = RemoveAt(m_fibers, i)
    PROVE  /\ EntriesOK'
           /\ \A f \in Tasks : Queued(f)' <=> (Queued(f) /\ m_fibers[i].fiber # f)
           /\ \A c \in Callbacks : CbQueued(c)' <=> (CbQueued(c) /\ m_fibers[i].cb # c)
<1>1. m_fibers \in Seq(Items)  BY DEF TypeOK, QueueTypeOK
<1>2. /\ \A j \in DOMAIN m_fibers' :
           Old(i, j) \in DOMAIN m_fibers \ {i} /\ m_fibers'[j] = m_fibers[Old(i, j)]
      /\ \A j, k \in DOMAIN m_fibers' : Old(i, j) = Old(i, k) => j = k
      /\ \A k \in DOMAIN m_fibers \ {i} : \E j \in DOMAIN m_fibers' : m_fibers'[j] = m_fibers[k]
  BY <1>1, Removed
<1>3. Null \notin Tasks /\ Null \notin Callbacks  BY TasksAssumption DEF Tasks
<1>4. ASSUME NEW f \in Tasks PROVE Queued(f)' <=> (Queued(f) /\ m_fibers[i].fiber # f)
  <2>1. ASSUME NEW j \in DOMAIN m_fibers', m_fibers'[j].fiber = f
        PROVE  Queued(f) /\ m_fibers[i].fiber # f
    BY <1>2, <1>3, <2>1 DEF EntriesOK, Differ, Queued
  <2>2. ASSUME NEW k \in DOMAIN m_fibers, m_fibers[k].fiber = f, m_fibers[i].fiber # f
        PROVE  \E j \in DOMAIN m_fibers' : m_fibers'[j].fiber = f
    BY <1>2, <2>2
  <2> QED  BY <2>1, <2>2 DEF Queued
<1>5. ASSUME NEW c \in Callbacks PROVE CbQueued(c)' <=> (CbQueued(c) /\ m_fibers[i].cb # c)
  <2>1. ASSUME NEW j \in DOMAIN m_fibers', m_fibers'[j].cb = c
        PROVE  CbQueued(c) /\ m_fibers[i].cb # c
    BY <1>2, <1>3, <2>1 DEF EntriesOK, Differ, CbQueued
  <2>2. ASSUME NEW k \in DOMAIN m_fibers, m_fibers[k].cb = c, m_fibers[i].cb # c
        PROVE  \E j \in DOMAIN m_fibers' : m_fibers'[j].cb = c
    BY <1>2, <2>2
  <2> QED  BY <2>1, <2>2 DEF CbQueued
<1>6. EntriesOK'
  <2>1. \A j \in DOMAIN m_fibers' : OneOf(m_fibers'[j])
    BY <1>2 DEF EntriesOK
  <2>2. \A j, k \in DOMAIN m_fibers' : j # k => Differ(m_fibers'[j], m_fibers'[k])
    BY <1>2 DEF EntriesOK
  <2> QED  BY <2>1, <2>2 DEF EntriesOK, OneOf, Differ
<1> QED  BY <1>4, <1>5, <1>6

-----------------------------------------------------------------------------
(* One thread at a time                                                    *)

(* What a step leaves alone of a task, and of a thread.                    *)
SameTask(x) ==
    /\ m_state'[x] = m_state[x] /\ at'[x] = at[x] /\ m_cb'[x] = m_cb[x]
    /\ submits'[x] = submits[x]
    /\ x \in waiting' <=> x \in waiting
    /\ Queued(x)' <=> Queued(x)
    /\ x \in Callbacks => (CbQueued(x)' <=> CbQueued(x))
SameThread(t) == pc'[t] = pc[t] /\ ft'[t] = ft[t] /\ cb_fiber'[t] = cb_fiber[t]

(* Whatever thread t does with the tasks of A, which it alone has, leaves  *)
(* the other threads and tasks as they were.                               *)
LEMMA Frame ==
    ASSUME IInv, FInv, NEW t \in Threads, NEW A \in SUBSET Tasks,
           \A u \in Threads \ {t} : SameThread(u),
           \A x \in Tasks \ A :
               /\ SameTask(x)
               /\ Held(t, x)' <=> Held(t, x)
               /\ ft'[t].cb = x <=> ft[t].cb = x,
           \A u \in Threads \ {t} : \A x \in A : ~Held(u, x),
           EntriesOK', ThreadOK(t)', \A x \in A : TaskOK(x)'
    PROVE  FInv'
<1>1. ASSUME NEW u \in Threads \ {t} PROVE ThreadOK(u)'
  <2>1. ThreadOK(u) /\ SameThread(u) /\ Hand(u)' = Hand(u)
    BY DEF FInv, SameThread, Hand
  <2>2. LocalsOf(u)'
    BY <2>1 DEF ThreadOK, LocalsOf, SameThread, OneOf
  <2>3. InHandOf(u)'
    <3>1. CASE pc[u] \in Handling
      <4>1. Hand(u) \in Tasks /\ Held(u, Hand(u))
        BY <3>1 DEF IInv, HandOK, Hand, Held
      <4>2. SameTask(Hand(u))
        BY <4>1
      <4> QED  BY <2>1, <4>2 DEF ThreadOK, InHandOf, SameTask, SameThread
    <3>2. CASE pc[u] \notin Handling
      BY <2>1, <3>2 DEF InHandOf, SameThread, Handling
    <3> QED  BY <3>1, <3>2
  <2>4. TakenOf(u)'
    <3>1. CASE pc[u] = "dispatch" /\ ft[u].fiber # Null
      <4>1. ft[u].fiber \in Tasks /\ Held(u, ft[u].fiber)
        BY <2>1, <3>1 DEF ThreadOK, LocalsOf, OneOf, Held
      <4>2. SameTask(ft[u].fiber)
        BY <4>1
      <4> QED  BY <2>1, <4>2 DEF ThreadOK, TakenOf, SameTask, SameThread, Loose
    <3>2. CASE ~(pc[u] = "dispatch" /\ ft[u].fiber # Null)
      BY <2>1, <3>2 DEF TakenOf, SameThread
    <3> QED  BY <3>1, <3>2
  <2>5. SpareOf(u)'
    <3>1. CASE cb_fiber[u] # Null
      <4>1. cb_fiber[u] \in Tasks /\ Held(u, cb_fiber[u])
        BY <2>1, <3>1 DEF ThreadOK, LocalsOf, Held, Tasks
      <4>2. SameTask(cb_fiber[u])
        BY <4>1
      <4> QED  BY <2>1, <4>2 DEF ThreadOK, SpareOf, SameTask, SameThread
    <3>2. CASE cb_fiber[u] = Null
      BY <2>1, <3>2 DEF SpareOf, SameThread
    <3> QED  BY <3>1, <3>2
  <2> QED  BY <2>2, <2>3, <2>4, <2>5 DEF ThreadOK
<1>2. ASSUME NEW x \in Tasks \ A PROVE TaskOK(x)'
  <2>1. TaskOK(x) /\ SameTask(x)
    BY DEF FInv
  <2>2. \A u \in Threads : Held(u, x)' <=> Held(u, x)
    BY DEF Held, SameThread
  <2>3. \A u \in Threads : ft'[u].cb = x <=> ft[u].cb = x
    BY DEF SameThread
  <2>4. Untouched(x)' <=> Untouched(x)
    BY <2>1, <2>2 DEF Untouched, SameTask
  <2>5. CbTaken(x)' <=> CbTaken(x)
    BY <2>3 DEF CbTaken
  <2>6. OneHolder(x)'
    BY <2>1, <2>2 DEF TaskOK, OneHolder
  <2>7. QueuedOK(x)'
    BY <2>1, <2>2 DEF TaskOK, QueuedOK, SameTask, Loose
  <2>8. WaitingOK(x)'
    BY <2>1, <2>2 DEF TaskOK, WaitingOK, SameTask
  <2>9. ReadyOK(x)'
    BY <2>1, <2>2 DEF TaskOK, ReadyOK, SameTask
  <2>10. CallbackOK(x)'
    BY <2>1, <2>3, <2>4, <2>5 DEF TaskOK, CallbackOK, SameTask
  <2>11. FreshOK(x)'
    BY <2>1, <2>4, <2>5 DEF TaskOK, FreshOK, SameTask
  <2> QED  BY <2>6, <2>7, <2>8, <2>9, <2>10, <2>11 DEF TaskOK
<1> QED  BY <1>1, <1>2 DEF FInv

(* A fiber in a thread's hand is nowhere else.                             *)
LEMMA Mine ==
    ASSUME IInv, FInv, NEW t \in Threads, NEW f \in Tasks, Held(t, f)
    PROVE  /\ ~Queued(f)
           /\ \A u \in Threads \ {t} : ~Held(u, f)
           /\ ~Untouched(f)
           /\ submits[f] # 0
           /\ f \in Callbacks => ~CbQueued(f) /\ ~CbTaken(f)
<1>1. TaskOK(f)  BY DEF FInv
<1>2. ~Untouched(f)  BY DEF Untouched
<1>3. ~Queued(f)  BY <1>1 DEF TaskOK, QueuedOK
<1>4. \A u \in Threads \ {t} : ~Held(u, f)  BY <1>1 DEF TaskOK, OneHolder
<1>5. submits[f] # 0  BY <1>1, <1>2 DEF TaskOK, FreshOK
<1>6. f \in Callbacks => ~CbQueued(f) /\ ~CbTaken(f)
  BY <1>1, <1>2 DEF TaskOK, CallbackOK
<1> QED  BY <1>2, <1>3, <1>4, <1>5, <1>6

(* The thread goes on with the fiber it has in hand: nobody else is        *)
(* concerned.                                                              *)
LEMMA HandStep ==
    ASSUME IInv, FInv, NEW t \in Threads, NEW f, f = Hand(t),
           pc[t] \in Handling \/ (pc[t] = "dispatch" /\ ft[t].fiber # Null),
           UNCHANGED <<ft, cb_fiber, m_fibers, submits>>,
           pc'[t] \in Handling, \A u \in Threads \ {t} : pc'[u] = pc[u],
           \A x \in Tasks \ {f} :
               /\ m_state'[x] = m_state[x] /\ at'[x] = at[x] /\ m_cb'[x] = m_cb[x]
               /\ x \in waiting' <=> x \in waiting,
           InHandOf(t)'
    PROVE  FInv'
<1>0. ThreadOK(t) /\ Hand(t)' = Hand(t)
  BY DEF FInv, Hand
<1>1. f \in Tasks /\ Held(t, f) /\ ft[t].cb = Null
  BY <1>0 DEF IInv, HandOK, Hand, Held, ThreadOK, LocalsOf, OneOf
<1>2. /\ ~Queued(f)
      /\ \A u \in Threads \ {t} : ~Held(u, f)
      /\ ~Untouched(f)
      /\ submits[f] # 0
      /\ f \in Callbacks => ~CbQueued(f) /\ ~CbTaken(f)
  BY <1>1, Mine
<1>3. /\ \A x : Queued(x)' <=> Queued(x)
      /\ \A x : CbQueued(x)' <=> CbQueued(x)
      /\ \A u, x : Held(u, x)' <=> Held(u, x)
      /\ \A x : CbTaken(x)' <=> CbTaken(x)
  BY DEF Queued, CbQueued, Held, CbTaken
<1>4. EntriesOK'
  BY DEF FInv, EntriesOK, OneOf, Differ
<1>5. \A u \in Threads \ {t} : SameThread(u)
  BY DEF SameThread
<1>6. \A x \in Tasks \ {f} : /\ SameTask(x)
                             /\ Held(t, x)' <=> Held(t, x)
                             /\ ft'[t].cb = x <=> ft[t].cb = x
  BY <1>3 DEF SameTask
<1>8. ThreadOK(t)'
  <2>1. LocalsOf(t)'
    BY <1>0, <1>1 DEF ThreadOK, LocalsOf, Handling
  <2>2. TakenOf(t)'
    BY DEF TakenOf, Handling
  <2>3. SpareOf(t)'
    <3>1. CASE ft[t].fiber = Null  BY <3>1 DEF SpareOf
    <3>2. CASE ft[t].fiber # Null /\ cb_fiber[t] # Null
      <4>1. f = ft[t].fiber /\ cb_fiber[t] # f /\ cb_fiber[t] \in Tasks
        BY <1>0, <3>2 DEF Hand, ThreadOK, LocalsOf, Tasks
      <4> QED  BY <1>0, <3>2, <4>1 DEF ThreadOK, SpareOf, Handling
    <3>3. CASE cb_fiber[t] = Null  BY <3>3 DEF SpareOf
    <3> QED  BY <3>1, <3>2, <3>3
  <2> QED  BY <2>1, <2>2, <2>3 DEF ThreadOK
<1>9. TaskOK(f)'
  <2>1. OneHolder(f)'  BY <1>2, <1>3 DEF OneHolder
  <2>2. QueuedOK(f)'  BY <1>2, <1>3 DEF QueuedOK
  <2>3. WaitingOK(f)'  BY <1>1, <1>3 DEF WaitingOK
  <2>4. ReadyOK(f)'  BY <1>1, <1>3 DEF ReadyOK
  <2>5. CallbackOK(f)'
    BY <1>2, <1>3 DEF CallbackOK, CbTaken
  <2>6. FreshOK(f)'  BY <1>2 DEF FreshOK
  <2> QED  BY <2>1, <2>2, <2>3, <2>4, <2>5, <2>6 DEF TaskOK
<1> QED
  <2>1. {f} \in SUBSET Tasks  BY <1>1
  <2>2. \A u \in Threads \ {t} : \A x \in {f} : ~Held(u, x)  BY <1>2
  <2>3. \A x \in {f} : TaskOK(x)'  BY <1>9
  <2> QED  BY <1>4, <1>5, <1>6, <1>8, <2>1, <2>2, <2>3, Frame

(* A body gives up the processor.                                          *)
LEMMA GiveUpFibers ==
    ASSUME IInv, FInv, NEW t \in Threads, NEW state, pc[t] = "run", GiveUp(t, state),
           \A x \in Tasks \ {Hand(t)} : at'[x] = at[x] /\ m_cb'[x] = m_cb[x],
           \/ state \in Finished /\ at'[Hand(t)] = "end" /\ Hand(t) \notin waiting
           \/ state = "READY" /\ at'[Hand(t)] = "body" /\ Hand(t) \notin waiting
           \/ state = "HOLD" /\ at'[Hand(t)] = "body"
    PROVE  FInv'
<1> DEFINE f == Hand(t)
<1>1. /\ m_state \in [Tasks -> States] /\ pc \in [Threads -> Points] /\ f \in Tasks
      /\ pc[t] \in Handling
  BY DEF IInv, TypeOK, FiberTypeOK, LocalTypeOK, HandOK, Handling
<1>2. /\ UNCHANGED <<ft, cb_fiber, m_fibers, submits, waiting>>
      /\ pc'[t] = "leave" /\ \A u \in Threads \ {t} : pc'[u] = pc[u]
      /\ m_state'[f] = state /\ \A x \in Tasks \ {f} : m_state'[x] = m_state[x]
      /\ Hand(t)' = f
  BY <1>1 DEF GiveUp, queueVars, localVars, Hand
<1> HIDE DEF f
<1>3. InHandOf(t)'
  BY <1>2 DEF InHandOf, f
<1>4. pc'[t] \in Handling  BY <1>2 DEF Handling
<1> QED  BY <1>1, <1>2, <1>3, <1>4, HandStep DEF f

(* The body of the fiber in hand is executing.                             *)
LEMMA BodyRuns ==
    ASSUME IInv, FInv, NEW t \in Threads, pc[t] = "run"
    PROVE  /\ Hand(t) \in Tasks /\ at \in [Tasks -> Places] /\ m_cb \in [Tasks -> Tasks \cup {Null}]
           /\ at[Hand(t)] = "body" => Hand(t) \notin waiting
<1>1. ThreadOK(t)  BY DEF FInv
<1> QED
  BY <1>1 DEF IInv, TypeOK, FiberTypeOK, HandOK, Handling, ThreadOK, InHandOf

(* A body returns.                                                         *)
LEMMA ReturnFibers == ASSUME IInv, FInv, NEW t \in Threads, Return(t) PROVE FInv'
<1>1. pc[t] = "run" /\ Hand(t) \notin waiting
  BY BodyRuns DEF Return, CanStep, InBody
<1>2. /\ at'[Hand(t)] = "end"
      /\ \A x \in Tasks \ {Hand(t)} : at'[x] = at[x] /\ m_cb'[x] = m_cb[x]
  BY <1>1, BodyRuns DEF Return
<1>3. GiveUp(t, "TERM") /\ "TERM" \in Finished  BY DEF Return, Finished
<1> QED  BY <1>1, <1>2, <1>3, GiveUpFibers

(* A body throws.                                                          *)
LEMMA ThrowFibers == ASSUME IInv, FInv, NEW t \in Threads, Throw(t) PROVE FInv'
<1>1. pc[t] = "run" /\ Hand(t) \notin waiting
  BY BodyRuns DEF Throw, InBody
<1>2. /\ at'[Hand(t)] = "end"
      /\ \A x \in Tasks \ {Hand(t)} : at'[x] = at[x] /\ m_cb'[x] = m_cb[x]
  BY <1>1, BodyRuns DEF Throw
<1>3. GiveUp(t, "EXCEPT") /\ "EXCEPT" \in Finished  BY DEF Throw, Finished
<1> QED  BY <1>1, <1>2, <1>3, GiveUpFibers

(* YieldToReady(): the fiber is not registered anywhere.                   *)
LEMMA YieldToReadyFibers == ASSUME IInv, FInv, NEW t \in Threads, YieldToReady(t) PROVE FInv'
<1>1. pc[t] = "run" /\ at[Hand(t)] = "body" /\ Hand(t) \notin waiting
  BY BodyRuns DEF YieldToReady, CanSuspend, CanStep, InBody
<1>2. at' = at /\ m_cb' = m_cb /\ GiveUp(t, "READY")
  BY DEF YieldToReady
<1> QED  BY <1>1, <1>2, GiveUpFibers

(* YieldToHold().                                                          *)
LEMMA YieldToHoldFibers == ASSUME IInv, FInv, NEW t \in Threads, YieldToHold(t) PROVE FInv'
<1>1. pc[t] = "run" /\ GiveUp(t, "HOLD")
  BY DEF YieldToHold
<1>2. /\ at'[Hand(t)] = "body"
      /\ \A x \in Tasks \ {Hand(t)} : at'[x] = at[x] /\ m_cb'[x] = m_cb[x]
  BY <1>1, BodyRuns DEF YieldToHold
<1> QED  BY <1>1, <1>2, GiveUpFibers

(* The fiber is handed to an event source while it executes.               *)
LEMMA RegisterFibers == ASSUME IInv, FInv, NEW t \in Threads, Register(t) PROVE FInv'
<1> DEFINE f == Hand(t)
<1>1. pc[t] = "run" /\ pc[t] \in Handling /\ f \in Tasks /\ at \in [Tasks -> Places]
  BY BodyRuns DEF Register, CanSuspend, CanStep, InBody, Handling
<1>2. /\ UNCHANGED <<ft, cb_fiber, m_fibers, submits, pc, m_state, m_cb>>
      /\ waiting' = waiting \cup {f} /\ at' = [at EXCEPT ![f] = "armed"]
      /\ Hand(t)' = f
  BY DEF Register, queueVars, localVars, Hand
<1> HIDE DEF f
<1>3. m_state[f] = "EXEC"
  BY <1>1 DEF FInv, ThreadOK, InHandOf, f
<1>4. InHandOf(t)'
  BY <1>1, <1>2, <1>3 DEF InHandOf
<1> QED  BY <1>1, <1>2, <1>4, HandStep DEF f

(* The thread is back in run(), counts itself off, and tests the state.    *)
LEMMA BackFibers ==
    ASSUME IInv, FInv, NEW t \in Threads, Leave(t) \/ Back(t) \/ SettleElse(t)
    PROVE  FInv'
<1>1. /\ pc[t] \in Handling /\ pc'[t] \in Handling /\ \A u \in Threads \ {t} : pc'[u] = pc[u]
  BY DEF IInv, TypeOK, LocalTypeOK, Leave, Back, SettleElse, Handling
<1>2. UNCHANGED <<ft, cb_fiber, m_fibers, submits, m_state, at, m_cb, waiting>> /\ Hand(t)' = Hand(t)
  BY DEF Leave, Back, SettleElse, queueVars, localVars, userVars, fiberVars, Hand
<1>3. ThreadOK(t) /\ pc \in [Threads -> Points]  BY DEF FInv, IInv, TypeOK, LocalTypeOK
<1>4. InHandOf(t)'
  <2>1. CASE Leave(t) \/ Back(t)
    <3>1. pc[t] \in {"leave", "back"} /\ pc'[t] \in {"back", "settle"}
      BY <1>3, <2>1 DEF Leave, Back
    <3> QED  BY <1>2, <1>3, <3>1 DEF ThreadOK, InHandOf
  <2>2. CASE SettleElse(t)
    <3>1. pc[t] = "settle" /\ pc'[t] = "hold" /\ m_state[Hand(t)] \notin Finished \cup {"READY"}
      BY <1>3, <2>2 DEF SettleElse
    <3> QED  BY <1>2, <1>3, <3>1 DEF ThreadOK, InHandOf
  <2> QED  BY <2>1, <2>2
<1> QED  BY <1>1, <1>2, <1>4, HandStep

(* Steps of threads that have no task.                                     *)
Working == {"dispatch"} \cup Handling

(* They leave all fibers as they are.                                      *)
LEMMA NoTaskFibers ==
    ASSUME IInv, FInv, UNCHANGED <<m_state, at, m_cb, m_fibers, ft, cb_fiber, waiting, submits>>,
           \A t \in Threads : pc'[t] = pc[t] \/ (pc[t] \notin Working /\ pc'[t] \notin Working)
    PROVE  FInv'
<1>1. /\ \A x : Queued(x)' <=> Queued(x)
      /\ \A x : CbQueued(x)' <=> CbQueued(x)
      /\ \A u, x : Held(u, x)' <=> Held(u, x)
      /\ \A x : CbTaken(x)' <=> CbTaken(x)
      /\ \A x : Untouched(x)' <=> Untouched(x)
      /\ \A x : Loose(x)' <=> Loose(x)
      /\ \A u : Hand(u)' = Hand(u)
  BY DEF Queued, CbQueued, Held, CbTaken, Untouched, Loose, Hand
<1>2. EntriesOK'
  BY DEF FInv, EntriesOK, OneOf, Differ
<1>3. ASSUME NEW x \in Tasks PROVE TaskOK(x)'
  <2>1. TaskOK(x)  BY DEF FInv
  <2> QED
    BY <1>1, <2>1 DEF TaskOK, OneHolder, QueuedOK, WaitingOK, ReadyOK, CallbackOK, FreshOK
<1>4. ASSUME NEW t \in Threads PROVE ThreadOK(t)'
  <2>1. ThreadOK(t)  BY DEF FInv
  <2>2. CASE pc'[t] = pc[t]
    BY <1>1, <2>1, <2>2 DEF ThreadOK, LocalsOf, InHandOf, TakenOf, SpareOf, OneOf
  <2>3. CASE pc[t] \notin Working /\ pc'[t] \notin Working
    BY <1>1, <2>1, <2>3
       DEF ThreadOK, LocalsOf, InHandOf, TakenOf, SpareOf, OneOf, Working, Handling
  <2> QED  BY <2>2, <2>3
<1> QED  BY <1>2, <1>3, <1>4 DEF FInv

(* start() makes new locals; no thread was in run().                       *)
LEMMA StartFibers == ASSUME IInv, FInv, PhaseOK, Start PROVE FInv'
<1>1. ASSUME NEW t \in Threads
      PROVE  /\ pc[t] \notin Working /\ pc'[t] \notin Working
             /\ ft[t] = NoItem /\ ft'[t] = NoItem /\ cb_fiber'[t] = Null
  <2>1. pc[t] \in {"main", "off"}
    BY DEF PhaseOK, Start, Threads
  <2>2. ThreadOK(t)  BY DEF FInv
  <2> QED  BY <2>1, <2>2 DEF Start, ThreadOK, LocalsOf, Working, Handling
<1>2. UNCHANGED <<m_state, at, m_cb, m_fibers, ft, waiting, submits>>
  BY DEF Start, fiberVars, queueVars, userVars
<1>3. EntriesOK'
  BY <1>2 DEF FInv, EntriesOK, OneOf, Differ
<1>4. ASSUME NEW t \in Threads PROVE ThreadOK(t)'
  BY <1>1, NoItemFiber DEF ThreadOK, LocalsOf, InHandOf, TakenOf, SpareOf, Working, Handling
<1>5. ASSUME NEW x \in Tasks PROVE TaskOK(x)'
  <2>1. TaskOK(x) /\ x # Null  BY TasksAssumption DEF FInv
  <2>2. /\ Queued(x)' <=> Queued(x)
        /\ CbQueued(x)' <=> CbQueued(x)
        /\ CbTaken(x)' <=> CbTaken(x)
        /\ Loose(x)' <=> Loose(x)
    BY <1>2 DEF Queued, CbQueued, CbTaken, Loose
  <2>3. \A t \in Threads : ~Held(t, x)'
    BY <1>1, <2>1, NoItemFiber DEF Held
  <2>4. Untouched(x) => Untouched(x)'
    BY <1>2, <2>2, <2>3 DEF Untouched
  <2>5. ASSUME NEW t \in Threads, Held(t, x) PROVE m_state[x] = "INIT" /\ x \notin waiting
    <3>1. x = cb_fiber[t] /\ pc[t] \notin Handling
      BY <1>1, <2>1, <2>5, NoItemFiber DEF Held, Working
    <3> QED  BY <2>1, <3>1 DEF FInv, ThreadOK, SpareOf
  <2>6. OneHolder(x)' /\ QueuedOK(x)'
    BY <1>2, <2>1, <2>2, <2>3 DEF TaskOK, OneHolder, QueuedOK
  <2>7. WaitingOK(x)' /\ ReadyOK(x)'
    BY <1>2, <2>1, <2>2, <2>5 DEF TaskOK, WaitingOK, ReadyOK
  <2>8. CallbackOK(x)' /\ FreshOK(x)'
    BY <1>2, <2>1, <2>2, <2>4 DEF TaskOK, CallbackOK, FreshOK
  <2> QED  BY <2>6, <2>7, <2>8 DEF TaskOK
<1> QED  BY <1>3, <1>4, <1>5 DEF FInv

(* Tasks are scheduled for the first time, one or several in one critical  *)
(* section.                                                                *)
LEMMA EnqueueNew ==
    ASSUME IInv, FInv, NEW A \in SUBSET Tasks, \A x \in A : submits[x] = 0 /\ submits'[x] # 0,
           \A y \in Tasks \ A : submits'[y] = submits[y],
           UNCHANGED <<m_state, at, m_cb, pc, ft, cb_fiber, waiting>>,
           EntriesOK',
           \A f \in Tasks : Queued(f)' <=> (Queued(f) \/ f \in A \cap UserFibers),
           \A c \in Callbacks : CbQueued(c)' <=> (CbQueued(c) \/ c \in A)
    PROVE  FInv'
<1>1. \A y \in Tasks \ A : SameTask(y)
  BY DEF SameTask
<1>2. \A u \in Threads : SameThread(u) /\ ThreadOK(u)'
  BY DEF SameThread, FInv, ThreadOK, LocalsOf, InHandOf, TakenOf, SpareOf, OneOf, Loose, Hand
<1>3. \A u, y : (Held(u, y)' <=> Held(u, y)) /\ (ft'[u].cb = y <=> ft[u].cb = y)
  BY DEF Held
<1>4. ASSUME NEW x \in A
      PROVE  /\ Untouched(x) /\ (x \in Callbacks => ~CbQueued(x) /\ ~CbTaken(x))
             /\ (x \in UserFibers => at[x] = "entry" /\ m_cb[x] = x)
  BY DEF FInv, TaskOK, FreshOK
<1>5. ASSUME NEW x \in A PROVE TaskOK(x)'
  <2>1. \A u \in Threads : ~Held(u, x)  BY <1>4 DEF Untouched
  <2>2. x \in Tasks /\ (x \in Callbacks => x \notin UserFibers)
    BY TasksAssumption
  <2>3. OneHolder(x)' /\ WaitingOK(x)' /\ ReadyOK(x)'
    BY <1>3, <1>4, <2>1 DEF OneHolder, WaitingOK, ReadyOK, Untouched
  <2>4. QueuedOK(x)'
    BY <1>3, <1>4, <2>1, <2>2 DEF QueuedOK, Loose, Untouched
  <2>5. CallbackOK(x)'
    BY <1>3, <1>4, <2>1, <2>2 DEF CallbackOK, Untouched, CbTaken
  <2>6. FreshOK(x)'  BY DEF FreshOK
  <2> QED  BY <2>3, <2>4, <2>5, <2>6 DEF TaskOK
<1> QED
  <2>1. Caller \in Threads  BY DEF Threads
  <2>2. \A u \in Threads \ {Caller} : \A y \in A : ~Held(u, y)
    BY <1>4 DEF Untouched
  <2> QED  BY <1>1, <1>2, <1>3, <1>5, <2>1, <2>2, Frame

(* The item that is made for a task.                                       *)
LEMMA ItemOfTask ==
    ASSUME NEW x \in Tasks, NEW thread \in Threads \cup {AnyThread}
    PROVE  /\ ItemOf(x, thread) \in Items /\ OneOf(ItemOf(x, thread)) /\ x # Null
           /\ ItemOf(x, thread).fiber = IF x \in UserFibers THEN x ELSE Null
           /\ ItemOf(x, thread).cb = IF x \in UserFibers THEN Null ELSE x
           /\ ItemOf(x, thread).thread = thread
           /\ x \in Callbacks <=> x \notin UserFibers
BY ItemTypes, TasksAssumption DEF ItemOf, FiberItem, CbItem, Tasks, OneOf

(* The queue entries of what was never scheduled.                          *)
LEMMA NotQueued ==
    ASSUME FInv, NEW x \in Tasks, submits[x] = 0
    PROVE  ~Queued(x) /\ (x \in Callbacks => ~CbQueued(x))
BY DEF FInv, TaskOK, FreshOK, Untouched

(* May be scheduled means: was not, so far.                                *)
LEMMA FirstTime ==
    ASSUME Orderly, IInv, NEW x \in Tasks, MaySubmit(x)
    PROVE  submits[x] = 0
<1>1. submits \in [Tasks -> Nat] /\ MaxSubmits \in Nat
  BY BoundsAssumption DEF IInv, TypeOK, UserTypeOK
<1> QED  BY <1>1 DEF MaySubmit, Orderly

(* scheduler(), called by the user or by a task.                           *)
LEMMA SubmitFibers ==
    ASSUME Orderly, IInv, FInv, NEW x \in Tasks, NEW thread \in Threads \cup {AnyThread},
           Submit(x, thread), UNCHANGED <<m_state, at, m_cb, pc, ft, cb_fiber, waiting>>
    PROVE  FInv'
<1>1. submits \in [Tasks -> Nat]
  BY DEF IInv, TypeOK, UserTypeOK
<1>2. submits[x] = 0
  BY FirstTime DEF Submit
<1>3. submits'[x] = 1 /\ \A y \in Tasks \ {x} : submits'[y] = submits[y]
  BY <1>1, <1>2 DEF Submit
<1> DEFINE item == ItemOf(x, thread)
<1>4. m_fibers' = Append(m_fibers, item)
  BY DEF Submit, scheduleNoLock
<1>5. /\ item \in Items /\ OneOf(item) /\ x # Null
      /\ item.fiber = IF x \in UserFibers THEN x ELSE Null
      /\ item.cb = IF x \in UserFibers THEN Null ELSE x
      /\ x \in Callbacks <=> x \notin UserFibers
  BY ItemOfTask
<1> HIDE DEF item
<1>6. ~Queued(x) /\ (x \in Callbacks => ~CbQueued(x))
  BY <1>2, NotQueued
<1>7. EntriesOK /\ TypeOK  BY DEF FInv, IInv
<1>8. /\ EntriesOK'
      /\ \A f : Queued(f)' <=> (Queued(f) \/ item.fiber = f)
      /\ \A c : CbQueued(c)' <=> (CbQueued(c) \/ item.cb = c)
  BY <1>4, <1>5, <1>6, <1>7, EntryAdded
<1>9. \A f \in Tasks : f # Null  BY TasksAssumption
<1>10. \A f \in Tasks : Queued(f)' <=> (Queued(f) \/ f \in {x} \cap UserFibers)
  BY <1>5, <1>8, <1>9
<1>11. \A c \in Callbacks : CbQueued(c)' <=> (CbQueued(c) \/ c \in {x})
  BY <1>5, <1>8, <1>9 DEF Tasks
<1>12. {x} \in SUBSET Tasks /\ \A z \in {x} : submits[z] = 0 /\ submits'[z] # 0
  BY <1>2, <1>3
<1> QED  BY <1>3, <1>8, <1>10, <1>11, <1>12, EnqueueNew

(* scheduler(begin, end).                                                  *)
LEMMA BatchFibers ==
    ASSUME Orderly, IInv, FInv, NEW x \in Tasks, NEW y \in Tasks, MainScheduleBatch(x, y)
    PROVE  FInv'
<1>1. submits \in [Tasks -> Nat]
  BY DEF IInv, TypeOK, UserTypeOK
<1>2. submits[x] = 0 /\ submits[y] = 0 /\ x # y
  BY FirstTime DEF MainScheduleBatch
<1>3. submits' = [submits EXCEPT ![x] = @ + 1, ![y] = @ + 1]
  BY DEF MainScheduleBatch
<1>4. \A z \in {x, y} : submits'[z] # 0
  BY <1>1, <1>2, <1>3
<1>5. \A z \in Tasks \ {x, y} : submits'[z] = submits[z]
  BY <1>1, <1>3
<1> DEFINE a == ItemOf(x, AnyThread)
           b == ItemOf(y, AnyThread)
<1>6. m_fibers' = Append(Append(m_fibers, a), b)
  BY DEF MainScheduleBatch, scheduleNoLock
<1>7. /\ a \in Items /\ OneOf(a) /\ x # Null
      /\ a.fiber = IF x \in UserFibers THEN x ELSE Null
      /\ a.cb = IF x \in UserFibers THEN Null ELSE x
      /\ x \in Callbacks <=> x \notin UserFibers
  BY ItemOfTask
<1>8. /\ b \in Items /\ OneOf(b) /\ y # Null
      /\ b.fiber = IF y \in UserFibers THEN y ELSE Null
      /\ b.cb = IF y \in UserFibers THEN Null ELSE y
      /\ y \in Callbacks <=> y \notin UserFibers
  BY ItemOfTask
<1> HIDE DEF a, b
<1>9. ~Queued(x) /\ (x \in Callbacks => ~CbQueued(x)) /\ ~Queued(y) /\ (y \in Callbacks => ~CbQueued(y))
  BY <1>2, NotQueued
<1>10. EntriesOK /\ TypeOK /\ Differ(a, b)
  BY <1>2, <1>7, <1>8 DEF FInv, IInv, Differ
<1>11. /\ EntriesOK'
       /\ \A f : Queued(f)' <=> (Queued(f) \/ a.fiber = f \/ b.fiber = f)
       /\ \A c : CbQueued(c)' <=> (CbQueued(c) \/ a.cb = c \/ b.cb = c)
  BY <1>6, <1>7, <1>8, <1>9, <1>10, EntriesAdded
<1>12. \A f \in Tasks : f # Null  BY TasksAssumption
<1>13. \A f \in Tasks : Queued(f)' <=> (Queued(f) \/ f \in {x, y} \cap UserFibers)
  BY <1>7, <1>8, <1>11, <1>12
<1>14. \A c \in Callbacks : CbQueued(c)' <=> (CbQueued(c) \/ c \in {x, y})
  BY <1>7, <1>8, <1>11, <1>12 DEF Tasks
<1>15. UNCHANGED <<m_state, at, m_cb, pc, ft, cb_fiber, waiting>>
  BY DEF MainScheduleBatch, fiberVars, localVars
<1> QED  BY <1>2, <1>4, <1>5, <1>11, <1>13, <1>14, <1>15, EnqueueNew

(* A registered fiber that no thread handles is in no thread's locals.     *)
LEMMA WaitingNotHeld ==
    ASSUME IInv, FInv, NEW f \in Tasks, f \in waiting, NEW t \in Threads, Held(t, f)
    PROVE  pc[t] \in Handling /\ Hand(t) = f
<1>1. ThreadOK(t) /\ f # Null  BY TasksAssumption DEF FInv
<1>2. CASE ft[t].fiber = f
  BY <1>1, <1>2, NoItemFiber DEF ThreadOK, LocalsOf, TakenOf, Hand
<1>3. CASE cb_fiber[t] = f
  BY <1>1, <1>3 DEF ThreadOK, SpareOf, Hand
<1> QED  BY <1>2, <1>3 DEF Held

(* The event reschedules a fiber that run() is through with.               *)
LEMMA FireFibers == ASSUME OnTime', IInv, FInv, NEW f \in Tasks, Fire(f) PROVE FInv'
<1>1. f \in waiting /\ waiting' = waiting \ {f} /\ f # Null
  BY TasksAssumption DEF Fire
<1>2. \A t \in Threads : ~Held(t, f)
  BY <1>1, WaitingNotHeld DEF Fire, InHand, OnTime
<1>3. TaskOK(f) /\ EntriesOK /\ TypeOK  BY DEF FInv, IInv
<1>4. m_state[f] = "HOLD" /\ at[f] = "body" /\ ~Queued(f)
  BY <1>1, <1>2, <1>3 DEF TaskOK, WaitingOK, QueuedOK
<1>5. submits[f] # 0 /\ (f \in Callbacks => ~CbQueued(f) /\ ~CbTaken(f))
  BY <1>1, <1>3 DEF TaskOK, FreshOK, CallbackOK, Untouched
<1>6. UNCHANGED <<m_state, at, m_cb, pc, ft, cb_fiber, submits>>
  BY DEF Fire, fiberVars, localVars
<1> DEFINE item == FiberItem(f, AnyThread)
<1>7. item \in Items /\ OneOf(item) /\ item.fiber = f /\ item.cb = Null
  BY ItemTypes DEF FiberItem, OneOf
<1>8. m_fibers' = Append(m_fibers, item)
  BY DEF Fire, scheduleNoLock
<1> HIDE DEF item
<1>9. /\ EntriesOK'
      /\ \A x : Queued(x)' <=> (Queued(x) \/ item.fiber = x)
      /\ \A c : CbQueued(c)' <=> (CbQueued(c) \/ item.cb = c)
  BY <1>3, <1>4, <1>7, <1>8, EntryAdded
<1>10. \A x \in Tasks : x # Null  BY TasksAssumption
<1>11. \A x \in Tasks \ {f} : SameTask(x)
  BY <1>1, <1>6, <1>7, <1>9, <1>10 DEF SameTask
<1>12. \A u, y : (Held(u, y)' <=> Held(u, y)) /\ (ft'[u].cb = y <=> ft[u].cb = y)
  BY <1>6 DEF Held
<1>13. \A u \in Threads \ {Caller} : SameThread(u)
  BY <1>6 DEF SameThread
<1>14. Caller \in Threads  BY DEF Threads
<1>15. ThreadOK(Caller)'
  <2>1. ThreadOK(Caller) /\ Hand(Caller)' = Hand(Caller)
    BY <1>6, <1>14 DEF FInv, Hand
  <2>2. waiting' \subseteq waiting  BY <1>1
  <2> QED
    BY <1>6, <2>1, <2>2 DEF ThreadOK, LocalsOf, InHandOf, TakenOf, SpareOf, OneOf, Loose
<1>16. TaskOK(f)'
  <2>1. OneHolder(f)' /\ WaitingOK(f)' /\ FreshOK(f)'
    BY <1>1, <1>2, <1>5, <1>6, <1>12 DEF OneHolder, WaitingOK, FreshOK
  <2>2. QueuedOK(f)' /\ ReadyOK(f)'
    BY <1>1, <1>2, <1>4, <1>6, <1>12 DEF QueuedOK, ReadyOK, Loose
  <2>3. CallbackOK(f)'
    BY <1>1, <1>5, <1>6, <1>7, <1>9, <1>12 DEF CallbackOK, CbTaken
  <2> QED  BY <2>1, <2>2, <2>3 DEF TaskOK
<1> QED
  <2>1. {f} \in SUBSET Tasks  OBVIOUS
  <2>2. \A u \in Threads \ {Caller} : \A y \in {f} : ~Held(u, y)  BY <1>2
  <2>3. \A y \in {f} : TaskOK(y)'  BY <1>16
  <2> QED  BY <1>9, <1>11, <1>12, <1>13, <1>14, <1>15, <2>1, <2>2, <2>3, Frame

(* The thread takes a task out of the queue.                               *)
LEMMA FetchFibers == ASSUME IInv, FInv, NEW t \in Threads, Fetch(t) PROVE FInv'
<1>1. PICK i \in DOMAIN m_fibers : /\ IsFirst(i, Candidates(t))
                                   /\ ft' = [ft EXCEPT ![t] = m_fibers[i]]
                                   /\ m_fibers' = RemoveAt(m_fibers, i)
  BY DEF Fetch
<1>0. PICK item : item = m_fibers[i]
  OBVIOUS
<1>2. /\ pc \in [Threads -> Points] /\ ft \in [Threads -> Items] /\ TypeOK /\ EntriesOK
      /\ OneOf(item) /\ ThreadOK(t) /\ pc[t] = "fetch"
  BY <1>0 DEF IInv, TypeOK, LocalTypeOK, FInv, EntriesOK, Fetch
<1>3. /\ ft'[t] = item /\ pc'[t] = "dispatch" /\ cb_fiber' = cb_fiber
      /\ UNCHANGED <<m_state, at, m_cb, submits, waiting>>
      /\ \A u \in Threads \ {t} : SameThread(u)
  BY <1>0, <1>1, <1>2 DEF Fetch, fiberVars, userVars, SameThread
<1>4. ft[t] = NoItem /\ ft[t].fiber = Null /\ ft[t].cb = Null
  BY <1>2 DEF ThreadOK, LocalsOf, Handling, NoItem
<1>5. /\ EntriesOK'
      /\ \A f \in Tasks : Queued(f)' <=> (Queued(f) /\ item.fiber # f)
      /\ \A c \in Callbacks : CbQueued(c)' <=> (CbQueued(c) /\ item.cb # c)
  BY <1>0, <1>1, <1>2, EntryErased
<1>6. /\ item.fiber # Null => item.fiber \in Tasks /\ Queued(item.fiber)
      /\ item.cb # Null => item.cb \in Callbacks /\ CbQueued(item.cb)
  BY <1>0, <1>2 DEF OneOf, Queued, CbQueued
<1>7. \A x \in Tasks : x # Null  BY TasksAssumption
<1>8. CASE item.fiber # Null
  <2> DEFINE f == item.fiber
  <2>1. f \in Tasks /\ Queued(f) /\ item.cb = Null /\ TaskOK(f)
    BY <1>2, <1>6, <1>8 DEF OneOf, FInv
  <2>2. Loose(f) /\ f \notin waiting /\ (\A u \in Threads : ~Held(u, f))
    BY <2>1 DEF TaskOK, QueuedOK
  <2>3. submits[f] # 0 /\ (f \in Callbacks => ~CbQueued(f) /\ ~CbTaken(f))
    BY <2>1 DEF TaskOK, FreshOK, CallbackOK, Untouched
  <2> HIDE DEF f
  <2>4. ThreadOK(t)'
    <3>1. LocalsOf(t)'
      BY <1>2, <1>3, <1>8, <2>2 DEF ThreadOK, LocalsOf, OneOf, Handling, Held, f
    <3>2. InHandOf(t)'  BY <1>3 DEF InHandOf
    <3>3. TakenOf(t)'  BY <1>3, <2>2 DEF TakenOf, Loose, f
    <3>4. SpareOf(t)'  BY <1>2, <1>3 DEF ThreadOK, SpareOf, Handling
    <3> QED  BY <3>1, <3>2, <3>3, <3>4 DEF ThreadOK
  <2>5. Held(t, f)' /\ \A u \in Threads \ {t} : ~Held(u, f)'
    BY <1>3, <2>2 DEF Held, SameThread, f
  <2>6. TaskOK(f)'
    <3>1. OneHolder(f)' /\ WaitingOK(f)' /\ ReadyOK(f)' /\ FreshOK(f)'
      BY <1>3, <2>3, <2>5 DEF OneHolder, WaitingOK, ReadyOK, FreshOK
    <3>2. QueuedOK(f)'
      BY <1>5, <2>1 DEF QueuedOK, f
    <3>3. CallbackOK(f)'
      <4>1. f \in Callbacks => ~CbQueued(f)' /\ ~CbTaken(f)'
        BY <1>3, <1>5, <1>7, <2>1, <2>3 DEF CbTaken, SameThread
      <4> QED  BY <4>1 DEF CallbackOK, CbTaken
    <3> QED  BY <3>1, <3>2, <3>3 DEF TaskOK
  <2>7. \A x \in Tasks \ {f} : /\ SameTask(x)
                               /\ Held(t, x)' <=> Held(t, x)
                               /\ ft'[t].cb = x <=> ft[t].cb = x
    BY <1>3, <1>4, <1>5, <1>7, <2>1 DEF SameTask, Held, Tasks, f
  <2>8. {f} \in SUBSET Tasks /\ (\A u \in Threads \ {t} : \A x \in {f} : ~Held(u, x))
        /\ \A x \in {f} : TaskOK(x)'
    BY <2>1, <2>2, <2>6
  <2> QED  BY <1>3, <1>5, <2>4, <2>7, <2>8, Frame
<1>9. CASE item.fiber = Null
  <2> DEFINE c == item.cb
  <2>1. c \in Callbacks /\ c \in Tasks /\ CbQueued(c)
    BY <1>2, <1>6, <1>7, <1>9 DEF OneOf, Tasks
  <2>2. TaskOK(c) /\ Untouched(c) /\ ~CbTaken(c) /\ submits[c] # 0
    BY <2>1 DEF FInv, TaskOK, CallbackOK, FreshOK
  <2>3. c # Null  BY <1>7, <2>1
  <2> HIDE DEF c
  <2>4. ThreadOK(t)'
    <3>1. LocalsOf(t)'
      BY <1>2, <1>3, <1>9 DEF ThreadOK, LocalsOf, OneOf, Handling
    <3>2. InHandOf(t)'  BY <1>3 DEF InHandOf
    <3>3. TakenOf(t)'  BY <1>3, <1>9 DEF TakenOf
    <3>4. SpareOf(t)'  BY <1>2, <1>3 DEF ThreadOK, SpareOf, Handling
    <3> QED  BY <3>1, <3>2, <3>3, <3>4 DEF ThreadOK
  <2>5. \A x \in Tasks, u \in Threads : Held(u, x)' <=> Held(u, x)
    BY <1>3, <1>4, <1>7, <1>9 DEF Held, SameThread
  <2>6. \A x \in Tasks : Queued(x)' <=> Queued(x)
    BY <1>5, <1>7, <1>9
  <2>7. Untouched(c)'
    BY <1>3, <2>1, <2>2, <2>5, <2>6 DEF Untouched
  <2>8. TaskOK(c)'
    <3>1. OneHolder(c)' /\ WaitingOK(c)' /\ ReadyOK(c)' /\ QueuedOK(c)'
      BY <2>7 DEF Untouched, OneHolder, WaitingOK, ReadyOK, QueuedOK
    <3>2. FreshOK(c)'
      BY <1>3, <2>2 DEF FreshOK
    <3>3. \A u \in Threads : ft'[u].cb = c <=> u = t
      BY <1>3, <2>2 DEF CbTaken, SameThread, c
    <3>4. CallbackOK(c)'
      BY <1>5, <2>1, <2>7, <3>3 DEF CallbackOK, c
    <3> QED  BY <3>1, <3>2, <3>4 DEF TaskOK
  <2>9. \A x \in Tasks \ {c} : /\ SameTask(x)
                               /\ Held(t, x)' <=> Held(t, x)
                               /\ ft'[t].cb = x <=> ft[t].cb = x
    BY <1>3, <1>4, <1>5, <1>7, <2>5, <2>6 DEF SameTask, c
  <2>10. {c} \in SUBSET Tasks /\ (\A u \in Threads \ {t} : \A x \in {c} : ~Held(u, x))
         /\ \A x \in {c} : TaskOK(x)'
    BY <2>1, <2>2, <2>8 DEF Untouched
  <2> QED  BY <1>3, <1>5, <2>4, <2>9, <2>10, Frame
<1> QED  BY <1>8, <1>9

(* A fiber out of the queue is swapped in.                                 *)
LEMMA RunFiberFibers ==
    ASSUME IInv, FInv, NEW t \in Threads, RunFiber(t)
    PROVE  FInv' /\ failure' = failure
<1>1. PICK f : f = ft[t].fiber  OBVIOUS
<1>2. pc[t] = "dispatch" /\ f # Null /\ ThreadOK(t) /\ f = Hand(t)
  BY <1>1 DEF RunFiber, FInv, Hand
<1>3. f \in Tasks /\ Loose(f) /\ f \notin waiting
  BY <1>1, <1>2 DEF ThreadOK, LocalsOf, OneOf, TakenOf
<1>4. m_state[f] # "EXEC" /\ at[f] # "end" /\ at[f] \in {"body", "entry"}
  BY <1>3 DEF Loose
<1>13. \A u \in Threads : ~OnCpu(u, f)
  <2>1. Held(t, f) /\ pc[t] \notin Running  BY <1>1, <1>2 DEF Held, Running
  <2>2. \A u \in Threads : OnCpu(u, f) => Held(u, f)  BY DEF OnCpu, Hand, Held
  <2> QED  BY <1>3, <2>1, <2>2, Mine DEF OnCpu
<1>5. /\ m_state \in [Tasks -> States] /\ at \in [Tasks -> Places] /\ pc \in [Threads -> Points]
  BY DEF IInv, TypeOK, FiberTypeOK, LocalTypeOK
<1>6. /\ m_state' = [m_state EXCEPT ![f] = "EXEC"]
      /\ at' = [at EXCEPT ![f] = IF @ = "entry" THEN "body" ELSE @]
      /\ pc' = [pc EXCEPT ![t] = "run"] /\ failure' = failure
      /\ UNCHANGED <<ft, cb_fiber, m_fibers, submits, waiting, m_cb>>
  BY <1>1, <1>4, <1>13 DEF RunFiber, localVars
<1>7. m_state'[f] = "EXEC" /\ at'[f] = "body" /\ pc'[t] = "run" /\ Hand(t)' = f
  BY <1>2, <1>3, <1>4, <1>5, <1>6 DEF Hand
<1>8. InHandOf(t)'
  BY <1>3, <1>6, <1>7 DEF InHandOf
<1>9. pc'[t] \in Handling  BY <1>7 DEF Handling
<1>10. \A x \in Tasks \ {f} : /\ m_state'[x] = m_state[x] /\ at'[x] = at[x] /\ m_cb'[x] = m_cb[x]
                              /\ x \in waiting' <=> x \in waiting
  BY <1>5, <1>6
<1>11. \A u \in Threads \ {t} : pc'[u] = pc[u]  BY <1>5, <1>6
<1>12. FInv'
  BY <1>1, <1>2, <1>6, <1>8, <1>9, <1>10, <1>11, HandStep
<1> QED  BY <1>6, <1>12

(* A callback is executed, by the spare fiber or a new one.                *)
LEMMA RunCbFibers ==
    ASSUME IInv, FInv, NEW t \in Threads, RunCb(t)
    PROVE  FInv' /\ failure' = failure
<1>1. PICK c : c = ft[t].cb  OBVIOUS
<1>2. PICK f : f = IF cb_fiber[t] = Null THEN c ELSE cb_fiber[t]  OBVIOUS
<1>3. pc[t] = "dispatch" /\ c # Null /\ ThreadOK(t) /\ \A x \in Tasks : x # Null
  BY <1>1, TasksAssumption DEF RunCb, FInv
<1>4. ft[t].fiber = Null /\ c \in Callbacks /\ c \in Tasks /\ CbTaken(c)
  BY <1>1, <1>3 DEF ThreadOK, LocalsOf, OneOf, CbTaken, Tasks
<1>5. Untouched(c) /\ ~CbQueued(c) /\ submits[c] # 0 /\ \A u \in Threads : ft[u].cb = c => u = t
  BY <1>1, <1>4 DEF FInv, TaskOK, CallbackOK, FreshOK
<1>6. f \in Callbacks /\ f \in Tasks /\ (cb_fiber[t] # Null => Held(t, f))
  BY <1>2, <1>3, <1>4 DEF ThreadOK, LocalsOf, Tasks, Held
<1>7. m_state[f] = "INIT" /\ f \notin waiting
  BY <1>2, <1>3, <1>5 DEF ThreadOK, SpareOf, Handling, Untouched
<1>8. /\ m_state \in [Tasks -> States] /\ at \in [Tasks -> Places] /\ pc \in [Threads -> Points]
      /\ m_cb \in [Tasks -> Tasks \cup {Null}] /\ ft \in [Threads -> Items]
      /\ cb_fiber \in [Threads -> Tasks \cup {Null}]
  BY DEF IInv, TypeOK, FiberTypeOK, LocalTypeOK
<1>9. /\ m_state' = [m_state EXCEPT ![f] = "EXEC"] /\ m_cb' = [m_cb EXCEPT ![f] = c]
      /\ at' = [at EXCEPT ![f] = "body"] /\ cb_fiber' = [cb_fiber EXCEPT ![t] = f]
      /\ ft' = [ft EXCEPT ![t] = NoItem] /\ pc' = [pc EXCEPT ![t] = "run"]
      /\ failure' = failure /\ UNCHANGED <<m_fibers, submits, waiting>>
  BY <1>1, <1>2, <1>7 DEF RunCb, Resettable, queueVars
<1>10. /\ m_state'[f] = "EXEC" /\ at'[f] = "body" /\ pc'[t] = "run"
       /\ cb_fiber'[t] = f /\ ft'[t] = NoItem /\ Hand(t)' = f
       /\ NoItem.fiber = Null /\ NoItem.cb = Null
  BY <1>6, <1>8, <1>9 DEF Hand, NoItem
<1>11. \A u \in Threads \ {t} : SameThread(u)
  BY <1>8, <1>9 DEF SameThread
<1>12. /\ \A x : Queued(x)' <=> Queued(x)
       /\ \A x : CbQueued(x)' <=> CbQueued(x)
  BY <1>9 DEF Queued, CbQueued
<1>13. EntriesOK'
  BY <1>9 DEF FInv, EntriesOK, OneOf, Differ
<1>14. ThreadOK(t)'
  BY <1>3, <1>6, <1>7, <1>9, <1>10
     DEF ThreadOK, LocalsOf, InHandOf, TakenOf, SpareOf, Handling
<1>15. /\ \A u \in Threads \ {t} : ~Held(u, f)
       /\ ~Queued(f) /\ submits[f] # 0 /\ ~CbQueued(f)
  BY <1>2, <1>5, <1>6, Mine DEF Untouched
<1>16. \A u \in Threads : ft'[u].cb # c
  BY <1>3, <1>5, <1>10, <1>11 DEF SameThread
<1>17. \A u \in Threads : ft'[u].cb # f
  <2>1. CASE f = c  BY <1>16, <2>1
  <2>2. CASE f # c
    <3>1. ~CbTaken(f)  BY <1>2, <1>6, <2>2, Mine
    <3> QED  BY <1>3, <1>6, <1>10, <1>11, <3>1 DEF CbTaken, SameThread
  <2> QED  BY <2>1, <2>2
<1>18. TaskOK(f)'
  <2>1. Held(t, f)' /\ \A u \in Threads \ {t} : ~Held(u, f)'
    BY <1>10, <1>11, <1>15 DEF Held, SameThread
  <2> QED
    BY <1>9, <1>12, <1>15, <1>17, <2>1
       DEF TaskOK, OneHolder, QueuedOK, WaitingOK, ReadyOK, CallbackOK, CbTaken, FreshOK
<1>19. ASSUME c # f PROVE TaskOK(c)'
  <2>1. \A u \in Threads : ~Held(u, c)'
    BY <1>3, <1>4, <1>5, <1>10, <1>11, <1>19 DEF Untouched, Held, SameThread
  <2>2. m_state'[c] = "INIT" /\ ~Queued(c)' /\ c \notin waiting'
    BY <1>4, <1>5, <1>8, <1>9, <1>12, <1>19 DEF Untouched
  <2> QED
    BY <1>5, <1>9, <1>12, <1>16, <2>1, <2>2
       DEF TaskOK, OneHolder, QueuedOK, WaitingOK, ReadyOK, CallbackOK, CbTaken, FreshOK
<1>20. \A x \in Tasks \ {c, f} : /\ SameTask(x)
                                 /\ Held(t, x)' <=> Held(t, x)
                                 /\ ft'[t].cb = x <=> ft[t].cb = x
  <2>1. ASSUME NEW x \in Tasks \ {c, f} PROVE SameTask(x)
    BY <1>8, <1>9, <1>12 DEF SameTask
  <2>2. ASSUME NEW x \in Tasks \ {c, f} PROVE Held(t, x)' <=> Held(t, x)
    BY <1>2, <1>3, <1>4, <1>10 DEF Held
  <2>3. ASSUME NEW x \in Tasks \ {c, f} PROVE ft'[t].cb = x <=> ft[t].cb = x
    BY <1>1, <1>3, <1>10
  <2> QED  BY <2>1, <2>2, <2>3
<1>21. {c, f} \in SUBSET Tasks /\ (\A u \in Threads \ {t} : \A x \in {c, f} : ~Held(u, x))
       /\ \A x \in {c, f} : TaskOK(x)'
  BY <1>4, <1>5, <1>6, <1>15, <1>18, <1>19 DEF Untouched
<1>22. FInv'
  BY <1>11, <1>13, <1>14, <1>20, <1>21, Frame
<1> QED  BY <1>9, <1>22

(* run() lets go of the fiber it has handled.                              *)
LEMMA Drop ==
    ASSUME IInv, FInv, NEW t \in Threads, pc[t] \in Handling, NEW f, f = Hand(t),
           pc' = [pc EXCEPT ![t] = "fetch"], ft' = [ft EXCEPT ![t] = NoItem],
           cb_fiber' = Released(t), submits' = submits,
           \A x \in Tasks \ {f} : SameTask(x),
           f \in Callbacks => (CbQueued(f)' <=> CbQueued(f)),
           EntriesOK', f \in waiting' => f \in waiting /\ ~Queued(f)',
           Queued(f)' => Loose(f)',
           f \in waiting' => m_state'[f] = "HOLD" /\ at'[f] = "body",
           m_state'[f] = "READY" => Queued(f)'
    PROVE  FInv'
<1>1. f \in Tasks /\ Held(t, f) /\ ThreadOK(t) /\ \A x \in Tasks : x # Null
  BY TasksAssumption DEF IInv, HandOK, Hand, Held, FInv
<1>2. /\ pc \in [Threads -> Points] /\ ft \in [Threads -> Items]
      /\ cb_fiber \in [Threads -> Tasks \cup {Null}]
  BY DEF IInv, TypeOK, LocalTypeOK
<1>3. /\ pc'[t] = "fetch" /\ ft'[t] = NoItem /\ NoItem.fiber = Null /\ NoItem.cb = Null
      /\ cb_fiber'[t] = IF ft[t].fiber = Null THEN Null ELSE cb_fiber[t]
      /\ \A u \in Threads \ {t} : SameThread(u)
  BY <1>2 DEF Released, SameThread, NoItem
<1>4. /\ ~Queued(f)
      /\ \A u \in Threads \ {t} : ~Held(u, f)
      /\ submits[f] # 0
      /\ f \in Callbacks => ~CbQueued(f) /\ ~CbTaken(f)
  BY <1>1, Mine
<1>5. ft[t].cb = Null /\ (ft[t].fiber # Null => f = ft[t].fiber /\ cb_fiber[t] # f)
      /\ (ft[t].fiber = Null => f = cb_fiber[t])
  BY <1>1 DEF ThreadOK, LocalsOf, Hand
<1>6. \A u \in Threads : ~Held(u, f)'
  BY <1>1, <1>3, <1>4, <1>5 DEF Held, SameThread
<1>7. f \in Callbacks => ~CbQueued(f)' /\ ~CbTaken(f)'
  BY <1>1, <1>3, <1>4 DEF CbTaken, SameThread
<1>8. ThreadOK(t)'
  <2>1. LocalsOf(t)'
    BY <1>1, <1>3 DEF ThreadOK, LocalsOf, Handling
  <2>2. InHandOf(t)' /\ TakenOf(t)'  BY <1>3 DEF InHandOf, TakenOf
  <2>3. SpareOf(t)'
    <3>1. CASE ft[t].fiber = Null \/ cb_fiber[t] = Null  BY <1>3, <3>1 DEF SpareOf
    <3>2. CASE ft[t].fiber # Null /\ cb_fiber[t] # Null
      <4>1. cb_fiber[t] \in Tasks \ {f} /\ cb_fiber'[t] = cb_fiber[t]
        BY <1>2, <1>3, <1>5, <3>2
      <4>2. SameTask(cb_fiber[t])  BY <4>1
      <4> QED  BY <1>1, <3>2, <4>1, <4>2 DEF ThreadOK, SpareOf, SameTask
    <3> QED  BY <3>1, <3>2
  <2> QED  BY <2>1, <2>2, <2>3 DEF ThreadOK
<1>9. TaskOK(f)'
  BY <1>4, <1>6, <1>7
     DEF TaskOK, OneHolder, QueuedOK, WaitingOK, ReadyOK, CallbackOK, CbTaken, FreshOK
<1>10. \A x \in Tasks \ {f} : /\ Held(t, x)' <=> Held(t, x)
                              /\ ft'[t].cb = x <=> ft[t].cb = x
  BY <1>1, <1>3, <1>5 DEF Held
<1>11. {f} \in SUBSET Tasks /\ (\A u \in Threads \ {t} : \A x \in {f} : ~Held(u, x))
       /\ \A x \in {f} : TaskOK(x)'
  BY <1>1, <1>4, <1>9
<1> QED  BY <1>3, <1>8, <1>10, <1>11, Frame

(* A fiber that yielded READY goes back into the queue.                    *)
LEMMA SettleReadyFibers == ASSUME IInv, FInv, NEW t \in Threads, SettleReady(t) PROVE FInv'
<1>1. PICK f : f = Hand(t)  OBVIOUS
<1>2. pc[t] = "settle" /\ pc[t] \in Handling /\ m_state[f] = "READY" /\ ThreadOK(t)
  BY <1>1 DEF SettleReady, Handling, FInv
<1>3. f \in Tasks /\ Held(t, f) /\ f \notin waiting /\ at[f] = "body"
  BY <1>1, <1>2 DEF IInv, HandOK, Hand, Held, ThreadOK, InHandOf, Finished
<1>4. ~Queued(f)  BY <1>3, Mine
<1>5. /\ m_fibers' = Append(m_fibers, FiberItem(f, AnyThread))
      /\ cb_fiber' = Released(t) /\ ft' = [ft EXCEPT ![t] = NoItem]
      /\ pc' = [pc EXCEPT ![t] = "fetch"] /\ UNCHANGED <<m_state, at, m_cb, submits, waiting>>
  BY <1>1 DEF SettleReady, scheduleNoLock, fiberVars, userVars
<1> DEFINE item == FiberItem(f, AnyThread)
<1>6. item \in Items /\ OneOf(item) /\ item.fiber = f /\ item.cb = Null
  BY <1>3, ItemTypes DEF FiberItem, OneOf
<1>7. m_fibers' = Append(m_fibers, item) /\ EntriesOK /\ TypeOK
  BY <1>5 DEF FInv, IInv
<1> HIDE DEF item
<1>8. /\ EntriesOK'
      /\ \A x : Queued(x)' <=> (Queued(x) \/ item.fiber = x)
      /\ \A c : CbQueued(c)' <=> (CbQueued(c) \/ item.cb = c)
  BY <1>4, <1>6, <1>7, EntryAdded
<1>9. \A x \in Tasks : x # Null  BY TasksAssumption
<1>10. \A x \in Tasks \ {f} : SameTask(x)
  BY <1>5, <1>6, <1>8, <1>9 DEF SameTask
<1>11. Queued(f)' /\ Loose(f)' /\ f \notin waiting' /\ (CbQueued(f)' <=> CbQueued(f))
  BY <1>2, <1>3, <1>5, <1>6, <1>8, <1>9 DEF Loose
<1> QED  BY <1>1, <1>2, <1>5, <1>8, <1>10, <1>11, Drop

(* A fiber that holds is dropped: whoever it registered with has it now.   *)
LEMMA SetHoldFibers == ASSUME IInv, FInv, NEW t \in Threads, SetHold(t) PROVE FInv'
<1>1. PICK f : f = Hand(t)  OBVIOUS
<1>2. pc[t] = "hold" /\ pc[t] \in Handling /\ ThreadOK(t)
  BY DEF SetHold, Handling, FInv
<1>3. f \in Tasks /\ Held(t, f) /\ m_state[f] = "HOLD" /\ at[f] = "body"
      /\ m_state \in [Tasks -> States]
  BY <1>1, <1>2 DEF IInv, HandOK, Hand, Held, ThreadOK, InHandOf, TypeOK, FiberTypeOK
<1>4. ~Queued(f)  BY <1>3, Mine
<1>5. /\ m_state' = m_state
      /\ cb_fiber' = Released(t) /\ ft' = [ft EXCEPT ![t] = NoItem]
      /\ pc' = [pc EXCEPT ![t] = "fetch"] /\ UNCHANGED <<m_fibers, at, m_cb, submits, waiting>>
  BY <1>1, <1>3 DEF SetHold, queueVars, userVars
<1>6. \A x : (Queued(x)' <=> Queued(x)) /\ (CbQueued(x)' <=> CbQueued(x))
  BY <1>5 DEF Queued, CbQueued
<1>7. EntriesOK'  BY <1>5 DEF FInv, EntriesOK, OneOf, Differ
<1>8. \A x \in Tasks \ {f} : SameTask(x)
  BY <1>5, <1>6 DEF SameTask
<1> QED  BY <1>1, <1>2, <1>3, <1>4, <1>5, <1>6, <1>7, <1>8, Drop

(* A finished fiber is dropped, or kept for the next callback.             *)
LEMMA SettleFinishedFibers == ASSUME IInv, FInv, NEW t \in Threads, SettleFinished(t) PROVE FInv'
<1>1. PICK f : f = Hand(t)  OBVIOUS
<1>2. pc[t] = "settle" /\ pc[t] \in Handling /\ ThreadOK(t) /\ m_state[f] \in Finished
  BY <1>1 DEF SettleFinished, Handling, FInv
<1>3. f \in Tasks /\ Held(t, f) /\ f \notin waiting /\ \A x \in Tasks : x # Null
  BY <1>1, <1>2, TasksAssumption DEF IInv, HandOK, Hand, Held, ThreadOK, InHandOf, Finished
<1>4. /\ ~Queued(f) /\ (\A u \in Threads \ {t} : ~Held(u, f)) /\ submits[f] # 0
      /\ f \in Callbacks => ~CbQueued(f) /\ ~CbTaken(f)
  BY <1>3, Mine
<1>5. /\ cb_fiber' = cb_fiber /\ ft' = [ft EXCEPT ![t] = NoItem]
      /\ pc' = [pc EXCEPT ![t] = "fetch"] /\ UNCHANGED <<m_fibers, submits, waiting>>
  BY DEF SettleFinished, queueVars, userVars
<1>6. \A x : (Queued(x)' <=> Queued(x)) /\ (CbQueued(x)' <=> CbQueued(x))
  BY <1>5 DEF Queued, CbQueued
<1>7. EntriesOK'  BY <1>5 DEF FInv, EntriesOK, OneOf, Differ
<1>8. CASE ft[t].fiber # Null
  <2>1. UNCHANGED <<m_state, at, m_cb>> /\ cb_fiber' = Released(t)
    BY <1>5, <1>8 DEF SettleFinished, fiberVars, Released
  <2>2. \A x \in Tasks \ {f} : SameTask(x)
    BY <1>5, <1>6, <2>1 DEF SameTask
  <2>3. m_state'[f] # "READY"  BY <1>2, <2>1 DEF Finished
  <2> QED  BY <1>1, <1>2, <1>3, <1>4, <1>5, <1>6, <1>7, <2>1, <2>2, <2>3, Drop
<1>9. CASE ft[t].fiber = Null
  <2>1. /\ m_state \in [Tasks -> States] /\ at \in [Tasks -> Places]
        /\ m_cb \in [Tasks -> Tasks \cup {Null}]
        /\ pc \in [Threads -> Points] /\ ft \in [Threads -> Items]
    BY DEF IInv, TypeOK, FiberTypeOK, LocalTypeOK
  <2>2. /\ f = cb_fiber[t]
        /\ m_state' = [m_state EXCEPT ![f] = "INIT"] /\ m_cb' = [m_cb EXCEPT ![f] = Null]
        /\ at' = [at EXCEPT ![f] = "entry"]
    BY <1>1, <1>9 DEF SettleFinished, Hand
  <2>3. /\ pc'[t] = "fetch" /\ ft'[t] = NoItem /\ NoItem.fiber = Null /\ NoItem.cb = Null
        /\ ft[t].cb = Null /\ \A u \in Threads \ {t} : SameThread(u)
    BY <1>2, <1>5, <2>1 DEF SameThread, NoItem, ThreadOK, LocalsOf
  <2>4. \A x \in Tasks \ {f} : SameTask(x)
    BY <1>5, <1>6, <2>1, <2>2 DEF SameTask
  <2>5. \A x \in Tasks : /\ Held(t, x)' <=> Held(t, x)
                         /\ ft'[t].cb = x <=> ft[t].cb = x
    BY <1>3, <1>5, <1>9, <2>3 DEF Held
  <2>6. ThreadOK(t)'
    <3>1. m_state'[f] = "INIT" /\ f \notin waiting' /\ cb_fiber'[t] = f
      BY <1>3, <1>5, <2>1, <2>2
    <3> QED
      BY <1>2, <1>5, <2>3, <3>1
         DEF ThreadOK, LocalsOf, InHandOf, TakenOf, SpareOf, Handling
  <2>7. TaskOK(f)'
    <3>1. Held(t, f)' /\ \A u \in Threads \ {t} : ~Held(u, f)'
      BY <1>3, <1>4, <2>3, <2>5 DEF Held, SameThread
    <3>2. f \in Callbacks => ~CbTaken(f)'
      BY <1>3, <1>4, <2>3 DEF CbTaken, SameThread
    <3> QED
      BY <1>4, <1>5, <1>6, <3>1, <3>2
         DEF TaskOK, OneHolder, QueuedOK, WaitingOK, ReadyOK, CallbackOK, CbTaken, FreshOK
  <2>8. {f} \in SUBSET Tasks /\ (\A u \in Threads \ {t} : \A x \in {f} : ~Held(u, x))
        /\ \A x \in {f} : TaskOK(x)'
    BY <1>3, <1>4, <2>7
  <2> QED  BY <1>7, <2>3, <2>4, <2>5, <2>6, <2>8, Frame
<1> QED  BY <1>8, <1>9

-----------------------------------------------------------------------------
(* Phases and assertions                                                   *)

(* No task exists in the initial state, and no thread is in run().         *)
LEMMA InitOwnership == Init => FInv /\ PInv
<1> SUFFICES ASSUME Init PROVE FInv /\ PInv  OBVIOUS
<1>1. m_fibers = << >> /\ DOMAIN m_fibers = {}
  BY DEF Init
<1>2. \A x : ~Queued(x) /\ ~CbQueued(x)
  BY <1>1 DEF Queued, CbQueued
<1>3. EntriesOK  BY <1>1 DEF EntriesOK
<1>4. \A t \in Threads : ft[t] = NoItem /\ cb_fiber[t] = Null /\ pc[t] \in {"main", "off"}
      /\ NoItem.fiber = Null /\ NoItem.cb = Null
  BY DEF Init, NoItem
<1>5. \A t \in Threads : ThreadOK(t)
  BY <1>4 DEF ThreadOK, LocalsOf, InHandOf, TakenOf, SpareOf, Handling
<1>6. ASSUME NEW x \in Tasks PROVE TaskOK(x)
  <2>1. x # Null  BY TasksAssumption
  <2>2. \A t \in Threads : ~Held(t, x) /\ ft[t].cb # x
    BY <1>4, <2>1 DEF Held
  <2>3. m_state[x] = "INIT" /\ waiting = {} /\ (x \in UserFibers => at[x] = "entry" /\ m_cb[x] = x)
    BY DEF Init
  <2> QED
    BY <1>2, <2>2, <2>3
       DEF TaskOK, OneHolder, QueuedOK, WaitingOK, ReadyOK, CallbackOK, CbTaken, FreshOK, Untouched
<1>7. /\ pc[Caller] = "main" /\ stopping /\ rootState = "INIT" /\ failure = "none"
      /\ \A w \in Workers : pc[w] = "off"
  BY ThreadsAssumption DEF Init, Threads
<1>8. PhaseOK /\ RootOK
  BY <1>7 DEF PhaseOK, RootOK, InRun, Handling, Finished
<1>9. PInv  BY <1>7, <1>8 DEF PInv
<1> QED  BY <1>3, <1>5, <1>6, <1>9 DEF FInv

(* A thread goes on inside run().                                          *)
LEMMA InRunPhase ==
    ASSUME IInv, PInv, NEW t \in Threads, pc[t] \in InRun, pc'[t] \in InRun,
           pc' = [pc EXCEPT ![t] = pc'[t]],
           UNCHANGED <<stopVars, idleState, failure>>
    PROVE  PInv'
<1>1. pc \in [Threads -> Points] /\ Threads = Workers \cup {Caller}
  BY DEF IInv, TypeOK, LocalTypeOK, Threads
<1>2. \A u \in Threads : (pc'[u] = pc[u]) \/ (u = t)
  BY <1>1
<1>3. stopping' = stopping /\ idleState' = idleState /\ rootState' = rootState /\ starts' = starts
  BY DEF stopVars
<1>5. pc'[Caller] = pc[Caller] \/ (pc[Caller] \in InRun /\ pc'[Caller] \in InRun)
  BY <1>1, <1>2
<1>6. \A w \in Workers : pc'[w] = pc[w] \/ (pc[w] \in InRun /\ pc'[w] \in InRun)
  BY <1>1, <1>2
<1>7. \A p \in InRun : p \notin {"main", "stop", "join", "done", "off", "exit"}
  BY DEF InRun, Handling
<1>8. PhaseOK'
  BY <1>3, <1>5, <1>6, <1>7 DEF PInv, PhaseOK
<1>9. RootOK'
  BY <1>3, <1>5, <1>7 DEF PInv, RootOK
<1> QED  BY <1>8, <1>9 DEF PInv

(* run() from one turn to the next.                                        *)
LEMMA RunPhase ==
    ASSUME IInv, FInv, PInv, NEW t \in Threads, RunStep(t), ~Exit(t), ~Idle(t)
    PROVE  PInv'
<1>1. pc \in [Threads -> Points]  BY DEF IInv, TypeOK, LocalTypeOK
<1> USE DEF InRun, Handling
<1>2. CASE Fetch(t) /\ UNCHANGED failure
  BY <1>1, <1>2, InRunPhase DEF Fetch
<1>3. CASE NoTask(t) /\ UNCHANGED failure
  BY <1>1, <1>3, InRunPhase DEF NoTask, localVars
<1>4. CASE (Return(t) \/ Throw(t) \/ YieldToReady(t) \/ YieldToHold(t)) /\ UNCHANGED failure
  BY <1>1, <1>4, InRunPhase
     DEF Return, Throw, YieldToReady, YieldToHold, GiveUp, CanSuspend, CanStep, InBody, localVars
<1>5. CASE (\E x \in Tasks : Spawn(t, x)) /\ UNCHANGED failure
  BY <1>1, <1>5, InRunPhase DEF Spawn, CanStep, InBody, localVars
<1>10. CASE Register(t)
  <2>1. pc[t] = "run" /\ UNCHANGED <<pc, stopVars, idleState>>
    BY <1>10 DEF Register, CanSuspend, CanStep, InBody, localVars
  <2>2. m_state[Hand(t)] = "EXEC"
    BY <2>1 DEF FInv, ThreadOK, InHandOf
  <2>3. failure' = failure  BY <1>10, <2>2 DEF Register
  <2> QED  BY <1>1, <2>1, <2>3, InRunPhase
<1>6. CASE (Leave(t) \/ Back(t) \/ SettleElse(t)) /\ UNCHANGED failure
  BY <1>1, <1>6, InRunPhase DEF Leave, Back, SettleElse, localVars
<1>7. CASE (SettleReady(t) \/ SettleFinished(t) \/ SetHold(t)) /\ UNCHANGED failure
  BY <1>1, <1>7, InRunPhase DEF SettleReady, SettleFinished, SetHold
<1>8. CASE RunFiber(t)
  <2>1. failure' = failure /\ failure = "none"  BY <1>8, RunFiberFibers DEF PInv
  <2>2. pc' = [pc EXCEPT ![t] = "run"] /\ pc[t] = "dispatch" /\ UNCHANGED <<stopVars, idleState>>
    BY <1>8, <2>1 DEF RunFiber, localVars
  <2> QED  BY <1>1, <2>1, <2>2, InRunPhase
<1>9. CASE RunCb(t)
  <2>1. failure' = failure /\ failure = "none"  BY <1>9, RunCbFibers DEF PInv
  <2>2. pc' = [pc EXCEPT ![t] = "run"] /\ pc[t] = "dispatch" /\ UNCHANGED <<stopVars, idleState>>
    BY <1>9, <2>1 DEF RunCb
  <2> QED  BY <1>1, <2>1, <2>2, InRunPhase
<1> QED
  BY <1>2, <1>3, <1>4, <1>5, <1>6, <1>7, <1>8, <1>9, <1>10 DEF RunStep, BodyStep

(* A thread learns that the scheduler stops only after stop() was called.  *)
LEMMA IdlePhase == ASSUME IInv, PInv, NEW t \in Threads, Idle(t), UNCHANGED failure PROVE PInv'
<1>1. pc \in [Threads -> Points] /\ idleState \in [Threads -> {"live", "TERM"}]
      /\ Threads = Workers \cup {Caller}
  BY DEF IInv, TypeOK, LocalTypeOK, Threads
<1>2. /\ pc[t] = "idle" /\ pc'[t] = "fetch" /\ \A u \in Threads \ {t} : pc'[u] = pc[u]
      /\ UNCHANGED <<stopping, rootState, starts>>
  BY <1>1 DEF Idle, stopVars
<1>3. \A u \in Threads : idleState'[u] = idleState[u] \/ stopping
  BY <1>1 DEF Idle, Stopping
<1>4. PhaseOK'
  BY <1>1, <1>2, <1>3 DEF PInv, PhaseOK, InRun, Handling
<1>5. RootOK'
  BY <1>1, <1>2 DEF PInv, RootOK
<1> QED  BY <1>4, <1>5 DEF PInv

(* A thread leaves run().                                                  *)
LEMMA ExitPhase == ASSUME IInv, PInv, NEW t \in Threads, Exit(t), UNCHANGED failure PROVE PInv'
<1>1. pc \in [Threads -> Points] /\ Threads = Workers \cup {Caller} /\ Caller \notin Workers
  BY ThreadsAssumption DEF IInv, TypeOK, LocalTypeOK, Threads
<1>2. /\ pc[t] = "fetch" /\ idleState[t] = "TERM"
      /\ pc'[t] = (IF t = Caller THEN "join" ELSE "exit")
      /\ rootState' = (IF t = Caller THEN "TERM" ELSE rootState)
      /\ \A u \in Threads \ {t} : pc'[u] = pc[u]
      /\ UNCHANGED <<stopping, starts, idleState>>
  BY <1>1 DEF Exit, localVars
<1>3. pc[Caller] # "main"
  BY <1>1, <1>2 DEF PInv, PhaseOK
<1>4. PhaseOK'
  BY <1>1, <1>2, <1>3 DEF PInv, PhaseOK, InRun, Handling
<1>5. RootOK'
  BY <1>1, <1>2, <1>3 DEF PInv, PhaseOK, RootOK, InRun
<1> QED  BY <1>4, <1>5 DEF PInv

(* start() and stop().  With use_caller the root fiber is called once.     *)
LEMMA MainPhase == ASSUME Orderly, IInv, PInv, MainStep PROVE PInv'
<1>1. /\ pc \in [Threads -> Points] /\ Threads = Workers \cup {Caller} /\ Caller \notin Workers
      /\ starts \in Nat /\ MaxStarts \in Nat /\ stopping \in BOOLEAN
  BY ThreadsAssumption, BoundsAssumption DEF IInv, TypeOK, LocalTypeOK, StopTypeOK, Threads
<1>2. CASE ((\E x \in Tasks : MainSchedule(x)) \/ (\E x, y \in Tasks : MainScheduleBatch(x, y)))
           /\ UNCHANGED failure
  BY <1>2 DEF MainSchedule, MainScheduleBatch, stopVars, localVars, PInv, PhaseOK, RootOK
<1>3. CASE Start /\ UNCHANGED failure
  <2>1. PhaseOK'
    BY <1>1, <1>3 DEF Start, PInv, PhaseOK, InRun, Handling
  <2>2. RootOK'
    BY <1>1, <1>3 DEF Start, PInv, RootOK
  <2> QED  BY <1>3, <2>1, <2>2 DEF PInv
<1>4. CASE StopRequest /\ UNCHANGED failure
  <2>1. PhaseOK'
    BY <1>1, <1>4 DEF StopRequest, PInv, PhaseOK, InRun, Handling, localVars
  <2>2. RootOK'
    BY <1>1, <1>4 DEF StopRequest, PInv, RootOK
  <2> QED  BY <1>4, <2>1, <2>2 DEF PInv
<1>5. CASE StopNoCall /\ UNCHANGED failure
  <2>1. PhaseOK'
    BY <1>1, <1>5 DEF StopNoCall, PInv, PhaseOK, InRun, Handling, localVars, stopVars
  <2>2. RootOK'
    BY <1>1, <1>5 DEF StopNoCall, PInv, RootOK, stopVars
  <2> QED  BY <1>5, <2>1, <2>2 DEF PInv
<1>6. CASE Join /\ UNCHANGED failure
  <2>1. starts >= 1 /\ (UseCaller => ~(starts < MaxStarts))
    BY <1>1, <1>6 DEF Join, PInv, RootOK, Orderly
  <2>2. PhaseOK'
    BY <1>1, <1>6 DEF Join, PInv, PhaseOK, InRun, Handling, localVars, stopVars
  <2>3. RootOK'
    BY <1>1, <1>6, <2>1 DEF Join, PInv, RootOK, stopVars
  <2> QED  BY <1>6, <2>2, <2>3 DEF PInv
<1>7. CASE StopCall
  <2>1. rootState \notin Finished
    BY <1>7 DEF StopCall, PInv, RootOK
  <2>2. /\ pc' = [pc EXCEPT ![Caller] = "fetch"] /\ failure' = failure
        /\ UNCHANGED <<stopping, starts, idleState>> /\ rootState' = "EXEC"
        /\ UseCaller /\ pc[Caller] = "stop"
    BY <1>7, <2>1 DEF StopCall, localVars
  <2>3. PhaseOK'
    BY <1>1, <2>2 DEF PInv, PhaseOK, InRun, Handling
  <2>4. RootOK'
    BY <1>1, <2>2 DEF PInv, RootOK, Finished
  <2> QED  BY <2>2, <2>3, <2>4 DEF PInv
<1> QED  BY <1>2, <1>3, <1>4, <1>5, <1>6, <1>7 DEF MainStep, StopStep, UserStep

(* Every step keeps the ownership invariant.                               *)
LEMMA NextFInv == ASSUME Orderly, OnTime', IInv, FInv, PInv, [Next]_vars PROVE FInv'
<1>0. pc \in [Threads -> Points]
  BY DEF IInv, TypeOK, LocalTypeOK
<1>1. CASE UNCHANGED vars
  BY <1>1, NoTaskFibers DEF vars, fiberVars, queueVars, localVars, userVars
<1>2. CASE EventStep
  BY <1>2, FireFibers DEF EventStep
<1>3. ASSUME NEW t \in Threads, RunStep(t) PROVE FInv'
  <2>1. CASE NoTask(t) \/ Exit(t) \/ Idle(t)
    <3>1. UNCHANGED <<m_state, at, m_cb, m_fibers, ft, cb_fiber, waiting, submits>>
      BY <2>1 DEF NoTask, Exit, Idle, fiberVars, queueVars, localVars, userVars
    <3>2. pc[t] \notin Working /\ pc'[t] \notin Working /\ \A u \in Threads \ {t} : pc'[u] = pc[u]
      BY <1>0, <2>1 DEF NoTask, Exit, Idle, Working, Handling
    <3> QED  BY <3>1, <3>2, NoTaskFibers
  <2>2. CASE \E x \in Tasks : Spawn(t, x)
    <3>1. PICK x \in Tasks, thread \in {AnyThread, t} :
            Submit(x, thread) /\ UNCHANGED <<m_state, at, m_cb, pc, ft, cb_fiber, waiting>>
      BY <2>2 DEF Spawn, fiberVars, localVars
    <3> QED  BY <3>1, SubmitFibers
  <2>3. CASE Fetch(t) \/ RunFiber(t) \/ RunCb(t)
    BY <2>3, FetchFibers, RunFiberFibers, RunCbFibers
  <2>4. CASE Return(t) \/ Throw(t) \/ YieldToReady(t) \/ YieldToHold(t) \/ Register(t)
    BY <2>4, ReturnFibers, ThrowFibers, YieldToReadyFibers, YieldToHoldFibers, RegisterFibers
  <2>5. CASE Leave(t) \/ Back(t) \/ SettleElse(t)
    BY <2>5, BackFibers
  <2>6. CASE SettleReady(t) \/ SettleFinished(t) \/ SetHold(t)
    BY <2>6, SettleReadyFibers, SettleFinishedFibers, SetHoldFibers
  <2> QED  BY <1>3, <2>1, <2>2, <2>3, <2>4, <2>5, <2>6 DEF RunStep, BodyStep
<1>4. CASE MainStep
  <2>1. CASE \E x \in Tasks : MainSchedule(x)
    <3>1. PICK x \in Tasks, thread \in Pins \cup {AnyThread} :
            Submit(x, thread) /\ UNCHANGED <<m_state, at, m_cb, pc, ft, cb_fiber, waiting>>
      BY <2>1 DEF MainSchedule, fiberVars, localVars
    <3> QED  BY <3>1, SubmitFibers, PinsAssumption
  <2>2. CASE \E x, y \in Tasks : MainScheduleBatch(x, y)
    BY <2>2, BatchFibers
  <2>3. CASE Start
    BY <2>3, StartFibers DEF PInv
  <2>4. CASE StopRequest \/ StopNoCall \/ StopCall
    <3>1. UNCHANGED <<m_state, at, m_cb, m_fibers, ft, cb_fiber, waiting, submits>>
      BY <2>4 DEF StopRequest, StopNoCall, StopCall, fiberVars, queueVars, localVars, userVars
    <3>2. \A u \in Threads : pc'[u] = pc[u] \/ (pc[u] \notin Working /\ pc'[u] \notin Working)
      BY <1>0, <2>4 DEF StopRequest, StopNoCall, StopCall, Working, Handling
    <3> QED  BY <3>1, <3>2, NoTaskFibers
  <2>5. CASE Join
    <3>1. UNCHANGED <<m_state, at, m_cb, m_fibers, ft, cb_fiber, waiting, submits>>
      BY <2>5 DEF Join, fiberVars, queueVars, localVars, userVars
    <3>2. \A u \in Threads : pc[u] \notin Working /\ pc'[u] \notin Working
      BY <2>5 DEF Join, Working, Handling, Threads
    <3> QED  BY <3>1, <3>2, NoTaskFibers
  <2> QED  BY <1>4, <2>1, <2>2, <2>3, <2>4, <2>5 DEF MainStep, StopStep, UserStep
<1> QED  BY <1>1, <1>2, <1>3, <1>4 DEF Next, ThreadStep, Terminated

(* Every step keeps the phases, and no assertion fails.                    *)
LEMMA NextPInv == ASSUME Orderly, IInv, FInv, PInv, [Next]_vars PROVE PInv'
<1>1. CASE UNCHANGED vars
  BY <1>1 DEF vars, stopVars, localVars, PInv, PhaseOK, RootOK
<1>2. CASE EventStep
  BY <1>2 DEF EventStep, Fire, stopVars, localVars, PInv, PhaseOK, RootOK
<1>3. ASSUME NEW t \in Threads, RunStep(t) PROVE PInv'
  <2>1. CASE Exit(t) \/ Idle(t)
    <3>1. pc[t] # "dispatch" /\ pc[t] # "run"  BY <2>1 DEF Exit, Idle
    <3>2. UNCHANGED failure
      BY <1>3, <3>1 DEF RunStep, RunFiber, RunCb, Register, CanSuspend, CanStep, InBody
    <3> QED  BY <2>1, <3>2, ExitPhase, IdlePhase
  <2>2. CASE ~Exit(t) /\ ~Idle(t)
    BY <1>3, <2>2, RunPhase
  <2> QED  BY <2>1, <2>2
<1>4. CASE MainStep
  BY <1>4, MainPhase
<1> QED  BY <1>1, <1>2, <1>3, <1>4 DEF Next, ThreadStep, Terminated

(* A wake-up that came too early is not forgotten.                         *)
LEMMA OnTimeBefore == ASSUME [Next]_vars, OnTime' PROVE OnTime
<1>1. CASE UNCHANGED vars  BY <1>1 DEF vars, userVars, OnTime
<1>2. CASE EventStep  BY <1>2 DEF EventStep, Fire, OnTime
<1>3. ASSUME NEW t \in Threads, RunStep(t) PROVE UNCHANGED overtaken
  BY <1>3 DEF RunStep, BodyStep, Fetch, NoTask, Exit, Idle, RunFiber, RunCb, Return, Throw, YieldToReady,
              YieldToHold, GiveUp, Register, Spawn, Leave, Back, SettleReady, SettleFinished,
              SettleElse, SetHold, userVars
<1>4. CASE MainStep
  BY <1>4 DEF MainStep, StopStep, UserStep, MainSchedule, MainScheduleBatch, Start, StopRequest,
              StopNoCall, StopCall, Join, userVars, OnTime
<1> QED  BY <1>1, <1>2, <1>3, <1>4 DEF Next, ThreadStep, Terminated, OnTime

(* The invariants together.                                                *)
LEMMA Ownership == ASSUME Orderly PROVE Spec => [](IInv /\ (OnTime => FInv /\ PInv))
<1> DEFINE I == IInv /\ (OnTime => FInv /\ PInv)
<1>1. Init => I  BY InitIInv, InitOwnership
<1>2. I /\ [Next]_vars => I'
  BY NextIInv, NextFInv, NextPInv, OnTimeBefore
<1> QED  BY <1>1, <1>2, PTL DEF Spec

-----------------------------------------------------------------------------
(* Theorems                                                                *)

(* A set whose members are all equal has one at most.                      *)
LEMMA AtMostOne ==
    ASSUME NEW S, \A a, b \in S : a = b
    PROVE  Cardinality(S) <= 1
<1>1. CASE S = {}  BY <1>1, FS_EmptySet
<1>2. CASE S # {}
  <2>1. PICK a \in S : TRUE  BY <1>2
  <2>2. S = {a}  BY <2>1
  <2> QED  BY <2>2, FS_Singleton
<1> QED  BY <1>1, <1>2

(* The thread that handles a fiber holds it.                               *)
LEMMA HandIsHeld ==
    ASSUME NEW t, NEW f, \/ pc[t] = "dispatch" /\ ft[t].fiber = f
                         \/ pc[t] \in Handling /\ Hand(t) = f
    PROVE  Held(t, f)
BY DEF Hand, Held

(* No assertion of swapIn(), reset(), MainFunc() or the root fiber fails.  *)
THEOREM AssertionsHold == ASSUME Orderly PROVE Spec => [](OnTime => NoAssertFails)
<1>1. IInv /\ FInv /\ PInv => NoAssertFails  BY DEF PInv, NoAssertFails
<1> QED  BY <1>1, Ownership, PTL

-----------------------------------------------------------------------------
(* A fiber that yielded READY.  This holds whenever wake-ups come and      *)
(* however the scheduler is used, so it rests on none of the above: the    *)
(* thread that reads READY queues the fiber, and nobody but a thread that  *)
(* has taken the fiber changes the state of one that is READY.             *)

(* A queue entry has no fiber or no callback.                              *)
One(item) == item.fiber = Null \/ item.cb = Null
OnesOK ==
    /\ \A i \in DOMAIN m_fibers : One(m_fibers[i])
    /\ \A t \in Threads : One(ft[t])

(* Nobody executes run() when start() is called.                           *)
LaidOff == pc[Caller] = "main" /\ stopping => \A w \in Workers : pc[w] = "off"

Has(t, f) == \/ pc[t] = "dispatch" /\ ft[t].fiber = f
             \/ pc[t] \in Handling /\ Hand(t) = f
Reachable(f) == Queued(f) \/ \E t \in Threads : Has(t, f)
ReadyReachable == \A f \in Tasks : m_state[f] = "READY" => Reachable(f)

GInv == OnesOK /\ LaidOff /\ ReadyReachable

(* What an append and an erase do to entries of either kind.               *)
LEMMA OnesAppended ==
    ASSUME NEW q \in Seq(Items), NEW item \in Items, One(item), \A i \in DOMAIN q : One(q[i])
    PROVE  \A i \in DOMAIN Append(q, item) : One(Append(q, item)[i])
BY Appended

LEMMA QueuedAppended ==
    ASSUME TypeOK, NEW item \in Items, m_fibers' = Append(m_fibers, item), NEW f
    PROVE  (Queued(f) => Queued(f)') /\ (item.fiber = f => Queued(f)')
<1>1. m_fibers \in Seq(Items)  BY DEF TypeOK, QueueTypeOK
<1> QED  BY <1>1, Appended DEF Queued

(* The items that the code makes have one kind of task.                    *)
LEMMA OneTask ==
    /\ One(NoItem)
    /\ \A x \in Tasks, thread \in Threads \cup {AnyThread} : One(ItemOf(x, thread)) /\ One(FiberItem(x, thread))
BY DEF One, NoItem, ItemOf, FiberItem, CbItem

LEMMA NextOnes == ASSUME IInv, OnesOK, [Next]_vars PROVE OnesOK'
<1>0. m_fibers \in Seq(Items) /\ ft \in [Threads -> Items] /\ AnyThread \in Threads \cup {AnyThread}
  BY DEF IInv, TypeOK, QueueTypeOK, LocalTypeOK
<1>1. ASSUME UNCHANGED m_fibers, UNCHANGED ft \/ \E t \in Threads : ft' = [ft EXCEPT ![t] = NoItem]
      PROVE  OnesOK'
  BY <1>0, <1>1, OneTask DEF OnesOK
<1>2. ASSUME NEW item \in Items, One(item), m_fibers' = Append(m_fibers, item),
             UNCHANGED ft \/ \E t \in Threads : ft' = [ft EXCEPT ![t] = NoItem]
      PROVE  OnesOK'
  <2>1. \A i \in DOMAIN m_fibers' : One(m_fibers'[i])
    BY <1>0, <1>2, OnesAppended DEF OnesOK
  <2> QED  BY <1>0, <1>2, <2>1, OneTask DEF OnesOK
<1>3. CASE UNCHANGED vars
  BY <1>1, <1>3 DEF vars, queueVars, localVars
<1>4. CASE EventStep
  <2>1. PICK f \in Tasks : m_fibers' = Append(m_fibers, FiberItem(f, AnyThread)) /\ UNCHANGED ft
    BY <1>4 DEF EventStep, Fire, scheduleNoLock, localVars
  <2>2. FiberItem(f, AnyThread) \in Items /\ One(FiberItem(f, AnyThread))  BY <1>0, ItemTypes, OneTask
  <2> QED  BY <1>2, <2>1, <2>2
<1>5. ASSUME NEW x \in Tasks, NEW thread \in Threads \cup {AnyThread}, Submit(x, thread), UNCHANGED ft
      PROVE  OnesOK'
  <2>1. m_fibers' = Append(m_fibers, ItemOf(x, thread))  BY <1>5 DEF Submit, scheduleNoLock
  <2>2. ItemOf(x, thread) \in Items /\ One(ItemOf(x, thread))  BY ItemTypes, OneTask
  <2> QED  BY <1>2, <1>5, <2>1, <2>2
<1>6. ASSUME NEW t \in Threads, RunStep(t) PROVE OnesOK'
  <2>1. CASE Fetch(t)
    <3>1. PICK i \in DOMAIN m_fibers : ft' = [ft EXCEPT ![t] = m_fibers[i]] /\ m_fibers' = RemoveAt(m_fibers, i)
      BY <2>1 DEF Fetch
    <3>2. \A j \in DOMAIN m_fibers' : One(m_fibers'[j])
      BY <1>0, <3>1, Removed DEF OnesOK
    <3> QED  BY <1>0, <3>1, <3>2 DEF OnesOK
  <2>2. CASE SettleReady(t)
    <3>1. /\ m_fibers' = Append(m_fibers, FiberItem(Hand(t), AnyThread))
          /\ ft' = [ft EXCEPT ![t] = NoItem] /\ Hand(t) \in Tasks
      BY <2>2 DEF SettleReady, scheduleNoLock, IInv, HandOK, Handling
    <3>2. FiberItem(Hand(t), AnyThread) \in Items /\ One(FiberItem(Hand(t), AnyThread))
      BY <1>0, <3>1, ItemTypes, OneTask
    <3> QED  BY <1>2, <3>1, <3>2
  <2>3. CASE \E x \in Tasks : Spawn(t, x)
    BY <1>5, <2>3 DEF Spawn, localVars
  <2>4. CASE Register(t)
    BY <1>1, <2>4 DEF Register, queueVars, localVars
  <2>5. CASE RunFiber(t) \/ RunCb(t)
    BY <1>1, <2>5 DEF RunFiber, RunCb, queueVars, localVars
  <2>6. CASE SettleFinished(t) \/ SetHold(t)
    BY <1>1, <2>6 DEF SettleFinished, SetHold, queueVars
  <2>7. CASE Return(t) \/ Throw(t) \/ YieldToReady(t) \/ YieldToHold(t)
    BY <1>1, <2>7 DEF Return, Throw, YieldToReady, YieldToHold, GiveUp, queueVars, localVars
  <2>8. CASE NoTask(t) \/ Exit(t) \/ Idle(t) \/ Leave(t) \/ Back(t) \/ SettleElse(t)
    BY <1>1, <2>8 DEF NoTask, Exit, Idle, Leave, Back, SettleElse, queueVars, localVars
  <2> QED  BY <1>6, <2>1, <2>2, <2>3, <2>4, <2>5, <2>6, <2>7, <2>8 DEF RunStep, BodyStep
<1>7. CASE MainStep
  <2>1. CASE \E x \in Tasks : MainSchedule(x)
    BY <1>5, <2>1, PinsAssumption DEF MainSchedule, localVars
  <2>2. CASE \E x, y \in Tasks : MainScheduleBatch(x, y)
    <3>1. PICK x \in Tasks, y \in Tasks :
            /\ m_fibers' = Append(Append(m_fibers, ItemOf(x, AnyThread)), ItemOf(y, AnyThread))
            /\ UNCHANGED ft
      BY <2>2 DEF MainScheduleBatch, scheduleNoLock, localVars
    <3>2. ItemOf(x, AnyThread) \in Items /\ ItemOf(y, AnyThread) \in Items
          /\ One(ItemOf(x, AnyThread)) /\ One(ItemOf(y, AnyThread))
      BY <1>0, ItemTypes, OneTask
    <3>3. Append(m_fibers, ItemOf(x, AnyThread)) \in Seq(Items)  BY <1>0, <3>2, AppendType
    <3>4. \A i \in DOMAIN m_fibers' : One(m_fibers'[i])
      BY <1>0, <3>1, <3>2, <3>3, OnesAppended DEF OnesOK
    <3> QED  BY <3>1, <3>4 DEF OnesOK
  <2>3. CASE Start \/ StopRequest \/ StopNoCall \/ StopCall \/ Join
    BY <1>1, <2>3 DEF Start, StopRequest, StopNoCall, StopCall, Join, queueVars, localVars
  <2> QED  BY <1>7, <2>1, <2>2, <2>3 DEF MainStep, StopStep, UserStep
<1> QED  BY <1>3, <1>4, <1>6, <1>7 DEF Next, ThreadStep, Terminated

LEMMA NextLaidOff == ASSUME IInv, LaidOff, [Next]_vars PROVE LaidOff'
<1>0. pc \in [Threads -> Points] /\ Threads = Workers \cup {Caller} /\ Caller \notin Workers
  BY ThreadsAssumption DEF IInv, TypeOK, LocalTypeOK, Threads
<1>1. CASE UNCHANGED vars  BY <1>1 DEF vars, stopVars, LaidOff
<1>2. CASE EventStep  BY <1>2 DEF EventStep, Fire, stopVars, LaidOff
<1>3. ASSUME NEW t \in Threads, RunStep(t) PROVE LaidOff'
  <2>1. stopping' = stopping /\ pc[t] \notin {"main", "off"}
        /\ \E p : p # "main" /\ pc' = [pc EXCEPT ![t] = p]
    <3>1. CASE Fetch(t) \/ NoTask(t) \/ Exit(t) \/ Idle(t) \/ Leave(t) \/ Back(t)
      BY <3>1 DEF Fetch, NoTask, Exit, Idle, Leave, Back, stopVars
    <3>2. CASE SettleReady(t) \/ SettleFinished(t) \/ SettleElse(t) \/ SetHold(t)
      BY <3>2 DEF SettleReady, SettleFinished, SettleElse, SetHold, stopVars
    <3>3. CASE RunFiber(t) \/ RunCb(t)
      BY <1>0, <3>3 DEF RunFiber, RunCb, stopVars
    <3>4. CASE Return(t) \/ Throw(t) \/ YieldToReady(t) \/ YieldToHold(t)
      BY <3>4 DEF Return, Throw, YieldToReady, YieldToHold, GiveUp, CanSuspend, CanStep, InBody, stopVars
    <3>5. CASE Register(t) \/ \E x \in Tasks : Spawn(t, x)
      BY <1>0, <3>5 DEF Register, Spawn, CanSuspend, CanStep, InBody, stopVars
    <3> QED  BY <1>3, <3>1, <3>2, <3>3, <3>4, <3>5 DEF RunStep, BodyStep
  <2> QED  BY <1>0, <2>1 DEF LaidOff
<1>4. CASE MainStep
  BY <1>0, <1>4 DEF MainStep, StopStep, UserStep, MainSchedule, MainScheduleBatch, Start, StopRequest,
              StopNoCall, StopCall, Join, stopVars, LaidOff
<1> QED  BY <1>1, <1>2, <1>3, <1>4 DEF Next, ThreadStep, Terminated

LEMMA NextReady == ASSUME IInv, GInv, [Next]_vars PROVE ReadyReachable'
<1>0. /\ m_fibers \in Seq(Items) /\ pc \in [Threads -> Points] /\ m_state \in [Tasks -> States]
      /\ ft \in [Threads -> Items] /\ cb_fiber \in [Threads -> Tasks \cup {Null}] /\ TypeOK
      /\ Threads = Workers \cup {Caller} /\ Null \notin Tasks
      /\ AnyThread \in Threads \cup {AnyThread}
  BY TasksAssumption DEF IInv, TypeOK, QueueTypeOK, LocalTypeOK, FiberTypeOK, Threads
<1>1. ASSUME UNCHANGED <<pc, ft, cb_fiber, m_state>>, \A f \in Tasks : Queued(f) => Queued(f)'
      PROVE  ReadyReachable'
  BY <1>1 DEF GInv, ReadyReachable, Reachable, Has, Hand
<1>2. ASSUME NEW t \in Threads,
             \A u \in Threads \ {t} : pc'[u] = pc[u] /\ ft'[u] = ft[u] /\ cb_fiber'[u] = cb_fiber[u],
             \A f \in Tasks : m_state'[f] = "READY" /\ Queued(f) => Reachable(f)',
             \A f \in Tasks : m_state'[f] = "READY" /\ Has(t, f) => Reachable(f)',
             \A f \in Tasks : m_state'[f] = "READY" => m_state[f] = "READY" \/ Has(t, f)
      PROVE  ReadyReachable'
  <2> SUFFICES ASSUME NEW f \in Tasks, m_state'[f] = "READY" PROVE Reachable(f)'
    BY DEF ReadyReachable
  <2>1. Reachable(f) \/ Has(t, f)  BY <1>2 DEF GInv, ReadyReachable
  <2>2. CASE Queued(f)  BY <1>2, <2>2
  <2>3. CASE Has(t, f)  BY <1>2, <2>3
  <2>4. ASSUME NEW u \in Threads \ {t}, Has(u, f) PROVE Reachable(f)'
    BY <1>2, <2>4 DEF Has, Hand, Reachable
  <2> QED  BY <2>1, <2>2, <2>3, <2>4 DEF Reachable
<1>3. CASE UNCHANGED vars
  BY <1>1, <1>3 DEF vars, fiberVars, queueVars, localVars, Queued
<1>4. CASE EventStep
  <2>1. PICK f \in Tasks : /\ m_fibers' = Append(m_fibers, FiberItem(f, AnyThread))
                           /\ UNCHANGED <<pc, ft, cb_fiber, m_state>>
    BY <1>4 DEF EventStep, Fire, scheduleNoLock, fiberVars, localVars
  <2>2. FiberItem(f, AnyThread) \in Items  BY <1>0, ItemTypes
  <2> QED  BY <1>0, <1>1, <2>1, <2>2, QueuedAppended
<1>5. ASSUME NEW x \in Tasks, NEW thread \in Threads \cup {AnyThread}, Submit(x, thread),
             UNCHANGED <<pc, ft, cb_fiber, m_state>>
      PROVE  ReadyReachable'
  <2>1. m_fibers' = Append(m_fibers, ItemOf(x, thread)) /\ ItemOf(x, thread) \in Items
    BY <1>5, ItemTypes DEF Submit, scheduleNoLock
  <2> QED  BY <1>0, <1>1, <1>5, <2>1, QueuedAppended
<1>6. ASSUME NEW t \in Threads, RunStep(t) PROVE ReadyReachable'
  <2>1. CASE Fetch(t)
    <3>1. PICK i \in DOMAIN m_fibers :
            /\ ft' = [ft EXCEPT ![t] = m_fibers[i]] /\ m_fibers' = RemoveAt(m_fibers, i)
            /\ pc' = [pc EXCEPT ![t] = "dispatch"] /\ UNCHANGED <<m_state, cb_fiber>> /\ pc[t] = "fetch"
      BY <2>1 DEF Fetch, fiberVars
    <3>2. ASSUME NEW f, Queued(f) PROVE Reachable(f)'
      <4>1. PICK k \in DOMAIN m_fibers : m_fibers[k].fiber = f  BY <3>2 DEF Queued
      <4>2. CASE k = i
        <5>1. pc'[t] = "dispatch" /\ ft'[t].fiber = f  BY <1>0, <3>1, <4>1, <4>2
        <5> QED  BY <5>1 DEF Reachable, Has
      <4>3. CASE k # i
        <5>1. \E j \in DOMAIN m_fibers' : m_fibers'[j] = m_fibers[k]  BY <1>0, <3>1, <4>3, Removed
        <5> QED  BY <4>1, <5>1 DEF Reachable, Queued
      <4> QED  BY <4>2, <4>3
    <3>3. \A f : ~Has(t, f)  BY <3>1 DEF Has, Handling
    <3> QED  BY <1>0, <1>2, <3>1, <3>2, <3>3
  <2>2. CASE SettleReady(t)
    <3>1. /\ m_fibers' = Append(m_fibers, FiberItem(Hand(t), AnyThread)) /\ Hand(t) \in Tasks
          /\ ft' = [ft EXCEPT ![t] = NoItem] /\ cb_fiber' = Released(t)
          /\ pc' = [pc EXCEPT ![t] = "fetch"] /\ pc[t] = "settle" /\ UNCHANGED m_state
      BY <2>2 DEF SettleReady, scheduleNoLock, IInv, HandOK, Handling, fiberVars
    <3>2. FiberItem(Hand(t), AnyThread) \in Items /\ FiberItem(Hand(t), AnyThread).fiber = Hand(t)
      BY <1>0, <3>1, ItemTypes DEF FiberItem
    <3>3. \A f : (Queued(f) => Queued(f)') /\ (Has(t, f) => Queued(f)')
      BY <1>0, <3>1, <3>2, QueuedAppended DEF Has
    <3>4. \A u \in Threads \ {t} : pc'[u] = pc[u] /\ ft'[u] = ft[u] /\ cb_fiber'[u] = cb_fiber[u]
      BY <1>0, <3>1 DEF Released
    <3> QED  BY <1>2, <3>1, <3>3, <3>4 DEF Reachable
  <2>3. CASE \E x \in Tasks : Spawn(t, x)
    BY <1>5, <2>3 DEF Spawn, localVars, fiberVars
  <2>4. CASE Register(t)
    BY <1>1, <2>4 DEF Register, queueVars, localVars, Queued
  <2>5. CASE RunFiber(t) \/ RunCb(t)
    <3>1. pc[t] = "dispatch" /\ UNCHANGED m_fibers  BY <2>5 DEF RunFiber, RunCb, queueVars
    <3>2. CASE pc' = pc
      <4>1. pc' # [pc EXCEPT ![t] = "run"]  BY <1>0, <3>1, <3>2
      <4>2. UNCHANGED <<ft, cb_fiber, m_state>>
        BY <2>5, <4>1 DEF RunFiber, RunCb, fiberVars, localVars
      <4>3. \A f : Queued(f) => Queued(f)'  BY <3>1 DEF Queued
      <4> QED  BY <1>1, <3>2, <4>2, <4>3
    <3>3. CASE pc' # pc
      <4>1. pc' = [pc EXCEPT ![t] = "run"] /\ \E f : m_state' = [m_state EXCEPT ![f] = "EXEC"]
        BY <2>5, <3>3 DEF RunFiber, RunCb, fiberVars
      <4>2. \A u \in Threads \ {t} : pc'[u] = pc[u] /\ ft'[u] = ft[u] /\ cb_fiber'[u] = cb_fiber[u]
        BY <1>0, <2>5, <3>3, <4>1 DEF RunFiber, RunCb, localVars
      <4>3. \A f \in Tasks : m_state'[f] = "READY" => m_state[f] = "READY"
        BY <1>0, <4>1
      <4>4. \A f : Queued(f) => Queued(f)'  BY <3>1 DEF Queued
      <4>5. ASSUME NEW f \in Tasks, Has(t, f) PROVE m_state'[f] # "READY" \/ Reachable(f)'
        <5>1. ft[t].fiber = f /\ f # Null  BY <1>0, <3>1, <4>5 DEF Has, Handling
        <5>2. ft[t].cb = Null  BY <5>1 DEF GInv, OnesOK, One
        <5>3. RunFiber(t)  BY <2>5, <5>2 DEF RunCb
        <5>4. ft' = ft  BY <5>3 DEF RunFiber, localVars
        <5>5. pc'[t] = "run" /\ Hand(t)' = f  BY <1>0, <4>1, <5>1, <5>4 DEF Hand
        <5> QED  BY <5>5 DEF Reachable, Has, Handling
      <4> QED  BY <1>2, <4>2, <4>3, <4>4, <4>5 DEF Reachable
    <3> QED  BY <3>2, <3>3
  <2>6. CASE SettleFinished(t) \/ SetHold(t)
    <3>1. /\ pc' = [pc EXCEPT ![t] = "fetch"] /\ ft' = [ft EXCEPT ![t] = NoItem] /\ UNCHANGED m_fibers
          /\ cb_fiber' = cb_fiber \/ cb_fiber' = [cb_fiber EXCEPT ![t] = Null]
          /\ pc[t] \in {"settle", "hold"} /\ Hand(t) \in Tasks
      BY <2>6 DEF SettleFinished, SetHold, Released, queueVars, IInv, HandOK, Handling
    <3>2. m_state'[Hand(t)] # "READY" /\ \A f \in Tasks : m_state'[f] = "READY" => m_state[f] = "READY"
      <4>1. CASE SetHold(t)  BY <1>0, <3>1, <4>1 DEF SetHold
      <4>2. CASE SettleFinished(t) /\ ft[t].fiber = Null
        <5>1. m_state' = [m_state EXCEPT ![Hand(t)] = "INIT"]  BY <4>2 DEF SettleFinished, Hand
        <5> QED  BY <1>0, <3>1, <5>1
      <4>3. CASE SettleFinished(t) /\ ft[t].fiber # Null
        BY <4>3 DEF SettleFinished, fiberVars, Finished
      <4> QED  BY <2>6, <4>1, <4>2, <4>3
    <3>3. \A f \in Tasks : Has(t, f) => f = Hand(t)  BY <3>1 DEF Has
    <3>4. \A u \in Threads \ {t} : pc'[u] = pc[u] /\ ft'[u] = ft[u] /\ cb_fiber'[u] = cb_fiber[u]
      BY <1>0, <3>1
    <3>5. \A f : Queued(f) => Queued(f)'  BY <3>1 DEF Queued
    <3> QED  BY <1>2, <3>2, <3>3, <3>4, <3>5 DEF Reachable
  <2>7. CASE Return(t) \/ Throw(t) \/ YieldToReady(t) \/ YieldToHold(t)
    <3>1. /\ pc[t] = "run" /\ pc' = [pc EXCEPT ![t] = "leave"] /\ UNCHANGED <<ft, cb_fiber, m_fibers>>
          /\ \E s : m_state' = [m_state EXCEPT ![Hand(t)] = s]
      BY <2>7 DEF Return, Throw, YieldToReady, YieldToHold, GiveUp, CanSuspend, CanStep, InBody,
                  queueVars, localVars
    <3>2. Hand(t)' = Hand(t) /\ pc'[t] \in Handling /\ pc[t] \in Handling
      BY <1>0, <3>1 DEF Hand, Handling
    <3>3. \A f \in Tasks : Has(t, f) => Has(t, f)'  BY <3>1, <3>2 DEF Has
    <3>4. \A f \in Tasks : m_state'[f] = "READY" => m_state[f] = "READY" \/ Has(t, f)
      BY <1>0, <3>1, <3>2 DEF Has
    <3>5. \A f : Queued(f) => Queued(f)'  BY <3>1 DEF Queued
    <3> QED  BY <1>0, <1>2, <3>1, <3>3, <3>4, <3>5 DEF Reachable
  <2>8. CASE Leave(t) \/ Back(t) \/ SettleElse(t) \/ NoTask(t) \/ Exit(t) \/ Idle(t)
    <3>1. /\ UNCHANGED <<ft, cb_fiber, m_fibers, m_state>>
          /\ \E p : pc' = [pc EXCEPT ![t] = p]
          /\ \/ pc[t] \in Handling /\ pc'[t] \in Handling
             \/ pc[t] \in {"fetch", "idle"}
      BY <1>0, <2>8 DEF Leave, Back, SettleElse, NoTask, Exit, Idle, fiberVars, queueVars, localVars, Handling
    <3>2. \A f \in Tasks : Has(t, f) => Has(t, f)'  BY <3>1 DEF Has, Hand, Handling
    <3>3. \A f : Queued(f) => Queued(f)'  BY <3>1 DEF Queued
    <3> QED  BY <1>0, <1>2, <3>1, <3>2, <3>3 DEF Reachable
  <2> QED  BY <1>6, <2>1, <2>2, <2>3, <2>4, <2>5, <2>6, <2>7, <2>8 DEF RunStep, BodyStep
<1>7. CASE MainStep
  <2>1. CASE \E x \in Tasks : MainSchedule(x)
    BY <1>5, <2>1, PinsAssumption DEF MainSchedule, fiberVars, localVars
  <2>2. CASE \E x, y \in Tasks : MainScheduleBatch(x, y)
    <3>1. PICK x \in Tasks, y \in Tasks :
            /\ m_fibers' = Append(Append(m_fibers, ItemOf(x, AnyThread)), ItemOf(y, AnyThread))
            /\ UNCHANGED <<pc, ft, cb_fiber, m_state>>
      BY <2>2 DEF MainScheduleBatch, scheduleNoLock, fiberVars, localVars
    <3>2. ItemOf(x, AnyThread) \in Items /\ ItemOf(y, AnyThread) \in Items
      BY <1>0, ItemTypes
    <3>3. Append(m_fibers, ItemOf(x, AnyThread)) \in Seq(Items)  BY <1>0, <3>2, AppendType
    <3>4. \A i \in DOMAIN m_fibers : \E j \in DOMAIN m_fibers' : m_fibers'[j] = m_fibers[i]
      BY <1>0, <3>1, <3>2, <3>3, Appended
    <3>5. \A f \in Tasks : Queued(f) => Queued(f)'  BY <3>4 DEF Queued
    <3> QED  BY <1>1, <3>1, <3>5
  <2>3. CASE Start \/ Join
    <3>1. \A u \in Threads : pc[u] \in {"main", "off", "join", "exit"}
      BY <1>0, <2>3 DEF Start, Join, GInv, LaidOff
    <3>2. \A f, u : u \in Threads => ~Has(u, f)  BY <3>1 DEF Has, Handling
    <3>3. UNCHANGED <<m_fibers, m_state>>  BY <2>3 DEF Start, Join, fiberVars, queueVars
    <3> QED  BY <3>2, <3>3 DEF GInv, ReadyReachable, Reachable, Queued
  <2>4. CASE StopRequest \/ StopNoCall \/ StopCall
    <3>1. /\ UNCHANGED <<ft, cb_fiber, m_fibers, m_state>> /\ pc[Caller] \in {"main", "stop"}
          /\ \E p : pc' = pc \/ pc' = [pc EXCEPT ![Caller] = p]
      BY <2>4 DEF StopRequest, StopNoCall, StopCall, fiberVars, queueVars, localVars
    <3>2. \A f : ~Has(Caller, f)  BY <3>1 DEF Has, Handling
    <3>3. \A f : Queued(f) => Queued(f)'  BY <3>1 DEF Queued
    <3>4. \A u \in Threads \ {Caller} : pc'[u] = pc[u]  BY <1>0, <3>1
    <3> QED  BY <1>0, <1>2, <3>1, <3>2, <3>3, <3>4 DEF Reachable
  <2> QED  BY <1>7, <2>1, <2>2, <2>3, <2>4 DEF MainStep, StopStep, UserStep
<1> QED  BY <1>3, <1>4, <1>6, <1>7 DEF Next, ThreadStep, Terminated

(* A fiber that yielded READY is not lost: the queue has it or the thread  *)
(* that puts it there, whenever wake-ups come and however often fibers are *)
(* scheduled.                                                              *)
THEOREM ReadyNotLost == Spec => []ReadyIsHeld
<1>1. Init => IInv /\ GInv
  <2>1. Init => OnesOK  BY OneTask DEF Init, OnesOK
  <2>2. Init => LaidOff /\ ReadyReachable  BY ThreadsAssumption DEF Init, LaidOff, ReadyReachable, Threads
  <2> QED  BY <2>1, <2>2, InitIInv DEF GInv
<1>2. IInv /\ GInv /\ [Next]_vars => (IInv /\ GInv)'
  BY NextIInv, NextOnes, NextLaidOff, NextReady DEF GInv
<1>3. GInv => ReadyIsHeld
  <2> SUFFICES ASSUME GInv, NEW f \in Tasks, m_state[f] = "READY" PROVE References(f) # {}
    BY DEF ReadyIsHeld
  <2>1. Reachable(f)  BY DEF GInv, ReadyReachable
  <2>2. CASE Queued(f)
    <3>1. PICK i \in DOMAIN m_fibers : m_fibers[i].fiber = f  BY <2>2 DEF Queued
    <3>2. <<"queue", i>> \in References(f)  BY <3>1 DEF References
    <3> QED  BY <3>2
  <2>3. ASSUME NEW t \in Threads, Has(t, f) PROVE References(f) # {}
    <3>1. <<"hand", t>> \in References(f)  BY <2>3 DEF References, Has
    <3> QED  BY <3>1
  <2> QED  BY <2>1, <2>2, <2>3 DEF Reachable
<1> QED  BY <1>1, <1>2, <1>3, PTL DEF Spec

-----------------------------------------------------------------------------
(* Who owns a fiber.  The invariant speaks of one fiber, and of its own    *)
(* wake-ups only: what early wake-ups do to other fibers (which may share  *)
(* threads and callbacks with this one) does not reach it.                 *)

OneEntry(f) == \A i, j \in DOMAIN m_fibers : m_fibers[i].fiber = f /\ m_fibers[j].fiber = f => i = j
OneCbEntry(c) == \A i, j \in DOMAIN m_fibers : m_fibers[i].cb = c /\ m_fibers[j].cb = c => i = j

(* Nobody has the fiber.                                                   *)
Away(f) == ~Queued(f) /\ f \notin waiting /\ \A t \in Threads : ~Held(t, f)

LocalOK(t) ==
    /\ pc[t] \notin {"dispatch"} \cup Handling => ft[t] = NoItem
    /\ pc[t] = "dispatch" => OneOf(ft[t])
    /\ pc[t] \in Handling => ft[t].cb = Null

(* A callback is in one place until run() makes a fiber for it.            *)
CallOK(c) ==
    /\ OneCbEntry(c) /\ ~(CbQueued(c) /\ CbTaken(c))
    /\ \A t, u \in Threads : ft[t].cb = c /\ ft[u].cb = c => t = u
    /\ submits[c] = 0 => ~CbQueued(c) /\ ~CbTaken(c)

(* A registered fiber that a thread holds is about to suspend itself, or   *)
(* has, in HOLD.                                                           *)
WaitsOnly(f) ==
    \A t \in Threads : Held(t, f) /\ f \in waiting =>
        /\ pc[t] \in Handling /\ Hand(t) = f
        /\ pc[t] = "run" => at[f] = "armed"
        /\ pc[t] \in {"leave", "back", "settle"} => m_state[f] = "HOLD"

OwnedOK(f) ==
    /\ OneEntry(f) /\ OneHolder(f)
    /\ \A t \in Threads : ft[t].fiber = f => cb_fiber[t] # f
    /\ Queued(f) => f \notin waiting /\ \A t \in Threads : ~Held(t, f)
    /\ WaitsOnly(f)
    /\ submits[f] = 0 \/ CbQueued(f) \/ CbTaken(f) => Away(f)

OInv ==
    /\ \A i \in DOMAIN m_fibers : OneOf(m_fibers[i])
    /\ \A t \in Threads : LocalOK(t)
    /\ \A c \in Callbacks : CallOK(c)
    /\ \A f \in Tasks \ overtaken : OwnedOK(f)

(* An append and an erase, seen from one fiber or callback.                *)
LEMMA OneAppended ==
    ASSUME TypeOK, NEW item \in Items, m_fibers' = Append(m_fibers, item), NEW x
    PROVE  /\ Queued(x)' <=> Queued(x) \/ item.fiber = x
           /\ CbQueued(x)' <=> CbQueued(x) \/ item.cb = x
           /\ OneEntry(x) /\ (item.fiber = x => ~Queued(x)) => OneEntry(x)'
           /\ OneCbEntry(x) /\ (item.cb = x => ~CbQueued(x)) => OneCbEntry(x)'
           /\ (\A i \in DOMAIN m_fibers : OneOf(m_fibers[i])) /\ OneOf(item)
                  => \A i \in DOMAIN m_fibers' : OneOf(m_fibers'[i])
<1>1. m_fibers \in Seq(Items)  BY DEF TypeOK, QueueTypeOK
<1>2. /\ \A j \in DOMAIN m_fibers' :
             \/ j \in DOMAIN m_fibers /\ m_fibers'[j] = m_fibers[j]
             \/ j \notin DOMAIN m_fibers /\ j = Len(m_fibers) + 1 /\ m_fibers'[j] = item
      /\ \A j \in DOMAIN m_fibers : j \in DOMAIN m_fibers' /\ m_fibers'[j] = m_fibers[j]
      /\ \E j \in DOMAIN m_fibers' : m_fibers'[j] = item
  BY <1>1, Appended
<1>3. Queued(x)' <=> Queued(x) \/ item.fiber = x  BY <1>2 DEF Queued
<1>4. CbQueued(x)' <=> CbQueued(x) \/ item.cb = x  BY <1>2 DEF CbQueued
<1>5. OneEntry(x) /\ (item.fiber = x => ~Queued(x)) => OneEntry(x)'
  BY <1>2 DEF OneEntry, Queued
<1>6. OneCbEntry(x) /\ (item.cb = x => ~CbQueued(x)) => OneCbEntry(x)'
  BY <1>2 DEF OneCbEntry, CbQueued
<1>7. (\A i \in DOMAIN m_fibers : OneOf(m_fibers[i])) /\ OneOf(item)
          => \A i \in DOMAIN m_fibers' : OneOf(m_fibers'[i])
  BY <1>2
<1> QED  BY <1>3, <1>4, <1>5, <1>6, <1>7

LEMMA OneErased ==
    ASSUME TypeOK, NEW i \in DOMAIN m_fibers, m_fibers' = RemoveAt(m_fibers, i), NEW x
    PROVE  /\ Queued(x)' => Queued(x)
           /\ CbQueued(x)' => CbQueued(x)
           /\ OneEntry(x) => OneEntry(x)' /\ (m_fibers[i].fiber = x => ~Queued(x)')
           /\ OneCbEntry(x) => OneCbEntry(x)' /\ (m_fibers[i].cb = x => ~CbQueued(x)')
           /\ (\A k \in DOMAIN m_fibers : OneOf(m_fibers[k])) => \A k \in DOMAIN m_fibers' : OneOf(m_fibers'[k])
<1>1. m_fibers \in Seq(Items)  BY DEF TypeOK, QueueTypeOK
<1>2. /\ \A j \in DOMAIN m_fibers' :
             Old(i, j) \in DOMAIN m_fibers \ {i} /\ m_fibers'[j] = m_fibers[Old(i, j)]
      /\ \A j, k \in DOMAIN m_fibers' : Old(i, j) = Old(i, k) => j = k
  BY <1>1, Removed
<1>3. (Queued(x)' => Queued(x)) /\ (CbQueued(x)' => CbQueued(x))  BY <1>2 DEF Queued, CbQueued
<1>4. OneEntry(x) => OneEntry(x)' /\ (m_fibers[i].fiber = x => ~Queued(x)')
  BY <1>2 DEF OneEntry, Queued
<1>5. OneCbEntry(x) => OneCbEntry(x)' /\ (m_fibers[i].cb = x => ~CbQueued(x)')
  BY <1>2 DEF OneCbEntry, CbQueued
<1>6. (\A k \in DOMAIN m_fibers : OneOf(m_fibers[k])) => \A k \in DOMAIN m_fibers' : OneOf(m_fibers'[k])
  BY <1>2
<1> QED  BY <1>3, <1>4, <1>5, <1>6

(* The pointers and the queue stay, and at most a held fiber registers.    *)
LEMMA OwnSame ==
    ASSUME OInv, UNCHANGED <<ft, cb_fiber, m_fibers, submits, overtaken>>,
           \A t \in Threads : LocalOK(t)',
           \A f \in Tasks : f \in waiting' => f \in waiting \/ \E t \in Threads : Held(t, f),
           \A f \in Tasks \ overtaken : WaitsOnly(f)'
    PROVE  OInv'
<1>1. ASSUME NEW f \in Tasks \ overtaken PROVE OwnedOK(f)'
  <2>1. OwnedOK(f)  BY DEF OInv
  <2>2. OneEntry(f)' /\ OneHolder(f)' /\ \A t \in Threads : ft'[t].fiber = f => cb_fiber'[t] # f
    BY <2>1 DEF OwnedOK, OneEntry, OneHolder, Held
  <2>3. Queued(f)' => f \notin waiting' /\ \A t \in Threads : ~Held(t, f)'
    BY <2>1 DEF OwnedOK, Queued, Held
  <2>4. submits'[f] = 0 \/ CbQueued(f)' \/ CbTaken(f)' => Away(f)'
    BY <2>1 DEF OwnedOK, Away, Queued, CbQueued, CbTaken, Held
  <2> QED  BY <2>2, <2>3, <2>4 DEF OwnedOK
<1>2. ASSUME NEW c \in Callbacks PROVE CallOK(c)'
  BY DEF OInv, CallOK, OneCbEntry, CbQueued, CbTaken
<1>3. \A i \in DOMAIN m_fibers' : OneOf(m_fibers'[i])  BY DEF OInv, OneOf
<1> QED  BY <1>1, <1>2, <1>3 DEF OInv

(* The thread goes on with what it has in hand.                            *)
LEMMA OwnHand ==
    ASSUME IInv, OInv, NEW t \in Threads, UNCHANGED <<ft, cb_fiber, m_fibers, submits, eventVars>>,
           \A u \in Threads \ {t} : pc'[u] = pc[u],
           \A f \in Tasks \ {Hand(t)} : m_state'[f] = m_state[f] /\ at'[f] = at[f],
           LocalOK(t)',
           \/ pc[t] \notin Handling
           \/ /\ pc[t] \in Handling /\ pc'[t] \in Handling /\ pc'[t] # "run"
              /\ Hand(t) \in waiting /\ pc'[t] # "hold" => m_state'[Hand(t)] = "HOLD"
    PROVE  OInv'
<1>1. \A u : Hand(u)' = Hand(u)  BY DEF Hand
<1>2. \A u \in Threads : \A f : Held(u, f)' <=> Held(u, f)  BY DEF Held
<1>3. ASSUME NEW f \in Tasks \ overtaken PROVE WaitsOnly(f)'
  <2> SUFFICES ASSUME NEW u \in Threads, Held(u, f), f \in waiting
               PROVE  /\ pc'[u] \in Handling /\ Hand(u) = f
                      /\ pc'[u] = "run" => at'[f] = "armed"
                      /\ pc'[u] \in {"leave", "back", "settle"} => m_state'[f] = "HOLD"
    BY <1>1, <1>2 DEF WaitsOnly
  <2>1. OwnedOK(f)  BY DEF OInv
  <2>2. /\ pc[u] \in Handling /\ Hand(u) = f
        /\ pc[u] = "run" => at[f] = "armed"
        /\ pc[u] \in {"leave", "back", "settle"} => m_state[f] = "HOLD"
    BY <2>1 DEF OwnedOK, WaitsOnly
  <2>3. CASE u = t  BY <2>2, <2>3
  <2>4. CASE u # t
    <3>1. Hand(t) = f /\ pc[t] \in Handling => FALSE
      BY <2>1, <2>4 DEF OwnedOK, OneHolder, Hand, Held
    <3>2. CASE Hand(t) # f  BY <2>2, <2>4, <3>2
    <3>3. CASE Hand(t) = f
      <4>1. Held(t, f)  BY <3>3 DEF Hand, Held
      <4> QED  BY <2>1, <2>4, <4>1 DEF OwnedOK, OneHolder
    <3> QED  BY <3>2, <3>3
  <2> QED  BY <2>3, <2>4
<1>4. \A u \in Threads : LocalOK(u)'
  BY DEF OInv, LocalOK, OneOf
<1> QED  BY <1>3, <1>4, OwnSame

(* A body gives up the processor: registered, only to HOLD.                *)
LEMMA OwnGiveUp ==
    ASSUME IInv, OInv, NEW t \in Threads, NEW state, pc[t] = "run", GiveUp(t, state),
           \A f \in Tasks \ {Hand(t)} : at'[f] = at[f],
           state # "HOLD" => at[Hand(t)] = "body"
    PROVE  OInv'
<1>1. /\ m_state \in [Tasks -> States] /\ pc \in [Threads -> Points] /\ Hand(t) \in Tasks /\ pc[t] \in Handling
  BY DEF IInv, TypeOK, FiberTypeOK, LocalTypeOK, HandOK, Handling
<1>2. /\ UNCHANGED <<ft, cb_fiber, m_fibers, submits, waiting>>
      /\ UNCHANGED overtaken
      /\ pc'[t] = "leave" /\ \A u \in Threads \ {t} : pc'[u] = pc[u]
      /\ m_state'[Hand(t)] = state /\ \A f \in Tasks \ {Hand(t)} : m_state'[f] = m_state[f]
  BY <1>1 DEF GiveUp, queueVars, localVars
<1>3. LocalOK(t)'
  BY <1>1, <1>2 DEF OInv, LocalOK, Handling
<1>4. CASE state = "HOLD"
  BY <1>1, <1>2, <1>3, <1>4, OwnHand DEF Handling
<1>5. CASE state # "HOLD" /\ Hand(t) \notin waiting
  BY <1>1, <1>2, <1>3, <1>5, OwnHand DEF Handling
<1>6. CASE state # "HOLD" /\ Hand(t) \in waiting /\ Hand(t) \notin overtaken
  <2>1. Held(t, Hand(t)) /\ WaitsOnly(Hand(t))  BY <1>1, <1>6 DEF Held, Hand, OInv, OwnedOK
  <2> QED  BY <1>6, <2>1 DEF WaitsOnly
<1>7. CASE Hand(t) \in overtaken
  <2>1. \A u \in Threads : LocalOK(u)'  BY <1>2, <1>3 DEF OInv, LocalOK, OneOf
  <2>2. ASSUME NEW f \in Tasks \ overtaken PROVE WaitsOnly(f)'
    <3>1. f # Hand(t) /\ WaitsOnly(f)  BY <1>7 DEF OInv, OwnedOK
    <3>2. m_state'[f] = m_state[f] /\ at'[f] = at[f]  BY <1>2, <3>1
    <3> QED  BY <1>2, <3>1, <3>2 DEF WaitsOnly, Held, Hand
  <2> QED  BY <1>2, <2>1, <2>2, OwnSame
<1> QED  BY <1>4, <1>5, <1>6, <1>7

(* Thread t lets go of a fiber, and does not touch the queue.              *)
LEMMA OwnDrop ==
    ASSUME IInv, OInv, NEW t \in Threads, UNCHANGED <<m_fibers, submits, eventVars>>,
           pc' = [pc EXCEPT ![t] = "fetch"], ft' = [ft EXCEPT ![t] = NoItem],
           cb_fiber' = cb_fiber \/ cb_fiber' = [cb_fiber EXCEPT ![t] = Null],
           \A f \in Tasks \ {Hand(t)} : m_state'[f] = m_state[f] /\ at'[f] = at[f],
           pc[t] \in Handling,
           cb_fiber'[t] = Hand(t) => Hand(t) \notin waiting \/ Hand(t) \in overtaken
    PROVE  OInv'
<1>1. /\ ft \in [Threads -> Items] /\ cb_fiber \in [Threads -> Tasks \cup {Null}] /\ pc \in [Threads -> Points]
      /\ Null \notin Tasks /\ Hand(t) \in Tasks
  BY TasksAssumption DEF IInv, TypeOK, LocalTypeOK, HandOK
<1>2. ft'[t].fiber = Null /\ ft'[t].cb = Null /\ ft'[t] = NoItem  BY <1>1 DEF NoItem
<1>3. \A u \in Threads \ {t} : pc'[u] = pc[u] /\ ft'[u] = ft[u] /\ cb_fiber'[u] = cb_fiber[u]
  BY <1>1
<1>4. cb_fiber'[t] \in {cb_fiber[t], Null}  BY <1>1
<1>5. \A u \in Threads, f \in Tasks : Held(u, f)' => Held(u, f)
  BY <1>1, <1>2, <1>3, <1>4 DEF Held
<1>6. \A u \in Threads, c \in Tasks : ft'[u].cb = c => ft[u].cb = c
  BY <1>1, <1>2, <1>3
<1>7. \A x : (Queued(x)' <=> Queued(x)) /\ (CbQueued(x)' <=> CbQueued(x))  BY DEF Queued, CbQueued
<1>8. \A u \in Threads : LocalOK(u)'
  BY <1>1, <1>2, <1>3 DEF OInv, LocalOK, OneOf, Handling
<1>9. ASSUME NEW c \in Callbacks PROVE CallOK(c)'
  <2>1. c \in Tasks /\ CallOK(c)  BY DEF OInv, Tasks
  <2> QED  BY <1>6, <1>7, <2>1 DEF CallOK, CbTaken, OneCbEntry
<1>10. ASSUME NEW f \in Tasks \ overtaken PROVE OwnedOK(f)'
  <2>1. OwnedOK(f)  BY DEF OInv
  <2>2. OneEntry(f)' /\ OneHolder(f)'  BY <1>5, <2>1 DEF OwnedOK, OneEntry, OneHolder
  <2>3. \A u \in Threads : ft'[u].fiber = f => cb_fiber'[u] # f
    BY <1>1, <1>2, <1>3, <2>1 DEF OwnedOK
  <2>4. Queued(f)' => f \notin waiting' /\ \A u \in Threads : ~Held(u, f)'
    BY <1>5, <1>7, <2>1 DEF OwnedOK
  <2>5. WaitsOnly(f)'
    <3> SUFFICES ASSUME NEW u \in Threads, Held(u, f)', f \in waiting
                 PROVE  /\ pc'[u] \in Handling /\ Hand(u)' = f
                        /\ pc'[u] = "run" => at'[f] = "armed"
                        /\ pc'[u] \in {"leave", "back", "settle"} => m_state'[f] = "HOLD"
      BY DEF WaitsOnly
    <3>1. Held(u, f)  BY <1>5
    <3>2. /\ pc[u] \in Handling /\ Hand(u) = f
          /\ pc[u] = "run" => at[f] = "armed"
          /\ pc[u] \in {"leave", "back", "settle"} => m_state[f] = "HOLD"
      BY <2>1, <3>1 DEF OwnedOK, WaitsOnly
    <3>3. u # t
      <4>1. u = t => cb_fiber'[t] = f  BY <1>1, <1>2 DEF Held
      <4> QED  BY <3>2, <4>1
    <3>4. Hand(t) # f
      <4>1. Held(t, Hand(t))  BY DEF Held, Hand
      <4> QED  BY <2>1, <3>1, <3>3, <4>1 DEF OwnedOK, OneHolder
    <3> QED  BY <1>3, <3>2, <3>3, <3>4 DEF Hand
  <2>6. submits'[f] = 0 \/ CbQueued(f)' \/ CbTaken(f)' => Away(f)'
    BY <1>5, <1>6, <1>7, <2>1 DEF OwnedOK, Away, CbTaken
  <2> QED  BY <2>2, <2>3, <2>4, <2>5, <2>6 DEF OwnedOK
<1>11. \A i \in DOMAIN m_fibers' : OneOf(m_fibers'[i])  BY DEF OInv, OneOf
<1> QED  BY <1>8, <1>9, <1>10, <1>11 DEF OInv

(* Only callbacks are held as callbacks.                                   *)
LEMMA CbOnly ==
    ASSUME OInv, NEW f \in UserFibers
    PROVE  ~CbQueued(f) /\ ~CbTaken(f)
<1>1. f \notin Callbacks /\ f # Null  BY TasksAssumption DEF Tasks
<1>2. ~CbQueued(f)  BY <1>1 DEF OInv, OneOf, CbQueued
<1>3. ASSUME NEW t \in Threads PROVE ft[t].cb # f
  <2>1. LocalOK(t)  BY DEF OInv
  <2>2. CASE pc[t] = "dispatch"  BY <1>1, <2>1, <2>2 DEF LocalOK, OneOf
  <2>3. CASE pc[t] \in Handling  BY <1>1, <2>1, <2>3 DEF LocalOK
  <2>4. CASE pc[t] \notin {"dispatch"} \cup Handling
    <3>1. ft[t].cb = Null  BY <2>1, <2>4 DEF LocalOK, NoItem
    <3> QED  BY <1>1, <3>1
  <2> QED  BY <2>2, <2>3, <2>4
<1> QED  BY <1>2, <1>3 DEF CbTaken

(* Tasks are scheduled for the first time.                                 *)
LEMMA OwnSubmit ==
    ASSUME Orderly, IInv, OInv, NEW x \in Tasks, NEW thread \in Threads \cup {AnyThread},
           Submit(x, thread), UNCHANGED <<m_state, at, pc, ft, cb_fiber, eventVars>>
    PROVE  OInv'
<1> DEFINE item == ItemOf(x, thread)
<1>1. /\ item \in Items /\ OneOf(item) /\ x # Null /\ (x \in Callbacks <=> x \notin UserFibers)
      /\ item.fiber = IF x \in UserFibers THEN x ELSE Null
      /\ item.cb = IF x \in UserFibers THEN Null ELSE x
  BY ItemOfTask
<1>2. /\ submits[x] = 0 /\ submits' = [submits EXCEPT ![x] = @ + 1] /\ submits \in [Tasks -> Nat]
      /\ m_fibers' = Append(m_fibers, item) /\ TypeOK
  BY FirstTime DEF Submit, scheduleNoLock, IInv, TypeOK, UserTypeOK
<1> HIDE DEF item
<1>3. submits'[x] # 0 /\ \A y \in Tasks \ {x} : submits'[y] = submits[y]  BY <1>2
<1>4. \A y : /\ Queued(y)' <=> Queued(y) \/ item.fiber = y
             /\ CbQueued(y)' <=> CbQueued(y) \/ item.cb = y
             /\ OneEntry(y) /\ (item.fiber = y => ~Queued(y)) => OneEntry(y)'
             /\ OneCbEntry(y) /\ (item.cb = y => ~CbQueued(y)) => OneCbEntry(y)'
  BY <1>1, <1>2, OneAppended
<1>5. \A i \in DOMAIN m_fibers' : OneOf(m_fibers'[i])
  BY <1>1, <1>2, OneAppended DEF OInv
<1>6. \A y \in Tasks : y # Null  BY TasksAssumption
<1>7. \A u, y : Held(u, y)' <=> Held(u, y)  BY DEF Held
<1>8. \A y : CbTaken(y)' <=> CbTaken(y)  BY DEF CbTaken
<1>9. \A u \in Threads : LocalOK(u)'  BY DEF OInv, LocalOK, OneOf
<1>10. ASSUME NEW c \in Callbacks PROVE CallOK(c)'
  <2>1. c \in Tasks /\ CallOK(c)  BY DEF OInv, Tasks
  <2> QED  BY <1>1, <1>2, <1>3, <1>4, <1>6, <1>8, <2>1 DEF CallOK
<1>11. ASSUME NEW f \in Tasks \ overtaken PROVE OwnedOK(f)'
  <2>1. OwnedOK(f)  BY DEF OInv
  <2>2. f = x => Away(f)  BY <1>2, <2>1 DEF OwnedOK
  <2>3. OneEntry(f)' /\ OneHolder(f)' /\ \A u \in Threads : ft'[u].fiber = f => cb_fiber'[u] # f
    BY <1>1, <1>4, <1>6, <1>7, <2>1, <2>2 DEF OwnedOK, Away, OneHolder
  <2>4. Queued(f)' => f \notin waiting' /\ \A u \in Threads : ~Held(u, f)'
    BY <1>1, <1>4, <1>6, <1>7, <2>1, <2>2 DEF OwnedOK, Away
  <2>5. WaitsOnly(f)'  BY <1>7, <2>1 DEF OwnedOK, WaitsOnly, Hand
  <2>6. submits'[f] = 0 \/ CbQueued(f)' \/ CbTaken(f)' => Away(f)'
    <3>1. CASE f # x
      <4>1. item.fiber # f /\ item.cb # f  BY <1>1, <1>6, <3>1
      <4> QED  BY <1>3, <1>4, <1>7, <1>8, <2>1, <3>1, <4>1 DEF OwnedOK, Away
    <3>2. CASE f = x /\ f \in Callbacks
      <4>1. item.fiber # f  BY <1>1, <1>6, <3>2
      <4> QED  BY <1>4, <1>7, <2>2, <3>2, <4>1 DEF Away
    <3>3. CASE f = x /\ f \in UserFibers
      <4>1. item.cb # f /\ ~CbQueued(f) /\ ~CbTaken(f)  BY <1>1, <1>6, <3>3, CbOnly
      <4> QED  BY <1>3, <1>4, <1>8, <3>3, <4>1
    <3> QED  BY <3>1, <3>2, <3>3 DEF Tasks
  <2> QED  BY <2>3, <2>4, <2>5, <2>6 DEF OwnedOK
<1> QED  BY <1>5, <1>9, <1>10, <1>11 DEF OInv

(* The batch is two of them, with nothing in between.                      *)
LEMMA OwnBatch ==
    ASSUME Orderly, IInv, OInv, NEW x \in Tasks, NEW y \in Tasks, MainScheduleBatch(x, y)
    PROVE  OInv'
<1> DEFINE a == ItemOf(x, AnyThread)
           b == ItemOf(y, AnyThread)
           q == Append(m_fibers, a)
<1>1. /\ a \in Items /\ OneOf(a) /\ x # Null /\ (x \in Callbacks <=> x \notin UserFibers)
      /\ a.fiber = (IF x \in UserFibers THEN x ELSE Null)
      /\ a.cb = (IF x \in UserFibers THEN Null ELSE x)
      /\ b \in Items /\ OneOf(b) /\ y # Null /\ (y \in Callbacks <=> y \notin UserFibers)
      /\ b.fiber = (IF y \in UserFibers THEN y ELSE Null)
      /\ b.cb = (IF y \in UserFibers THEN Null ELSE y)
  BY ItemOfTask
<1>2. /\ submits[x] = 0 /\ submits[y] = 0 /\ x # y /\ submits \in [Tasks -> Nat]
      /\ submits' = [submits EXCEPT ![x] = @ + 1, ![y] = @ + 1]
      /\ m_fibers' = Append(q, b) /\ m_fibers \in Seq(Items)
      /\ UNCHANGED <<m_state, at, pc, ft, cb_fiber, eventVars>>
  BY FirstTime DEF MainScheduleBatch, scheduleNoLock, IInv, TypeOK, UserTypeOK, QueueTypeOK, fiberVars, localVars
<1>3. submits'[x] # 0 /\ submits'[y] # 0 /\ \A z \in Tasks \ {x, y} : submits'[z] = submits[z]  BY <1>2
<1>4. /\ \A j \in DOMAIN q : \/ j \in DOMAIN m_fibers /\ q[j] = m_fibers[j]
                             \/ j \notin DOMAIN m_fibers /\ j = Len(m_fibers) + 1 /\ q[j] = a
      /\ \A j \in DOMAIN m_fibers : j \in DOMAIN q /\ q[j] = m_fibers[j]
      /\ \E j \in DOMAIN q : q[j] = a
      /\ q \in Seq(Items)
  BY <1>1, <1>2, Appended, AppendType
<1> HIDE DEF q
<1>5a. m_fibers' = Append(q, b) /\ b \in Items /\ q \in Seq(Items)  BY <1>1, <1>2, <1>4
<1> HIDE DEF b
<1>5. /\ \A j \in DOMAIN m_fibers' : \/ j \in DOMAIN q /\ m_fibers'[j] = q[j]
                                     \/ j \notin DOMAIN q /\ j = Len(q) + 1 /\ m_fibers'[j] = b
      /\ \A j \in DOMAIN q : j \in DOMAIN m_fibers' /\ m_fibers'[j] = q[j]
      /\ \E j \in DOMAIN m_fibers' : m_fibers'[j] = b
  BY <1>5a, Appended
<1> HIDE DEF a
<1>6. \A j \in DOMAIN m_fibers' :
          \/ j \in DOMAIN m_fibers /\ m_fibers'[j] = m_fibers[j]
          \/ j \notin DOMAIN m_fibers /\ j = Len(m_fibers) + 1 /\ m_fibers'[j] = a
          \/ j \notin DOMAIN m_fibers /\ j = Len(q) + 1 /\ m_fibers'[j] = b
  BY <1>4, <1>5
<1>7. \A z : /\ Queued(z)' <=> Queued(z) \/ a.fiber = z \/ b.fiber = z
             /\ CbQueued(z)' <=> CbQueued(z) \/ a.cb = z \/ b.cb = z
  BY <1>4, <1>5, <1>6 DEF Queued, CbQueued
<1>8. \A z \in Tasks : z # Null  BY TasksAssumption
<1>9. ASSUME NEW z \in Tasks, OneEntry(z), z \in {x, y} => ~Queued(z) PROVE OneEntry(z)'
  BY <1>1, <1>2, <1>6, <1>8, <1>9 DEF OneEntry, Queued
<1>10. ASSUME NEW z \in Tasks, OneCbEntry(z), z \in {x, y} => ~CbQueued(z) PROVE OneCbEntry(z)'
  BY <1>1, <1>2, <1>6, <1>8, <1>10 DEF OneCbEntry, CbQueued
<1>11. \A i \in DOMAIN m_fibers' : OneOf(m_fibers'[i])
  BY <1>1, <1>6 DEF OInv
<1>12. \A u, z : Held(u, z)' <=> Held(u, z)  BY <1>2 DEF Held
<1>13. \A z : CbTaken(z)' <=> CbTaken(z)  BY <1>2 DEF CbTaken
<1>14. \A u \in Threads : LocalOK(u)'  BY <1>2 DEF OInv, LocalOK, OneOf
<1>15. ASSUME NEW c \in Callbacks PROVE CallOK(c)'
  <2>1. c \in Tasks /\ CallOK(c)  BY DEF OInv, Tasks
  <2>2. OneCbEntry(c)'  BY <1>2, <1>10, <2>1 DEF CallOK
  <2> QED  BY <1>1, <1>2, <1>3, <1>7, <1>8, <1>13, <2>1, <2>2 DEF CallOK, CbTaken
<1>16. ASSUME NEW f \in Tasks \ overtaken PROVE OwnedOK(f)'
  <2>1. OwnedOK(f)  BY DEF OInv
  <2>2. f \in {x, y} => Away(f)  BY <1>2, <2>1 DEF OwnedOK
  <2>3. OneEntry(f)'  BY <1>9, <2>1, <2>2 DEF OwnedOK, Away
  <2>4. OneHolder(f)' /\ \A u \in Threads : ft'[u].fiber = f => cb_fiber'[u] # f
    BY <1>2, <1>12, <2>1 DEF OwnedOK, OneHolder
  <2>5. Queued(f)' => f \notin waiting' /\ \A u \in Threads : ~Held(u, f)'
    BY <1>1, <1>2, <1>7, <1>8, <1>12, <2>1, <2>2 DEF OwnedOK, Away
  <2>6. WaitsOnly(f)'  BY <1>2, <1>12, <2>1 DEF OwnedOK, WaitsOnly, Hand
  <2>7. submits'[f] = 0 \/ CbQueued(f)' \/ CbTaken(f)' => Away(f)'
    <3>1. CASE f \notin {x, y}
      <4>1. a.fiber # f /\ a.cb # f /\ b.fiber # f /\ b.cb # f  BY <1>1, <1>8, <3>1
      <4> QED  BY <1>2, <1>3, <1>7, <1>12, <1>13, <2>1, <3>1, <4>1 DEF OwnedOK, Away
    <3>2. CASE f \in {x, y} /\ f \in Callbacks
      <4>1. a.fiber # f /\ b.fiber # f  BY <1>1, <1>8, <3>2
      <4> QED  BY <1>2, <1>7, <1>12, <2>2, <3>2, <4>1 DEF Away
    <3>3. CASE f \in {x, y} /\ f \in UserFibers
      <4>1. f \notin Callbacks  BY <3>3, TasksAssumption
      <4>2. a.cb # f /\ b.cb # f  BY <1>1, <1>8, <3>3, <4>1
      <4>3. ~CbQueued(f) /\ ~CbTaken(f)  BY <3>3, CbOnly
      <4> QED  BY <1>3, <1>7, <1>13, <3>3, <4>2, <4>3
    <3> QED  BY <3>1, <3>2, <3>3 DEF Tasks
  <2> QED  BY <2>3, <2>4, <2>5, <2>6, <2>7 DEF OwnedOK
<1> QED  BY <1>2, <1>11, <1>14, <1>15, <1>16 DEF OInv

(* An event reschedules a fiber: one that nobody holds, or it counts as    *)
(* overtaken.                                                              *)
LEMMA OwnFire == ASSUME IInv, OInv, NEW f \in Tasks, Fire(f) PROVE OInv'
<1>1. /\ f \in waiting /\ waiting' = waiting \ {f} /\ f # Null
      /\ overtaken' = IF InHand(f) THEN overtaken \cup {f} ELSE overtaken
      /\ UNCHANGED <<m_state, at, pc, ft, cb_fiber, submits>>
      /\ m_fibers' = Append(m_fibers, FiberItem(f, AnyThread)) /\ TypeOK
  BY TasksAssumption DEF Fire, fiberVars, localVars, scheduleNoLock, IInv
<1> DEFINE item == FiberItem(f, AnyThread)
<1>2. item \in Items /\ OneOf(item) /\ item.fiber = f /\ item.cb = Null
  BY ItemTypes DEF FiberItem, OneOf
<1> HIDE DEF item
<1>3. \A y : /\ Queued(y)' <=> Queued(y) \/ item.fiber = y
             /\ CbQueued(y)' <=> CbQueued(y) \/ item.cb = y
             /\ OneEntry(y) /\ (item.fiber = y => ~Queued(y)) => OneEntry(y)'
             /\ OneCbEntry(y) /\ (item.cb = y => ~CbQueued(y)) => OneCbEntry(y)'
  BY <1>1, <1>2, OneAppended DEF item
<1>4. \A i \in DOMAIN m_fibers' : OneOf(m_fibers'[i])
  BY <1>1, <1>2, OneAppended DEF OInv, item
<1>5. \A y \in Tasks : y # Null  BY TasksAssumption
<1>6. \A u, y : Held(u, y)' <=> Held(u, y)  BY <1>1 DEF Held
<1>7. \A y : CbTaken(y)' <=> CbTaken(y)  BY <1>1 DEF CbTaken
<1>8. \A u \in Threads : LocalOK(u)'  BY <1>1 DEF OInv, LocalOK, OneOf
<1>9. ASSUME NEW c \in Callbacks PROVE CallOK(c)'
  <2>1. c \in Tasks /\ CallOK(c)  BY DEF OInv, Tasks
  <2> QED  BY <1>1, <1>2, <1>3, <1>5, <1>7, <2>1 DEF CallOK
<1>10. ASSUME NEW g \in Tasks \ overtaken' PROVE OwnedOK(g)'
  <2>1. OwnedOK(g) /\ g \notin overtaken  BY <1>1 DEF OInv
  <2>2. g = f => ~Queued(g) /\ \A u \in Threads : ~Held(u, g)
    <3>1. SUFFICES ASSUME g = f PROVE ~Queued(g) /\ \A u \in Threads : ~Held(u, g)  OBVIOUS
    <3>2. ~InHand(f)  BY <1>1, <3>1
    <3> QED  BY <1>1, <2>1, <3>1, <3>2 DEF OwnedOK, WaitsOnly, InHand
  <2>3. OneEntry(g)'  BY <1>2, <1>3, <2>1, <2>2 DEF OwnedOK
  <2>4. OneHolder(g)' /\ \A u \in Threads : ft'[u].fiber = g => cb_fiber'[u] # g
    BY <1>1, <1>6, <2>1 DEF OwnedOK, OneHolder
  <2>5. Queued(g)' => g \notin waiting' /\ \A u \in Threads : ~Held(u, g)'
    BY <1>1, <1>2, <1>3, <1>6, <2>1, <2>2 DEF OwnedOK
  <2>6. WaitsOnly(g)'  BY <1>1, <1>6, <2>1 DEF OwnedOK, WaitsOnly, Hand
  <2>7. submits'[g] = 0 \/ CbQueued(g)' \/ CbTaken(g)' => Away(g)'
    BY <1>1, <1>2, <1>3, <1>5, <1>6, <1>7, <2>1 DEF OwnedOK, Away
  <2> QED  BY <2>3, <2>4, <2>5, <2>6, <2>7 DEF OwnedOK
<1> QED  BY <1>4, <1>8, <1>9, <1>10 DEF OInv

(* The thread takes a task out of the queue.                               *)
LEMMA OwnFetch == ASSUME IInv, OInv, NEW t \in Threads, Fetch(t) PROVE OInv'
<1>1. PICK i \in DOMAIN m_fibers :
        /\ ft' = [ft EXCEPT ![t] = m_fibers[i]] /\ m_fibers' = RemoveAt(m_fibers, i)
        /\ pc' = [pc EXCEPT ![t] = "dispatch"] /\ pc[t] = "fetch"
        /\ UNCHANGED <<m_state, at, cb_fiber, submits, eventVars>>
  BY DEF Fetch, fiberVars, userVars
<1>2. ft \in [Threads -> Items] /\ pc \in [Threads -> Points] /\ TypeOK  BY DEF IInv, TypeOK, LocalTypeOK
<1>3. PICK item : item = m_fibers[i]  OBVIOUS
<1>4. OneOf(item) /\ ft'[t] = item /\ ft[t] = NoItem /\ ft[t].fiber = Null /\ ft[t].cb = Null
  BY <1>1, <1>2, <1>3 DEF OInv, LocalOK, Handling, NoItem
<1>5. \A u \in Threads \ {t} : ft'[u] = ft[u] /\ pc'[u] = pc[u]  BY <1>1, <1>2
<1>6. \A y : /\ Queued(y)' => Queued(y)
             /\ CbQueued(y)' => CbQueued(y)
             /\ OneEntry(y) => OneEntry(y)' /\ (item.fiber = y => ~Queued(y)')
             /\ OneCbEntry(y) => OneCbEntry(y)' /\ (item.cb = y => ~CbQueued(y)')
  BY <1>1, <1>2, <1>3, OneErased
<1>7. \A k \in DOMAIN m_fibers' : OneOf(m_fibers'[k])  BY <1>1, <1>2, OneErased DEF OInv
<1>8. \A y \in Tasks : y # Null  BY TasksAssumption
<1>9. \A u \in Threads, y \in Tasks : Held(u, y)' <=> Held(u, y) \/ (u = t /\ item.fiber = y)
  BY <1>1, <1>4, <1>5, <1>8 DEF Held
<1>10. \A u \in Threads, y \in Tasks : ft'[u].cb = y <=> ft[u].cb = y \/ (u = t /\ item.cb = y)
  BY <1>4, <1>5, <1>8
<1>11. \A y : (item.fiber = y => Queued(y)) /\ (item.cb = y => CbQueued(y))
  BY <1>3 DEF Queued, CbQueued
<1>12. \A u \in Threads : LocalOK(u)'
  BY <1>1, <1>2, <1>4, <1>5 DEF OInv, LocalOK, OneOf, Handling
<1>13. ASSUME NEW c \in Callbacks PROVE CallOK(c)'
  <2>1. c \in Tasks /\ CallOK(c)  BY DEF OInv, Tasks
  <2>2. OneCbEntry(c)'  BY <1>6, <2>1 DEF CallOK
  <2>3. ~(CbQueued(c)' /\ CbTaken(c)')
    BY <1>6, <1>10, <2>1 DEF CallOK, CbTaken
  <2>4. \A u, v \in Threads : ft'[u].cb = c /\ ft'[v].cb = c => u = v
    BY <1>10, <1>11, <2>1 DEF CallOK, CbTaken
  <2>5. submits'[c] = 0 => ~CbQueued(c)' /\ ~CbTaken(c)'
    BY <1>1, <1>6, <1>10, <1>11, <2>1 DEF CallOK, CbTaken
  <2> QED  BY <2>2, <2>3, <2>4, <2>5 DEF CallOK
<1>14. ASSUME NEW f \in Tasks \ overtaken PROVE OwnedOK(f)'
  <2>1. OwnedOK(f)  BY DEF OInv
  <2>2. OneEntry(f)'  BY <1>6, <2>1 DEF OwnedOK
  <2>3. OneHolder(f)'
    BY <1>9, <1>11, <2>1 DEF OwnedOK, OneHolder
  <2>4. \A u \in Threads : ft'[u].fiber = f => cb_fiber'[u] # f
    BY <1>1, <1>4, <1>5, <1>11, <2>1 DEF OwnedOK, Held
  <2>5. Queued(f)' => f \notin waiting' /\ \A u \in Threads : ~Held(u, f)'
    BY <1>1, <1>6, <1>9, <2>1 DEF OwnedOK
  <2>6. WaitsOnly(f)'
    <3>1. item.fiber = f => f \notin waiting  BY <1>11, <2>1 DEF OwnedOK
    <3>2. f \in waiting => ~Held(t, f)
      BY <1>1, <2>1 DEF OwnedOK, WaitsOnly, Handling
    <3> QED  BY <1>1, <1>5, <1>9, <2>1, <3>1, <3>2 DEF OwnedOK, WaitsOnly, Hand
  <2>7. submits'[f] = 0 \/ CbQueued(f)' \/ CbTaken(f)' => Away(f)'
    BY <1>1, <1>6, <1>9, <1>10, <1>11, <2>1 DEF OwnedOK, Away, CbTaken
  <2> QED  BY <2>2, <2>3, <2>4, <2>5, <2>6, <2>7 DEF OwnedOK
<1> QED  BY <1>1, <1>7, <1>12, <1>13, <1>14 DEF OInv

(* A callback is swapped in, by the spare fiber or a new one.              *)
LEMMA OwnRunCb == ASSUME IInv, OInv, NEW t \in Threads, RunCb(t) PROVE OInv'
<1>1. /\ ft \in [Threads -> Items] /\ pc \in [Threads -> Points] /\ cb_fiber \in [Threads -> Tasks \cup {Null}]
      /\ m_state \in [Tasks -> States] /\ at \in [Tasks -> Places]
  BY DEF IInv, TypeOK, LocalTypeOK, FiberTypeOK
<1>2. \A y \in Tasks : y # Null  BY TasksAssumption
<1>3. PICK c : c = ft[t].cb  OBVIOUS
<1>4. PICK g : g = IF cb_fiber[t] = Null THEN c ELSE cb_fiber[t]  OBVIOUS
<1>5. pc[t] = "dispatch" /\ c # Null /\ OneOf(ft[t]) /\ LocalOK(t)
  BY <1>3 DEF RunCb, OInv, LocalOK
<1>6. c \in Callbacks /\ c \in Tasks /\ ft[t].fiber = Null /\ g \in Tasks
  BY <1>1, <1>3, <1>4, <1>5 DEF OneOf, Tasks
<1>7. CASE pc' = pc
  <2>1. UNCHANGED <<m_state, at, ft, cb_fiber, m_fibers, submits, eventVars>>
    <3>1. pc' # [pc EXCEPT ![t] = "run"]  BY <1>1, <1>5, <1>7
    <3> QED  BY <3>1 DEF RunCb, fiberVars, queueVars
  <2>2. \A u \in Threads : LocalOK(u)'  BY <1>7, <2>1 DEF OInv, LocalOK, OneOf
  <2>3. \A f \in Tasks \ overtaken : WaitsOnly(f)'
    BY <1>7, <2>1 DEF OInv, OwnedOK, WaitsOnly, Held, Hand
  <2> QED  BY <2>1, <2>2, <2>3, OwnSame
<1>8. CASE pc' # pc
  <2>1. /\ pc' = [pc EXCEPT ![t] = "run"] /\ ft' = [ft EXCEPT ![t] = NoItem]
        /\ cb_fiber' = [cb_fiber EXCEPT ![t] = g]
        /\ m_state' = [m_state EXCEPT ![g] = "EXEC"] /\ at' = [at EXCEPT ![g] = "body"]
        /\ UNCHANGED <<m_fibers, submits, eventVars>>
    BY <1>3, <1>4, <1>8 DEF RunCb, fiberVars, queueVars
  <2>2. ft'[t].fiber = Null /\ ft'[t].cb = Null /\ cb_fiber'[t] = g /\ pc'[t] = "run"
    BY <1>1, <2>1 DEF NoItem
  <2>3. \A u \in Threads \ {t} : pc'[u] = pc[u] /\ ft'[u] = ft[u] /\ cb_fiber'[u] = cb_fiber[u]
    BY <1>1, <2>1
  <2>4. \A y : (Queued(y)' <=> Queued(y)) /\ (CbQueued(y)' <=> CbQueued(y))
               /\ (OneEntry(y)' <=> OneEntry(y)) /\ (OneCbEntry(y)' <=> OneCbEntry(y))
    BY <2>1 DEF Queued, CbQueued, OneEntry, OneCbEntry
  <2>5. \A y \in Tasks : (Held(t, y)' <=> g = y) /\ (Held(t, y) <=> cb_fiber[t] = y)
    BY <1>2, <1>6, <2>2 DEF Held
  <2>6. \A u \in Threads \ {t} : \A y : Held(u, y)' <=> Held(u, y)  BY <2>3 DEF Held
  <2>7. \A u \in Threads, y \in Tasks : ft'[u].cb = y <=> ft[u].cb = y /\ u # t
    BY <1>2, <2>2, <2>3
  <2>8. \A u \in Threads : LocalOK(u)'
    BY <2>2, <2>3 DEF OInv, LocalOK, OneOf, Handling
  <2>9. ASSUME NEW d \in Callbacks PROVE CallOK(d)'
    <3>1. d \in Tasks /\ CallOK(d)  BY DEF OInv, Tasks
    <3> QED  BY <2>1, <2>4, <2>7, <3>1 DEF CallOK, CbTaken
  <2>10. ~CbQueued(c) /\ ~CbTaken(c)' /\ submits[c] # 0
    <3>1. CallOK(c) /\ CbTaken(c)  BY <1>3, <1>6 DEF OInv, CbTaken
    <3>2. ~CbTaken(c)'  BY <1>3, <1>6, <2>7, <3>1 DEF CallOK, CbTaken
    <3> QED  BY <3>1, <3>2 DEF CallOK
  <2>11. ASSUME NEW f \in Tasks \ overtaken PROVE OwnedOK(f)'
    <3>1. OwnedOK(f)  BY DEF OInv
    <3>2. CASE g = f
      <4>1. ~Queued(f) /\ f \notin waiting /\ \A u \in Threads \ {t} : ~Held(u, f)
        <5>1. CASE cb_fiber[t] = f
          <6>1. Held(t, f) /\ pc[t] \notin Handling  BY <1>5, <5>1 DEF Held, Handling
          <6> QED  BY <3>1, <6>1 DEF OwnedOK, OneHolder, WaitsOnly
        <5>2. CASE cb_fiber[t] # f
          <6>1. f = c /\ CbTaken(f)  BY <1>3, <1>4, <3>2, <5>2 DEF CbTaken
          <6> QED  BY <3>1, <6>1 DEF OwnedOK, Away
        <5> QED  BY <5>1, <5>2
      <4>2. submits[f] # 0 /\ ~CbQueued(f) /\ ~CbTaken(f)'
        <5>1. CASE cb_fiber[t] = f
          <6>1. Held(t, f)  BY <5>1 DEF Held
          <6>2. submits[f] # 0 /\ ~CbQueued(f) /\ ~CbTaken(f)  BY <3>1, <6>1 DEF OwnedOK, Away
          <6> QED  BY <2>7, <6>2 DEF CbTaken
        <5>2. CASE cb_fiber[t] # f
          <6>1. f = c  BY <1>4, <3>2, <5>2
          <6> QED  BY <2>10, <6>1
        <5> QED  BY <5>1, <5>2
      <4>3. OneEntry(f)' /\ OneHolder(f)'
        BY <2>4, <2>6, <3>1, <4>1 DEF OwnedOK, OneHolder
      <4>4. \A u \in Threads : ft'[u].fiber = f => cb_fiber'[u] # f
        BY <1>2, <2>2, <2>3, <3>1 DEF OwnedOK
      <4>5. Queued(f)' => f \notin waiting' /\ \A u \in Threads : ~Held(u, f)'
        BY <2>4, <4>1
      <4>6. WaitsOnly(f)'  BY <2>1, <4>1 DEF WaitsOnly
      <4>7. submits'[f] = 0 \/ CbQueued(f)' \/ CbTaken(f)' => Away(f)'
        BY <2>1, <2>4, <4>2
      <4> QED  BY <4>3, <4>4, <4>5, <4>6, <4>7 DEF OwnedOK
    <3>3. CASE g # f
      <4>1. \A u \in Threads : Held(u, f)' => Held(u, f) /\ u # t
        BY <2>5, <2>6, <3>3
      <4>2. OneEntry(f)' /\ OneHolder(f)'  BY <2>4, <3>1, <4>1 DEF OwnedOK, OneHolder
      <4>3. \A u \in Threads : ft'[u].fiber = f => cb_fiber'[u] # f
        BY <1>2, <2>2, <2>3, <3>1 DEF OwnedOK
      <4>4. Queued(f)' => f \notin waiting' /\ \A u \in Threads : ~Held(u, f)'
        BY <2>1, <2>4, <3>1, <4>1 DEF OwnedOK
      <4>5. m_state'[f] = m_state[f] /\ at'[f] = at[f]  BY <1>1, <2>1, <3>3
      <4>6. WaitsOnly(f)'
        BY <2>1, <2>3, <3>1, <4>1, <4>5 DEF OwnedOK, WaitsOnly, Hand
      <4>7. submits'[f] = 0 \/ CbQueued(f)' \/ CbTaken(f)' => Away(f)'
        BY <2>1, <2>4, <2>7, <3>1, <4>1 DEF OwnedOK, Away, CbTaken
      <4> QED  BY <4>2, <4>3, <4>4, <4>6, <4>7 DEF OwnedOK
    <3> QED  BY <3>2, <3>3
  <2>12. \A i \in DOMAIN m_fibers' : OneOf(m_fibers'[i])  BY <2>1 DEF OInv, OneOf
  <2> QED  BY <2>1, <2>8, <2>9, <2>11, <2>12 DEF OInv
<1> QED  BY <1>7, <1>8

(* Threads move about outside their tasks.                                 *)
LEMMA OwnIdle ==
    ASSUME IInv, OInv, UNCHANGED <<m_state, at, ft, cb_fiber, m_fibers, submits, eventVars>>,
           \A u \in Threads : pc'[u] = pc[u] \/ (pc[u] \notin Working /\ pc'[u] \notin Working)
    PROVE  OInv'
<1>1. \A u \in Threads : LocalOK(u)'
  BY DEF OInv, LocalOK, OneOf, Working
<1>2. ASSUME NEW f \in Tasks \ overtaken PROVE WaitsOnly(f)'
  <2>1. WaitsOnly(f)  BY DEF OInv, OwnedOK
  <2>2. \A u \in Threads : pc[u] \in Handling => pc'[u] = pc[u]  BY DEF Working
  <2> QED  BY <2>1, <2>2 DEF WaitsOnly, Held, Hand
<1> QED  BY <1>1, <1>2, OwnSame

(* A fiber is swapped in.                                                  *)
LEMMA OwnRunFiber == ASSUME IInv, OInv, NEW t \in Threads, RunFiber(t) PROVE OInv'
<1>1. /\ pc[t] = "dispatch" /\ ft[t].fiber # Null /\ LocalOK(t) /\ OneOf(ft[t])
      /\ UNCHANGED <<ft, cb_fiber, m_fibers, submits, eventVars>>
  BY DEF RunFiber, OInv, LocalOK, localVars
<1>2. /\ pc \in [Threads -> Points] /\ m_state \in [Tasks -> States] /\ at \in [Tasks -> Places]
      /\ Hand(t) = ft[t].fiber /\ ft[t].cb = Null
  BY <1>1 DEF IInv, TypeOK, LocalTypeOK, FiberTypeOK, Hand, OneOf
<1>3. \A u \in Threads \ {t} : pc'[u] = pc[u]  BY <1>2 DEF RunFiber
<1>4. \A f \in Tasks \ {Hand(t)} : m_state'[f] = m_state[f] /\ at'[f] = at[f]
  BY <1>2 DEF RunFiber, fiberVars
<1>5. pc'[t] \in {"dispatch", "run"}  BY <1>1, <1>2 DEF RunFiber
<1>6. LocalOK(t)'
  BY <1>1, <1>2, <1>5 DEF LocalOK, Handling, OneOf
<1>7. pc[t] \notin Handling  BY <1>1 DEF Handling
<1> QED  BY <1>1, <1>3, <1>4, <1>6, <1>7, OwnHand

(* A body registers its fiber.                                             *)
LEMMA OwnRegister == ASSUME IInv, OInv, NEW t \in Threads, Register(t) PROVE OInv'
<1> DEFINE h == Hand(t)
<1>1. /\ pc[t] = "run" /\ waiting' = waiting \cup {h} /\ at' = [at EXCEPT ![h] = "armed"]
      /\ UNCHANGED <<m_state, pc, ft, cb_fiber, m_fibers, submits, overtaken>>
  BY DEF Register, CanSuspend, CanStep, InBody, queueVars, localVars
<1>2. h \in Tasks /\ at \in [Tasks -> Places] /\ Held(t, h)
  BY <1>1 DEF IInv, TypeOK, FiberTypeOK, HandOK, Handling, Held, Hand
<1>3. \A u \in Threads : LocalOK(u)'  BY <1>1 DEF OInv, LocalOK, OneOf
<1>4. ASSUME NEW f \in Tasks \ overtaken PROVE WaitsOnly(f)'
  <2>1. OwnedOK(f)  BY DEF OInv
  <2>2. CASE f = h
    <3>1. \A u \in Threads : Held(u, f)' => u = t
      BY <1>1, <1>2, <2>1, <2>2 DEF OwnedOK, OneHolder, Held
    <3>2. pc'[t] = "run" /\ Hand(t)' = f /\ at'[f] = "armed"  BY <1>1, <1>2, <2>2 DEF Hand
    <3> QED  BY <3>1, <3>2 DEF WaitsOnly, Handling
  <2>3. CASE f # h
    <3>1. (f \in waiting' <=> f \in waiting) /\ at'[f] = at[f]  BY <1>1, <1>2, <2>3
    <3> QED  BY <1>1, <2>1, <3>1 DEF OwnedOK, WaitsOnly, Held, Hand
  <2> QED  BY <2>2, <2>3
<1>5. \A f \in Tasks : f \in waiting' => f \in waiting \/ \E u \in Threads : Held(u, f)
  BY <1>1, <1>2
<1> HIDE DEF h
<1> QED  BY <1>1, <1>3, <1>4, <1>5, OwnSame

(* A body ends or suspends itself.                                         *)
LEMMA OwnBody ==
    ASSUME IInv, OInv, NEW t \in Threads,
           Return(t) \/ Throw(t) \/ YieldToReady(t) \/ YieldToHold(t)
    PROVE  OInv'
<1>0. at \in [Tasks -> Places]  BY DEF IInv, TypeOK, FiberTypeOK
<1>1. pc[t] = "run" /\ \A f \in Tasks \ {Hand(t)} : at'[f] = at[f]
  BY <1>0 DEF Return, Throw, YieldToReady, YieldToHold, CanSuspend, CanStep, InBody
<1>2. CASE YieldToHold(t)
  <2>1. GiveUp(t, "HOLD")  BY <1>2 DEF YieldToHold
  <2> QED  BY <1>1, <2>1, OwnGiveUp
<1>3. ASSUME Return(t) \/ Throw(t) \/ YieldToReady(t) PROVE OInv'
  <2>1. at[Hand(t)] = "body"  BY <1>3 DEF Return, Throw, YieldToReady, CanSuspend, CanStep, InBody
  <2>2. PICK s \in {"TERM", "EXCEPT", "READY"} : GiveUp(t, s)
    BY <1>3 DEF Return, Throw, YieldToReady
  <2> QED  BY <1>1, <2>1, <2>2, OwnGiveUp
<1> QED  BY <1>2, <1>3

(* The thread leaves the fiber, counts itself off and tests the state.     *)
LEMMA OwnLeave ==
    ASSUME IInv, OInv, NEW t \in Threads, Leave(t) \/ Back(t) \/ SettleElse(t)
    PROVE  OInv'
<1>1. /\ pc[t] \in {"leave", "back", "settle"} /\ pc'[t] \in {"back", "settle", "hold"}
      /\ \A u \in Threads \ {t} : pc'[u] = pc[u]
      /\ UNCHANGED <<m_state, at, ft, cb_fiber, m_fibers, submits, eventVars>>
  BY DEF Leave, Back, SettleElse, IInv, TypeOK, LocalTypeOK, fiberVars, queueVars, localVars, userVars
<1>2. LocalOK(t)'  BY <1>1 DEF OInv, LocalOK, Handling
<1>3. HandOK /\ pc[t] \in Handling /\ pc'[t] \in Handling /\ pc'[t] # "run"
  BY <1>1 DEF IInv, Handling
<1>4. CASE Hand(t) \in waiting /\ Hand(t) \notin overtaken
  <2>1. Held(t, Hand(t)) /\ WaitsOnly(Hand(t))
    BY <1>3, <1>4 DEF HandOK, Held, Hand, OInv, OwnedOK
  <2>2. m_state[Hand(t)] = "HOLD"  BY <1>1, <1>4, <2>1 DEF WaitsOnly
  <2> QED  BY <1>1, <1>2, <1>3, <2>2, OwnHand
<1>5. CASE Hand(t) \notin waiting
  BY <1>1, <1>2, <1>3, <1>5, OwnHand
<1>6. CASE Hand(t) \in overtaken
  <2>1. \A u \in Threads : LocalOK(u)'  BY <1>1, <1>2 DEF OInv, LocalOK, OneOf
  <2>2. ASSUME NEW f \in Tasks \ overtaken PROVE WaitsOnly(f)'
    <3>1. f # Hand(t) /\ WaitsOnly(f)  BY <1>6 DEF OInv, OwnedOK
    <3> QED  BY <1>1, <3>1 DEF WaitsOnly, Held, Hand
  <2> QED  BY <1>1, <2>1, <2>2, OwnSame
<1> QED  BY <1>4, <1>5, <1>6

(* READY: the fiber goes from the thread into the queue.                   *)
LEMMA OwnSettleReady == ASSUME IInv, OInv, NEW t \in Threads, SettleReady(t) PROVE OInv'
<1> DEFINE item == FiberItem(Hand(t), AnyThread)
<1>1. /\ pc[t] = "settle" /\ m_state[Hand(t)] = "READY"
      /\ m_fibers' = Append(m_fibers, item) /\ cb_fiber' = Released(t)
      /\ ft' = [ft EXCEPT ![t] = NoItem] /\ pc' = [pc EXCEPT ![t] = "fetch"]
      /\ UNCHANGED <<m_state, at, submits, eventVars>>
  BY DEF SettleReady, scheduleNoLock, fiberVars, userVars
<1>2. /\ ft \in [Threads -> Items] /\ cb_fiber \in [Threads -> Tasks \cup {Null}] /\ pc \in [Threads -> Points]
      /\ Null \notin Tasks /\ Hand(t) \in Tasks /\ TypeOK
  BY <1>1, TasksAssumption DEF IInv, TypeOK, LocalTypeOK, HandOK, Handling
<1>3. item \in Items /\ OneOf(item) /\ item.fiber = Hand(t) /\ item.cb = Null
  BY <1>2, ItemTypes DEF FiberItem, OneOf
<1> HIDE DEF item
<1>4. \A y : /\ Queued(y)' <=> Queued(y) \/ item.fiber = y
             /\ CbQueued(y)' <=> CbQueued(y) \/ item.cb = y
             /\ OneEntry(y) /\ (item.fiber = y => ~Queued(y)) => OneEntry(y)'
             /\ OneCbEntry(y) /\ (item.cb = y => ~CbQueued(y)) => OneCbEntry(y)'
  BY <1>1, <1>2, <1>3, OneAppended
<1>5. \A i \in DOMAIN m_fibers' : OneOf(m_fibers'[i])
  BY <1>1, <1>2, <1>3, OneAppended DEF OInv
<1>6. ft'[t].fiber = Null /\ ft'[t].cb = Null /\ ft'[t] = NoItem  BY <1>1, <1>2 DEF NoItem
<1>7. \A u \in Threads \ {t} : pc'[u] = pc[u] /\ ft'[u] = ft[u] /\ cb_fiber'[u] = cb_fiber[u]
  BY <1>1, <1>2 DEF Released
<1>8. cb_fiber'[t] \in {cb_fiber[t], Null} /\ (ft[t].fiber = Null => cb_fiber'[t] = Null)
  BY <1>1, <1>2 DEF Released
<1>9. \A u \in Threads, f \in Tasks : Held(u, f)' => Held(u, f)
  BY <1>2, <1>6, <1>7, <1>8 DEF Held
<1>10. \A u \in Threads, c \in Tasks : ft'[u].cb = c => ft[u].cb = c
  BY <1>2, <1>6, <1>7
<1>11. \A u \in Threads : LocalOK(u)'
  BY <1>1, <1>2, <1>6, <1>7 DEF OInv, LocalOK, OneOf, Handling
<1>12. ASSUME NEW c \in Callbacks PROVE CallOK(c)'
  <2>1. c \in Tasks /\ CallOK(c)  BY DEF OInv, Tasks
  <2> QED  BY <1>1, <1>2, <1>3, <1>4, <1>10, <2>1 DEF CallOK, CbTaken
<1>13. ASSUME NEW f \in Tasks \ overtaken PROVE OwnedOK(f)'
  <2>1. OwnedOK(f)  BY DEF OInv
  <2>2. Held(t, Hand(t))  BY DEF Held, Hand
  <2>3. f = Hand(t) => f \notin waiting /\ \A u \in Threads : ~Held(u, f)'
    <3>1. SUFFICES ASSUME f = Hand(t) PROVE f \notin waiting /\ \A u \in Threads : ~Held(u, f)'  OBVIOUS
    <3>2. f \notin waiting  BY <1>1, <2>1, <2>2, <3>1 DEF OwnedOK, WaitsOnly
    <3>3. ~Held(t, f)'
      <4>1. CASE ft[t].fiber = Null  BY <1>2, <1>6, <1>8, <4>1 DEF Held
      <4>2. CASE ft[t].fiber # Null
        <5>1. cb_fiber[t] # f  BY <2>1, <3>1, <4>2 DEF OwnedOK, Hand
        <5> QED  BY <1>2, <1>6, <1>8, <5>1 DEF Held
      <4> QED  BY <4>1, <4>2
    <3>4. \A u \in Threads \ {t} : ~Held(u, f)'  BY <1>9, <2>1, <2>2, <3>1 DEF OwnedOK, OneHolder
    <3> QED  BY <3>2, <3>3, <3>4
  <2>4. OneEntry(f)'  BY <1>3, <1>4, <2>1, <2>2 DEF OwnedOK
  <2>5. OneHolder(f)'  BY <1>9, <2>1 DEF OwnedOK, OneHolder
  <2>6. \A u \in Threads : ft'[u].fiber = f => cb_fiber'[u] # f
    BY <1>2, <1>6, <1>7, <2>1 DEF OwnedOK
  <2>7. Queued(f)' => f \notin waiting' /\ \A u \in Threads : ~Held(u, f)'
    BY <1>1, <1>3, <1>4, <1>9, <2>1, <2>3 DEF OwnedOK
  <2>8. WaitsOnly(f)'
    <3> SUFFICES ASSUME NEW u \in Threads, Held(u, f)', f \in waiting
                 PROVE  /\ pc'[u] \in Handling /\ Hand(u)' = f
                        /\ pc'[u] = "run" => at'[f] = "armed"
                        /\ pc'[u] \in {"leave", "back", "settle"} => m_state'[f] = "HOLD"
      BY <1>1 DEF WaitsOnly
    <3>1. Held(u, f) /\ f # Hand(t)  BY <1>9, <2>3
    <3>2. /\ pc[u] \in Handling /\ Hand(u) = f
          /\ pc[u] = "run" => at[f] = "armed"
          /\ pc[u] \in {"leave", "back", "settle"} => m_state[f] = "HOLD"
      BY <2>1, <3>1 DEF OwnedOK, WaitsOnly
    <3>3. u # t  BY <3>1, <3>2
    <3> QED  BY <1>1, <1>7, <3>2, <3>3 DEF Hand
  <2>9. submits'[f] = 0 \/ CbQueued(f)' \/ CbTaken(f)' => Away(f)'
    <3>1. submits[f] = 0 \/ CbQueued(f) \/ CbTaken(f) => Away(f)  BY <2>1 DEF OwnedOK
    <3>2. Away(f) => f # Hand(t)  BY <2>2 DEF Away
    <3>3. (CbQueued(f)' => CbQueued(f)) /\ (CbTaken(f)' => CbTaken(f))
      BY <1>2, <1>3, <1>4, <1>10 DEF CbTaken
    <3> QED  BY <1>1, <1>3, <1>4, <1>9, <3>1, <3>2, <3>3 DEF Away
  <2> QED  BY <2>4, <2>5, <2>6, <2>7, <2>8, <2>9 DEF OwnedOK
<1> QED  BY <1>1, <1>5, <1>11, <1>12, <1>13 DEF OInv

(* A finished fiber is dropped or kept as the spare one.                   *)
LEMMA OwnSettleFinished == ASSUME IInv, OInv, NEW t \in Threads, SettleFinished(t) PROVE OInv'
<1>1. /\ pc[t] = "settle" /\ pc[t] \in Handling /\ m_state[Hand(t)] \in Finished
      /\ UNCHANGED <<m_fibers, submits, eventVars, cb_fiber>>
      /\ ft' = [ft EXCEPT ![t] = NoItem] /\ pc' = [pc EXCEPT ![t] = "fetch"]
  BY DEF SettleFinished, queueVars, userVars, Handling
<1>2. m_state \in [Tasks -> States] /\ at \in [Tasks -> Places] /\ Hand(t) \in Tasks
  BY <1>1 DEF IInv, TypeOK, FiberTypeOK, HandOK
<1>3. \A f \in Tasks \ {Hand(t)} : m_state'[f] = m_state[f] /\ at'[f] = at[f]
  BY <1>2 DEF SettleFinished, Hand, fiberVars
<1>4. Hand(t) \notin waiting \/ Hand(t) \in overtaken
  <2>1. SUFFICES ASSUME Hand(t) \in waiting, Hand(t) \notin overtaken PROVE FALSE  OBVIOUS
  <2>2. Held(t, Hand(t)) /\ WaitsOnly(Hand(t))
    BY <1>2, <2>1 DEF Held, Hand, OInv, OwnedOK
  <2>3. m_state[Hand(t)] = "HOLD"  BY <1>1, <2>1, <2>2 DEF WaitsOnly
  <2> QED  BY <1>1, <2>3 DEF Finished
<1> QED  BY <1>1, <1>3, <1>4, OwnDrop

(* HOLD: the fiber belongs to whoever will schedule it.                    *)
LEMMA OwnSetHold == ASSUME IInv, OInv, NEW t \in Threads, SetHold(t) PROVE OInv'
<1>1. /\ pc[t] \in Handling
      /\ UNCHANGED <<m_fibers, submits, eventVars, at>>
      /\ m_state' = [m_state EXCEPT ![Hand(t)] = "HOLD"] /\ cb_fiber' = Released(t)
      /\ ft' = [ft EXCEPT ![t] = NoItem] /\ pc' = [pc EXCEPT ![t] = "fetch"]
  BY DEF SetHold, queueVars, userVars, Handling
<1>2. m_state \in [Tasks -> States] /\ Hand(t) \in Tasks /\ cb_fiber \in [Threads -> Tasks \cup {Null}]
      /\ Null \notin Tasks
  BY <1>1, TasksAssumption DEF IInv, TypeOK, FiberTypeOK, LocalTypeOK, HandOK
<1>3. \A f \in Tasks \ {Hand(t)} : m_state'[f] = m_state[f] /\ at'[f] = at[f]  BY <1>1, <1>2
<1>4. cb_fiber' = cb_fiber \/ cb_fiber' = [cb_fiber EXCEPT ![t] = Null]  BY <1>1 DEF Released
<1>5. ASSUME cb_fiber'[t] = Hand(t) PROVE Hand(t) \in overtaken
  <2>1. ft[t].fiber # Null /\ cb_fiber' = cb_fiber
    BY <1>1, <1>2, <1>5 DEF Released
  <2>2. ft[t].fiber = Hand(t) /\ cb_fiber[t] = Hand(t)  BY <1>5, <2>1 DEF Hand
  <2> QED  BY <1>2, <2>2 DEF OInv, OwnedOK
<1> QED  BY <1>1, <1>3, <1>4, <1>5, OwnDrop

(* start(): the new threads have no task and no spare fiber.               *)
LEMMA OwnStart == ASSUME IInv, OInv, LaidOff, Start PROVE OInv'
<1>1. /\ pc' = [t \in Threads |-> IF t = Caller THEN "main" ELSE "fetch"]
      /\ cb_fiber' = [t \in Threads |-> Null] /\ pc[Caller] = "main" /\ \A w \in Workers : pc[w] = "off"
      /\ UNCHANGED <<m_state, at, ft, m_fibers, submits, eventVars>>
  BY DEF Start, LaidOff, fiberVars, queueVars, userVars
<1>2. \A t \in Threads : ft[t] = NoItem
  BY <1>1 DEF OInv, LocalOK, Threads, Handling
<1>3. \A t \in Threads, f \in Tasks : ~Held(t, f)'
  BY <1>1, <1>2, TasksAssumption DEF Held, NoItem
<1>4. ASSUME NEW c \in Callbacks PROVE CallOK(c)'
  BY <1>1 DEF OInv, CallOK, OneCbEntry, CbQueued, CbTaken
<1>5. \A t \in Threads : LocalOK(t)'  BY <1>1, <1>2 DEF LocalOK, Handling
<1>6. ASSUME NEW f \in Tasks \ overtaken PROVE OwnedOK(f)'
  <2>1. OwnedOK(f)  BY DEF OInv
  <2>2. OneEntry(f)' /\ OneHolder(f)' /\ WaitsOnly(f)'
    BY <1>1, <1>3, <2>1 DEF OwnedOK, OneEntry, OneHolder, WaitsOnly
  <2>3. \A t \in Threads : ft'[t].fiber = f => cb_fiber'[t] # f  BY <1>3 DEF Held
  <2>4. Queued(f)' => f \notin waiting' /\ \A t \in Threads : ~Held(t, f)'
    BY <1>1, <1>3, <2>1 DEF OwnedOK, Queued
  <2>5. submits'[f] = 0 \/ CbQueued(f)' \/ CbTaken(f)' => Away(f)'
    BY <1>1, <1>3, <2>1 DEF OwnedOK, Away, Queued, CbQueued, CbTaken
  <2> QED  BY <2>2, <2>3, <2>4, <2>5 DEF OwnedOK
<1>7. \A i \in DOMAIN m_fibers' : OneOf(m_fibers'[i])  BY <1>1 DEF OInv, OneOf
<1> QED  BY <1>1, <1>4, <1>5, <1>6, <1>7 DEF OInv

(* Initially nobody has anything.                                          *)
LEMMA InitOInv == Init => OInv
<1> SUFFICES ASSUME Init PROVE OInv  OBVIOUS
<1>1. m_fibers = << >> /\ \A f : ~Queued(f) /\ ~CbQueued(f)  BY DEF Init, Queued, CbQueued
<1>2. \A t \in Threads : ft[t] = NoItem /\ cb_fiber[t] = Null /\ pc[t] \in {"main", "off"}
  BY DEF Init
<1>3. \A t \in Threads, f \in Tasks : ~Held(t, f) /\ ft[t].cb # f
  BY <1>2, TasksAssumption DEF Held, NoItem
<1>4. \A t \in Threads : LocalOK(t)  BY <1>2 DEF LocalOK, Handling
<1>5. ASSUME NEW c \in Callbacks PROVE CallOK(c)
  <2>1. c \in Tasks  BY DEF Tasks
  <2> QED  BY <1>1, <1>3, <2>1 DEF CallOK, OneCbEntry, CbTaken
<1>6. ASSUME NEW f \in Tasks PROVE OwnedOK(f)
  <2>1. f \notin waiting /\ OneEntry(f)  BY DEF Init, OneEntry
  <2>2. \A t \in Threads : ft[t].fiber # f  BY <1>3 DEF Held
  <2> QED  BY <1>1, <1>3, <2>1, <2>2 DEF OwnedOK, OneHolder, WaitsOnly, Away
<1>7. \A i \in DOMAIN m_fibers : OneOf(m_fibers[i])  BY DEF Init
<1> QED  BY <1>4, <1>5, <1>6, <1>7 DEF OInv

(* Every step keeps the owners.                                            *)
LEMMA NextOInv == ASSUME Orderly, IInv, OInv, LaidOff, [Next]_vars PROVE OInv'
<1>0. pc \in [Threads -> Points]  BY DEF IInv, TypeOK, LocalTypeOK
<1>1. CASE UNCHANGED vars
  BY <1>1, OwnIdle DEF vars, fiberVars, queueVars, localVars, userVars
<1>2. CASE EventStep
  BY <1>2, OwnFire DEF EventStep
<1>3. ASSUME NEW t \in Threads, RunStep(t) PROVE OInv'
  <2>1. CASE NoTask(t) \/ Exit(t) \/ Idle(t)
    <3>1. UNCHANGED <<m_state, at, m_fibers, ft, cb_fiber, submits, eventVars>>
      BY <2>1 DEF NoTask, Exit, Idle, fiberVars, queueVars, localVars, userVars
    <3>2. pc[t] \notin Working /\ pc'[t] \notin Working /\ \A u \in Threads \ {t} : pc'[u] = pc[u]
      BY <1>0, <2>1 DEF NoTask, Exit, Idle, Working, Handling
    <3> QED  BY <3>1, <3>2, OwnIdle
  <2>2. CASE \E x \in Tasks : Spawn(t, x)
    <3>1. PICK x \in Tasks, thread \in {AnyThread, t} :
            Submit(x, thread) /\ UNCHANGED <<m_state, at, pc, ft, cb_fiber, eventVars>>
      BY <2>2 DEF Spawn, fiberVars, localVars
    <3> QED  BY <3>1, OwnSubmit
  <2>3. CASE Fetch(t) \/ RunFiber(t) \/ RunCb(t)
    BY <2>3, OwnFetch, OwnRunFiber, OwnRunCb
  <2>4. CASE Return(t) \/ Throw(t) \/ YieldToReady(t) \/ YieldToHold(t) \/ Register(t)
    BY <2>4, OwnBody, OwnRegister
  <2>5. CASE Leave(t) \/ Back(t) \/ SettleElse(t)
    BY <2>5, OwnLeave
  <2>6. CASE SettleReady(t) \/ SettleFinished(t) \/ SetHold(t)
    BY <2>6, OwnSettleReady, OwnSettleFinished, OwnSetHold
  <2> QED  BY <1>3, <2>1, <2>2, <2>3, <2>4, <2>5, <2>6 DEF RunStep, BodyStep
<1>4. CASE MainStep
  <2>1. CASE \E x \in Tasks : MainSchedule(x)
    <3>1. PICK x \in Tasks, thread \in Pins \cup {AnyThread} :
            Submit(x, thread) /\ UNCHANGED <<m_state, at, pc, ft, cb_fiber, eventVars>>
      BY <2>1 DEF MainSchedule, fiberVars, localVars
    <3> QED  BY <3>1, OwnSubmit, PinsAssumption
  <2>2. CASE \E x, y \in Tasks : MainScheduleBatch(x, y)
    BY <2>2, OwnBatch
  <2>3. CASE Start
    BY <2>3, OwnStart
  <2>4. CASE StopRequest \/ StopNoCall \/ StopCall
    <3>1. UNCHANGED <<m_state, at, m_fibers, ft, cb_fiber, submits, eventVars>>
      BY <2>4 DEF StopRequest, StopNoCall, StopCall, fiberVars, queueVars, localVars, userVars
    <3>2. \A u \in Threads : pc'[u] = pc[u] \/ (pc[u] \notin Working /\ pc'[u] \notin Working)
      BY <1>0, <2>4 DEF StopRequest, StopNoCall, StopCall, Working, Handling
    <3> QED  BY <3>1, <3>2, OwnIdle
  <2>5. CASE Join
    <3>1. UNCHANGED <<m_state, at, m_fibers, ft, cb_fiber, submits, eventVars>>
      BY <2>5 DEF Join, fiberVars, queueVars, localVars, userVars
    <3>2. \A u \in Threads : pc[u] \notin Working /\ pc'[u] \notin Working
      BY <2>5 DEF Join, Working, Handling, Threads
    <3> QED  BY <3>1, <3>2, OwnIdle
  <2> QED  BY <1>4, <2>1, <2>2, <2>3, <2>4, <2>5 DEF MainStep, StopStep, UserStep
<1> QED  BY <1>1, <1>2, <1>3, <1>4 DEF Next, ThreadStep, Terminated

(* Used as Orderly says, a fiber whose wake-ups were not too early has one *)
(* owner: a queue entry, a thread or an event source, for any number of    *)
(* threads, whatever the bodies do, and whatever early wake-ups do to the  *)
(* other fibers.                                                           *)
THEOREM FiberHasOneOwner == ASSUME Orderly PROVE Spec => []SingleOwner
<1> DEFINE I == IInv /\ LaidOff /\ OInv
<1>1. Init => I
  <2>1. Init => LaidOff  BY ThreadsAssumption DEF Init, LaidOff, Threads
  <2> QED  BY <2>1, InitIInv, InitOInv
<1>2. I /\ [Next]_vars => I'
  BY NextIInv, NextLaidOff, NextOInv
<1>3. I => SingleOwner
  <2> SUFFICES ASSUME OInv, NEW f \in Tasks \ overtaken
               PROVE  /\ Cardinality(References(f)) <= 1
                      /\ f \in waiting => \A i \in DOMAIN m_fibers : m_fibers[i].fiber # f
    BY DEF SingleOwner
  <2>1. OwnedOK(f)  BY DEF OInv
  <2>2. ASSUME NEW a \in References(f), NEW b \in References(f) PROVE a = b
    <3>1. \A r \in References(f) :
             \/ \E i \in DOMAIN m_fibers : r = <<"queue", i>> /\ m_fibers[i].fiber = f
             \/ \E t \in Threads : r = <<"hand", t>> /\ Held(t, f)
      BY HandIsHeld DEF References
    <3>2. \A i, j \in DOMAIN m_fibers : m_fibers[i].fiber = f /\ m_fibers[j].fiber = f => i = j
      BY <2>1 DEF OwnedOK, OneEntry
    <3>3. \A t, u \in Threads : Held(t, f) /\ Held(u, f) => t = u
      BY <2>1 DEF OwnedOK, OneHolder
    <3>4. \A i \in DOMAIN m_fibers, t \in Threads : ~(m_fibers[i].fiber = f /\ Held(t, f))
      BY <2>1 DEF OwnedOK, Queued
    <3> QED  BY <3>1, <3>2, <3>3, <3>4
  <2>3. Cardinality(References(f)) <= 1  BY <2>2, AtMostOne
  <2>4. f \in waiting => ~Queued(f)  BY <2>1 DEF OwnedOK
  <2> QED  BY <2>3, <2>4 DEF Queued
<1> HIDE DEF I
<1> QED  BY <1>1, <1>2, <1>3, PTL DEF Spec

-----------------------------------------------------------------------------
(* What becomes of a task                                                  *)

(* Scheduled, and not entered yet.                                         *)
Unbegun(x) ==
    IF x \in Callbacks THEN CbQueued(x) \/ CbTaken(x)
    ELSE at[x] = "entry" /\ (Queued(x) \/ \E t \in Threads : ft[t].fiber = x)

(* A task has been entered exactly when it is not on its way any more.     *)
CountsOK ==
    \A x \in Tasks :
        /\ Unbegun(x) => submits[x] = 1 /\ begun[x] = 0
        /\ ~Unbegun(x) => begun[x] = submits[x]

(* The thread will look for tasks again before stop() returns.             *)
Serving(t) ==
    IF t = Caller THEN UseCaller /\ pc[t] \in {"main", "stop"} \cup InRun
    ELSE pc[t] # "exit" /\ pc[Caller] # "done"

(* A queue entry that stands for a task not entered yet has a thread that  *)
(* will look for it, also when other threads have left run() already.      *)
ServedOK ==
    \A i \in DOMAIN m_fibers :
        m_fibers[i].cb # Null \/ at[m_fibers[i].fiber] = "entry" =>
            \E t \in Threads : Serving(t) /\ m_fibers[i].thread \in {t, AnyThread}

DInv == CountsOK /\ ServedOK

-----------------------------------------------------------------------------
(* Counting                                                                *)

(* A step that enters and schedules nothing.                               *)
LEMMA SameCounts ==
    ASSUME DInv, UNCHANGED <<submits, begun>>, \A x \in Tasks : Unbegun(x)' <=> Unbegun(x)
    PROVE  CountsOK'
BY DEF DInv, CountsOK

(* A fiber that a thread handles has been entered.                         *)
LEMMA HandlingEntered ==
    ASSUME IInv, FInv, NEW t \in Threads, pc[t] \in Handling
    PROVE  /\ at[Hand(t)] # "entry" /\ Hand(t) \in Tasks
           /\ ft[t].cb = Null /\ cb_fiber[t] \in Callbacks \cup {Null}
           /\ ft[t].fiber # Null => ft[t].fiber = Hand(t)
<1>1. ThreadOK(t)  BY DEF FInv
<1>2. at[Hand(t)] # "entry"
  BY <1>1 DEF ThreadOK, InHandOf, Handling
<1> QED  BY <1>1, <1>2 DEF IInv, HandOK, ThreadOK, LocalsOf, Hand

(* A body goes on or gives up, before run() lets go of its fiber.          *)
LEMMA BodyCounts ==
    ASSUME IInv, FInv, FInv', IInv', DInv, NEW t \in Threads, pc[t] \in Handling, pc'[t] \in Handling,
           UNCHANGED <<m_fibers, ft, cb_fiber, submits, begun>>,
           \A x \in Tasks \ {Hand(t)} : at'[x] = at[x]
    PROVE  CountsOK'
<1>1. Hand(t)' = Hand(t)  BY DEF Hand
<1>2. at[Hand(t)] # "entry" /\ Hand(t) \in Tasks
  BY HandlingEntered
<1>3. at'[Hand(t)] # "entry"
  <2>1. ThreadOK(t)'  BY DEF FInv
  <2>2. at'[Hand(t)'] # "entry"
    BY <2>1 DEF ThreadOK, InHandOf, Handling
  <2> QED  BY <1>1, <2>2
<1>4. \A x \in Tasks : Unbegun(x)' <=> Unbegun(x)
  BY <1>2, <1>3 DEF Unbegun, Queued, CbQueued, CbTaken
<1> QED  BY <1>4, SameCounts

(* run() lets go of a fiber: it has been entered.                          *)
LEMMA DropCounts ==
    ASSUME IInv, FInv, DInv, NEW t \in Threads, pc[t] \in Handling,
           ft' = [ft EXCEPT ![t] = NoItem], UNCHANGED <<submits, begun>>,
           \A x \in UserFibers : at'[x] = at[x],
           \A x \in Tasks \ {Hand(t)} : Queued(x)' <=> Queued(x),
           \A c \in Callbacks : CbQueued(c)' <=> CbQueued(c)
    PROVE  CountsOK'
<1>1. /\ at[Hand(t)] # "entry" /\ ft[t].cb = Null /\ \A x \in Tasks : x # Null
      /\ ft[t].fiber # Null => ft[t].fiber = Hand(t)
  BY HandlingEntered, TasksAssumption
<1>2. /\ ft'[t].fiber = Null /\ ft'[t].cb = Null
      /\ \A u \in Threads \ {t} : ft'[u] = ft[u]
  BY DEF IInv, TypeOK, LocalTypeOK, NoItem
<1>3. ASSUME NEW x \in Tasks PROVE Unbegun(x)' <=> Unbegun(x)
  <2>1. CASE x \in Callbacks
    <3>1. CbTaken(x)' <=> CbTaken(x)  BY <1>1, <1>2 DEF CbTaken
    <3> QED  BY <2>1, <3>1 DEF Unbegun
  <2>2. CASE x \notin Callbacks
    <3>1. x \in UserFibers /\ at'[x] = at[x]  BY <2>2 DEF Tasks
    <3>2. CASE x = Hand(t)
      BY <1>1, <2>2, <3>1, <3>2 DEF Unbegun
    <3>3. CASE x # Hand(t)
      <4>1. (\E u \in Threads : ft'[u].fiber = x) <=> (\E u \in Threads : ft[u].fiber = x)
        BY <1>1, <1>2, <3>3
      <4> QED  BY <2>2, <3>1, <3>3, <4>1 DEF Unbegun
    <3> QED  BY <3>2, <3>3
  <2> QED  BY <2>1, <2>2
<1> QED  BY <1>3, SameCounts

(* The thread takes a task: it is still on its way.                        *)
LEMMA FetchCounts == ASSUME IInv, FInv, DInv, NEW t \in Threads, Fetch(t) PROVE CountsOK'
<1>1. PICK i \in DOMAIN m_fibers : /\ ft' = [ft EXCEPT ![t] = m_fibers[i]]
                                   /\ m_fibers' = RemoveAt(m_fibers, i)
  BY DEF Fetch
<1>2. PICK item : item = m_fibers[i]  OBVIOUS
<1>3. TypeOK /\ EntriesOK /\ ThreadOK(t) /\ pc[t] = "fetch"
  BY DEF IInv, FInv, Fetch
<1>4. /\ \A f \in Tasks : Queued(f)' <=> (Queued(f) /\ item.fiber # f)
      /\ \A c \in Callbacks : CbQueued(c)' <=> (CbQueued(c) /\ item.cb # c)
  BY <1>1, <1>2, <1>3, EntryErased
<1>5. /\ ft[t].fiber = Null /\ ft[t].cb = Null /\ ft'[t] = item
      /\ \A u \in Threads \ {t} : ft'[u] = ft[u]
  <2>1. ft[t] = NoItem  BY <1>3 DEF ThreadOK, LocalsOf, Handling
  <2>2. ft \in [Threads -> Items]  BY <1>3 DEF TypeOK, LocalTypeOK
  <2>3. ft[t].fiber = Null /\ ft[t].cb = Null  BY <2>1 DEF NoItem
  <2> QED  BY <1>1, <1>2, <2>2, <2>3
<1>6. Queued(item.fiber) /\ CbQueued(item.cb)
  BY <1>2 DEF Queued, CbQueued
<1>7. UNCHANGED <<submits, begun, at>>  BY DEF Fetch, userVars, fiberVars
<1>8. ASSUME NEW x \in Tasks PROVE Unbegun(x)' <=> Unbegun(x)
  <2>1. x # Null  BY TasksAssumption
  <2>2. CASE x \in Callbacks
    <3>1. CbTaken(x)' <=> (CbTaken(x) \/ item.cb = x)
      BY <1>5, <2>1 DEF CbTaken
    <3> QED  BY <1>4, <1>6, <2>2, <3>1 DEF Unbegun
  <2>3. CASE x \notin Callbacks
    <3>1. (\E u \in Threads : ft'[u].fiber = x) <=> ((\E u \in Threads : ft[u].fiber = x) \/ item.fiber = x)
      BY <1>5, <2>1
    <3> QED  BY <1>4, <1>6, <1>7, <2>3, <3>1 DEF Unbegun
  <2> QED  BY <2>2, <2>3
<1> QED  BY <1>7, <1>8, SameCounts

(* swapIn() of a user's fiber enters its body once.                        *)
LEMMA RunFiberCounts == ASSUME IInv, FInv, DInv, NEW t \in Threads, RunFiber(t) PROVE CountsOK'
<1>1. PICK f : f = ft[t].fiber  OBVIOUS
<1>2. pc[t] = "dispatch" /\ f # Null /\ ThreadOK(t)
  BY <1>1 DEF RunFiber, FInv
<1>3. f \in Tasks /\ Loose(f) /\ m_state[f] # "EXEC"
  BY <1>1, <1>2 DEF ThreadOK, LocalsOf, OneOf, TakenOf, Loose
<1>4. /\ at \in [Tasks -> Places] /\ begun \in [Tasks -> Nat]
  BY DEF IInv, TypeOK, FiberTypeOK, UserTypeOK
<1>5. /\ at' = [at EXCEPT ![f] = IF @ = "entry" THEN "body" ELSE @]
      /\ begun' = (IF at[f] = "entry" /\ m_cb[f] # Null
                   THEN [begun EXCEPT ![m_cb[f]] = @ + 1] ELSE begun)
      /\ UNCHANGED <<ft, m_fibers, submits>>
  BY <1>1, <1>3 DEF RunFiber, localVars
<1>6. at'[f] # "entry" /\ \A x \in Tasks \ {f} : at'[x] = at[x]
  BY <1>3, <1>4, <1>5 DEF Loose
<1>7. \A x \in Tasks \ {f} : Unbegun(x)' <=> Unbegun(x)
  BY <1>5, <1>6 DEF Unbegun, Queued, CbQueued, CbTaken
<1>8. CASE at[f] = "entry"
  <2>1. f \in UserFibers /\ f \notin Callbacks /\ m_cb[f] = f
    BY <1>3, <1>8, TasksAssumption DEF Loose
  <2>2. Unbegun(f) /\ ~Unbegun(f)'
    BY <1>1, <1>6, <1>8, <2>1 DEF Unbegun
  <2>3. submits[f] = 1 /\ begun[f] = 0
    BY <1>3, <2>2 DEF DInv, CountsOK
  <2>4. begun'[f] = 1 /\ \A x \in Tasks \ {f} : begun'[x] = begun[x]
    BY <1>2, <1>3, <1>4, <1>5, <1>8, <2>1, <2>3
  <2> QED  BY <1>5, <1>7, <2>2, <2>3, <2>4 DEF DInv, CountsOK
<1>9. CASE at[f] # "entry"
  <2>1. at' = at  BY <1>3, <1>4, <1>5, <1>9
  <2>2. \A x \in Tasks : Unbegun(x)' <=> Unbegun(x)
    BY <1>5, <2>1 DEF Unbegun, Queued, CbQueued, CbTaken
  <2> QED  BY <1>5, <1>9, <2>2, SameCounts
<1> QED  BY <1>8, <1>9

(* A callback is entered once.                                             *)
LEMMA RunCbCounts == ASSUME IInv, FInv, DInv, NEW t \in Threads, RunCb(t) PROVE CountsOK'
<1>1. PICK c : c = ft[t].cb  OBVIOUS
<1>2. PICK f : f = IF cb_fiber[t] = Null THEN c ELSE cb_fiber[t]  OBVIOUS
<1>3. pc[t] = "dispatch" /\ c # Null /\ ThreadOK(t) /\ \A x \in Tasks : x # Null
  BY <1>1, TasksAssumption DEF RunCb, FInv
<1>4. ft[t].fiber = Null /\ c \in Callbacks /\ c \in Tasks /\ CbTaken(c)
  BY <1>1, <1>3 DEF ThreadOK, LocalsOf, OneOf, CbTaken, Tasks
<1>5. f \in Callbacks /\ f \in Tasks
  BY <1>2, <1>3, <1>4 DEF ThreadOK, LocalsOf, Tasks
<1>6. m_state[f] = "INIT" \/ cb_fiber[t] = Null
  BY <1>2, <1>3 DEF ThreadOK, SpareOf, Handling
<1>7. /\ at' = [at EXCEPT ![f] = "body"] /\ begun' = [begun EXCEPT ![c] = @ + 1]
      /\ ft' = [ft EXCEPT ![t] = NoItem] /\ UNCHANGED <<m_fibers, submits>>
  BY <1>1, <1>2, <1>6 DEF RunCb, Resettable, queueVars
<1>8. /\ at \in [Tasks -> Places] /\ begun \in [Tasks -> Nat] /\ ft \in [Threads -> Items]
  BY DEF IInv, TypeOK, FiberTypeOK, UserTypeOK, LocalTypeOK
<1>9. /\ ft'[t].fiber = Null /\ ft'[t].cb = Null
      /\ \A u \in Threads \ {t} : ft'[u] = ft[u]
  BY <1>7, <1>8 DEF NoItem
<1>10. ~CbQueued(c) /\ \A u \in Threads : ft[u].cb = c => u = t
  BY <1>1, <1>4 DEF FInv, TaskOK, CallbackOK
<1>11. ~Unbegun(c)' /\ Unbegun(c)
  BY <1>3, <1>4, <1>7, <1>9, <1>10 DEF Unbegun, CbQueued, CbTaken
<1>12. submits[c] = 1 /\ begun[c] = 0
  BY <1>4, <1>11 DEF DInv, CountsOK
<1>13. begun'[c] = 1 /\ \A x \in Tasks \ {c} : begun'[x] = begun[x]
  BY <1>4, <1>7, <1>8, <1>12
<1>14. ASSUME NEW x \in Tasks \ {c} PROVE Unbegun(x)' <=> Unbegun(x)
  <2>1. CASE x \in Callbacks
    <3>1. CbTaken(x)' <=> CbTaken(x)  BY <1>1, <1>3, <1>9 DEF CbTaken
    <3> QED  BY <1>7, <2>1, <3>1 DEF Unbegun, CbQueued
  <2>2. CASE x \notin Callbacks
    <3>1. at'[x] = at[x]  BY <1>5, <1>7, <1>8, <2>2
    <3>2. \A u \in Threads : ft'[u].fiber = x <=> ft[u].fiber = x
      BY <1>3, <1>4, <1>9
    <3> QED  BY <1>7, <2>2, <3>1, <3>2 DEF Unbegun, Queued
  <2> QED  BY <2>1, <2>2
<1> QED  BY <1>7, <1>11, <1>12, <1>13, <1>14 DEF DInv, CountsOK

(* Tasks are scheduled for the first time.                                 *)
LEMMA EnqueueCounts ==
    ASSUME IInv, FInv, DInv, NEW A \in SUBSET Tasks, \A x \in A : submits[x] = 0 /\ submits'[x] = 1,
           \A y \in Tasks \ A : submits'[y] = submits[y],
           UNCHANGED <<at, ft, begun>>,
           \A f \in Tasks : Queued(f)' <=> (Queued(f) \/ f \in A \cap UserFibers),
           \A c \in Callbacks : CbQueued(c)' <=> (CbQueued(c) \/ c \in A)
    PROVE  CountsOK'
<1>1. ASSUME NEW x \in A PROVE Unbegun(x)' /\ begun'[x] = 0
  <2>1. x \in Tasks /\ TaskOK(x)  BY DEF FInv
  <2>2. Untouched(x) /\ (x \in UserFibers => at[x] = "entry")
        /\ (x \in Callbacks => ~CbQueued(x) /\ ~CbTaken(x))
    BY <2>1 DEF TaskOK, FreshOK
  <2>3. Unbegun(x)'
    BY <2>1, <2>2 DEF Unbegun, Tasks
  <2>4. ~Unbegun(x)
    BY <2>1, <2>2 DEF Unbegun, Untouched, Held
  <2>5. begun[x] = 0  BY <2>1, <2>4 DEF DInv, CountsOK
  <2> QED  BY <2>3, <2>5
<1>2. ASSUME NEW x \in Tasks \ A PROVE Unbegun(x)' <=> Unbegun(x)
  BY DEF Unbegun, CbTaken
<1> QED  BY <1>1, <1>2 DEF DInv, CountsOK

(* An event reschedules a fiber that was entered before.                   *)
LEMMA FireCounts == ASSUME OnTime', IInv, FInv, DInv, NEW f \in Tasks, Fire(f) PROVE CountsOK' /\ at[f] = "body"
<1>1. f \in waiting /\ f # Null  BY TasksAssumption DEF Fire
<1>2. \A t \in Threads : ~Held(t, f)
  BY <1>1, WaitingNotHeld DEF Fire, InHand, OnTime
<1>3. at[f] = "body" /\ EntriesOK /\ TypeOK
  BY <1>1, <1>2 DEF FInv, TaskOK, WaitingOK, IInv
<1>4. UNCHANGED <<at, ft, submits, begun>> /\ m_fibers' = Append(m_fibers, FiberItem(f, AnyThread))
  BY DEF Fire, fiberVars, localVars, scheduleNoLock
<1>5. FiberItem(f, AnyThread) \in Items
      /\ FiberItem(f, AnyThread).fiber = f /\ FiberItem(f, AnyThread).cb = Null
  BY ItemTypes DEF FiberItem
<1>6. /\ \A x : Queued(x)' <=> (Queued(x) \/ f = x)
      /\ \A c : CbQueued(c)' <=> (CbQueued(c) \/ Null = c)
  BY <1>3, <1>4, <1>5, EntryAdded
<1>7. \A x \in Tasks : x # Null  BY TasksAssumption
<1>8. \A x \in Tasks : Unbegun(x)' <=> Unbegun(x)
  BY <1>3, <1>4, <1>6, <1>7 DEF Unbegun, CbTaken
<1> QED  BY <1>3, <1>4, <1>8, SameCounts

-----------------------------------------------------------------------------
(* Serving                                                                 *)

(* No new entry, and nobody left.                                          *)
LEMMA ServedKeeps ==
    ASSUME DInv,
           \A i \in DOMAIN m_fibers' :
               m_fibers'[i].cb # Null \/ at'[m_fibers'[i].fiber] = "entry" =>
                   \E j \in DOMAIN m_fibers :
                       /\ m_fibers[j] = m_fibers'[i]
                       /\ m_fibers[j].cb # Null \/ at[m_fibers[j].fiber] = "entry",
           \A t \in Threads : Serving(t) => Serving(t)'
    PROVE  ServedOK'
BY DEF DInv, ServedOK

(* The same where the queue stays and no queued fiber changes.             *)
LEMMA ServedSame ==
    ASSUME FInv, DInv, m_fibers' = m_fibers,
           \A x \in Tasks : Queued(x) => (at'[x] = "entry" => at[x] = "entry"),
           \A t \in Threads : Serving(t) => Serving(t)'
    PROVE  ServedOK'
<1>1. \A i \in DOMAIN m_fibers : OneOf(m_fibers[i])  BY DEF FInv, EntriesOK
<1>2. \A i \in DOMAIN m_fibers :
        m_fibers[i].cb # Null \/ (m_fibers[i].fiber \in Tasks /\ Queued(m_fibers[i].fiber))
  BY <1>1, TasksAssumption DEF OneOf, Queued, Tasks
<1> QED  BY <1>2, ServedKeeps

(* A thread that goes on in run() goes on serving.                         *)
LEMMA ServingInRun ==
    ASSUME IInv, NEW t \in Threads, pc[t] \in InRun, pc'[t] \in InRun,
           pc' = [pc EXCEPT ![t] = pc'[t]]
    PROVE  \A u \in Threads : Serving(u) => Serving(u)'
<1>1. pc \in [Threads -> Points] /\ Caller \in Threads
  BY DEF IInv, TypeOK, LocalTypeOK, Threads
<1>2. \A u \in Threads : pc'[u] = pc[u] \/ (pc[u] \in InRun /\ pc'[u] \in InRun)
  BY <1>1
<1>3. \A p \in InRun : p \notin {"exit", "done"}  BY DEF InRun, Handling
<1> QED  BY <1>1, <1>2, <1>3 DEF Serving

(* An entry is added that a thread will look for, or that is not new.      *)
LEMMA ServedAdded ==
    ASSUME IInv, DInv, NEW item \in Items, m_fibers' = Append(m_fibers, item), at' = at,
           \A t \in Threads : Serving(t) => Serving(t)',
           item.cb # Null \/ at[item.fiber] = "entry" =>
               \E t \in Threads : Serving(t) /\ item.thread \in {t, AnyThread}
    PROVE  ServedOK'
<1>1. m_fibers \in Seq(Items)  BY DEF IInv, TypeOK, QueueTypeOK
<1>2. \A j \in DOMAIN m_fibers' :
           \/ j \in DOMAIN m_fibers /\ m_fibers'[j] = m_fibers[j]
           \/ m_fibers'[j] = item
  BY <1>1, Appended
<1> QED  BY <1>2 DEF DInv, ServedOK

(* A thread fetches: the others stay.                                      *)
LEMMA FetchServed == ASSUME IInv, FInv, DInv, NEW t \in Threads, Fetch(t) PROVE ServedOK'
<1>1. PICK i \in DOMAIN m_fibers : m_fibers' = RemoveAt(m_fibers, i)
  BY DEF Fetch
<1>2. m_fibers \in Seq(Items) /\ pc \in [Threads -> Points]
  BY DEF IInv, TypeOK, QueueTypeOK, LocalTypeOK
<1>3. \A j \in DOMAIN m_fibers' :
           Old(i, j) \in DOMAIN m_fibers \ {i} /\ m_fibers'[j] = m_fibers[Old(i, j)]
  BY <1>1, <1>2, Removed
<1>4. at' = at  BY DEF Fetch, fiberVars
<1>5. \A u \in Threads : Serving(u) => Serving(u)'
  BY <1>2, ServingInRun DEF Fetch, InRun
<1> QED  BY <1>3, <1>4, <1>5, ServedKeeps

(* A thread leaves run() only when there is no entry it could take.        *)
LEMMA ExitServed == ASSUME IInv, FInv, PInv, DInv, NEW t \in Threads, Exit(t) PROVE ServedOK'
<1>1. /\ pc[t] = "fetch" /\ Candidates(t) = {} /\ m_fibers' = m_fibers /\ at' = at
      /\ pc' = [pc EXCEPT ![t] = IF t = Caller THEN "join" ELSE "exit"]
  BY DEF Exit, fiberVars, queueVars
<1>2. pc \in [Threads -> Points] /\ Caller \in Threads
  BY DEF IInv, TypeOK, LocalTypeOK, Threads
<1>3. ASSUME NEW i \in DOMAIN m_fibers PROVE m_fibers[i].thread \notin {t, AnyThread}
  <2>1. CASE m_fibers[i].thread \in {t, AnyThread}
    <3>1. ~Eligible(t, m_fibers[i])  BY <1>1 DEF Candidates
    <3>2. m_fibers[i].fiber # Null /\ m_state[m_fibers[i].fiber] = "EXEC"
      BY <2>1, <3>1 DEF Eligible
    <3>3. m_fibers[i].fiber \in Tasks /\ Queued(m_fibers[i].fiber)
      BY <3>2 DEF FInv, EntriesOK, OneOf, Queued
    <3> QED  BY <3>2, <3>3 DEF FInv, TaskOK, QueuedOK, Loose
  <2> QED  BY <2>1
<1>4. \A u \in Threads \ {t} : Serving(u) => Serving(u)'
  BY <1>1, <1>2 DEF Serving
<1>5. ASSUME NEW i \in DOMAIN m_fibers, NEW u \in Threads, Serving(u),
             m_fibers[i].thread \in {u, AnyThread}
      PROVE  Serving(u)' /\ m_fibers[i].thread \in {u, AnyThread}
  BY <1>3, <1>4, <1>5
<1> QED  BY <1>1, <1>5 DEF DInv, ServedOK

-----------------------------------------------------------------------------
(* The steps                                                               *)

(* A step that leaves queue, places and counters alone, and no thread less *)
(* to look for tasks.                                                      *)
LEMMA QuietTasks ==
    ASSUME FInv, DInv, UNCHANGED <<m_fibers, at, ft, submits, begun>>,
           \A t \in Threads : Serving(t) => Serving(t)'
    PROVE  DInv'
<1>1. CountsOK'
  BY SameCounts DEF Unbegun, Queued, CbQueued, CbTaken
<1>2. ServedOK'
  BY ServedSame
<1> QED  BY <1>1, <1>2 DEF DInv

(* What a thread has in hand is not in the queue.                          *)
LEMMA HandNotQueued ==
    ASSUME FInv, NEW t \in Threads, NEW f \in Tasks, Held(t, f)
    PROVE  ~Queued(f)
BY DEF FInv, TaskOK, QueuedOK

(* The body of the fiber in hand goes on, or gives the processor up.       *)
LEMMA BodyTasks ==
    ASSUME IInv, FInv, IInv', FInv', DInv, NEW t \in Threads,
           Return(t) \/ Throw(t) \/ YieldToReady(t) \/ YieldToHold(t) \/ Register(t)
    PROVE  DInv'
<1>1. pc[t] = "run" /\ pc \in [Threads -> Points] /\ at \in [Tasks -> Places]
  BY DEF Return, Throw, YieldToReady, YieldToHold, Register, CanSuspend, CanStep, InBody,
         IInv, TypeOK, LocalTypeOK, FiberTypeOK
<1>2. /\ UNCHANGED <<m_fibers, ft, cb_fiber, submits, begun>>
      /\ pc' = [pc EXCEPT ![t] = "leave"] \/ pc' = pc
      /\ at' = at \/ \E p : at' = [at EXCEPT ![Hand(t)] = p]
  BY DEF Return, Throw, YieldToReady, YieldToHold, Register, GiveUp, queueVars, localVars
<1>3. pc[t] \in Handling /\ pc'[t] \in Handling /\ pc' = [pc EXCEPT ![t] = pc'[t]]
  BY <1>1, <1>2 DEF Handling
<1>4. \A x \in Tasks \ {Hand(t)} : at'[x] = at[x]
  BY <1>1, <1>2
<1>5. CountsOK'
  BY <1>2, <1>3, <1>4, BodyCounts
<1>6. Held(t, Hand(t)) /\ Hand(t) \in Tasks
  BY <1>3, HandlingEntered DEF Held, Hand
<1>7. ~Queued(Hand(t))
  BY <1>6, HandNotQueued
<1>8. \A u \in Threads : Serving(u) => Serving(u)'
  BY <1>3, ServingInRun DEF InRun
<1>9. ServedOK'
  BY <1>2, <1>4, <1>7, <1>8, ServedSame
<1> QED  BY <1>5, <1>9 DEF DInv

(* run() sets a fiber aside, or keeps it for the next callback.            *)
LEMMA SetAsideTasks ==
    ASSUME IInv, FInv, DInv, NEW t \in Threads, SetHold(t) \/ SettleFinished(t)
    PROVE  DInv'
<1>1. pc[t] \in Handling /\ pc \in [Threads -> Points] /\ at \in [Tasks -> Places]
  BY DEF SetHold, SettleFinished, Handling, IInv, TypeOK, LocalTypeOK, FiberTypeOK
<1>2. /\ at' = at \/ at' = [at EXCEPT ![cb_fiber[t]] = "entry"]
      /\ pc' = [pc EXCEPT ![t] = "fetch"] /\ ft' = [ft EXCEPT ![t] = NoItem]
      /\ UNCHANGED <<m_fibers, submits, begun>>
  BY DEF SetHold, SettleFinished, fiberVars, queueVars, userVars
<1>3. cb_fiber[t] \in Callbacks \cup {Null} /\ Held(t, cb_fiber[t])
  BY <1>1, HandlingEntered DEF Held
<1>4. \A x \in Tasks \ {cb_fiber[t]} : at'[x] = at[x]
  BY <1>1, <1>2
<1>5. \A x \in UserFibers : at'[x] = at[x]
  BY <1>3, <1>4, TasksAssumption DEF Tasks
<1>6. CountsOK'
  BY <1>1, <1>2, <1>5, DropCounts DEF Queued, CbQueued
<1>7. \A x \in Tasks : Queued(x) => at'[x] = at[x]
  BY <1>3, <1>4, HandNotQueued
<1>8. \A u \in Threads : Serving(u) => Serving(u)'
  <2>1. pc[t] \in InRun /\ pc'[t] \in InRun /\ pc' = [pc EXCEPT ![t] = pc'[t]]
    BY <1>1, <1>2 DEF InRun
  <2> QED  BY <2>1, ServingInRun
<1>9. ServedOK'
  BY <1>2, <1>7, <1>8, ServedSame
<1> QED  BY <1>6, <1>9 DEF DInv

(* A fiber that yielded goes back into the queue: it was entered before.   *)
LEMMA SettleReadyTasks ==
    ASSUME IInv, FInv, DInv, NEW t \in Threads, SettleReady(t)
    PROVE  DInv'
<1>1. PICK f : f = Hand(t)  OBVIOUS
<1>2. PICK item : item = FiberItem(f, AnyThread)  OBVIOUS
<1>3. pc[t] = "settle" /\ pc \in [Threads -> Points] /\ pc[t] \in Handling
  BY DEF SettleReady, Handling, IInv, TypeOK, LocalTypeOK
<1>4. f \in Tasks /\ at[f] # "entry" /\ f # Null
  BY <1>1, <1>3, HandlingEntered, TasksAssumption
<1>5. /\ m_fibers' = Append(m_fibers, item) /\ at' = at
      /\ pc' = [pc EXCEPT ![t] = "fetch"] /\ ft' = [ft EXCEPT ![t] = NoItem]
      /\ UNCHANGED <<submits, begun>>
  BY <1>1, <1>2 DEF SettleReady, scheduleNoLock, fiberVars, userVars
<1>6. item \in Items /\ item.fiber = f /\ item.cb = Null
  BY <1>2, <1>4, ItemTypes DEF FiberItem
<1>7. /\ \A x : Queued(x)' <=> (Queued(x) \/ f = x)
      /\ \A c : CbQueued(c)' <=> (CbQueued(c) \/ Null = c)
  <2>1. TypeOK /\ EntriesOK  BY DEF IInv, FInv
  <2> QED  BY <1>5, <1>6, <2>1, EntryAdded
<1>8. CountsOK'
  <2>1. \A x \in Tasks \ {Hand(t)} : Queued(x)' <=> Queued(x)
    BY <1>1, <1>7
  <2>2. \A c \in Callbacks : CbQueued(c)' <=> CbQueued(c)
    BY <1>7, TasksAssumption DEF Tasks
  <2> QED  BY <1>3, <1>5, <2>1, <2>2, DropCounts
<1>9. \A u \in Threads : Serving(u) => Serving(u)'
  <2>1. pc[t] \in InRun /\ pc'[t] \in InRun /\ pc' = [pc EXCEPT ![t] = pc'[t]]
    BY <1>3, <1>5 DEF InRun
  <2> QED  BY <2>1, ServingInRun
<1>10. ServedOK'
  BY <1>4, <1>5, <1>6, <1>9, ServedAdded
<1> QED  BY <1>8, <1>10 DEF DInv

(* A step that swaps a fiber in changes no fiber that is in the queue.     *)
LEMMA SwapInTasks ==
    ASSUME IInv, FInv, DInv, NEW t \in Threads, RunFiber(t) \/ RunCb(t)
    PROVE  DInv'
<1>1. PICK f : f = IF ft[t].fiber # Null THEN ft[t].fiber
                   ELSE IF cb_fiber[t] # Null THEN cb_fiber[t] ELSE ft[t].cb
  OBVIOUS
<1>2. /\ pc[t] = "dispatch" /\ ThreadOK(t) /\ pc \in [Threads -> Points]
      /\ at \in [Tasks -> Places] /\ \A x \in Tasks : x # Null
  BY TasksAssumption DEF RunFiber, RunCb, FInv, IInv, TypeOK, LocalTypeOK, FiberTypeOK
<1>3. OneOf(ft[t]) /\ cb_fiber[t] \in Callbacks \cup {Null}
  BY <1>2 DEF ThreadOK, LocalsOf
<1>4. CASE ft[t].fiber # Null
  <2>1. f = ft[t].fiber /\ f \in Tasks /\ ft[t].cb = Null /\ Loose(f)
    BY <1>1, <1>2, <1>3, <1>4 DEF OneOf, ThreadOK, TakenOf
  <2>2. RunFiber(t) /\ m_state[f] # "EXEC"
    BY <2>1 DEF RunCb, Loose
  <2>3. /\ m_fibers' = m_fibers /\ pc' = [pc EXCEPT ![t] = "run"]
        /\ at' = [at EXCEPT ![f] = IF @ = "entry" THEN "body" ELSE @]
    BY <2>1, <2>2 DEF RunFiber
  <2>4. \A x \in Tasks : at'[x] = "entry" => at[x] = "entry"
    BY <1>2, <2>1, <2>3
  <2>5. \A u \in Threads : Serving(u) => Serving(u)'
    <3>1. pc[t] \in InRun /\ pc'[t] \in InRun /\ pc' = [pc EXCEPT ![t] = pc'[t]]
      BY <1>2, <2>3 DEF InRun, Handling
    <3> QED  BY <3>1, ServingInRun
  <2>6. ServedOK'
    BY <2>3, <2>4, <2>5, ServedSame
  <2> QED  BY <2>2, <2>6, RunFiberCounts DEF DInv
<1>5. CASE ft[t].fiber = Null
  <2>1. RunCb(t) /\ f = IF cb_fiber[t] = Null THEN ft[t].cb ELSE cb_fiber[t]
    BY <1>1, <1>5 DEF RunFiber
  <2>2. cb_fiber[t] # Null => m_state[cb_fiber[t]] = "INIT"
    BY <1>2 DEF ThreadOK, SpareOf, Handling
  <2>3. /\ m_fibers' = m_fibers /\ pc' = [pc EXCEPT ![t] = "run"]
        /\ at' = [at EXCEPT ![f] = "body"]
    BY <2>1, <2>2 DEF RunCb, Resettable, queueVars
  <2>4. \A x \in Tasks : at'[x] = "entry" => at[x] = "entry"
    BY <1>2, <2>3
  <2>5. \A u \in Threads : Serving(u) => Serving(u)'
    <3>1. pc[t] \in InRun /\ pc'[t] \in InRun /\ pc' = [pc EXCEPT ![t] = pc'[t]]
      BY <1>2, <2>3 DEF InRun, Handling
    <3> QED  BY <3>1, ServingInRun
  <2>6. ServedOK'
    BY <2>3, <2>4, <2>5, ServedSame
  <2> QED  BY <2>1, <2>6, RunCbCounts DEF DInv
<1> QED  BY <1>4, <1>5

(* scheduler(), while a thread is there that will look for the task.       *)
LEMMA SubmitTasks ==
    ASSUME Orderly, IInv, FInv, DInv, NEW x \in Tasks, NEW thread \in Threads \cup {AnyThread},
           Submit(x, thread), UNCHANGED <<at, pc, ft, begun>>,
           \E t \in Threads : Serving(t) /\ thread \in {t, AnyThread}
    PROVE  DInv'
<1>1. submits \in [Tasks -> Nat]
  BY DEF IInv, TypeOK, UserTypeOK
<1>2. submits[x] = 0
  BY FirstTime DEF Submit
<1>3. submits'[x] = 1 /\ \A y \in Tasks \ {x} : submits'[y] = submits[y]
  BY <1>1, <1>2 DEF Submit
<1>4. PICK item : item = ItemOf(x, thread)  OBVIOUS
<1>5. m_fibers' = Append(m_fibers, item)
  BY <1>4 DEF Submit, scheduleNoLock
<1>6. /\ item \in Items /\ x # Null /\ item.thread = thread
      /\ item.fiber = IF x \in UserFibers THEN x ELSE Null
      /\ item.cb = IF x \in UserFibers THEN Null ELSE x
      /\ x \in Callbacks <=> x \notin UserFibers
  BY <1>4, ItemOfTask
<1>7. /\ \A f : Queued(f)' <=> (Queued(f) \/ item.fiber = f)
      /\ \A c : CbQueued(c)' <=> (CbQueued(c) \/ item.cb = c)
  <2>1. EntriesOK /\ TypeOK  BY DEF FInv, IInv
  <2> QED  BY <1>5, <1>6, <2>1, EntryAdded
<1>8. \A f \in Tasks : f # Null  BY TasksAssumption
<1>9. \A f \in Tasks : Queued(f)' <=> (Queued(f) \/ f \in {x} \cap UserFibers)
  BY <1>6, <1>7, <1>8
<1>10. \A c \in Callbacks : CbQueued(c)' <=> (CbQueued(c) \/ c \in {x})
  BY <1>6, <1>7, <1>8 DEF Tasks
<1>11. CountsOK'
  <2>1. {x} \in SUBSET Tasks /\ \A z \in {x} : submits[z] = 0 /\ submits'[z] = 1
    BY <1>2, <1>3
  <2> QED  BY <1>3, <1>9, <1>10, <2>1, EnqueueCounts
<1>12. \A u \in Threads : Serving(u) => Serving(u)'
  BY DEF Serving
<1>13. ServedOK'
  BY <1>5, <1>6, <1>12, ServedAdded
<1> QED  BY <1>11, <1>13 DEF DInv

(* The user schedules before start() or while the scheduler runs: nobody   *)
(* has left run() yet.                                                     *)
LEMMA MainServes ==
    ASSUME PInv, pc[Caller] = "main", NEW thread \in Pins \cup {AnyThread}
    PROVE  \E t \in Threads : Serving(t) /\ thread \in {t, AnyThread}
<1>1. \A w \in Workers : pc[w] # "exit" /\ w # Caller /\ w \in Threads
  BY ThreadsAssumption DEF PInv, PhaseOK, InRun, Handling, Threads
<1>2. \A w \in Workers : Serving(w)
  BY <1>1 DEF Serving
<1>3. UseCaller => Serving(Caller)
  BY DEF Serving
<1>4. Caller \in Threads  BY DEF Threads
<1>5. CASE thread = AnyThread
  BY <1>1, <1>2, <1>3, <1>4, <1>5, SizeAssumption
<1>6. CASE thread \in Pins
  BY <1>1, <1>2, <1>3, <1>4, <1>6, PinsAssumption DEF Threads
<1> QED  BY <1>5, <1>6

(* scheduler(begin, end).                                                  *)
LEMMA BatchTasks ==
    ASSUME Orderly, IInv, FInv, PInv, DInv, NEW x \in Tasks, NEW y \in Tasks, MainScheduleBatch(x, y)
    PROVE  DInv'
<1>1. submits \in [Tasks -> Nat] /\ m_fibers \in Seq(Items)
  BY DEF IInv, TypeOK, UserTypeOK, QueueTypeOK
<1>2. submits[x] = 0 /\ submits[y] = 0 /\ x # y
  BY FirstTime DEF MainScheduleBatch
<1>3. submits' = [submits EXCEPT ![x] = @ + 1, ![y] = @ + 1]
  BY DEF MainScheduleBatch
<1>4. \A z \in {x, y} : submits[z] = 0 /\ submits'[z] = 1
  BY <1>1, <1>2, <1>3
<1>5. \A z \in Tasks \ {x, y} : submits'[z] = submits[z]
  BY <1>1, <1>3
<1>6. PICK a, b : a = ItemOf(x, AnyThread) /\ b = ItemOf(y, AnyThread)  OBVIOUS
<1>7. m_fibers' = Append(Append(m_fibers, a), b) /\ pc[Caller] = "main"
  BY <1>6 DEF MainScheduleBatch, scheduleNoLock
<1>8. /\ a \in Items /\ OneOf(a) /\ x # Null /\ a.thread = AnyThread
      /\ a.fiber = IF x \in UserFibers THEN x ELSE Null
      /\ a.cb = IF x \in UserFibers THEN Null ELSE x
      /\ x \in Callbacks <=> x \notin UserFibers
  BY <1>6, ItemOfTask
<1>9. /\ b \in Items /\ OneOf(b) /\ y # Null /\ b.thread = AnyThread
      /\ b.fiber = IF y \in UserFibers THEN y ELSE Null
      /\ b.cb = IF y \in UserFibers THEN Null ELSE y
      /\ y \in Callbacks <=> y \notin UserFibers
  BY <1>6, ItemOfTask
<1>10. ~Queued(x) /\ (x \in Callbacks => ~CbQueued(x)) /\ ~Queued(y) /\ (y \in Callbacks => ~CbQueued(y))
  BY <1>2, NotQueued
<1>11. EntriesOK /\ TypeOK /\ Differ(a, b)
  BY <1>2, <1>8, <1>9 DEF FInv, IInv, Differ
<1>12. /\ \A f : Queued(f)' <=> (Queued(f) \/ a.fiber = f \/ b.fiber = f)
       /\ \A c : CbQueued(c)' <=> (CbQueued(c) \/ a.cb = c \/ b.cb = c)
  BY <1>7, <1>8, <1>9, <1>10, <1>11, EntriesAdded
<1>13. \A f \in Tasks : f # Null  BY TasksAssumption
<1>14. \A f \in Tasks : Queued(f)' <=> (Queued(f) \/ f \in {x, y} \cap UserFibers)
  BY <1>8, <1>9, <1>12, <1>13
<1>15. \A c \in Callbacks : CbQueued(c)' <=> (CbQueued(c) \/ c \in {x, y})
  BY <1>8, <1>9, <1>12, <1>13 DEF Tasks
<1>16. UNCHANGED <<at, pc, ft, begun>>
  BY DEF MainScheduleBatch, fiberVars, localVars
<1>17. CountsOK'
  BY <1>4, <1>5, <1>14, <1>15, <1>16, EnqueueCounts
<1>18. \A u \in Threads : Serving(u) => Serving(u)'
  BY <1>16 DEF Serving
<1>19. \A j \in DOMAIN m_fibers' :
           \/ j \in DOMAIN m_fibers /\ m_fibers'[j] = m_fibers[j]
           \/ m_fibers'[j] = a \/ m_fibers'[j] = b
  <2>1. PICK q : q = Append(m_fibers, a)  OBVIOUS
  <2>2. /\ q \in Seq(Items)
        /\ \A j \in DOMAIN q : (j \in DOMAIN m_fibers /\ q[j] = m_fibers[j]) \/ q[j] = a
    BY <1>1, <1>8, <2>1, Appended, AppendType
  <2>3. \A j \in DOMAIN m_fibers' : (j \in DOMAIN q /\ m_fibers'[j] = q[j]) \/ m_fibers'[j] = b
    BY <1>7, <1>9, <2>1, <2>2, Appended
  <2> QED  BY <2>2, <2>3
<1>20. PICK s \in Threads : Serving(s)
  BY <1>7, MainServes
<1>21. ServedOK'
  BY <1>8, <1>9, <1>16, <1>18, <1>19, <1>20 DEF DInv, ServedOK
<1> QED  BY <1>17, <1>21 DEF DInv

(* The event source reschedules a fiber.                                   *)
LEMMA FireTasks == ASSUME OnTime', IInv, FInv, DInv, NEW f \in Tasks, Fire(f) PROVE DInv'
<1>1. CountsOK' /\ at[f] = "body"  BY FireCounts
<1>2. PICK item : item = FiberItem(f, AnyThread)  OBVIOUS
<1>3. item \in Items /\ item.fiber = f /\ item.cb = Null
  BY <1>2, ItemTypes DEF FiberItem
<1>4. m_fibers' = Append(m_fibers, item) /\ at' = at /\ pc' = pc
  BY <1>2 DEF Fire, scheduleNoLock, fiberVars
<1>5. \A u \in Threads : Serving(u) => Serving(u)'
  BY <1>4 DEF Serving
<1>6. ServedOK'
  BY <1>1, <1>3, <1>4, <1>5, ServedAdded
<1> QED  BY <1>1, <1>6 DEF DInv

(* When every thread has left run(), no new task is in the queue.          *)
LEMMA NoneLeft ==
    ASSUME DInv, \A t \in Threads : ~Serving(t)
    PROVE  \A i \in DOMAIN m_fibers : m_fibers[i].cb = Null /\ at[m_fibers[i].fiber] # "entry"
BY DEF DInv, ServedOK

(* start() and stop().                                                     *)
LEMMA MainTasks == ASSUME Orderly, IInv, FInv, PInv, DInv, MainStep PROVE DInv'
<1>1. /\ pc \in [Threads -> Points] /\ Threads = Workers \cup {Caller} /\ Caller \notin Workers
  BY ThreadsAssumption DEF IInv, TypeOK, LocalTypeOK, Threads
<1>2. CASE \E x \in Tasks : MainSchedule(x)
  <2>1. PICK x \in Tasks, thread \in Pins \cup {AnyThread} :
          Submit(x, thread) /\ pc[Caller] = "main" /\ UNCHANGED <<at, pc, ft, begun>>
    BY <1>2 DEF MainSchedule, fiberVars, localVars
  <2>2. thread \in Threads \cup {AnyThread}  BY PinsAssumption
  <2> QED  BY <2>1, <2>2, MainServes, SubmitTasks
<1>3. CASE \E x, y \in Tasks : MainScheduleBatch(x, y)
  BY <1>3, BatchTasks
<1>4. CASE Start
  <2>1. UNCHANGED <<m_fibers, at, ft, submits, begun>>
    BY <1>4 DEF Start, fiberVars, queueVars, userVars
  <2>2. \A t \in Threads : Serving(t) => Serving(t)'
    BY <1>1, <1>4 DEF Start, Serving
  <2> QED  BY <2>1, <2>2, QuietTasks
<1>5. CASE StopRequest
  <2>1. UNCHANGED <<m_fibers, at, ft, submits, begun>>
    BY <1>5 DEF StopRequest, fiberVars, queueVars, localVars, userVars
  <2>2. \A t \in Threads : Serving(t) => Serving(t)'
    BY <1>1, <1>5 DEF StopRequest, Serving
  <2> QED  BY <2>1, <2>2, QuietTasks
<1>6. CASE StopNoCall
  <2>1. UNCHANGED <<m_fibers, at, ft, submits, begun>>
    BY <1>6 DEF StopNoCall, fiberVars, queueVars, localVars, userVars
  <2>2. CASE ~UseCaller
    <3>1. \A t \in Threads : Serving(t) => Serving(t)'
      BY <1>1, <1>6, <2>2 DEF StopNoCall, Serving
    <3> QED  BY <2>1, <3>1, QuietTasks
  <2>3. CASE Stopping
    <3>1. DOMAIN m_fibers = {}  BY <2>3 DEF Stopping
    <3>2. ServedOK'  BY <2>1, <3>1 DEF ServedOK
    <3>3. CountsOK'
      BY <2>1, SameCounts DEF Unbegun, Queued, CbQueued, CbTaken
    <3> QED  BY <3>2, <3>3 DEF DInv
  <2> QED  BY <1>6, <2>2, <2>3 DEF StopNoCall
<1>7. CASE StopCall
  <2>1. UNCHANGED <<m_fibers, at, ft, submits, begun>>
    BY <1>7 DEF StopCall, fiberVars, queueVars, localVars, userVars
  <2>2. pc' = [pc EXCEPT ![Caller] = "fetch"] \/ pc' = pc
    BY <1>7 DEF StopCall
  <2>3. \A t \in Threads : Serving(t) => Serving(t)'
    BY <1>1, <1>7, <2>2 DEF StopCall, Serving, InRun
  <2> QED  BY <2>1, <2>3, QuietTasks
<1>8. CASE Join
  <2>1. UNCHANGED <<m_fibers, at, ft, submits, begun>>
    BY <1>8 DEF Join, fiberVars, queueVars, localVars, userVars
  <2>2. pc[Caller] = "join" /\ \A w \in Workers : pc[w] = "exit"
    BY <1>8 DEF Join, PInv, PhaseOK, InRun, Handling
  <2>3. \A t \in Threads : ~Serving(t)
    BY <1>1, <2>2 DEF Serving, InRun, Handling
  <2>4. ServedOK'
    BY <2>1, <2>3, NoneLeft DEF ServedOK
  <2>5. CountsOK'
    BY <2>1, SameCounts DEF Unbegun, Queued, CbQueued, CbTaken
  <2> QED  BY <2>4, <2>5 DEF DInv
<1> QED  BY <1>2, <1>3, <1>4, <1>5, <1>6, <1>7, <1>8 DEF MainStep, StopStep, UserStep

(* Nothing is scheduled in the initial state.                              *)
LEMMA InitDInv == Init => DInv
<1> SUFFICES ASSUME Init PROVE DInv  OBVIOUS
<1>1. m_fibers = << >> /\ DOMAIN m_fibers = {}  BY DEF Init
<1>2. ServedOK  BY <1>1 DEF ServedOK
<1>3. \A x \in Tasks : ~Unbegun(x)
  BY <1>1, TasksAssumption DEF Init, Unbegun, Queued, CbQueued, CbTaken, NoItem, Tasks
<1>4. CountsOK  BY <1>3 DEF Init, CountsOK
<1> QED  BY <1>2, <1>4 DEF DInv

(* Every step keeps the account of the tasks.                              *)
LEMMA NextDInv ==
    ASSUME Orderly, OnTime', IInv, FInv, PInv, DInv, IInv', FInv', [Next]_vars
    PROVE  DInv'
<1>0. pc \in [Threads -> Points]
  BY DEF IInv, TypeOK, LocalTypeOK
<1>1. CASE UNCHANGED vars
  <2>1. UNCHANGED <<m_fibers, at, ft, submits, begun, pc>>
    BY <1>1 DEF vars, fiberVars, queueVars, localVars, userVars
  <2>2. \A t \in Threads : Serving(t) => Serving(t)'
    BY <2>1 DEF Serving
  <2> QED  BY <2>1, <2>2, QuietTasks
<1>2. CASE EventStep
  BY <1>2, FireTasks DEF EventStep
<1>3. ASSUME NEW t \in Threads, RunStep(t) PROVE DInv'
  <2>1. CASE NoTask(t) \/ Idle(t) \/ Leave(t) \/ Back(t) \/ SettleElse(t)
    <3>1. UNCHANGED <<m_fibers, at, ft, submits, begun>>
      BY <2>1 DEF NoTask, Idle, Leave, Back, SettleElse, fiberVars, queueVars, localVars, userVars
    <3>2. pc[t] \in InRun /\ pc'[t] \in InRun /\ pc' = [pc EXCEPT ![t] = pc'[t]]
      BY <1>0, <2>1 DEF NoTask, Idle, Leave, Back, SettleElse, InRun, Handling
    <3>3. \A u \in Threads : Serving(u) => Serving(u)'
      BY <3>2, ServingInRun
    <3> QED  BY <3>1, <3>3, QuietTasks
  <2>2. CASE Exit(t)
    <3>1. UNCHANGED <<m_fibers, at, ft, submits, begun>>
      BY <2>2 DEF Exit, fiberVars, queueVars, localVars, userVars
    <3>2. CountsOK'
      BY <3>1, SameCounts DEF Unbegun, Queued, CbQueued, CbTaken
    <3> QED  BY <2>2, <3>2, ExitServed DEF DInv
  <2>3. CASE Fetch(t)
    BY <2>3, FetchCounts, FetchServed DEF DInv
  <2>4. CASE RunFiber(t) \/ RunCb(t)
    BY <2>4, SwapInTasks
  <2>5. CASE Return(t) \/ Throw(t) \/ YieldToReady(t) \/ YieldToHold(t) \/ Register(t)
    BY <2>5, BodyTasks
  <2>6. CASE \E x \in Tasks : Spawn(t, x)
    <3>1. PICK x \in Tasks, thread \in {AnyThread, t} :
            Submit(x, thread) /\ pc[t] = "run" /\ UNCHANGED <<at, pc, ft, begun>>
      BY <2>6 DEF Spawn, CanStep, InBody, fiberVars, localVars
    <3>2. Serving(t)
      <4>1. pc[t] \in InRun  BY <3>1 DEF InRun, Handling
      <4>2. CASE t = Caller
        BY <4>1, <4>2 DEF PInv, PhaseOK, Serving
      <4>3. CASE t # Caller
        BY <3>1, <4>3 DEF PInv, PhaseOK, Serving, Threads
      <4> QED  BY <4>2, <4>3
    <3>3. thread \in Threads \cup {AnyThread} /\ thread \in {t, AnyThread}  BY <3>1
    <3> QED  BY <3>1, <3>2, <3>3, SubmitTasks
  <2>7. CASE SettleReady(t) \/ SettleFinished(t) \/ SetHold(t)
    BY <2>7, SettleReadyTasks, SetAsideTasks
  <2> QED  BY <1>3, <2>1, <2>2, <2>3, <2>4, <2>5, <2>6, <2>7 DEF RunStep, BodyStep
<1>4. CASE MainStep
  BY <1>4, MainTasks
<1> QED  BY <1>1, <1>2, <1>3, <1>4 DEF Next, ThreadStep, Terminated

(* The invariants together.                                                *)
LEMMA Accounts == ASSUME Orderly PROVE Spec => [](IInv /\ (OnTime => FInv /\ PInv /\ DInv))
<1> DEFINE I == IInv /\ (OnTime => FInv /\ PInv)
           J == OnTime => DInv
<1>1. Init => J  BY InitDInv
<1>2. I /\ J /\ I' /\ [Next]_vars => J'
  BY NextDInv, OnTimeBefore
<1>3. Spec => []I  BY Ownership
<1> QED  BY <1>1, <1>2, <1>3, PTL DEF Spec

(* When stop() has returned, every task was executed as often as it was    *)
(* scheduled: no task is left in the queue, those that were scheduled      *)
(* during the shutdown or for one thread included.                         *)
THEOREM QueueDrained == ASSUME Orderly PROVE Spec => [](OnTime => StopDrains)
<1>1. IInv /\ FInv /\ PInv /\ DInv => StopDrains
  <2> SUFFICES ASSUME IInv, FInv, PInv, DInv, pc[Caller] = "done", NEW x \in Tasks
               PROVE  begun[x] = submits[x]
    BY DEF StopDrains
  <2>1. \A t \in Threads : pc[t] \in {"off", "done"}
    BY DEF PInv, PhaseOK, Threads
  <2>2. \A t \in Threads : ~Serving(t)
    BY <2>1 DEF Serving, InRun, Handling
  <2>3. \A i \in DOMAIN m_fibers : m_fibers[i].cb = Null /\ at[m_fibers[i].fiber] # "entry"
    BY <2>2, NoneLeft
  <2>4. \A t \in Threads : ft[t].fiber = Null /\ ft[t].cb = Null
    <3>1. \A t \in Threads : ft[t] = NoItem
      BY <2>1 DEF FInv, ThreadOK, LocalsOf, Handling
    <3> QED  BY <3>1 DEF NoItem
  <2>5. x # Null  BY TasksAssumption
  <2>6. ~Unbegun(x)
    BY <2>3, <2>4, <2>5 DEF Unbegun, Queued, CbQueued, CbTaken
  <2> QED  BY <2>6 DEF DInv, CountsOK
<1> QED  BY <1>1, Accounts, PTL

-----------------------------------------------------------------------------
(* The scheduler implements the pool of TaskPool, where every body goes    *)
(* through in one piece: it may return, throw, schedule other tasks, or    *)
(* suspend itself for good.                                                *)

OnePiece == Orderly /\ Behaviours \cap {"ready", "register"} = {}

(* What the thread is executing.                                           *)
Doing(t) == m_cb[Hand(t)]

(* No fiber comes back.                                                    *)
NoneBack == waiting = {} /\ \A f \in Tasks : m_state[f] # "READY"

(* A fiber that was taken or is in the queue has not been entered.         *)
Ahead(f) == Queued(f) \/ \E t \in Threads : pc[t] = "dispatch" /\ ft[t].fiber = f
NewOK == \A f \in Tasks : Ahead(f) => at[f] = "entry"

(* Different threads execute different tasks, all of them counted.         *)
DoingOK ==
    /\ \A t \in Threads : pc[t] = "run" => /\ at[Hand(t)] = "body"
                                           /\ Doing(t) \in Tasks
                                           /\ begun[Doing(t)] > 0
    /\ \A t, u \in Threads : pc[t] = "run" /\ pc[u] = "run" /\ Doing(t) = Doing(u) => t = u

(* Once a thread has been told to leave there is nothing left to do, and   *)
(* nobody who could schedule anything.                                     *)
ClosedOK == Closed => m_fibers = << >> /\ Busy = {}
CallerOK == idleState[Caller] = "TERM" => UseCaller /\ pc[Caller] \in InRun \cup {"join", "done"}

RInv == NoneBack /\ NewOK /\ DoingOK /\ ClosedOK /\ CallerOK

(* Without events and yields no fiber comes back.                          *)
LEMMA NoneBackKept ==
    ASSUME OnePiece, IInv, FInv, NoneBack, [Next]_vars
    PROVE  NoneBack'
<1>0. m_state \in [Tasks -> States] /\ "ready" \notin Behaviours /\ "register" \notin Behaviours
  BY DEF IInv, TypeOK, FiberTypeOK, OnePiece
<1>1. CASE UNCHANGED vars
  BY <1>1 DEF vars, fiberVars, userVars, NoneBack
<1>2. CASE EventStep
  BY <1>2 DEF EventStep, Fire, NoneBack
<1>3. ASSUME NEW t \in Threads, RunStep(t) PROVE NoneBack'
  <2>1. CASE Fetch(t) \/ NoTask(t) \/ Exit(t) \/ Idle(t) \/ Leave(t) \/ Back(t) \/ SettleElse(t)
    BY <2>1 DEF Fetch, NoTask, Exit, Idle, Leave, Back, SettleElse, fiberVars, userVars, NoneBack
  <2>2. CASE \E x \in Tasks : Spawn(t, x)
    BY <2>2 DEF Spawn, fiberVars, NoneBack
  <2>3. CASE RunFiber(t) \/ RunCb(t)
    <3>1. waiting' = waiting /\ (m_state' = m_state \/ \E f : m_state' = [m_state EXCEPT ![f] = "EXEC"])
      BY <2>3 DEF RunFiber, RunCb, fiberVars
    <3> QED  BY <1>0, <3>1 DEF NoneBack
  <2>4. CASE Return(t) \/ Throw(t) \/ YieldToHold(t)
    <3>1. waiting' = waiting /\ \E f : \E s \in {"TERM", "EXCEPT", "HOLD"} : m_state' = [m_state EXCEPT ![f] = s]
      BY <2>4 DEF Return, Throw, YieldToHold, GiveUp
    <3> QED  BY <1>0, <3>1 DEF NoneBack
  <2>5. CASE YieldToReady(t) \/ Register(t)
    BY <1>0, <2>5 DEF YieldToReady, Register
  <2>6. CASE SettleReady(t)
    BY <2>6 DEF SettleReady, fiberVars, userVars, NoneBack
  <2>7. CASE SettleFinished(t) \/ SetHold(t)
    <3>1. /\ waiting' = waiting
          /\ m_state' = m_state \/ \E f : \E s \in {"INIT", "HOLD"} : m_state' = [m_state EXCEPT ![f] = s]
      BY <2>7 DEF SettleFinished, SetHold, fiberVars, userVars
    <3> QED  BY <1>0, <3>1 DEF NoneBack
  <2> QED  BY <1>3, <2>1, <2>2, <2>3, <2>4, <2>5, <2>6, <2>7 DEF RunStep, BodyStep
<1>4. CASE MainStep
  BY <1>4 DEF MainStep, StopStep, UserStep, MainSchedule, MainScheduleBatch, Start, StopRequest, StopNoCall, StopCall,
              Join, fiberVars, userVars, NoneBack
<1> QED  BY <1>1, <1>2, <1>3, <1>4 DEF Next, ThreadStep, Terminated

(* A thread that goes on in run(), or leaves it, leaves the pool as open   *)
(* as it was.                                                              *)
LEMMA ClosedInRun ==
    ASSUME IInv, NEW t \in Threads, pc[t] \in InRun, NEW p \in InRun \cup {"exit", "join"},
           pc' = [pc EXCEPT ![t] = p], idleState' = idleState
    PROVE  Closed' <=> Closed
<1>1. pc \in [Threads -> Points]  BY DEF IInv, TypeOK, LocalTypeOK
<1>2. p \notin {"off", "main", "done"} /\ pc[t] \notin {"off", "main", "done"}
  BY DEF InRun, Handling
<1> QED  BY <1>1, <1>2 DEF Closed

(* What a step of run() does with the thread's place and its idle fiber.   *)
LEMMA RunMoves ==
    ASSUME IInv, FInv, NEW t \in Threads, RunStep(t), ~Idle(t), ~Exit(t)
    PROVE  /\ pc[t] \in InRun
           /\ \E p \in InRun : pc' = [pc EXCEPT ![t] = p]
           /\ idleState' = idleState
<1>1. pc \in [Threads -> Points] /\ pc' = pc => pc' = [pc EXCEPT ![t] = pc[t]]
  BY DEF IInv, TypeOK, LocalTypeOK
<1>2. pc \in [Threads -> Points]  BY DEF IInv, TypeOK, LocalTypeOK
<1>3. CASE Fetch(t) \/ NoTask(t) \/ Leave(t) \/ Back(t) \/ SettleElse(t) \/ SettleReady(t)
           \/ SettleFinished(t) \/ SetHold(t)
  BY <1>3 DEF Fetch, NoTask, Leave, Back, SettleElse, SettleReady, SettleFinished, SetHold,
              localVars, InRun, Handling
<1>4. CASE RunFiber(t) \/ RunCb(t)
  BY <1>1, <1>2, <1>4 DEF RunFiber, RunCb, localVars, InRun, Handling
<1>5. CASE BodyStep(t) \/ Register(t)
  <2>1. pc[t] = "run" /\ idleState' = idleState
    BY <1>5 DEF BodyStep, Return, Throw, YieldToReady, YieldToHold, Register, Spawn, CanSuspend,
                CanStep, InBody, GiveUp, localVars
  <2>2. pc' = pc \/ pc' = [pc EXCEPT ![t] = "leave"]
    BY <1>5 DEF BodyStep, Return, Throw, YieldToReady, YieldToHold, Register, Spawn, GiveUp
  <2> QED  BY <1>1, <1>2, <2>1, <2>2 DEF InRun, Handling
<1> QED  BY <1>3, <1>4, <1>5 DEF RunStep

(* The idle fiber of the calling thread terminates only inside stop().     *)
LEMMA CallerKept == ASSUME Orderly, IInv, FInv, PInv, CallerOK, [Next]_vars PROVE CallerOK'
<1>0. /\ pc \in [Threads -> Points] /\ Caller \in Threads
      /\ idleState \in [Threads -> {"live", "TERM"}]
      /\ starts \in Nat /\ MaxStarts \in Nat
  BY BoundsAssumption DEF IInv, TypeOK, LocalTypeOK, StopTypeOK, Threads
<1>1. CASE UNCHANGED vars
  BY <1>1 DEF vars, localVars, CallerOK
<1>2. CASE EventStep
  BY <1>2 DEF EventStep, Fire, localVars, CallerOK
<1>3. ASSUME NEW t \in Threads, RunStep(t) PROVE CallerOK'
  <2>1. CASE Idle(t)
    <3>1. /\ pc' = [pc EXCEPT ![t] = "fetch"] /\ pc[t] = "idle"
          /\ \A u \in Threads \ {t} : idleState'[u] = idleState[u]
      BY <1>0, <2>1 DEF Idle
    <3> QED  BY <1>0, <3>1 DEF CallerOK, PInv, PhaseOK, InRun
  <2>2. CASE Exit(t)
    <3>1. pc' = [pc EXCEPT ![t] = IF t = Caller THEN "join" ELSE "exit"] /\ idleState' = idleState
      BY <2>2 DEF Exit, localVars
    <3> QED  BY <1>0, <3>1 DEF CallerOK
  <2>3. CASE ~Idle(t) /\ ~Exit(t)
    <3>1. PICK p \in InRun : pc' = [pc EXCEPT ![t] = p]
      BY <1>3, <2>3, RunMoves
    <3>2. idleState' = idleState /\ pc[t] \in InRun
      BY <1>3, <2>3, RunMoves
    <3> QED  BY <1>0, <3>1, <3>2 DEF CallerOK
  <2> QED  BY <2>1, <2>2, <2>3
<1>4. CASE MainStep
  <2>1. CASE (\E x \in Tasks : MainSchedule(x)) \/ (\E x, y \in Tasks : MainScheduleBatch(x, y))
    BY <2>1 DEF MainSchedule, MainScheduleBatch, localVars, CallerOK
  <2>2. CASE Start
    BY <1>0, <2>2 DEF Start, CallerOK
  <2>3. CASE StopRequest
    BY <1>0, <2>3 DEF StopRequest, localVars, CallerOK, InRun, Handling
  <2>4. CASE StopNoCall
    BY <1>0, <2>4 DEF StopNoCall, localVars, CallerOK, InRun, Handling
  <2>5. CASE StopCall
    <3>1. pc[Caller] = "stop" /\ idleState' = idleState
      BY <2>5 DEF StopCall, localVars
    <3>2. idleState[Caller] # "TERM"
      BY <3>1 DEF CallerOK, InRun, Handling
    <3> QED  BY <3>1, <3>2 DEF CallerOK
  <2>6. CASE Join
    <3>1. starts >= 1
      BY <2>6 DEF Join, PInv, RootOK
    <3>2. idleState' = idleState /\ (UseCaller => pc'[Caller] = "done")
      BY <1>0, <2>6, <3>1 DEF Join, localVars, Orderly
    <3> QED  BY <3>2 DEF CallerOK
  <2> QED  BY <1>4, <2>1, <2>2, <2>3, <2>4, <2>5, <2>6 DEF MainStep, StopStep, UserStep
<1> QED  BY <1>1, <1>2, <1>3, <1>4 DEF Next, ThreadStep, Terminated

(* While the user may still schedule nobody has been told to leave.        *)
LEMMA OpenInMain ==
    ASSUME PInv, pc[Caller] = "main"
    PROVE  ~Closed
BY DEF PInv, PhaseOK, Closed, Threads

(* The pool closes when a thread sees stopping(), and opens when stop()    *)
(* has joined everyone.                                                    *)
LEMMA ClosedStep ==
    ASSUME Orderly, IInv, FInv, PInv, CallerOK, [Next]_vars
    PROVE  \/ Closed' <=> Closed
           \/ Closed' /\ Stopping /\ \E t \in Threads : Idle(t)
           \/ ~Closed' /\ Join
<1>0. /\ pc \in [Threads -> Points] /\ Threads = Workers \cup {Caller} /\ Caller \notin Workers
      /\ idleState \in [Threads -> {"live", "TERM"}]
  BY ThreadsAssumption DEF IInv, TypeOK, LocalTypeOK, Threads
<1>1. CASE UNCHANGED vars
  BY <1>1 DEF vars, localVars, Closed
<1>2. CASE EventStep
  BY <1>2 DEF EventStep, Fire, localVars, Closed
<1>3. ASSUME NEW t \in Threads, RunStep(t)
      PROVE  \/ Closed' <=> Closed
             \/ Closed' /\ Stopping /\ \E u \in Threads : Idle(u)
  <2>1. CASE Idle(t)
    <3>1. pc[t] = "idle" /\ pc' = [pc EXCEPT ![t] = "fetch"]
      BY <2>1 DEF Idle
    <3>2. CASE Stopping
      <4>1. idleState'[t] = "TERM" /\ pc'[t] = "fetch"
        BY <1>0, <2>1, <3>2 DEF Idle
      <4>2. Closed'  BY <4>1 DEF Closed
      <4> QED  BY <2>1, <3>2, <4>2
    <3>3. CASE ~Stopping
      <4>1. idleState' = idleState
        BY <1>0, <2>1, <3>3 DEF Idle
      <4>2. pc[t] \in InRun /\ "fetch" \in InRun \cup {"exit", "join"}
        BY <3>1 DEF InRun
      <4> QED  BY <3>1, <4>1, <4>2, ClosedInRun
    <3> QED  BY <3>2, <3>3
  <2>2. CASE Exit(t)
    <3>1. /\ pc' = [pc EXCEPT ![t] = IF t = Caller THEN "join" ELSE "exit"]
          /\ idleState' = idleState /\ pc[t] \in InRun
      BY <2>2 DEF Exit, localVars, InRun
    <3> QED  BY <3>1, ClosedInRun
  <2>3. CASE ~Idle(t) /\ ~Exit(t)
    <3>1. PICK p \in InRun : pc' = [pc EXCEPT ![t] = p]
      BY <1>3, <2>3, RunMoves
    <3>2. idleState' = idleState /\ pc[t] \in InRun
      BY <1>3, <2>3, RunMoves
    <3> QED  BY <3>1, <3>2, ClosedInRun
  <2> QED  BY <2>1, <2>2, <2>3
<1>4. CASE MainStep
  <2>1. CASE (\E x \in Tasks : MainSchedule(x)) \/ (\E x, y \in Tasks : MainScheduleBatch(x, y))
    BY <2>1 DEF MainSchedule, MainScheduleBatch, localVars, Closed
  <2>2. CASE Start
    <3>1. ~Closed  BY <2>2, OpenInMain DEF Start
    <3>2. ~Closed'  BY <2>2 DEF Start, Closed
    <3> QED  BY <3>1, <3>2
  <2>3. CASE StopRequest
    <3>1. idleState[Caller] # "TERM" /\ pc' = [pc EXCEPT ![Caller] = "stop"] /\ idleState' = idleState
      BY <2>3 DEF StopRequest, CallerOK, InRun, Handling, localVars
    <3> QED  BY <1>0, <3>1 DEF Closed
  <2>4. CASE StopNoCall
    BY <1>0, <2>4 DEF StopNoCall, localVars, Closed
  <2>5. CASE StopCall
    <3>1. /\ pc[Caller] = "stop" /\ idleState' = idleState
          /\ pc' = pc \/ pc' = [pc EXCEPT ![Caller] = "fetch"]
      BY <2>5 DEF StopCall, localVars
    <3> QED  BY <1>0, <3>1 DEF Closed
  <2>6. CASE Join
    <3>1. ~Closed'  BY <1>0, <2>6 DEF Join, Closed
    <3> QED  BY <2>6, <3>1
  <2> QED  BY <1>4, <2>1, <2>2, <2>3, <2>4, <2>5, <2>6 DEF MainStep, StopStep, UserStep
<1> QED  BY <1>1, <1>2, <1>3, <1>4 DEF Next, ThreadStep, Terminated

(* Where the counter is zero nobody works on a task.                       *)
LEMMA ZeroMeansIdle == ASSUME IInv, active = 0 PROVE Busy = {}
<1>1. IsFiniteSet(Busy) /\ Cardinality(Busy) \in Nat  BY BusyFinite, CountOne
<1>2. Cardinality(Busy) = 0  BY <1>1 DEF IInv, ActiveBoundsWorkers
<1> QED  BY <1>1, <1>2, FS_EmptySet

(* Once closed, nothing is scheduled and nothing taken.                    *)
LEMMA ClosedKept ==
    ASSUME OnePiece, IInv, FInv, PInv, NoneBack, ClosedOK, CallerOK, [Next]_vars
    PROVE  ClosedOK'
<1> SUFFICES ASSUME Closed' PROVE m_fibers' = << >> /\ Busy' = {}
  BY DEF ClosedOK
<1>0. pc \in [Threads -> Points] /\ Caller \in Threads /\ Orderly /\ "spawn" # "ready"
  BY DEF IInv, TypeOK, LocalTypeOK, Threads, OnePiece
<1>9. ~Closed => Stopping /\ \E t \in Threads : Idle(t)
  BY <1>0, ClosedStep
<1>1. m_fibers = << >> /\ Busy = {}
  <2>1. CASE Closed  BY <2>1 DEF ClosedOK
  <2>2. CASE ~Closed
    <3>1. Stopping  BY <1>9, <2>2
    <3> QED  BY <3>1, ZeroMeansIdle DEF Stopping
  <2> QED  BY <2>1, <2>2
<1>2. DOMAIN m_fibers = {} /\ \A t \in Threads : pc[t] \notin {"dispatch", "run", "leave", "back"}
  BY <1>1 DEF Busy
<1>3. pc[Caller] # "main"
  <2>1. CASE Closed  BY <2>1, OpenInMain
  <2>2. CASE ~Closed
    <3>1. PICK t \in Threads : Idle(t)  BY <1>9, <2>2
    <3>2. pc[t] = "idle" /\ stopping  BY <1>9, <2>2, <3>1 DEF Idle, Stopping
    <3> QED  BY <3>2 DEF PInv, PhaseOK, Threads
  <2> QED  BY <2>1, <2>2
<1>4. CASE UNCHANGED vars
  BY <1>1, <1>4 DEF vars, queueVars, Busy
<1>5. CASE EventStep
  BY <1>5 DEF EventStep, Fire, NoneBack
<1>6. ASSUME NEW t \in Threads, RunStep(t) PROVE m_fibers' = << >> /\ Busy' = {}
  <2>1. CASE NoTask(t) \/ Exit(t) \/ Idle(t) \/ SettleElse(t) \/ SettleFinished(t) \/ SetHold(t)
    <3>1. /\ m_fibers' = m_fibers
          /\ \E p \in {"idle", "join", "exit", "fetch", "hold"} : pc' = [pc EXCEPT ![t] = p]
      BY <2>1 DEF NoTask, Exit, Idle, SettleElse, SettleFinished, SetHold, queueVars
    <3>2. \A u \in Threads : pc'[u] \notin {"dispatch", "run", "leave", "back"}
      BY <1>0, <1>2, <3>1
    <3> QED  BY <1>1, <3>1, <3>2 DEF Busy
  <2>2. CASE Fetch(t)
    BY <1>2, <2>2 DEF Fetch
  <2>3. CASE RunFiber(t) \/ RunCb(t) \/ Leave(t) \/ Back(t)
    BY <1>2, <2>3 DEF RunFiber, RunCb, Leave, Back
  <2>4. CASE BodyStep(t) \/ Register(t)
    <3>1. pc[t] = "run"
      BY <2>4 DEF BodyStep, Return, Throw, YieldToReady, YieldToHold, Register, Spawn, CanSuspend, CanStep, InBody
    <3> QED  BY <1>2, <3>1
  <2>5. CASE SettleReady(t)
    <3>1. pc[t] = "settle" /\ Hand(t) \in Tasks /\ m_state[Hand(t)] = "READY"
      BY <2>5 DEF SettleReady, IInv, HandOK, Handling
    <3> QED  BY <3>1 DEF NoneBack
  <2> QED  BY <1>6, <2>1, <2>2, <2>3, <2>4, <2>5 DEF RunStep
<1>7. CASE MainStep
  <2>1. StopNoCall \/ StopCall \/ Join
    BY <1>3, <1>7 DEF MainStep, StopStep, UserStep, MainSchedule, MainScheduleBatch, Start, StopRequest
  <2>2. m_fibers' = m_fibers
    BY <2>1 DEF StopNoCall, StopCall, Join, queueVars
  <2>3. \A u \in Threads : pc'[u] \notin {"dispatch", "run", "leave", "back"}
    BY <1>0, <1>2, <2>1 DEF StopNoCall, StopCall, Join
  <2> QED  BY <1>1, <2>2, <2>3 DEF Busy
<1> QED  BY <1>4, <1>5, <1>6, <1>7 DEF Next, ThreadStep, Terminated

-----------------------------------------------------------------------------
(* Who does what                                                           *)

(* A thread goes on with what it does, or goes on doing nothing.           *)
SameDoing(u) ==
    /\ pc'[u] = "run" <=> pc[u] = "run"
    /\ pc[u] = "run" => Doing(u)' = Doing(u) /\ (at[Hand(u)])' = at[Hand(u)]

(* Tasks are scheduled; a thread begins with one; it comes to its end.     *)
Scheduling(S) ==
    /\ \A x \in S : submits[x] = 0 /\ submits'[x] = 1
    /\ \A x \in Tasks \ S : submits'[x] = submits[x]
    /\ begun' = begun /\ pc' = pc /\ idleState' = idleState
    /\ \A u \in Threads : SameDoing(u)
Beginning(t, c) ==
    /\ begun[c] = 0 /\ submits[c] = 1
    /\ begun' = [begun EXCEPT ![c] = @ + 1] /\ submits' = submits
    /\ pc[t] # "run" /\ pc'[t] = "run"
    /\ Doing(t)' = c /\ (at[Hand(t)])' = "body"
    /\ \A u \in Threads \ {t} : SameDoing(u)
Ending(t) ==
    /\ begun' = begun /\ submits' = submits
    /\ pc[t] = "run" /\ pc'[t] # "run"
    /\ \A u \in Threads \ {t} : SameDoing(u)
Nothing ==
    /\ begun' = begun /\ submits' = submits
    /\ \A u \in Threads : SameDoing(u)

(* What a thread does with a fiber that no other thread has leaves the     *)
(* others where they are.                                                  *)
LEMMA OthersDo ==
    ASSUME IInv, NEW t \in Threads, NEW f, f \in Tasks => \A u \in Threads \ {t} : ~Held(u, f),
           \A u \in Threads \ {t} : SameThread(u),
           \A x \in Tasks \ {f} : m_cb'[x] = m_cb[x] /\ at'[x] = at[x]
    PROVE  \A u \in Threads \ {t} : SameDoing(u)
<1> SUFFICES ASSUME NEW u \in Threads \ {t} PROVE SameDoing(u)  OBVIOUS
<1>1. pc'[u] = pc[u] /\ Hand(u)' = Hand(u)  BY DEF SameThread, Hand
<1>2. CASE pc[u] = "run"
  <2>1. Hand(u) \in Tasks /\ Held(u, Hand(u))
    BY <1>2 DEF IInv, HandOK, Handling, Hand, Held
  <2>2. Hand(u) # f  BY <2>1
  <2>3. m_cb'[Hand(u)] = m_cb[Hand(u)] /\ at'[Hand(u)] = at[Hand(u)]  BY <2>1, <2>2
  <2> QED  BY <1>1, <2>3 DEF SameDoing, Doing
<1>3. CASE pc[u] # "run"
  BY <1>1, <1>3 DEF SameDoing
<1> QED  BY <1>2, <1>3

(* A step that touches no fiber, and lets no thread begin or end.          *)
LEMMA NothingDone ==
    ASSUME IInv, UNCHANGED <<m_cb, at, ft, cb_fiber>>,
           \A u \in Threads : pc'[u] = "run" <=> pc[u] = "run"
    PROVE  \A u \in Threads : SameDoing(u)
BY DEF SameDoing, Doing, Hand

(* A user's fiber is swapped in for the first time.                        *)
LEMMA RunFiberBegins ==
    ASSUME IInv, FInv, DInv, NewOK, NEW t \in Threads, RunFiber(t)
    PROVE  \E c \in Tasks : Beginning(t, c)
<1>1. PICK f : f = ft[t].fiber  OBVIOUS
<1>2. pc[t] = "dispatch" /\ f # Null /\ ThreadOK(t)
  BY <1>1 DEF RunFiber, FInv
<1>3. f \in Tasks /\ Loose(f) /\ m_state[f] # "EXEC" /\ Held(t, f)
  BY <1>1, <1>2 DEF ThreadOK, LocalsOf, OneOf, TakenOf, Loose, Held
<1>4. at[f] = "entry"
  BY <1>1, <1>2, <1>3 DEF NewOK, Ahead
<1>5. f \in UserFibers /\ f \notin Callbacks /\ m_cb[f] = f
  BY <1>3, <1>4, TasksAssumption DEF Loose
<1>6. submits[f] = 1 /\ begun[f] = 0
  <2>1. Unbegun(f)  BY <1>1, <1>4, <1>5 DEF Unbegun
  <2> QED  BY <1>3, <2>1 DEF DInv, CountsOK
<1>7. /\ at \in [Tasks -> Places] /\ begun \in [Tasks -> Nat] /\ pc \in [Threads -> Points]
  BY DEF IInv, TypeOK, FiberTypeOK, UserTypeOK, LocalTypeOK
<1>8. /\ at' = [at EXCEPT ![f] = IF @ = "entry" THEN "body" ELSE @]
      /\ begun' = (IF at[f] = "entry" /\ m_cb[f] # Null
                   THEN [begun EXCEPT ![m_cb[f]] = @ + 1] ELSE begun)
      /\ pc' = [pc EXCEPT ![t] = "run"] /\ UNCHANGED <<ft, cb_fiber, m_cb, submits>>
  BY <1>1, <1>3 DEF RunFiber, localVars
<1>9. at'[f] = "body" /\ \A x \in Tasks \ {f} : at'[x] = at[x]
  BY <1>3, <1>4, <1>7, <1>8
<1>10. begun' = [begun EXCEPT ![f] = @ + 1]
  BY <1>2, <1>4, <1>5, <1>8
<1>11. Hand(t)' = f
  BY <1>1, <1>2, <1>8 DEF Hand
<1>12. \A u \in Threads \ {t} : SameThread(u) /\ ~Held(u, f)
  <2>1. \A u \in Threads \ {t} : ~Held(u, f)  BY <1>3, Mine
  <2>2. \A u \in Threads \ {t} : SameThread(u)  BY <1>7, <1>8 DEF SameThread
  <2> QED  BY <2>1, <2>2
<1>13. \A u \in Threads \ {t} : SameDoing(u)
  BY <1>8, <1>9, <1>12, OthersDo
<1>14. Doing(t)' = f /\ (at[Hand(t)])' = "body"
  BY <1>5, <1>8, <1>9, <1>11 DEF Doing
<1>15. pc[t] # "run" /\ pc'[t] = "run"
  BY <1>2, <1>7, <1>8
<1>16. Beginning(t, f)
  BY <1>6, <1>8, <1>10, <1>13, <1>14, <1>15 DEF Beginning
<1> QED  BY <1>3, <1>16

(* A callback is entered, on a new fiber or on the one kept from before.   *)
LEMMA RunCbBegins ==
    ASSUME IInv, FInv, DInv, NEW t \in Threads, RunCb(t)
    PROVE  \E c \in Tasks : Beginning(t, c)
<1>1. PICK c : c = ft[t].cb  OBVIOUS
<1>2. PICK f : f = IF cb_fiber[t] = Null THEN c ELSE cb_fiber[t]  OBVIOUS
<1>3. pc[t] = "dispatch" /\ c # Null /\ ThreadOK(t) /\ \A x \in Tasks : x # Null
  BY <1>1, TasksAssumption DEF RunCb, FInv
<1>4. ft[t].fiber = Null /\ c \in Callbacks /\ c \in Tasks /\ CbTaken(c)
  BY <1>1, <1>3 DEF ThreadOK, LocalsOf, OneOf, CbTaken, Tasks
<1>5. f \in Callbacks /\ f \in Tasks
  BY <1>2, <1>3, <1>4 DEF ThreadOK, LocalsOf, Tasks
<1>6. m_state[f] = "INIT" \/ cb_fiber[t] = Null
  BY <1>2, <1>3 DEF ThreadOK, SpareOf, Handling
<1>7. /\ at' = [at EXCEPT ![f] = "body"] /\ begun' = [begun EXCEPT ![c] = @ + 1]
      /\ m_cb' = [m_cb EXCEPT ![f] = c] /\ cb_fiber' = [cb_fiber EXCEPT ![t] = f]
      /\ ft' = [ft EXCEPT ![t] = NoItem] /\ pc' = [pc EXCEPT ![t] = "run"] /\ submits' = submits
  BY <1>1, <1>2, <1>6 DEF RunCb, Resettable
<1>8. /\ at \in [Tasks -> Places] /\ begun \in [Tasks -> Nat] /\ ft \in [Threads -> Items]
      /\ m_cb \in [Tasks -> Tasks \cup {Null}] /\ pc \in [Threads -> Points]
      /\ cb_fiber \in [Threads -> Tasks \cup {Null}]
  BY DEF IInv, TypeOK, FiberTypeOK, UserTypeOK, LocalTypeOK
<1>9. submits[c] = 1 /\ begun[c] = 0
  <2>1. Unbegun(c)  BY <1>4 DEF Unbegun
  <2> QED  BY <1>4, <2>1 DEF DInv, CountsOK
<1>10. \A u \in Threads \ {t} : SameThread(u)
  BY <1>7, <1>8 DEF SameThread
<1>11. \A u \in Threads \ {t} : ~Held(u, f)
  <2>1. CASE cb_fiber[t] = Null
    <3>1. f = c /\ Untouched(c)  BY <1>2, <1>4, <2>1 DEF FInv, TaskOK, CallbackOK
    <3> QED  BY <3>1 DEF Untouched
  <2>2. CASE cb_fiber[t] # Null
    <3>1. Held(t, f)  BY <1>2, <2>2 DEF Held
    <3> QED  BY <1>5, <3>1, Mine
  <2> QED  BY <2>1, <2>2
<1>12. \A x \in Tasks \ {f} : m_cb'[x] = m_cb[x] /\ at'[x] = at[x]
  BY <1>7, <1>8
<1>13. \A u \in Threads \ {t} : SameDoing(u)
  BY <1>10, <1>11, <1>12, OthersDo
<1>14. ft'[t].fiber = Null /\ cb_fiber'[t] = f /\ Hand(t)' = f
  <2>1. ft'[t] = NoItem /\ cb_fiber'[t] = f  BY <1>7, <1>8
  <2> QED  BY <2>1, NoItemFiber DEF Hand
<1>15. Doing(t)' = c /\ (at[Hand(t)])' = "body"
  BY <1>5, <1>7, <1>8, <1>14 DEF Doing
<1>16. pc[t] # "run" /\ pc'[t] = "run"
  BY <1>3, <1>7, <1>8
<1>17. Beginning(t, c)
  BY <1>7, <1>9, <1>13, <1>15, <1>16 DEF Beginning
<1> QED  BY <1>4, <1>17

(* A body returns, throws or suspends itself for good.                     *)
LEMMA GiveUpEnds ==
    ASSUME IInv, FInv, NEW t \in Threads, Return(t) \/ Throw(t) \/ YieldToHold(t)
    PROVE  Ending(t)
<1>1. /\ pc[t] = "run" /\ pc \in [Threads -> Points] /\ at \in [Tasks -> Places]
      /\ m_cb \in [Tasks -> Tasks \cup {Null}]
  BY DEF Return, Throw, YieldToHold, CanStep, InBody, CanSuspend, IInv, TypeOK, LocalTypeOK, FiberTypeOK
<1>2. /\ UNCHANGED <<ft, cb_fiber, submits, begun>> /\ pc' = [pc EXCEPT ![t] = "leave"]
      /\ \E p : at' = [at EXCEPT ![Hand(t)] = p]
      /\ m_cb' = m_cb \/ \E c : m_cb' = [m_cb EXCEPT ![Hand(t)] = c]
  BY DEF Return, Throw, YieldToHold, GiveUp, localVars
<1>3. Hand(t) \in Tasks /\ Held(t, Hand(t))
  BY <1>1 DEF IInv, HandOK, Handling, Hand, Held
<1>4. \A u \in Threads \ {t} : ~Held(u, Hand(t))
  BY <1>3, Mine
<1>5. \A u \in Threads \ {t} : SameThread(u)
  BY <1>1, <1>2 DEF SameThread
<1>6. \A x \in Tasks \ {Hand(t)} : m_cb'[x] = m_cb[x] /\ at'[x] = at[x]
  BY <1>1, <1>2
<1>7. \A u \in Threads \ {t} : SameDoing(u)
  BY <1>4, <1>5, <1>6, OthersDo
<1> QED  BY <1>1, <1>2, <1>7 DEF Ending

(* What run() does between two tasks begins and ends none.                 *)
LEMMA BetweenTasks ==
    ASSUME IInv, FInv, NEW t \in Threads,
           \/ Fetch(t) \/ NoTask(t) \/ Exit(t) \/ Idle(t) \/ Leave(t) \/ Back(t) \/ SettleElse(t)
           \/ SettleFinished(t) \/ SetHold(t)
    PROVE  Nothing
<1>1. /\ pc \in [Threads -> Points] /\ at \in [Tasks -> Places] /\ ft \in [Threads -> Items]
      /\ m_cb \in [Tasks -> Tasks \cup {Null}] /\ cb_fiber \in [Threads -> Tasks \cup {Null}]
  BY DEF IInv, TypeOK, LocalTypeOK, FiberTypeOK
<1>2. pc[t] # "run" /\ \E p : p # "run" /\ pc' = [pc EXCEPT ![t] = p]
  <2>1. CASE Exit(t)
    BY <2>1 DEF Exit
  <2>2. CASE ~Exit(t)
    BY <2>2 DEF Fetch, NoTask, Idle, Leave, Back, SettleElse, SettleFinished, SetHold
  <2> QED  BY <2>1, <2>2
<1>3. pc'[t] # "run" /\ \A u \in Threads \ {t} : pc'[u] = pc[u]
  BY <1>1, <1>2
<1>4. UNCHANGED <<submits, begun>>
  BY DEF Fetch, NoTask, Exit, Idle, Leave, Back, SettleElse, SettleFinished, SetHold, userVars
<1>5. CASE Fetch(t) \/ NoTask(t) \/ Exit(t) \/ Idle(t) \/ Leave(t) \/ Back(t) \/ SettleElse(t)
           \/ SetHold(t)
  <2>1. UNCHANGED <<m_cb, at>>
    BY <1>5 DEF Fetch, NoTask, Exit, Idle, Leave, Back, SettleElse, SetHold, fiberVars
  <2>2. \A u \in Threads \ {t} : ft'[u] = ft[u] /\ cb_fiber'[u] = cb_fiber[u]
    BY <1>1, <1>5 DEF Fetch, NoTask, Exit, Idle, Leave, Back, SettleElse, SetHold, Released, localVars
  <2>3. \A u \in Threads \ {t} : SameThread(u)
    BY <1>3, <2>2 DEF SameThread
  <2>4. \A u \in Threads \ {t} : SameDoing(u)
    BY <2>1, <2>3, OthersDo, TasksAssumption
  <2>5. SameDoing(t)  BY <1>2, <1>3 DEF SameDoing
  <2> QED  BY <1>4, <2>4, <2>5 DEF Nothing
<1>6. CASE SettleFinished(t)
  <2>1. /\ UNCHANGED cb_fiber /\ ft' = [ft EXCEPT ![t] = NoItem]
        /\ \/ UNCHANGED <<m_cb, at>>
           \/ \E c, p : m_cb' = [m_cb EXCEPT ![cb_fiber[t]] = c] /\ at' = [at EXCEPT ![cb_fiber[t]] = p]
    BY <1>6 DEF SettleFinished, fiberVars
  <2>2. \A u \in Threads \ {t} : SameThread(u)
    BY <1>1, <1>3, <2>1 DEF SameThread
  <2>3. \A x \in Tasks \ {cb_fiber[t]} : m_cb'[x] = m_cb[x] /\ at'[x] = at[x]
    BY <1>1, <2>1
  <2>4. cb_fiber[t] \in Tasks => \A u \in Threads \ {t} : ~Held(u, cb_fiber[t])
    <3>1. Held(t, cb_fiber[t])  BY DEF Held
    <3> QED  BY <3>1, Mine
  <2>5. \A u \in Threads \ {t} : SameDoing(u)
    BY <2>2, <2>3, <2>4, OthersDo
  <2>6. SameDoing(t)  BY <1>2, <1>3 DEF SameDoing
  <2> QED  BY <1>4, <2>5, <2>6 DEF Nothing
<1> QED  BY <1>5, <1>6

(* scheduler() schedules what was not scheduled before.                    *)
LEMMA SubmitSchedules ==
    ASSUME Orderly, IInv, NEW x \in Tasks, NEW thread, Submit(x, thread),
           UNCHANGED <<m_cb, at, pc, ft, cb_fiber, idleState, begun>>
    PROVE  Scheduling({x})
<1>1. submits \in [Tasks -> Nat] /\ submits[x] = 0
  BY FirstTime DEF IInv, TypeOK, UserTypeOK, Submit
<1>2. submits'[x] = 1 /\ \A y \in Tasks \ {x} : submits'[y] = submits[y]
  BY <1>1 DEF Submit
<1>3. \A u \in Threads : SameDoing(u)
  BY NothingDone
<1> QED  BY <1>1, <1>2, <1>3 DEF Scheduling

(* Every step, seen from outside.                                          *)
LEMMA WorkStep ==
    ASSUME OnePiece, IInv, FInv, PInv, DInv, RInv, [Next]_vars
    PROVE  \/ Nothing
           \/ \E S \in SUBSET Tasks : Scheduling(S) /\ ~Closed
           \/ \E t \in Threads : \/ \E c \in Tasks : Beginning(t, c) /\ (Closed' <=> Closed)
                                 \/ Ending(t) /\ (Closed' <=> Closed)
<1>0. pc \in [Threads -> Points] /\ Caller \in Threads /\ Orderly /\ NewOK
      /\ "ready" \notin Behaviours /\ "register" \notin Behaviours
  BY DEF IInv, TypeOK, LocalTypeOK, Threads, OnePiece, RInv
<1>1. CASE UNCHANGED vars
  <2>1. UNCHANGED <<m_cb, at, ft, cb_fiber, pc, begun, submits>>
    BY <1>1 DEF vars, fiberVars, localVars, userVars
  <2> QED  BY <2>1, NothingDone DEF Nothing
<1>2. CASE EventStep
  BY <1>2 DEF EventStep, Fire, RInv, NoneBack
<1>3. ASSUME NEW t \in Threads, RunStep(t)
      PROVE  \/ Nothing
             \/ \E S \in SUBSET Tasks : Scheduling(S) /\ ~Closed
             \/ \E c \in Tasks : Beginning(t, c) /\ (Closed' <=> Closed)
             \/ Ending(t) /\ (Closed' <=> Closed)
  <2>1. CASE \/ Fetch(t) \/ NoTask(t) \/ Exit(t) \/ Idle(t) \/ Leave(t) \/ Back(t) \/ SettleElse(t)
             \/ SettleFinished(t) \/ SetHold(t)
    BY <2>1, BetweenTasks
  <2>2. CASE RunFiber(t) \/ RunCb(t)
    <3>1. PICK c \in Tasks : Beginning(t, c)
      BY <1>0, <2>2, RunFiberBegins, RunCbBegins
    <3>2. ~Idle(t) /\ ~Exit(t)  BY <2>2 DEF RunFiber, RunCb, Idle, Exit
    <3>3. pc[t] \in InRun /\ idleState' = idleState /\ \E p \in InRun : pc' = [pc EXCEPT ![t] = p]
      BY <1>3, <3>2, RunMoves
    <3>4. Closed' <=> Closed  BY <3>3, ClosedInRun
    <3> QED  BY <3>1, <3>4
  <2>3. CASE Return(t) \/ Throw(t) \/ YieldToHold(t)
    <3>1. Ending(t)  BY <2>3, GiveUpEnds
    <3>2. ~Idle(t) /\ ~Exit(t)  BY <3>1 DEF Ending, Idle, Exit
    <3>3. pc[t] \in InRun /\ idleState' = idleState /\ \E p \in InRun : pc' = [pc EXCEPT ![t] = p]
      BY <1>3, <3>2, RunMoves
    <3>4. Closed' <=> Closed  BY <3>3, ClosedInRun
    <3> QED  BY <3>1, <3>4
  <2>4. CASE YieldToReady(t) \/ Register(t)
    BY <1>0, <2>4 DEF YieldToReady, Register
  <2>5. CASE \E x \in Tasks : Spawn(t, x)
    <3>1. PICK x \in Tasks, thread \in {AnyThread, t} :
            Submit(x, thread) /\ pc[t] = "run" /\ UNCHANGED <<m_cb, at, pc, ft, cb_fiber, idleState, begun>>
      BY <2>5 DEF Spawn, CanStep, InBody, fiberVars, localVars
    <3>2. Scheduling({x})  BY <1>0, <3>1, SubmitSchedules
    <3>3. ~Closed  BY <3>1 DEF RInv, ClosedOK, Busy
    <3> QED  BY <3>2, <3>3
  <2>6. CASE SettleReady(t)
    <3>1. pc[t] = "settle" /\ Hand(t) \in Tasks /\ m_state[Hand(t)] = "READY"
      BY <2>6 DEF SettleReady, IInv, HandOK, Handling
    <3> QED  BY <3>1 DEF RInv, NoneBack
  <2> QED  BY <1>3, <2>1, <2>2, <2>3, <2>4, <2>5, <2>6 DEF RunStep, BodyStep
<1>4. CASE MainStep
  <2>1. CASE \E x \in Tasks : MainSchedule(x)
    <3>1. PICK x \in Tasks, thread \in Pins \cup {AnyThread} :
            Submit(x, thread) /\ pc[Caller] = "main" /\ UNCHANGED <<m_cb, at, pc, ft, cb_fiber, idleState, begun>>
      BY <2>1 DEF MainSchedule, fiberVars, localVars
    <3>2. Scheduling({x})  BY <1>0, <3>1, SubmitSchedules
    <3> QED  BY <3>1, <3>2, OpenInMain
  <2>2. CASE \E x, y \in Tasks : MainScheduleBatch(x, y)
    <3>1. PICK x \in Tasks, y \in Tasks : MainScheduleBatch(x, y)  BY <2>2
    <3>2. submits \in [Tasks -> Nat] /\ submits[x] = 0 /\ submits[y] = 0 /\ x # y
      BY <1>0, <3>1, FirstTime DEF IInv, TypeOK, UserTypeOK, MainScheduleBatch
    <3>3. /\ submits' = [submits EXCEPT ![x] = @ + 1, ![y] = @ + 1] /\ pc[Caller] = "main"
          /\ UNCHANGED <<m_cb, at, pc, ft, cb_fiber, idleState, begun>>
      BY <3>1 DEF MainScheduleBatch, fiberVars, localVars
    <3>4. submits'[x] = 1 /\ submits'[y] = 1 /\ \A z \in Tasks \ {x, y} : submits'[z] = submits[z]
      BY <3>2, <3>3
    <3>5. \A u \in Threads : SameDoing(u)
      BY <3>3, NothingDone
    <3>6. Scheduling({x, y})  BY <3>2, <3>3, <3>4, <3>5 DEF Scheduling
    <3> QED  BY <3>3, <3>6, OpenInMain
  <2>3. CASE Start \/ StopRequest \/ StopNoCall \/ StopCall \/ Join
    <3>1. UNCHANGED <<m_cb, at, submits, begun, ft>>
      BY <2>3 DEF Start, StopRequest, StopNoCall, StopCall, Join, fiberVars, localVars, userVars
    <3>2. \A u \in Threads : pc'[u] = "run" <=> pc[u] = "run"
      <4>1. CASE Start
        BY <1>0, <4>1, OpenInMain DEF Start, PInv, PhaseOK, Threads
      <4>2. CASE Join
        BY <1>0, <4>2 DEF Join, Threads
      <4>3. CASE StopRequest \/ StopNoCall \/ StopCall
        BY <1>0, <4>3 DEF StopRequest, StopNoCall, StopCall
      <4> QED  BY <2>3, <4>1, <4>2, <4>3
    <3>3. \A u \in Threads : SameDoing(u)
      <4>1. CASE Start
        <5>1. \A u \in Threads : pc[u] # "run"
          BY <1>0, <4>1 DEF Start, PInv, PhaseOK, Threads
        <5> QED  BY <3>2, <5>1 DEF SameDoing
      <4>2. CASE ~Start
        <5>1. UNCHANGED cb_fiber
          BY <2>3, <4>2 DEF StopRequest, StopNoCall, StopCall, Join, localVars
        <5> QED  BY <3>1, <3>2, <5>1, NothingDone
      <4> QED  BY <4>1, <4>2
    <3> QED  BY <3>1, <3>3 DEF Nothing
  <2> QED  BY <1>4, <2>1, <2>2, <2>3 DEF MainStep, StopStep, UserStep
<1> QED  BY <1>1, <1>2, <1>3, <1>4 DEF Next, ThreadStep, Terminated

(* Different threads go on executing different tasks.                      *)
LEMMA DoingKept ==
    ASSUME OnePiece, IInv, FInv, PInv, DInv, RInv, [Next]_vars
    PROVE  DoingOK'
<1>0. DoingOK /\ begun \in [Tasks -> Nat]
  BY DEF RInv, IInv, TypeOK, UserTypeOK
<1>1. CASE begun' = begun /\ \A u \in Threads : SameDoing(u)
  BY <1>0, <1>1 DEF DoingOK, SameDoing
<1>2. ASSUME NEW t \in Threads, NEW c \in Tasks, Beginning(t, c) PROVE DoingOK'
  <2>1. \A x \in Tasks : begun[x] > 0 => begun'[x] > 0 /\ x # c
    BY <1>0, <1>2 DEF Beginning
  <2>2. begun'[c] > 0
    BY <1>0, <1>2 DEF Beginning
  <2>3. \A u \in Threads \ {t} : pc'[u] = "run" =>
            pc[u] = "run" /\ Doing(u)' = Doing(u) /\ (at[Hand(u)])' = at[Hand(u)]
    BY <1>2 DEF Beginning, SameDoing
  <2>4. pc'[t] = "run" => Doing(t)' = c /\ (at[Hand(t)])' = "body"
    BY <1>2 DEF Beginning
  <2>5. \A u \in Threads \ {t} : pc'[u] = "run" =>
            (at[Hand(u)])' = "body" /\ Doing(u)' \in Tasks /\ begun'[Doing(u)'] > 0 /\ Doing(u)' # c
    BY <1>0, <2>1, <2>3 DEF DoingOK
  <2>6. ASSUME NEW u \in Threads, NEW v \in Threads, pc'[u] = "run", pc'[v] = "run", Doing(u)' = Doing(v)'
        PROVE  u = v
    <3>1. CASE u # t /\ v # t
      BY <1>0, <2>3, <2>6, <3>1 DEF DoingOK
    <3>2. CASE u = t \/ v = t
      BY <2>4, <2>5, <2>6, <3>2
    <3> QED  BY <3>1, <3>2
  <2> QED  BY <2>2, <2>4, <2>5, <2>6 DEF DoingOK
<1>3. ASSUME NEW t \in Threads, Ending(t) PROVE DoingOK'
  <2>1. \A u \in Threads : pc'[u] = "run" =>
            pc[u] = "run" /\ Doing(u)' = Doing(u) /\ (at[Hand(u)])' = at[Hand(u)]
    BY <1>3 DEF Ending, SameDoing
  <2> QED  BY <1>0, <1>3, <2>1 DEF DoingOK, Ending
<1> QED  BY <1>1, <1>2, <1>3, WorkStep DEF Nothing, Scheduling

(* What a thread handles is not in the queue, nor taken by another thread. *)
LEMMA HandNotAhead == IInv /\ FInv => \A t \in Threads : pc[t] \in Handling => ~Ahead(Hand(t))
<1> SUFFICES ASSUME IInv, FInv, NEW t \in Threads, pc[t] \in Handling PROVE ~Ahead(Hand(t))
  OBVIOUS
<1>1. Hand(t) \in Tasks /\ Held(t, Hand(t))  BY DEF IInv, HandOK, Hand, Held
<1>2. ~Queued(Hand(t)) /\ \A u \in Threads \ {t} : ~Held(u, Hand(t))  BY <1>1, Mine
<1>3. pc[t] # "dispatch"  BY DEF Handling
<1> QED  BY <1>2, <1>3 DEF Ahead, Held

(* Fibers in the queue have not been entered.                              *)
LEMMA NewKept ==
    ASSUME OnePiece, IInv, FInv, PInv, NoneBack, NewOK, [Next]_vars,
           \A t \in Threads : pc'[t] \in Handling => ~Ahead(Hand(t))'
    PROVE  NewOK'
<1>0. /\ pc \in [Threads -> Points] /\ at \in [Tasks -> Places] /\ ft \in [Threads -> Items]
      /\ Caller \in Threads /\ Orderly /\ \A f \in Tasks : f # Null
      /\ "ready" \notin Behaviours /\ "register" \notin Behaviours /\ TypeOK /\ EntriesOK
  BY TasksAssumption DEF IInv, TypeOK, LocalTypeOK, FiberTypeOK, Threads, OnePiece, FInv
<1>1. ASSUME UNCHANGED <<m_fibers, ft, at>>, \A u \in Threads : pc'[u] = "dispatch" => pc[u] = "dispatch"
      PROVE  NewOK'
  BY <1>1 DEF NewOK, Ahead, Queued
<1>2. CASE UNCHANGED vars
  BY <1>1, <1>2 DEF vars, fiberVars, queueVars, localVars
<1>3. CASE EventStep
  BY <1>3 DEF EventStep, Fire, NoneBack
<1>4. ASSUME NEW x \in Tasks, NEW thread \in Threads \cup {AnyThread}, Submit(x, thread),
             UNCHANGED <<at, pc, ft>>
      PROVE  NewOK'
  <2>1. submits[x] = 0  BY <1>0, <1>4, FirstTime DEF Submit
  <2>2. PICK item : item = ItemOf(x, thread)  OBVIOUS
  <2>3. /\ m_fibers' = Append(m_fibers, item) /\ item \in Items
        /\ item.fiber = IF x \in UserFibers THEN x ELSE Null
    BY <1>4, <2>2, ItemOfTask DEF Submit, scheduleNoLock
  <2>4. \A f : Queued(f)' <=> (Queued(f) \/ item.fiber = f)
    BY <1>0, <2>3, EntryAdded
  <2>5. x \in UserFibers => at[x] = "entry"
    BY <2>1 DEF FInv, TaskOK, FreshOK
  <2>6. \A f \in Tasks : Ahead(f)' => Ahead(f) \/ (f = x /\ x \in UserFibers)
    BY <1>0, <1>4, <2>3, <2>4 DEF Ahead
  <2> QED  BY <1>4, <2>5, <2>6 DEF NewOK
<1>5. ASSUME NEW t \in Threads, RunStep(t) PROVE NewOK'
  <2>1. CASE NoTask(t) \/ Exit(t) \/ Idle(t) \/ Leave(t) \/ Back(t) \/ SettleElse(t)
    <3>1. UNCHANGED <<m_fibers, ft, at>>
      BY <2>1 DEF NoTask, Exit, Idle, Leave, Back, SettleElse, queueVars, localVars, fiberVars
    <3>2. \A u \in Threads : pc'[u] = "dispatch" => pc[u] = "dispatch"
      BY <1>0, <2>1 DEF NoTask, Exit, Idle, Leave, Back, SettleElse
    <3> QED  BY <1>1, <3>1, <3>2
  <2>2. CASE Fetch(t)
    <3>1. PICK i \in DOMAIN m_fibers : /\ ft' = [ft EXCEPT ![t] = m_fibers[i]]
                                       /\ m_fibers' = RemoveAt(m_fibers, i)
      BY <2>2 DEF Fetch
    <3>2. m_fibers \in Seq(Items)  BY <1>0 DEF TypeOK, QueueTypeOK
    <3>3. \A j \in DOMAIN m_fibers' :
             Old(i, j) \in DOMAIN m_fibers \ {i} /\ m_fibers'[j] = m_fibers[Old(i, j)]
      BY <3>1, <3>2, Removed
    <3>4. \A f : Queued(f)' => Queued(f)
      BY <3>3 DEF Queued
    <3>5. /\ ft'[t] = m_fibers[i] /\ at' = at
          /\ \A u \in Threads \ {t} : ft'[u] = ft[u] /\ pc'[u] = pc[u]
      BY <1>0, <2>2, <3>1 DEF Fetch, fiberVars
    <3>6. Queued(m_fibers[i].fiber)  BY DEF Queued
    <3>7. \A f \in Tasks : Ahead(f)' => Ahead(f)
      BY <3>4, <3>5, <3>6 DEF Ahead
    <3> QED  BY <3>5, <3>7 DEF NewOK
  <2>3. CASE RunFiber(t) \/ RunCb(t) \/ Return(t) \/ Throw(t) \/ YieldToHold(t)
    <3>2. /\ m_fibers' = m_fibers /\ pc'[t] \in Handling /\ \A u \in Threads \ {t} : pc'[u] = pc[u]
          /\ \A u \in Threads \ {t} : ft'[u] = ft[u]
          /\ \A f \in Tasks : f # Hand(t)' => at'[f] = at[f]
      <4>1. CASE Return(t) \/ Throw(t) \/ YieldToHold(t)
        <5>1. /\ m_fibers' = m_fibers /\ pc' = [pc EXCEPT ![t] = "leave"] /\ UNCHANGED <<ft, cb_fiber>>
              /\ \E p : at' = [at EXCEPT ![Hand(t)] = p]
          BY <4>1 DEF Return, Throw, YieldToHold, GiveUp, queueVars, localVars
        <5>2. Hand(t)' = Hand(t)  BY <5>1 DEF Hand
        <5> QED  BY <1>0, <5>1, <5>2 DEF Handling
      <4>2. CASE RunFiber(t)
        <5>1. pc[t] = "dispatch" /\ ft[t].fiber # Null /\ ThreadOK(t)
          BY <4>2 DEF RunFiber, FInv
        <5>2. m_state[ft[t].fiber] # "EXEC"
          BY <5>1 DEF ThreadOK, TakenOf, Loose
        <5>3. /\ m_fibers' = m_fibers /\ pc' = [pc EXCEPT ![t] = "run"] /\ UNCHANGED <<ft, cb_fiber>>
              /\ \E p : at' = [at EXCEPT ![ft[t].fiber] = p]
          BY <4>2, <5>2 DEF RunFiber, localVars
        <5>4. Hand(t)' = ft[t].fiber  BY <5>1, <5>3 DEF Hand
        <5> QED  BY <1>0, <5>3, <5>4 DEF Handling
      <4>3. CASE RunCb(t)
        <5>1. PICK f : f = IF cb_fiber[t] = Null THEN ft[t].cb ELSE cb_fiber[t]  OBVIOUS
        <5>2. pc[t] = "dispatch" /\ ThreadOK(t)
          BY <4>3 DEF RunCb, FInv
        <5>3. m_state[f] = "INIT" \/ cb_fiber[t] = Null
          BY <5>1, <5>2 DEF ThreadOK, SpareOf, Handling
        <5>4. /\ at' = [at EXCEPT ![f] = "body"] /\ cb_fiber' = [cb_fiber EXCEPT ![t] = f]
              /\ ft' = [ft EXCEPT ![t] = NoItem] /\ pc' = [pc EXCEPT ![t] = "run"]
              /\ m_fibers' = m_fibers
          BY <4>3, <5>1, <5>3 DEF RunCb, Resettable, queueVars
        <5>5. ft'[t] = NoItem /\ cb_fiber'[t] = f
          BY <1>0, <5>4 DEF IInv, TypeOK, LocalTypeOK
        <5>6. Hand(t)' = f  BY <5>5, NoItemFiber DEF Hand
        <5> QED  BY <1>0, <5>4, <5>6 DEF Handling
      <4> QED  BY <2>3, <4>1, <4>2, <4>3
    <3>3. \A f \in Tasks : Ahead(f)' => Ahead(f) /\ f # Hand(t)'
      <4>1. \A f : Queued(f)' <=> Queued(f)  BY <3>2 DEF Queued
      <4>2. pc'[t] # "dispatch"  BY <3>2 DEF Handling
      <4>3. ~Ahead(Hand(t))'  BY <3>2
      <4> QED  BY <3>2, <4>1, <4>2, <4>3 DEF Ahead
    <3> QED  BY <3>2, <3>3 DEF NewOK
  <2>4. CASE YieldToReady(t) \/ Register(t)
    BY <1>0, <2>4 DEF YieldToReady, Register
  <2>5. CASE \E x \in Tasks : Spawn(t, x)
    <3>1. PICK x \in Tasks, thread \in {AnyThread, t} : Submit(x, thread) /\ UNCHANGED <<at, pc, ft>>
      BY <2>5 DEF Spawn, fiberVars, localVars
    <3>2. thread \in Threads \cup {AnyThread}  BY <3>1
    <3> QED  BY <1>4, <3>1, <3>2
  <2>6. CASE SettleReady(t)
    <3>1. pc[t] = "settle" /\ Hand(t) \in Tasks /\ m_state[Hand(t)] = "READY"
      BY <2>6 DEF SettleReady, IInv, HandOK, Handling
    <3> QED  BY <3>1 DEF NoneBack
  <2>7. CASE SettleFinished(t) \/ SetHold(t)
    <3>1. /\ m_fibers' = m_fibers /\ pc' = [pc EXCEPT ![t] = "fetch"] /\ ft' = [ft EXCEPT ![t] = NoItem]
          /\ at' = at \/ at' = [at EXCEPT ![cb_fiber[t]] = "entry"]
      BY <2>7 DEF SettleFinished, SetHold, queueVars, fiberVars
    <3>2. \A f \in Tasks : at[f] = "entry" => at'[f] = "entry"
      BY <1>0, <3>1
    <3>3. \A u \in Threads : pc'[u] = "dispatch" => pc[u] = "dispatch" /\ ft'[u] = ft[u]
      BY <1>0, <3>1
    <3>4. \A f \in Tasks : Ahead(f)' => Ahead(f)
      BY <3>1, <3>3 DEF Ahead, Queued
    <3> QED  BY <3>2, <3>4 DEF NewOK
  <2> QED  BY <1>5, <2>1, <2>2, <2>3, <2>4, <2>5, <2>6, <2>7 DEF RunStep, BodyStep
<1>6. CASE MainStep
  <2>1. CASE \E x \in Tasks : MainSchedule(x)
    <3>1. PICK x \in Tasks, thread \in Pins \cup {AnyThread} : Submit(x, thread) /\ UNCHANGED <<at, pc, ft>>
      BY <2>1 DEF MainSchedule, fiberVars, localVars
    <3>2. thread \in Threads \cup {AnyThread}  BY PinsAssumption
    <3> QED  BY <1>4, <3>1, <3>2
  <2>2. CASE Start \/ StopRequest \/ StopNoCall \/ StopCall \/ Join
    <3>1. UNCHANGED <<m_fibers, ft, at>>
      BY <2>2 DEF Start, StopRequest, StopNoCall, StopCall, Join, queueVars, localVars, fiberVars
    <3>2. \A u \in Threads : pc'[u] = "dispatch" => pc[u] = "dispatch"
      BY <1>0, <2>2 DEF Start, StopRequest, StopNoCall, StopCall, Join
    <3> QED  BY <1>1, <3>1, <3>2
  <2>3. CASE \E x, y \in Tasks : MainScheduleBatch(x, y)
    <3>1. PICK x \in Tasks, y \in Tasks : MainScheduleBatch(x, y)  BY <2>3
    <3>2. submits[x] = 0 /\ submits[y] = 0 /\ x # y
      BY <1>0, <3>1, FirstTime DEF MainScheduleBatch
    <3>3. PICK a, b : a = ItemOf(x, AnyThread) /\ b = ItemOf(y, AnyThread)  OBVIOUS
    <3>4. m_fibers' = Append(Append(m_fibers, a), b) /\ UNCHANGED <<at, pc, ft>>
      BY <3>1, <3>3 DEF MainScheduleBatch, scheduleNoLock, fiberVars, localVars
    <3>5. /\ a \in Items /\ OneOf(a) /\ x # Null
          /\ a.fiber = IF x \in UserFibers THEN x ELSE Null
          /\ a.cb = IF x \in UserFibers THEN Null ELSE x
          /\ x \in Callbacks <=> x \notin UserFibers
      BY <3>3, ItemOfTask
    <3>6. /\ b \in Items /\ OneOf(b) /\ y # Null
          /\ b.fiber = IF y \in UserFibers THEN y ELSE Null
          /\ b.cb = IF y \in UserFibers THEN Null ELSE y
          /\ y \in Callbacks <=> y \notin UserFibers
      BY <3>3, ItemOfTask
    <3>7. ~Queued(x) /\ (x \in Callbacks => ~CbQueued(x)) /\ ~Queued(y) /\ (y \in Callbacks => ~CbQueued(y))
      BY <3>2, NotQueued
    <3>8. Differ(a, b)  BY <3>2, <3>5, <3>6 DEF Differ
    <3>9. \A f : Queued(f)' <=> (Queued(f) \/ a.fiber = f \/ b.fiber = f)
      BY <1>0, <3>4, <3>5, <3>6, <3>7, <3>8, EntriesAdded
    <3>10. \A z \in {x, y} : z \in UserFibers => at[z] = "entry"
      BY <3>2 DEF FInv, TaskOK, FreshOK
    <3>11. \A f \in Tasks : Ahead(f)' => Ahead(f) \/ (f \in {x, y} /\ f \in UserFibers)
      BY <1>0, <3>4, <3>5, <3>6, <3>9 DEF Ahead
    <3> QED  BY <3>4, <3>10, <3>11 DEF NewOK
  <2> QED  BY <1>6, <2>1, <2>2, <2>3 DEF MainStep, StopStep, UserStep
<1> QED  BY <1>2, <1>3, <1>5, <1>6 DEF Next, ThreadStep, Terminated

(* The initial state.                                                      *)
LEMMA InitRInv == Init => RInv
<1> SUFFICES ASSUME Init PROVE RInv  OBVIOUS
<1>1. Caller \in Threads /\ m_fibers = << >> /\ DOMAIN m_fibers = {}
  BY DEF Threads, Init
<1>2. \A t \in Threads : pc[t] \in {"main", "off"} /\ idleState[t] = "live"
  BY DEF Init
<1>3. NoneBack  BY DEF Init, NoneBack
<1>4. NewOK  BY <1>1, <1>2 DEF NewOK, Ahead, Queued
<1>5. DoingOK  BY <1>2 DEF DoingOK
<1>6. ClosedOK  BY <1>2 DEF ClosedOK, Closed
<1>7. CallerOK  BY <1>1, <1>2 DEF CallerOK
<1> QED  BY <1>3, <1>4, <1>5, <1>6, <1>7 DEF RInv

(* Every step keeps it.                                                    *)
LEMMA NextRInv ==
    ASSUME OnePiece, IInv, FInv, PInv, DInv, RInv, [Next]_vars,
           \A t \in Threads : pc'[t] \in Handling => ~Ahead(Hand(t))'
    PROVE  RInv'
<1>1. Orderly /\ NoneBack /\ NewOK /\ ClosedOK /\ CallerOK  BY DEF OnePiece, RInv
<1>2. NoneBack'  BY <1>1, NoneBackKept
<1>3. NewOK'  BY <1>1, NewKept
<1>4. DoingOK'  BY DoingKept
<1>5. ClosedOK'  BY <1>1, ClosedKept
<1>6. CallerOK'  BY <1>1, CallerKept
<1> QED  BY <1>2, <1>3, <1>4, <1>5, <1>6 DEF RInv

Inv == IInv /\ FInv /\ PInv /\ DInv /\ RInv

(* No fiber registers, so no wake-up comes too early.                      *)
LEMMA NoneEarly == ASSUME OnePiece PROVE Spec => []OnTime
<1> DEFINE I == waiting = {} /\ OnTime
<1>1. Init => I  BY DEF Init, OnTime
<1>2. I /\ [Next]_vars => I'
  <2> SUFFICES ASSUME I, [Next]_vars PROVE I'  OBVIOUS
  <2>1. CASE UNCHANGED vars  BY <2>1 DEF vars, userVars, OnTime
  <2>2. CASE EventStep  BY <2>2 DEF EventStep, Fire
  <2>3. ASSUME NEW t \in Threads, RunStep(t) PROVE UNCHANGED <<waiting, overtaken>>
    <3>1. ~Register(t)  BY DEF OnePiece, Register
    <3> QED
      BY <2>3, <3>1 DEF RunStep, BodyStep, Fetch, NoTask, Exit, Idle, RunFiber, RunCb, Return,
                Throw, YieldToReady, YieldToHold, GiveUp, Spawn, Leave, Back, SettleReady,
                SettleFinished, SettleElse, SetHold, userVars
  <2>4. CASE MainStep
    BY <2>4 DEF MainStep, StopStep, UserStep, MainSchedule, MainScheduleBatch, Start, StopRequest,
                StopNoCall, StopCall, Join, userVars, OnTime
  <2> QED  BY <2>1, <2>2, <2>3, <2>4 DEF Next, ThreadStep, Terminated, OnTime
<1> QED  BY <1>1, <1>2, PTL DEF Spec

(* The invariants together.                                                *)
LEMMA InPieces == ASSUME OnePiece PROVE Spec => []Inv
<1>1. Orderly  BY DEF OnePiece
<1>2. Spec => [](IInv /\ FInv /\ PInv /\ DInv)  BY <1>1, Accounts, NoneEarly, PTL
<1>3. Init => RInv  BY InitRInv
<1>4. (IInv /\ FInv)' => (\A t \in Threads : pc[t] \in Handling => ~Ahead(Hand(t)))'
  BY HandNotAhead, PTL
<1>5. (IInv /\ FInv /\ PInv /\ DInv) /\ (IInv /\ FInv /\ PInv /\ DInv)' /\ RInv /\ [Next]_vars => RInv'
  BY <1>4, NextRInv
<1> QED  BY <1>2, <1>3, <1>5, PTL DEF Spec, Inv

-----------------------------------------------------------------------------
(* The refinement                                                          *)

Pending == {x \in Tasks : InQueue(x)}
Ended == {x \in Tasks : begun[x] > 0} \ Executing

(* A task is pending for the pool until it has been entered as often as it *)
(* was scheduled.                                                          *)
LEMMA PendingIs == Inv => Pending = {x \in Tasks : begun[x] # submits[x]}
<1> SUFFICES ASSUME Inv, NEW x \in Tasks PROVE InQueue(x) <=> begun[x] # submits[x]
  BY DEF Pending
<1>1. IInv /\ FInv /\ DInv /\ NewOK /\ x # Null  BY TasksAssumption DEF Inv, RInv
<1>2. Unbegun(x) <=> begun[x] # submits[x]
  BY <1>1 DEF DInv, CountsOK
<1>3. \A i \in DOMAIN m_fibers : OneOf(m_fibers[i])
  BY <1>1 DEF FInv, EntriesOK
<1>4. \A t \in Threads : ThreadOK(t)
  BY <1>1 DEF FInv
<1>5. CASE x \in Callbacks
  <2>1. x \notin UserFibers  BY <1>5, TasksAssumption
  <2>2. ~Ahead(x)
    <3>1. SUFFICES ASSUME Ahead(x) PROVE FALSE  OBVIOUS
    <3>2. at[x] = "entry"  BY <1>1, <3>1 DEF NewOK
    <3>3. Loose(x)
      <4>1. CASE Queued(x)  BY <1>1, <4>1 DEF FInv, TaskOK, QueuedOK
      <4>2. CASE ~Queued(x)
        <5>1. PICK t \in Threads : pc[t] = "dispatch" /\ ft[t].fiber = x
          BY <3>1, <4>2 DEF Ahead
        <5> QED  BY <1>1, <1>4, <5>1 DEF ThreadOK, TakenOf
      <4> QED  BY <4>1, <4>2
    <3> QED  BY <2>1, <3>2, <3>3 DEF Loose
  <2>3. \A t \in Threads : ft[t].cb = x => pc[t] = "dispatch"
    <3>1. \A t \in Threads : ft[t] = NoItem => ft[t].cb = Null  BY DEF NoItem
    <3> QED  BY <1>1, <1>4, <3>1 DEF ThreadOK, LocalsOf
  <2>4. InQueue(x) <=> CbQueued(x) \/ CbTaken(x)
    BY <2>2, <2>3 DEF InQueue, Ahead, Queued, CbQueued, CbTaken
  <2> QED  BY <1>2, <1>5, <2>4 DEF Unbegun
<1>6. CASE x \notin Callbacks
  <2>1. \A i \in DOMAIN m_fibers : m_fibers[i].cb # x
    BY <1>1, <1>3, <1>6 DEF OneOf
  <2>2. \A t \in Threads : pc[t] = "dispatch" => ft[t].cb # x
    BY <1>1, <1>4, <1>6 DEF ThreadOK, LocalsOf, OneOf
  <2>3. InQueue(x) <=> Ahead(x)
    BY <2>1, <2>2 DEF InQueue, Ahead, Queued
  <2>4. Ahead(x) => at[x] = "entry"
    BY <1>1 DEF NewOK
  <2>5. ASSUME NEW t \in Threads, ft[t].fiber = x, at[x] = "entry" PROVE pc[t] = "dispatch"
    <3>1. ft[t] # NoItem  BY <1>1, <2>5, NoItemFiber
    <3>2. pc[t] \notin Handling
      <4>1. SUFFICES ASSUME pc[t] \in Handling PROVE FALSE  OBVIOUS
      <4>2. at[Hand(t)] # "entry" /\ Hand(t) = x
        BY <1>1, <2>5, <4>1, HandlingEntered DEF Hand
      <4> QED  BY <2>5, <4>2
    <3> QED  BY <1>4, <3>1, <3>2 DEF ThreadOK, LocalsOf
  <2>6. Ahead(x) <=> Unbegun(x)
    BY <1>6, <2>4, <2>5 DEF Unbegun, Ahead
  <2> QED  BY <1>2, <2>3, <2>6
<1> QED  BY <1>5, <1>6

(* The pool's state after a step, in terms of the counters.                *)
LEMMA PoolStep ==
    ASSUME OnePiece, Inv, [Next]_vars,
           Pending' = {x \in Tasks : begun'[x] # submits'[x]}
    PROVE  [Pool!Next]_(Pool!vars)
<1>0. IInv /\ FInv /\ PInv /\ DInv /\ RInv /\ DoingOK /\ ClosedOK /\ CallerOK /\ Orderly
  BY DEF Inv, RInv, OnePiece
<1>1. Pending = {x \in Tasks : begun[x] # submits[x]}  BY PendingIs
<1>2. begun \in [Tasks -> Nat] /\ submits \in [Tasks -> Nat]
  BY <1>0 DEF IInv, TypeOK, UserTypeOK
<1>3. /\ \A x : x \in Executing <=> \E t \in Threads : pc[t] = "run" /\ Doing(t) = x
      /\ \A x : x \in Executing' <=> \E t \in Threads : pc'[t] = "run" /\ Doing(t)' = x
  BY DEF Executing, Doing
<1>4. \A x \in Executing : x \in Tasks /\ begun[x] > 0
  BY <1>0, <1>3 DEF DoingOK
<1>5. ASSUME Nothing PROVE [Pool!Next]_(Pool!vars)
  <2>1. Pending' = Pending  BY <1>1, <1>5 DEF Nothing
  <2>2. Executing' = Executing  BY <1>3, <1>5 DEF Nothing, SameDoing
  <2>3. Ended' = Ended  BY <1>5, <2>2 DEF Ended, Nothing
  <2>4. CASE Closed' <=> Closed
    <3>1. UNCHANGED Pool!vars
      BY <2>1, <2>2, <2>3, <2>4 DEF Pool!vars, Pending, Ended
    <3> QED  BY <3>1
  <2>5. CASE Closed' /\ Stopping
    <3>1. m_fibers = << >> /\ Busy = {}
      BY <1>0, <2>5, ZeroMeansIdle DEF Stopping
    <3>2. DOMAIN m_fibers = {} /\ \A t \in Threads : pc[t] \notin {"dispatch", "run"}
      BY <3>1 DEF Busy
    <3>3. Pending = {} /\ Executing = {}
      BY <1>3, <3>2 DEF Pending, InQueue
    <3>4. Closed' = TRUE  BY <2>5
    <3>5. Pool!Close
      BY <2>1, <2>2, <2>3, <3>3, <3>4 DEF Pool!Close, Pending, Ended
    <3> QED  BY <3>5 DEF Pool!Next
  <2>6. CASE Closed /\ ~Closed'
    <3>1. Closed' = FALSE  BY <2>6
    <3>2. Pool!Reopen
      BY <2>1, <2>2, <2>3, <2>6, <3>1 DEF Pool!Reopen, Pending, Ended
    <3> QED  BY <3>2 DEF Pool!Next
  <2>7. (Closed' <=> Closed) \/ (Closed' /\ Stopping) \/ (Closed /\ ~Closed')
    BY <1>0, ClosedStep
  <2> QED  BY <2>4, <2>5, <2>6, <2>7
<1>6. ASSUME NEW S \in SUBSET Tasks, Scheduling(S), ~Closed PROVE [Pool!Next]_(Pool!vars)
  <2>1. \A x \in S : submits[x] = 0 /\ submits'[x] = 1 /\ begun[x] = 0 /\ begun'[x] = 0
    <3>1. ASSUME NEW x \in S PROVE begun[x] = 0
      <4>1. submits[x] = 0 /\ x \in Tasks  BY <1>6 DEF Scheduling
      <4> QED  BY <1>0, <4>1 DEF DInv, CountsOK
    <3> QED  BY <1>6, <3>1 DEF Scheduling
  <2>2. Pending' = Pending \cup S
    BY <1>1, <1>6, <2>1 DEF Scheduling
  <2>3. Executing' = Executing  BY <1>3, <1>6 DEF Scheduling, SameDoing
  <2>4. Ended' = Ended  BY <1>6, <2>3 DEF Ended, Scheduling
  <2>5. Closed' = Closed
    BY <1>6 DEF Scheduling, Closed
  <2>6. S \cap (Pending \cup Executing \cup Ended) = {}
    <3>1. \A x \in S : x \notin Pending  BY <1>1, <2>1
    <3>2. \A x \in S : x \notin Executing  BY <1>2, <1>4, <2>1
    <3>3. \A x \in S : x \notin Ended  BY <1>2, <2>1 DEF Ended
    <3> QED  BY <3>1, <3>2, <3>3
  <2>7. Pool!Submit(S)
    BY <1>6, <2>2, <2>3, <2>4, <2>5, <2>6 DEF Pool!Submit, Pending, Ended
  <2> QED  BY <2>7 DEF Pool!Next
<1>7. ASSUME NEW t \in Threads, NEW c \in Tasks, Beginning(t, c), Closed' <=> Closed
      PROVE  [Pool!Next]_(Pool!vars)
  <2>1. begun[c] = 0 /\ submits[c] = 1 /\ begun'[c] = 1 /\ submits' = submits
        /\ \A x \in Tasks \ {c} : begun'[x] = begun[x]
    BY <1>2, <1>7 DEF Beginning
  <2>2. c \in Pending /\ Pending' = Pending \ {c}
    <3>1. c \in Pending  BY <1>1, <2>1
    <3>2. \A x \in Tasks : begun'[x] # submits'[x] <=> (begun[x] # submits[x] /\ x # c)
      BY <2>1
    <3> QED  BY <1>1, <3>1, <3>2
  <2>3. Executing' = Executing \cup {c}
    <3>1. \A u \in Threads \ {t} : pc'[u] = "run" <=> pc[u] = "run"
      BY <1>7 DEF Beginning, SameDoing
    <3>2. \A u \in Threads \ {t} : pc[u] = "run" => Doing(u)' = Doing(u)
      BY <1>7 DEF Beginning, SameDoing
    <3>3. pc[t] # "run" /\ pc'[t] = "run" /\ Doing(t)' = c
      BY <1>7 DEF Beginning
    <3> QED  BY <1>3, <3>1, <3>2, <3>3
  <2>4. Ended' = Ended
    <3>1. \A x \in Tasks : begun'[x] > 0 <=> (begun[x] > 0 \/ x = c)
      BY <1>2, <2>1
    <3>2. ~(begun[c] > 0)  BY <1>2, <2>1
    <3> QED  BY <2>3, <3>1, <3>2 DEF Ended
  <2>5. Closed' = Closed  BY <1>7 DEF Closed
  <2>6. Pool!Begin(c)
    BY <2>2, <2>3, <2>4, <2>5 DEF Pool!Begin, Pending, Ended
  <2> QED  BY <2>6 DEF Pool!Next
<1>8. ASSUME NEW t \in Threads, Ending(t), Closed' <=> Closed
      PROVE  [Pool!Next]_(Pool!vars)
  <2>1. PICK c : c = Doing(t)  OBVIOUS
  <2>2. pc[t] = "run" /\ pc'[t] # "run" /\ begun' = begun /\ submits' = submits
    BY <1>8 DEF Ending
  <2>3. c \in Tasks /\ begun[c] > 0 /\ c \in Executing
    BY <1>0, <1>3, <2>1, <2>2 DEF DoingOK
  <2>4. Pending' = Pending  BY <1>1, <2>2
  <2>5. Executing' = Executing \ {c}
    <3>1. \A u \in Threads \ {t} : pc'[u] = "run" <=> pc[u] = "run"
      BY <1>8 DEF Ending, SameDoing
    <3>2. \A u \in Threads \ {t} : pc[u] = "run" => Doing(u)' = Doing(u) /\ Doing(u) # c
      BY <1>0, <1>8, <2>1, <2>2 DEF Ending, SameDoing, DoingOK
    <3> QED  BY <1>3, <2>1, <2>2, <3>1, <3>2
  <2>6. Ended' = Ended \cup {c}
    BY <2>2, <2>3, <2>5 DEF Ended
  <2>7. Closed' = Closed  BY <1>8 DEF Closed
  <2>8. Pool!End(c)
    BY <2>3, <2>4, <2>5, <2>6, <2>7 DEF Pool!End, Pending, Ended
  <2> QED  BY <2>3, <2>8 DEF Pool!Next
<1> QED  BY <1>0, <1>5, <1>6, <1>7, <1>8, WorkStep

(* Where bodies go through in one piece the scheduler is a TaskPool, for   *)
(* any number of threads and tasks: each task is executed once, by one     *)
(* thread, after it was scheduled; threads are told to leave only when     *)
(* nothing is pending or executing; nothing is scheduled after that.       *)
THEOREM SchedulerIsPool == ASSUME OnePiece PROVE Spec => ImplementsTaskPool
<1>1. Init => Pool!Init
  <2> SUFFICES ASSUME Init PROVE Pool!Init  OBVIOUS
  <2>1. m_fibers = << >> /\ DOMAIN m_fibers = {}
    BY DEF Init
  <2>2. \A t \in Threads : pc[t] \in {"main", "off"} /\ idleState[t] = "live"
    BY DEF Init
  <2>3. Pending = {}  BY <2>1, <2>2 DEF Pending, InQueue
  <2>4. Executing = {}  BY <2>2 DEF Executing
  <2>5. Ended = {}  BY DEF Ended, Init
  <2>6. Closed = FALSE  BY <2>2 DEF Closed
  <2> QED  BY <2>3, <2>4, <2>5, <2>6 DEF Pool!Init, Pending, Ended
<1>2. Inv' => (Pending = {x \in Tasks : begun[x] # submits[x]})'
  BY PendingIs, PTL
<1>3. Inv /\ Inv' /\ [Next]_vars => [Pool!Next]_(Pool!vars)
  BY <1>2, PoolStep
<1> QED  BY <1>1, <1>3, InPieces, PTL DEF Spec, ImplementsTaskPool, Pool!Spec
=============================================================================
