---------------------------- MODULE ThreadProofs ----------------------------
(***************************************************************************)
(* Theorems about Thread, for any number of threads.                       *)
(***************************************************************************)
EXTENDS Thread, TLAPS

TypeOK ==
    /\ object \in [Children -> {"none", "making", "made", "gone"}]
    /\ m_thread \in [Children -> BOOLEAN]
    /\ m_id \in [Children -> BOOLEAN]
    /\ m_cb \in [Children -> BOOLEAN]
    /\ m_name \in [Children -> {"given", "new"}]
    /\ sem \in [Children -> Nat]
    /\ step \in [Children -> 0 .. 5]
    /\ ended \subseteq Children
    /\ t_thread_name \in [Children -> {"UNKNOW", "given", "new"}]
    /\ main \in [at: {"new", "start", "wait", "idle", "join"}, x: Children \cup {Null}]

(* The creator waits only for an object it is making, and joins only one   *)
(* that it keeps.                                                          *)
MainOK ==
    /\ main.at = "wait" => main.x \in Children /\ object[main.x] = "making"
    /\ main.at = "join" => main.x \in Children /\ object[main.x] = "made"

(* run() has read the object.                                              *)
Taken(x) == m_id[x] /\ ~m_cb[x] /\ t_thread_name[x] = m_name[x]

(* How far thread x is by what can be seen of its object.  Only run() has  *)
(* raised the semaphore, and it had read the object before: so an object   *)
(* that is made, or went without a signal, is behind run() for good.       *)
ProgressOf(x) ==
    /\ object[x] = "none" => step[x] = 0
    /\ sem[x] > 0 => step[x] > 2
    /\ object[x] = "made" => step[x] > 2
    /\ object[x] = "gone" /\ x \notin interrupted => step[x] = 0 \/ step[x] > 2
    /\ step[x] > 1 => Taken(x)
    /\ x \in ended <=> step[x] = 5
    /\ 0 < step[x] /\ x \notin ended => m_thread[x]
    /\ x \in renamedGone => object[x] = "gone" /\ m_thread[x]
    /\ x \in usedGone => x \in interrupted

(* The inductive invariant: Handover says nothing about the semaphore and  *)
(* about how far run() is, from which it follows.                          *)
IInv == TypeOK /\ MainOK /\ \A x \in Children : ProgressOf(x)

-----------------------------------------------------------------------------
(* Which step of run() a thread is in.                                     *)
LEMMA AtStep ==
    ASSUME NEW x \in Children
    PROVE  /\ At(x, "take") => step[x] = 1
           /\ At(x, "notify") => step[x] = 2
           /\ At(x, "enter") => step[x] = 3
           /\ At(x, "call") => step[x] = 4
           /\ Len(RunSteps) = 4
BY DEF At, RunSteps

(* No thread has been made yet.                                            *)
LEMMA InitIInv == Init => IInv
BY ChildrenAssumption DEF Init, IInv, TypeOK, MainOK, ProgressOf, Taken

(* Every step of the creator keeps the invariant.                          *)
LEMMA CreatorKeeps == IInv /\ CreatorStep => IInv'
<1> SUFFICES ASSUME IInv, CreatorStep PROVE IInv'  OBVIOUS
<1> USE ChildrenAssumption DEF IInv, objVars, childVars, history
<1>1. CASE BeginStart
  <2>1. TypeOK'  BY <1>1 DEF BeginStart, TypeOK
  <2>2. MainOK'  BY <1>1 DEF BeginStart, TypeOK, MainOK
  <2>3. ASSUME NEW y \in Children PROVE ProgressOf(y)'
    BY <1>1 DEF BeginStart, TypeOK, MainOK, ProgressOf, Taken
  <2> QED  BY <2>1, <2>2, <2>3
<1>2. CASE Constructed
  <2>1. TypeOK'  BY <1>2 DEF Constructed, TypeOK, MainOK
  <2>2. MainOK'  BY <1>2 DEF Constructed, TypeOK, MainOK
  <2>3. ASSUME NEW y \in Children PROVE ProgressOf(y)'
    BY <1>2 DEF Constructed, TypeOK, MainOK, ProgressOf, Taken
  <2> QED  BY <2>1, <2>2, <2>3
<1>3. CASE Interrupted
  <2>1. TypeOK'  BY <1>3 DEF Interrupted, TypeOK
  <2>2. MainOK'  BY <1>3 DEF Interrupted, TypeOK, MainOK
  <2>3. ASSUME NEW y \in Children PROVE ProgressOf(y)'
    BY <1>3 DEF Interrupted, TypeOK, MainOK, ProgressOf, Taken
  <2> QED  BY <2>1, <2>2, <2>3
<1>4. CASE EndStart
  <2>1. TypeOK'  BY <1>4 DEF EndStart, TypeOK
  <2>2. MainOK'  BY <1>4 DEF EndStart, TypeOK, MainOK
  <2>3. ASSUME NEW y \in Children PROVE ProgressOf(y)'
    BY <1>4 DEF EndStart, TypeOK, MainOK, ProgressOf, Taken
  <2> QED  BY <2>1, <2>2, <2>3
<1>5. CASE JoinEnd
  <2>1. TypeOK'  BY <1>5 DEF JoinEnd, TypeOK
  <2>2. MainOK'  BY <1>5 DEF JoinEnd, TypeOK, MainOK
  <2>3. ASSUME NEW y \in Children PROVE ProgressOf(y)'
    BY <1>5 DEF JoinEnd, TypeOK, MainOK, ProgressOf, Taken
  <2> QED  BY <2>1, <2>2, <2>3
<1>6. ASSUME NEW x \in Children, Construct(x) PROVE IInv'
  <2>1. TypeOK'  BY <1>6 DEF Construct, TypeOK
  <2>2. MainOK'  BY <1>6 DEF Construct, TypeOK, MainOK
  <2>3. ASSUME NEW y \in Children PROVE ProgressOf(y)'
    BY <1>6 DEF Construct, TypeOK, MainOK, ProgressOf, Taken
  <2> QED  BY <2>1, <2>2, <2>3
<1>7. ASSUME NEW x \in Children, ConstructFails(x) PROVE IInv'
  <2>1. TypeOK'  BY <1>7 DEF ConstructFails, TypeOK
  <2>2. MainOK'  BY <1>7 DEF ConstructFails, TypeOK, MainOK
  <2>3. ASSUME NEW y \in Children PROVE ProgressOf(y)'
    BY <1>7 DEF ConstructFails, TypeOK, MainOK, ProgressOf, Taken
  <2> QED  BY <2>1, <2>2, <2>3
<1>8. ASSUME NEW x \in Children, JoinBegin(x) PROVE IInv'
  <2>1. TypeOK'  BY <1>8 DEF JoinBegin, TypeOK
  <2>2. MainOK'  BY <1>8 DEF JoinBegin, TypeOK, MainOK
  <2>3. ASSUME NEW y \in Children PROVE ProgressOf(y)'
    BY <1>8 DEF JoinBegin, TypeOK, MainOK, ProgressOf, Taken
  <2> QED  BY <2>1, <2>2, <2>3
<1>9. ASSUME NEW x \in Children, Destroy(x) PROVE IInv'
  <2>1. TypeOK'  BY <1>9 DEF Destroy, TypeOK
  <2>2. MainOK'  BY <1>9 DEF Destroy, TypeOK, MainOK
  <2>3. ASSUME NEW y \in Children PROVE ProgressOf(y)'
    BY <1>9 DEF Destroy, TypeOK, MainOK, ProgressOf, Taken
  <2> QED  BY <2>1, <2>2, <2>3
<1> QED  BY <1>1, <1>2, <1>3, <1>4, <1>5, <1>6, <1>7, <1>8, <1>9 DEF CreatorStep

(* Every step of a new thread keeps the invariant.                         *)
LEMMA ChildKeeps ==
    ASSUME IInv, NEW x \in Children, ChildStep(x)
    PROVE  IInv'
<1> USE DEF IInv, objVars, childVars, history, Advance, Gone
<1>1. CASE Take(x)
  <2>1. TypeOK'  BY <1>1, AtStep DEF Take, TypeOK
  <2>2. MainOK'  BY <1>1 DEF Take, TypeOK, MainOK
  <2>3. step[x] = 1  BY <1>1, AtStep DEF Take
  <2>4. ASSUME NEW y \in Children \ {x} PROVE ProgressOf(y)'
    BY <1>1 DEF Take, TypeOK, ProgressOf, Taken
  <2>5. Taken(x)'  BY <1>1 DEF Take, TypeOK, Taken
  <2>6. ProgressOf(x)'
    BY <1>1, <2>3, <2>5, AtStep, SMTT(60) DEF Take, TypeOK, ProgressOf
  <2> QED  BY <2>1, <2>2, <2>4, <2>6
<1>2. CASE Notify(x)
  <2>1. TypeOK'  BY <1>2, AtStep DEF Notify, TypeOK
  <2>2. MainOK'  BY <1>2 DEF Notify, TypeOK, MainOK
  <2>3. step[x] = 2  BY <1>2, AtStep DEF Notify
  <2>4. ASSUME NEW y \in Children \ {x} PROVE ProgressOf(y)'
    BY <1>2 DEF Notify, TypeOK, ProgressOf, Taken
  <2>5. Taken(x) <=> Taken(x)'  BY <1>2 DEF Notify, Taken
  <2>6. ProgressOf(x)'
    BY <1>2, <2>3, <2>5, AtStep DEF Notify, TypeOK, ProgressOf
  <2> QED  BY <2>1, <2>2, <2>4, <2>6
<1>3. CASE Enter(x)
  <2>1. TypeOK'  BY <1>3, AtStep DEF Enter, TypeOK
  <2>2. MainOK'  BY <1>3 DEF Enter, TypeOK, MainOK
  <2>3. step[x] = 3  BY <1>3, AtStep DEF Enter
  <2>4. ASSUME NEW y \in Children \ {x} PROVE ProgressOf(y)'
    BY <1>3 DEF Enter, TypeOK, ProgressOf, Taken
  <2>5. Taken(x) <=> Taken(x)'  BY <1>3 DEF Enter, Taken
  <2>6. ProgressOf(x)'
    BY <1>3, <2>3, <2>5, AtStep DEF Enter, TypeOK, ProgressOf
  <2> QED  BY <2>1, <2>2, <2>4, <2>6
<1>4. CASE SetName(x)
  <2>1. TypeOK'  BY <1>4, AtStep DEF SetName, TypeOK
  <2>2. MainOK'  BY <1>4 DEF SetName, TypeOK, MainOK
  <2>3. step[x] = 4  BY <1>4, AtStep DEF SetName
  <2>4. ASSUME NEW y \in Children \ {x} PROVE ProgressOf(y)'
    BY <1>4 DEF SetName, TypeOK, ProgressOf, Taken
  <2>5. Taken(x)'  BY <1>4, <2>3 DEF SetName, TypeOK, ProgressOf, Taken
  <2>6. ProgressOf(x)'
    BY <1>4, <2>3, <2>5, AtStep DEF SetName, TypeOK, ProgressOf
  <2> QED  BY <2>1, <2>2, <2>4, <2>6
<1>5. CASE End(x)
  <2>1. TypeOK'  BY <1>5, AtStep DEF End, TypeOK
  <2>2. MainOK'  BY <1>5 DEF End, TypeOK, MainOK
  <2>3. step[x] = 4  BY <1>5, AtStep DEF End
  <2>4. ASSUME NEW y \in Children \ {x} PROVE ProgressOf(y)'
    BY <1>5 DEF End, TypeOK, ProgressOf, Taken
  <2>5. Taken(x) <=> Taken(x)'  BY <1>5 DEF End, Taken
  <2>6. ProgressOf(x)'
    BY <1>5, <2>3, <2>5, AtStep DEF End, TypeOK, ProgressOf
  <2> QED  BY <2>1, <2>2, <2>4, <2>6
<1> QED  BY <1>1, <1>2, <1>3, <1>4, <1>5 DEF ChildStep

(* Every step keeps the invariant.                                         *)
LEMMA NextIInv == IInv /\ [Next]_vars => IInv'
<1>1. IInv /\ UNCHANGED vars => IInv'
  BY DEF vars, IInv, TypeOK, MainOK, ProgressOf, Taken, objVars, childVars, history
<1> QED  BY <1>1, CreatorKeeps, ChildKeeps DEF Next

(* Whatever signals, failures, joins and destructions happen in which      *)
(* order, a Thread that was constructed is complete, and run() does not    *)
(* touch it after it is gone unless a signal cut the constructor short.    *)
THEOREM HandoverHolds == Spec => []Handover
<1>1. ASSUME IInv, NEW x \in Children PROVE object[x] = "made" => Taken(x)
  BY <1>1 DEF IInv, TypeOK, ProgressOf
<1>2. IInv => Handover  BY <1>1 DEF IInv, ProgressOf, Taken, Handover
<1> QED  BY <1>2, InitIInv, NextIInv, PTL DEF Spec
=============================================================================
