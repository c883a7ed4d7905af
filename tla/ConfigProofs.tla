---------------------------- MODULE ConfigProofs ----------------------------
(***************************************************************************)
(* Theorems about Config, for any threads, variables, listeners, values    *)
(* and documents, when names and listeners are added by the static         *)
(* initialisers (Late is FALSE): s_fun_id is then changed by one thread    *)
(* only.                                                                   *)
(***************************************************************************)
EXTENDS Config, WellFoundedInduction, TLAPS

Points == {"idle", "insert", "announce", "store", "add", "increment", "enter", "added", "load"}
Adding == {"add", "increment", "enter", "added"}
Pairs == Nat \X Listeners
Args == [x: Names \cup {Null}, v: Values \cup {Null}, l: Types \cup Listeners \cup {Null},
         id: Nat, todo: SUBSET Pairs]

TypeOK ==
    /\ DOMAIN datas = Names /\ DOMAIN m_val = Names /\ DOMAIN readers = Names
    /\ m_cbs \in [Names -> SUBSET Pairs]
    /\ s_fun_id \in Nat
    /\ pc \in [Threads -> Points]
    /\ arg \in [Threads -> Args]
    /\ DOMAIN key = Listeners /\ DOMAIN of = Listeners /\ DOMAIN heard = Listeners

(* The initialisers run in one thread; afterwards nothing is added.        *)
PhaseOK ==
    /\ started => \A t \in Threads : pc[t] \in {"idle", "announce", "store", "load"}
    /\ ~started => /\ \A t \in Threads : pc[t] # "idle" => t = Main /\ pc[t] \in {"insert"} \cup Adding
                   /\ gone = {}

(* A variable that is about to be inserted is new.                         *)
InsertOK == pc[Main] = "insert" => arg[Main].x \in Names \ Registered

(* A listener that is about to be added is told of the value, and is in no *)
(* map before it is entered.                                               *)
AddingOK ==
    pc[Main] \in Adding =>
        /\ arg[Main].x \in Registered /\ arg[Main].l \in Listeners
        /\ of[arg[Main].l] = arg[Main].x
        /\ m_val[arg[Main].x] \in heard[arg[Main].l]
        /\ pc[Main] # "added" => \A y \in Names : \A p \in m_cbs[y] : p[2] # arg[Main].l

(* A listener is in the map of its variable only, under the key its client *)
(* was given, and not deleted.                                             *)
CbOK(x, p) ==
    /\ x \in Registered /\ of[p[2]] = x /\ p[2] \notin gone
    /\ p[1] = IF pc[Main] = "added" /\ p[2] = arg[Main].l THEN s_fun_id ELSE key[p[2]]
CbsOK == \A x \in Names : \A p \in m_cbs[x] : CbOK(x, p)

(* setValue(): who announces holds the read lock, those it has still to    *)
(* call are in the map and the others have heard the value.                *)
SetOf(t) ==
    /\ pc[t] \in {"announce", "store"} =>
        /\ arg[t].x \in Names
        /\ \A p \in m_cbs[arg[t].x] \ arg[t].todo : arg[t].v \in heard[p[2]]
    /\ pc[t] = "announce" => t \in readers[arg[t].x] /\ arg[t].todo \subseteq m_cbs[arg[t].x]
    /\ pc[t] # "announce" => arg[t].todo = {}

IInv ==
    /\ TypeOK /\ PhaseOK /\ InsertOK /\ AddingOK /\ CbsOK
    /\ \A t \in Threads : SetOf(t)
    /\ ValueHeard

Running == {"idle", "announce", "store", "load"}

-----------------------------------------------------------------------------
(* The program runs                                                        *)

(* What concerns initialisation and the maps, when a thread goes on and    *)
(* listeners are at most deleted.                                          *)
LEMMA MapsStay ==
    ASSUME IInv, started, started' = started, UNCHANGED <<datas, of, key>>,
           NEW t \in Threads, NEW q \in Running, pc' = pc \/ Goto(t, q),
           \A x \in Names : m_cbs'[x] \subseteq m_cbs[x],
           \A x \in Names : \A p \in m_cbs'[x] : p[2] \notin gone'
    PROVE  /\ pc' \in [Threads -> Points]
           /\ PhaseOK' /\ InsertOK' /\ AddingOK' /\ CbsOK'
<1>1. /\ pc \in [Threads -> Points] /\ \A u \in Threads : pc[u] \in Running
      /\ CbsOK /\ Main \in Threads
  BY ThreadsAssumption DEF IInv, TypeOK, PhaseOK, Running
<1>2. pc' \in [Threads -> Points] /\ \A u \in Threads : pc'[u] \in Running
  BY <1>1 DEF Goto, Running, Points
<1>3. pc[Main] \notin {"insert"} \cup Adding /\ pc'[Main] \notin {"insert"} \cup Adding
  BY <1>1, <1>2 DEF Running, Adding
<1>4. PhaseOK'
  BY <1>2 DEF PhaseOK, Running
<1>5. CbsOK'
  <2>1. ASSUME NEW x \in Names, NEW p \in m_cbs'[x] PROVE CbOK(x, p)'
    <3>1. CbOK(x, p) /\ p[2] \notin gone'
      BY <1>1, <2>1 DEF CbsOK
    <3>2. Registered' = Registered
      BY DEF Registered
    <3> QED  BY <1>3, <3>1, <3>2 DEF CbOK, Adding
  <2> QED  BY <2>1 DEF CbsOK
<1> QED  BY <1>2, <1>3, <1>4, <1>5 DEF InsertOK, AddingOK

(* The thread that sets a value is not disturbed by another one, which     *)
(* deletes listeners only from maps that nobody reads.                     *)
LEMMA OtherSets ==
    ASSUME TypeOK, NEW u \in Threads, SetOf(u), pc'[u] = pc[u], arg'[u] = arg[u],
           \A x \in Names : u \in readers[x] => u \in readers'[x],
           \A l \in Listeners : heard[l] \subseteq heard'[l],
           \A x \in Names : m_cbs'[x] \subseteq m_cbs[x],
           \A x \in Names : u \in readers[x] => m_cbs'[x] = m_cbs[x]
    PROVE  SetOf(u)'
<1>1. CASE pc[u] \notin {"announce", "store"}
  BY <1>1 DEF SetOf
<1>2. CASE pc[u] \in {"announce", "store"}
  <2>1. arg[u].x \in Names
    BY <1>2 DEF SetOf
  <2>2. ASSUME NEW p \in m_cbs'[arg[u].x] \ arg[u].todo PROVE arg[u].v \in heard'[p[2]]
    <3>1. p \in m_cbs[arg[u].x] \ arg[u].todo
      BY <2>1
    <3>2. p[2] \in Listeners
      BY <2>1, <3>1 DEF TypeOK, Pairs
    <3> QED  BY <1>2, <3>1, <3>2 DEF SetOf
  <2>3. pc[u] = "announce" => u \in readers'[arg[u].x] /\ arg[u].todo \subseteq m_cbs'[arg[u].x]
    BY <2>1 DEF SetOf
  <2> QED  BY <2>1, <2>2, <2>3 DEF SetOf
<1> QED  BY <1>1, <1>2

(* The values stay, and listeners are told more.                           *)
LEMMA HeardStays ==
    ASSUME TypeOK, ValueHeard, m_val' = m_val, \A x \in Names : m_cbs'[x] \subseteq m_cbs[x],
           \A l \in Listeners : heard[l] \subseteq heard'[l]
    PROVE  ValueHeard'
<1> SUFFICES ASSUME NEW x \in Names, NEW p \in m_cbs'[x] PROVE m_val'[x] \in heard'[p[2]]
  BY DEF ValueHeard
<1>1. p \in m_cbs[x] /\ p[2] \in Listeners
  BY DEF TypeOK, Pairs
<1> QED  BY <1>1 DEF ValueHeard

(* LoadFromYaml() between two variables.                                   *)
LEMMA LoadingKeeps ==
    ASSUME IInv, started, NEW t \in Threads, NEW q \in {"idle", "load"}, pc[t] \in {"idle", "load"},
           pc' = pc \/ Goto(t, q),
           UNCHANGED <<regVars, varVars, lockVars, s_fun_id, arg, clientVars>>
    PROVE  IInv'
<1>1. UNCHANGED <<started, datas, m_val, m_cbs, readers, s_fun_id, arg, key, of, heard, gone>>
  BY DEF regVars, varVars, lockVars, clientVars
<1>2. q \in Running /\ TypeOK /\ ValueHeard /\ \A u \in Threads : SetOf(u)
  BY DEF Running, IInv
<1>3. \A x \in Names : \A p \in m_cbs'[x] : p[2] \notin gone'
  BY <1>1 DEF IInv, CbsOK, CbOK
<1>4. pc' \in [Threads -> Points] /\ PhaseOK' /\ InsertOK' /\ AddingOK' /\ CbsOK'
  BY <1>1, <1>2, <1>3, MapsStay
<1>5. TypeOK'
  BY <1>1, <1>2, <1>4 DEF TypeOK
<1>6. ASSUME NEW u \in Threads PROVE SetOf(u)'
  <2>1. SetOf(u) /\ (pc'[u] = pc[u] \/ (pc[u] \in {"idle", "load"} /\ pc'[u] \in {"idle", "load"}))
    BY <1>2 DEF TypeOK, Goto
  <2> QED  BY <1>1, <2>1 DEF SetOf
<1>7. ValueHeard'
  BY <1>1, <1>2 DEF ValueHeard
<1> QED  BY <1>4, <1>5, <1>6, <1>7 DEF IInv

(* setValue() takes the read lock, for a user or for LoadFromYaml().       *)
LEMMA EnterSetKeeps ==
    ASSUME IInv, started, NEW t \in Threads, pc[t] \in {"idle", "load"}, NEW x \in Registered,
           NEW v \in Values, EnterSet(t, x, v),
           UNCHANGED <<regVars, varVars, writer, s_fun_id, clientVars>>
    PROVE  IInv'
<1>1. /\ UNCHANGED <<started, datas, m_val, m_cbs, s_fun_id, key, of, heard, gone>> /\ x \in Names
      /\ TypeOK /\ ValueHeard /\ \A u \in Threads : SetOf(u)
  BY DEF regVars, varVars, clientVars, Registered, IInv
<1>2. CASE v = m_val[x]
  <2>1. PICK q \in {"idle", "load"} : Goto(t, q)
    BY <1>2 DEF EnterSet, Return
  <2>2. UNCHANGED <<regVars, varVars, lockVars, s_fun_id, arg, clientVars>>
    BY <1>2 DEF EnterSet, lockVars
  <2> QED  BY <2>1, <2>2, LoadingKeeps
<1>3. CASE v # m_val[x]
  <2>1. PICK a : a = [NoArg EXCEPT !.x = x, !.v = v, !.todo = m_cbs[x]]  OBVIOUS
  <2>2. /\ Goto(t, "announce") /\ readers' = [readers EXCEPT ![x] = readers[x] \cup {t}]
        /\ arg' = [arg EXCEPT ![t] = a]
    BY <1>3, <2>1 DEF EnterSet
  <2>3. a \in Args /\ a.x = x /\ a.v = v /\ a.todo = m_cbs[x]
    BY <1>1, <2>1 DEF NoArg, Args, TypeOK
  <2>4. "announce" \in Running  BY DEF Running
  <2>5. \A y \in Names : \A p \in m_cbs'[y] : p[2] \notin gone'
    BY <1>1 DEF IInv, CbsOK, CbOK
  <2>6. pc' \in [Threads -> Points] /\ PhaseOK' /\ InsertOK' /\ AddingOK' /\ CbsOK'
    BY <1>1, <2>2, <2>4, <2>5, MapsStay
  <2>7. /\ arg' \in [Threads -> Args] /\ DOMAIN readers' = Names
        /\ arg'[t] = a /\ readers'[x] = readers[x] \cup {t} /\ pc'[t] = "announce"
        /\ \A y \in Names : readers[y] \subseteq readers'[y]
        /\ \A u \in Threads \ {t} : arg'[u] = arg[u] /\ pc'[u] = pc[u]
    BY <1>1, <2>2, <2>3 DEF TypeOK, Goto
  <2>8. TypeOK'
    BY <1>1, <2>6, <2>7 DEF TypeOK
  <2>9. ASSUME NEW u \in Threads PROVE SetOf(u)'
    <3>1. CASE u = t
      BY <1>1, <2>3, <2>7, <3>1 DEF SetOf
    <3>2. CASE u # t
      <4>1. SetOf(u) /\ pc'[u] = pc[u] /\ arg'[u] = arg[u] /\ \A y \in Names : u \in readers[y] => u \in readers'[y]
        BY <1>1, <2>7, <3>2
      <4> QED  BY <1>1, <4>1, OtherSets
    <3> QED  BY <3>1, <3>2
  <2>10. ValueHeard'
    BY <1>1 DEF ValueHeard
  <2> QED  BY <2>6, <2>8, <2>9, <2>10 DEF IInv
<1> QED  BY <1>2, <1>3

(* A thread that sets a value or loads a document: initialisation is over. *)
LEMMA IsStarted ==
    ASSUME IInv, NEW t \in Threads, pc[t] \in {"announce", "store", "load"}
    PROVE  started
BY DEF IInv, PhaseOK, Adding

(* A listener is told the value.                                           *)
LEMMA AnnounceKeeps ==
    ASSUME IInv, NEW t \in Threads, Announce(t)
    PROVE  IInv'
<1>1. PICK c, x, v : c = NextCb(t) /\ x = arg[t].x /\ v = arg[t].v  OBVIOUS
<1>2. /\ pc[t] = "announce" /\ UNCHANGED <<started, datas, m_val, m_cbs, readers, s_fun_id, pc, key, of, gone>>
      /\ arg' = [arg EXCEPT ![t].todo = arg[t].todo \ {c}]
      /\ heard' = [heard EXCEPT ![c[2]] = heard[c[2]] \cup {v}]
      /\ TypeOK /\ ValueHeard /\ \A u \in Threads : SetOf(u)
  BY <1>1 DEF Announce, regVars, varVars, lockVars, IInv
<1>3. started  BY <1>2, IsStarted
<1>4. \A y \in Names : \A p \in m_cbs'[y] : p[2] \notin gone'
  BY <1>2 DEF IInv, CbsOK, CbOK
<1>5. pc' \in [Threads -> Points] /\ PhaseOK' /\ InsertOK' /\ AddingOK' /\ CbsOK'
  <2>1. "idle" \in Running  BY DEF Running
  <2> QED  BY <1>2, <1>3, <1>4, <2>1, MapsStay
<1>6. arg[t] \in Args /\ arg[t].todo \in SUBSET Pairs
  BY <1>2 DEF TypeOK, Args
<1>7. /\ arg' \in [Threads -> Args] /\ arg'[t].x = x /\ arg'[t].v = v /\ arg'[t].todo = arg[t].todo \ {c}
      /\ \A u \in Threads \ {t} : arg'[u] = arg[u]
  BY <1>1, <1>2, <1>6 DEF TypeOK, Args
<1>8. /\ DOMAIN heard' = Listeners /\ \A l \in Listeners : heard[l] \subseteq heard'[l]
      /\ c[2] \in Listeners => v \in heard'[c[2]]
  BY <1>2 DEF TypeOK
<1>9. TypeOK'
  BY <1>2, <1>5, <1>7, <1>8 DEF TypeOK
<1>10. ASSUME NEW u \in Threads PROVE SetOf(u)'
  <2>1. CASE u # t
    BY <1>2, <1>7, <1>8, <2>1, OtherSets
  <2>2. CASE u = t
    <3>1. /\ x \in Names /\ t \in readers'[x] /\ arg'[t].todo \subseteq m_cbs'[x]
          /\ \A p \in m_cbs[x] \ arg[t].todo : v \in heard[p[2]]
      BY <1>1, <1>2, <1>7 DEF SetOf
    <3>2. ASSUME NEW p \in m_cbs'[x] \ arg'[t].todo PROVE v \in heard'[p[2]]
      <4>1. p[2] \in Listeners /\ p \in m_cbs[x]
        BY <1>2, <3>1 DEF TypeOK, Pairs
      <4>2. p \in m_cbs[x] \ arg[t].todo \/ p = c
        BY <1>2, <1>7
      <4> QED  BY <1>8, <3>1, <4>1, <4>2
    <3> QED  BY <1>2, <1>7, <2>2, <3>1, <3>2 DEF SetOf
  <2> QED  BY <2>1, <2>2
<1>11. ValueHeard'
  BY <1>2, <1>8, HeardStays
<1> QED  BY <1>5, <1>9, <1>10, <1>11 DEF IInv

(* The read lock is released, because a listener threw or all were told.   *)
LEMMA ReleaseKeeps ==
    ASSUME IInv, NEW t \in Threads, Throws(t) \/ Announced(t)
    PROVE  IInv'
<1>1. PICK x : x = arg[t].x  OBVIOUS
<1>2. /\ pc[t] = "announce" /\ UNCHANGED <<started, datas, m_val, m_cbs, s_fun_id, key, of, heard, gone>>
      /\ readers' = [readers EXCEPT ![x] = readers[x] \ {t}]
      /\ TypeOK /\ ValueHeard /\ \A u \in Threads : SetOf(u)
  BY <1>1 DEF Throws, Announced, regVars, varVars, clientVars, IInv
<1>3. started  BY <1>2, IsStarted
<1>4. PICK q \in {"idle", "load", "store"} :
        /\ Goto(t, q)
        /\ \/ q # "store" /\ arg' = [arg EXCEPT ![t] = NoArg]
           \/ q = "store" /\ arg' = arg /\ arg[t].todo = {}
  BY DEF Throws, Announced, Return
<1>5. \A y \in Names : \A p \in m_cbs'[y] : p[2] \notin gone'
  BY <1>2 DEF IInv, CbsOK, CbOK
<1>6. pc' \in [Threads -> Points] /\ PhaseOK' /\ InsertOK' /\ AddingOK' /\ CbsOK'
  <2>1. q \in Running  BY <1>4 DEF Running
  <2> QED  BY <1>2, <1>3, <1>4, <1>5, <2>1, MapsStay
<1>7. NoArg \in Args /\ NoArg.todo = {}
  BY DEF NoArg, Args
<1>8. /\ arg' \in [Threads -> Args] /\ DOMAIN readers' = Names /\ pc'[t] = q
      /\ \A u \in Threads \ {t} : arg'[u] = arg[u] /\ pc'[u] = pc[u]
      /\ \A y \in Names : readers[y] \ {t} \subseteq readers'[y]
  BY <1>2, <1>4, <1>7 DEF TypeOK, Goto
<1>9. TypeOK'
  BY <1>2, <1>6, <1>8 DEF TypeOK
<1>10. ASSUME NEW u \in Threads PROVE SetOf(u)'
  <2>1. CASE u # t
    <3>1. /\ SetOf(u) /\ pc'[u] = pc[u] /\ arg'[u] = arg[u] /\ m_cbs' = m_cbs /\ heard' = heard
          /\ \A y \in Names : u \in readers[y] => u \in readers'[y]
      BY <1>2, <1>8, <2>1
    <3> QED  BY <1>2, <3>1, OtherSets
  <2>2. CASE u = t /\ q # "store"
    <3>1. arg'[t].todo = {} /\ pc'[t] \notin {"announce", "store"}
      BY <1>2, <1>4, <1>7, <1>8, <2>2 DEF TypeOK
    <3> QED  BY <2>2, <3>1 DEF SetOf
  <2>3. CASE u = t /\ q = "store"
    <3>1. arg'[t] = arg[t] /\ arg[t].todo = {} /\ pc'[t] = "store"
      BY <1>4, <1>8, <2>3
    <3> QED  BY <1>2, <2>3, <3>1 DEF SetOf
  <2> QED  BY <2>1, <2>2, <2>3
<1>11. ValueHeard'
  BY <1>2 DEF ValueHeard
<1> QED  BY <1>6, <1>9, <1>10, <1>11 DEF IInv

(* The value is stored.                                                    *)
LEMMA StoreKeeps ==
    ASSUME IInv, NEW t \in Threads, Store(t)
    PROVE  IInv'
<1>1. PICK x, v : x = arg[t].x /\ v = arg[t].v  OBVIOUS
<1>2. /\ pc[t] = "store" /\ UNCHANGED <<started, datas, m_cbs, readers, s_fun_id, key, of, heard, gone>>
      /\ m_val' = [m_val EXCEPT ![x] = v] /\ arg' = [arg EXCEPT ![t] = NoArg]
      /\ TypeOK /\ ValueHeard /\ \A u \in Threads : SetOf(u)
  BY <1>1 DEF Store, regVars, lockVars, clientVars, IInv
<1>3. started  BY <1>2, IsStarted
<1>4. PICK q \in {"idle", "load"} : Goto(t, q)
  BY DEF Store, Return
<1>5. \A y \in Names : \A p \in m_cbs'[y] : p[2] \notin gone'
  BY <1>2 DEF IInv, CbsOK, CbOK
<1>6. pc' \in [Threads -> Points] /\ PhaseOK' /\ InsertOK' /\ AddingOK' /\ CbsOK'
  <2>1. q \in Running  BY <1>4 DEF Running
  <2> QED  BY <1>2, <1>3, <1>4, <1>5, <2>1, MapsStay
<1>7. NoArg \in Args /\ NoArg.todo = {}
  BY DEF NoArg, Args
<1>8. /\ arg' \in [Threads -> Args] /\ arg'[t] = NoArg /\ pc'[t] = q
      /\ \A u \in Threads \ {t} : arg'[u] = arg[u] /\ pc'[u] = pc[u]
  BY <1>2, <1>4, <1>7 DEF TypeOK, Goto
<1>9. TypeOK'
  BY <1>2, <1>6, <1>8 DEF TypeOK
<1>10. ASSUME NEW u \in Threads PROVE SetOf(u)'
  <2>1. CASE u # t
    BY <1>2, <1>8, <2>1, OtherSets
  <2>2. CASE u = t
    BY <1>7, <1>8, <2>2 DEF SetOf
  <2> QED  BY <2>1, <2>2
<1>11. ASSUME NEW y \in Names, NEW p \in m_cbs'[y] PROVE m_val'[y] \in heard'[p[2]]
  <2>1. CASE y # x
    BY <1>2, <2>1 DEF ValueHeard, TypeOK
  <2>2. CASE y = x
    <3>1. arg[t].todo = {} /\ \A r \in m_cbs[x] \ arg[t].todo : v \in heard[r[2]]
      BY <1>1, <1>2 DEF SetOf
    <3>2. m_val'[x] = v
      BY <1>2, <2>2 DEF TypeOK
    <3> QED  BY <1>2, <2>2, <3>1, <3>2
  <2> QED  BY <2>1, <2>2
<1> QED  BY <1>6, <1>9, <1>10, <1>11 DEF IInv, ValueHeard

(* Listeners are deleted, from a map that nobody reads.                    *)
LEMMA DeleteKeeps ==
    ASSUME IInv, started, NEW y, y \in Names => readers[y] = {}, NEW S,
           S \subseteq m_cbs[y], m_cbs' = [m_cbs EXCEPT ![y] = S],
           \A x \in Names : \A p \in m_cbs'[x] : p[2] \notin gone',
           UNCHANGED <<regVars, m_val, lockVars, s_fun_id, threadVars, copy, key, of, heard>>
    PROVE  IInv'
<1>1. /\ UNCHANGED <<started, datas, m_val, readers, s_fun_id, pc, arg, key, of, heard>>
      /\ TypeOK /\ ValueHeard /\ \A u \in Threads : SetOf(u)
  BY DEF regVars, lockVars, threadVars, IInv
<1>2. /\ m_cbs' \in [Names -> SUBSET Pairs] /\ \A x \in Names : m_cbs'[x] \subseteq m_cbs[x]
      /\ \A x \in Names : readers[x] # {} => m_cbs'[x] = m_cbs[x]
  BY <1>1 DEF TypeOK
<1>3. pc' \in [Threads -> Points] /\ PhaseOK' /\ InsertOK' /\ AddingOK' /\ CbsOK'
  <2>1. "idle" \in Running /\ Main \in Threads  BY ThreadsAssumption DEF Running
  <2> QED  BY <1>1, <1>2, <2>1, MapsStay
<1>4. TypeOK'
  BY <1>1, <1>2, <1>3 DEF TypeOK
<1>5. ASSUME NEW u \in Threads PROVE SetOf(u)'
  BY <1>1, <1>2, OtherSets
<1>6. ValueHeard'
  BY <1>1, <1>2, HeardStays
<1> QED  BY <1>3, <1>4, <1>5, <1>6 DEF IInv

(* delListener(): the key the client was given is the listener's.          *)
LEMMA DelListenerKeeps ==
    ASSUME IInv, NEW t \in Threads, NEW l \in Listeners, delListener(t, l)
    PROVE  IInv'
<1>1. PICK y, S : y = of[l] /\ S = {p \in m_cbs[y] : p[1] # key[l]}  OBVIOUS
<1>2. /\ started /\ readers[y] = {} /\ m_cbs' = [m_cbs EXCEPT ![y] = S] /\ gone' = gone \cup {l}
      /\ UNCHANGED <<regVars, m_val, lockVars, s_fun_id, threadVars, copy, key, of, heard>>
  BY <1>1 DEF delListener, Free
<1>3. ASSUME NEW x \in Names, NEW p \in m_cbs'[x] PROVE p[2] \notin gone'
  <2>1. p \in m_cbs[x] /\ (x = y => p \in S)
    BY <1>1, <1>2 DEF IInv, TypeOK
  <2>2. CbOK(x, p) /\ pc[Main] # "added"
    BY <1>2, <2>1, ThreadsAssumption DEF IInv, CbsOK, PhaseOK
  <2>3. of[p[2]] = x /\ p[2] \notin gone /\ p[1] = key[p[2]]
    BY <2>2 DEF CbOK
  <2>4. p[2] # l
    BY <1>1, <2>1, <2>3
  <2> QED  BY <1>2, <2>3, <2>4
<1>4. S \subseteq m_cbs[y]
  BY <1>1
<1> QED  BY <1>2, <1>3, <1>4, DeleteKeeps

(* clearListener(): the listeners of one variable go.                      *)
LEMMA ClearListenerKeeps ==
    ASSUME IInv, NEW t \in Threads, NEW y \in Names, clearListener(t, y)
    PROVE  IInv'
<1>1. /\ started /\ readers[y] = {} /\ m_cbs' = [m_cbs EXCEPT ![y] = {}]
      /\ gone' = gone \cup {p[2] : p \in m_cbs[y]}
      /\ UNCHANGED <<regVars, m_val, lockVars, s_fun_id, threadVars, copy, key, of, heard>>
  BY DEF clearListener, Free
<1>2. ASSUME NEW x \in Names, NEW p \in m_cbs'[x] PROVE p[2] \notin gone'
  <2>1. p \in m_cbs[x] /\ x # y
    BY <1>1 DEF IInv, TypeOK
  <2>2. of[p[2]] = x /\ p[2] \notin gone
    BY <2>1 DEF IInv, CbsOK, CbOK
  <2>3. \A r \in m_cbs[y] : of[r[2]] = y
    BY DEF IInv, CbsOK, CbOK
  <2> QED  BY <1>1, <2>1, <2>2, <2>3
<1> QED  BY <1>1, <1>2, DeleteKeeps

-----------------------------------------------------------------------------
(* Initialisation                                                          *)

(* Before the start only Main is at work.                                  *)
LEMMA OnlyMain ==
    ASSUME IInv, NEW t \in Threads, pc[t] \notin Running
    PROVE  t = Main /\ ~started
BY DEF IInv, PhaseOK, Running

(* Nobody sets values: a step of Main.                                     *)
LEMMA NobodySets ==
    ASSUME IInv, ~started, NEW q \in {"idle", "insert"} \cup Adding, NEW a \in Args, a.todo = {},
           Goto(Main, q), arg' = [arg EXCEPT ![Main] = a], UNCHANGED <<started, gone>>
    PROVE  /\ pc' \in [Threads -> Points] /\ arg' \in [Threads -> Args] /\ PhaseOK'
           /\ pc'[Main] = q /\ arg'[Main] = a
           /\ \A u \in Threads : SetOf(u)'
<1>1. /\ pc \in [Threads -> Points] /\ arg \in [Threads -> Args] /\ Main \in Threads /\ gone = {}
      /\ \A u \in Threads : pc[u] # "idle" => u = Main /\ pc[u] \in {"insert"} \cup Adding
  BY ThreadsAssumption DEF IInv, TypeOK, PhaseOK
<1>2. q \in Points
  BY DEF Points, Adding
<1>3. /\ pc' \in [Threads -> Points] /\ arg' \in [Threads -> Args] /\ pc'[Main] = q /\ arg'[Main] = a
      /\ \A u \in Threads \ {Main} : pc'[u] = pc[u] /\ arg'[u] = arg[u]
  BY <1>1, <1>2 DEF Goto
<1>4. PhaseOK'
  BY <1>1, <1>3 DEF PhaseOK
<1>5. ASSUME NEW u \in Threads PROVE SetOf(u)'
  <2>1. CASE u = Main
    BY <1>3, <2>1 DEF SetOf, Adding
  <2>2. CASE u # Main
    <3>1. SetOf(u) /\ pc[u] = "idle" /\ pc'[u] = pc[u] /\ arg'[u] = arg[u]
      BY <1>1, <1>3, <2>2 DEF IInv
    <3> QED  BY <3>1 DEF SetOf
  <2> QED  BY <2>1, <2>2
<1> QED  BY <1>3, <1>4, <1>5

(* What NoArg with a few fields set is.                                    *)
LEMMA SomeArg ==
    /\ NoArg \in Args /\ NoArg.todo = {}
    /\ \A x \in Names, T \in Types, v \in Values :
        LET a == [NoArg EXCEPT !.x = x, !.l = T, !.v = v] IN a \in Args /\ a.x = x /\ a.todo = {}
    /\ \A x \in Names, l \in Listeners :
        LET a == [NoArg EXCEPT !.x = x, !.l = l] IN a \in Args /\ a.x = x /\ a.l = l /\ a.todo = {}
BY DEF NoArg, Args

(* Lookup() of a new name.                                                 *)
LEMMA LookupKeeps ==
    ASSUME ~Late, IInv, NEW t \in Threads, NEW x \in Names, NEW T \in Types, NEW v \in Values,
           Lookup(t, x, T, v)
    PROVE  IInv'
<1>1. /\ pc[t] = "idle" /\ ~started /\ t = Main
      /\ UNCHANGED <<started, datas, m_val, m_cbs, readers, s_fun_id, key, of, heard, gone>>
  BY DEF Lookup, Calls, regVars, varVars, lockVars, clientVars
<1>2. /\ TypeOK /\ CbsOK /\ ValueHeard /\ PhaseOK /\ Main \in Threads
      /\ Registered' = Registered
  BY <1>1, ThreadsAssumption DEF IInv, Registered
<1>3. CASE UNCHANGED threadVars
  <2>1. pc' = pc /\ arg' = arg  BY <1>3 DEF threadVars
  <2>2. TypeOK' /\ PhaseOK' /\ InsertOK' /\ AddingOK'
    BY <1>1, <1>2, <2>1 DEF TypeOK, PhaseOK, InsertOK, AddingOK, Adding
  <2>3. CbsOK'
    BY <1>1, <1>2, <2>1 DEF CbsOK, CbOK
  <2>4. ValueHeard' /\ \A u \in Threads : SetOf(u)'
    BY <1>1, <2>1 DEF ValueHeard, SetOf, IInv
  <2> QED  BY <2>2, <2>3, <2>4 DEF IInv
<1>4. CASE x \notin Registered /\ Goto(t, "insert") /\ arg' = [arg EXCEPT ![t] = [NoArg EXCEPT !.x = x, !.l = T, !.v = v]]
  <2>1. PICK a \in Args : a = [NoArg EXCEPT !.x = x, !.l = T, !.v = v] /\ a.x = x /\ a.todo = {}
    BY SomeArg, ZenonT(60)
  <2>2. arg' = [arg EXCEPT ![Main] = a] /\ Goto(Main, "insert")
    BY <1>1, <1>4, <2>1
  <2>3. /\ pc' \in [Threads -> Points] /\ arg' \in [Threads -> Args] /\ PhaseOK'
        /\ pc'[Main] = "insert" /\ arg'[Main] = a /\ \A u \in Threads : SetOf(u)'
    BY <1>1, <2>1, <2>2, NobodySets
  <2>4. TypeOK' /\ InsertOK' /\ AddingOK'
    BY <1>1, <1>2, <1>4, <2>1, <2>3 DEF TypeOK, InsertOK, AddingOK, Adding
  <2>5. CbsOK'
    BY <1>1, <1>2, <2>3 DEF CbsOK, CbOK
  <2>6. ValueHeard'
    BY <1>1, <1>2 DEF ValueHeard
  <2> QED  BY <2>3, <2>4, <2>5, <2>6 DEF IInv
<1> QED  BY <1>3, <1>4 DEF Lookup

(* The new variable has no listeners yet.                                  *)
LEMMA InsertKeeps ==
    ASSUME IInv, NEW t \in Threads, Insert(t)
    PROVE  IInv'
<1>1. t = Main /\ ~started
  <2>1. pc[t] \notin Running  BY DEF Insert, Running
  <2> QED  BY <2>1, OnlyMain
<1>2. PICK x, T, v : x = arg[Main].x /\ T = arg[Main].l /\ v = arg[Main].v  OBVIOUS
<1>3. /\ pc[Main] = "insert" /\ Goto(Main, "idle") /\ arg' = [arg EXCEPT ![Main] = NoArg]
      /\ datas' = [datas EXCEPT ![x] = T] /\ m_val' = [m_val EXCEPT ![x] = v]
      /\ UNCHANGED <<started, m_cbs, readers, s_fun_id, key, of, heard, gone>>
      /\ TypeOK /\ CbsOK /\ ValueHeard
  BY <1>1, <1>2 DEF Insert, lockVars, clientVars, IInv
<1>4. x \in Names \ Registered
  BY <1>2, <1>3 DEF IInv, InsertOK
<1>5. /\ pc' \in [Threads -> Points] /\ arg' \in [Threads -> Args] /\ PhaseOK'
      /\ pc'[Main] = "idle" /\ \A u \in Threads : SetOf(u)'
  BY <1>1, <1>3, SomeArg, NobodySets
<1>6. /\ DOMAIN datas' = Names /\ DOMAIN m_val' = Names /\ Registered \subseteq Registered'
      /\ \A y \in Names \ {x} : m_val'[y] = m_val[y]
  BY <1>3, <1>4 DEF TypeOK, Registered
<1>7. TypeOK' /\ InsertOK' /\ AddingOK'
  BY <1>3, <1>5, <1>6 DEF TypeOK, InsertOK, AddingOK, Adding
<1>8. CbsOK'
  BY <1>3, <1>5, <1>6 DEF CbsOK, CbOK
<1>9. m_cbs[x] = {}
  BY <1>3, <1>4 DEF CbsOK, CbOK
<1>10. ValueHeard'
  BY <1>3, <1>6, <1>9 DEF ValueHeard
<1> QED  BY <1>5, <1>7, <1>8, <1>10 DEF IInv

(* A client reads the value it keeps a copy of.                            *)
LEMMA GetValueKeeps ==
    ASSUME ~Late, IInv, NEW t \in Threads, NEW x \in Names, NEW l \in Listeners, getValue(t, x, l)
    PROVE  IInv'
<1>1. /\ pc[t] = "idle" /\ ~started /\ t = Main
      /\ UNCHANGED <<started, datas, m_val, m_cbs, readers, s_fun_id, key, gone>>
      /\ x \in Registered /\ of[l] = Null /\ of' = [of EXCEPT ![l] = x]
      /\ heard' = [heard EXCEPT ![l] = {m_val[x]}]
  BY DEF getValue, Calls, regVars, varVars, lockVars
<1>2. /\ TypeOK /\ CbsOK /\ ValueHeard /\ Main \in Threads
      /\ Registered' = Registered
  BY <1>1, ThreadsAssumption DEF IInv, Registered
<1>3. PICK a \in Args : a = [NoArg EXCEPT !.x = x, !.l = l] /\ a.x = x /\ a.l = l /\ a.todo = {}
  <2>1. PICK a : a = [NoArg EXCEPT !.x = x, !.l = l]  OBVIOUS
  <2>2. a \in Args /\ a.x = x /\ a.l = l /\ a.todo = {}
    BY <2>1, SomeArg
  <2> QED  BY <2>1, <2>2
<1>4. arg' = [arg EXCEPT ![Main] = a] /\ Goto(Main, "add")
  BY <1>1, <1>3 DEF getValue
<1>5. /\ pc' \in [Threads -> Points] /\ arg' \in [Threads -> Args] /\ PhaseOK'
      /\ pc'[Main] = "add" /\ arg'[Main] = a /\ \A u \in Threads : SetOf(u)'
  <2>1. "add" \in {"idle", "insert"} \cup Adding  BY DEF Adding
  <2> QED  BY <1>1, <1>3, <1>4, <2>1, NobodySets
<1>6. /\ DOMAIN of' = Listeners /\ DOMAIN heard' = Listeners /\ of'[l] = x /\ heard'[l] = {m_val[x]}
      /\ \A k \in Listeners \ {l} : of'[k] = of[k] /\ heard'[k] = heard[k]
  BY <1>1, <1>2 DEF TypeOK
<1>7. \A y \in Names : \A p \in m_cbs[y] : p[2] \in Listeners \ {l}
  <2> TAKE y \in Names
  <2> TAKE p \in m_cbs[y]
  <2>1. p[2] \in Listeners /\ of[p[2]] = y /\ y # Null
    BY <1>2, NullAssumption DEF TypeOK, Pairs, CbsOK, CbOK
  <2> QED  BY <1>1, <2>1
<1>8. TypeOK' /\ InsertOK'
  BY <1>1, <1>2, <1>5, <1>6 DEF TypeOK, InsertOK
<1>9. AddingOK'
  BY <1>1, <1>2, <1>3, <1>5, <1>6, <1>7 DEF AddingOK
<1>10. CbsOK'
  <2>1. pc[Main] # "added" /\ pc'[Main] # "added"  BY <1>1, <1>5
  <2> QED  BY <1>1, <1>2, <1>6, <1>7, <2>1 DEF CbsOK, CbOK
<1>11. ValueHeard'
  BY <1>1, <1>2, <1>6, <1>7 DEF ValueHeard
<1> QED  BY <1>5, <1>8, <1>9, <1>10, <1>11 DEF IInv

(* addListener() takes the lock and the next key.                          *)
LEMMA AddListenerKeeps ==
    ASSUME IInv, NEW t \in Threads, addListener(t) \/ Increment(t)
    PROVE  IInv'
<1>1. t = Main /\ ~started
  <2>1. pc[t] \notin Running  BY DEF addListener, Increment, Running
  <2> QED  BY <2>1, OnlyMain
<1>2. /\ pc[Main] \in {"add", "increment"}
      /\ UNCHANGED <<started, datas, m_val, m_cbs, readers, key, of, heard, gone>>
      /\ TypeOK /\ CbsOK /\ ValueHeard /\ AddingOK /\ Main \in Threads /\ SetOf(Main)
  BY <1>1, ThreadsAssumption DEF addListener, Increment, regVars, varVars, lockVars, clientVars, IInv
<1>3. arg[Main] \in Args /\ arg[Main].todo = {} /\ s_fun_id \in Nat
  BY <1>2 DEF SetOf, TypeOK
<1>4. PICK a \in Args, q \in {"increment", "enter"} :
        /\ a.x = arg[Main].x /\ a.l = arg[Main].l /\ a.todo = {}
        /\ arg' = [arg EXCEPT ![Main] = a] /\ Goto(Main, q) /\ s_fun_id' \in Nat
  <2>1. CASE addListener(t)
    <3>1. PICK a : a = [arg[Main] EXCEPT !.id = s_fun_id]  OBVIOUS
    <3>2. a \in Args /\ a.x = arg[Main].x /\ a.l = arg[Main].l /\ a.todo = {}
      BY <1>3, <3>1 DEF Args
    <3>3. arg' = [arg EXCEPT ![Main] = a] /\ Goto(Main, "increment") /\ s_fun_id' = s_fun_id
      BY <1>1, <2>1, <3>1 DEF addListener
    <3> QED  BY <1>3, <3>2, <3>3
  <2>2. CASE Increment(t)
    <3>1. arg[Main].id \in Nat  BY <1>3 DEF Args
    <3>2. arg' = [arg EXCEPT ![Main] = arg[Main]] /\ Goto(Main, "enter") /\ s_fun_id' = arg[Main].id + 1
      BY <1>1, <1>2, <2>2 DEF Increment, TypeOK
    <3>3. s_fun_id' \in Nat  BY <3>1, <3>2
    <3> QED  BY <1>3, <3>2, <3>3
  <2> QED  BY <2>1, <2>2
<1>5. /\ pc' \in [Threads -> Points] /\ arg' \in [Threads -> Args] /\ PhaseOK'
      /\ pc'[Main] = q /\ arg'[Main] = a /\ \A u \in Threads : SetOf(u)'
  <2>1. q \in {"idle", "insert"} \cup Adding  BY <1>4 DEF Adding
  <2> QED  BY <1>1, <1>2, <1>4, <2>1, NobodySets
<1>6. Registered' = Registered
  BY <1>2 DEF Registered
<1>7. TypeOK' /\ InsertOK'
  BY <1>2, <1>4, <1>5 DEF TypeOK, InsertOK
<1>8. AddingOK'
  BY <1>2, <1>4, <1>5, <1>6 DEF AddingOK, Adding
<1>9. CbsOK'
  BY <1>2, <1>4, <1>5, <1>6 DEF CbsOK, CbOK
<1>10. ValueHeard'
  BY <1>2 DEF ValueHeard
<1> QED  BY <1>5, <1>7, <1>8, <1>9, <1>10 DEF IInv

(* The listener is entered.                                                *)
LEMMA EnterCbKeeps ==
    ASSUME IInv, NEW t \in Threads, EnterCb(t)
    PROVE  IInv'
<1>1. t = Main /\ ~started
  <2>1. pc[t] \notin Running  BY DEF EnterCb, Running
  <2> QED  BY <2>1, OnlyMain
<1>2. PICK x, l, c : x = arg[Main].x /\ l = arg[Main].l /\ c = <<s_fun_id, l>>  OBVIOUS
<1>3. /\ pc[Main] = "enter" /\ Goto(Main, "added") /\ arg' = arg
      /\ m_cbs' = [m_cbs EXCEPT ![x] = {p \in m_cbs[x] : p[1] # s_fun_id} \cup {c}]
      /\ UNCHANGED <<started, datas, m_val, readers, s_fun_id, key, of, heard, gone>>
      /\ TypeOK /\ CbsOK /\ ValueHeard /\ AddingOK /\ Main \in Threads /\ SetOf(Main) /\ gone = {}
  BY <1>1, <1>2, ThreadsAssumption DEF EnterCb, regVars, lockVars, clientVars, IInv, PhaseOK
<1>4. /\ x \in Registered /\ x \in Names /\ l \in Listeners /\ of[l] = x /\ m_val[x] \in heard[l]
      /\ \A y \in Names : \A p \in m_cbs[y] : p[2] # l
  BY <1>2, <1>3 DEF AddingOK, Adding, Registered
<1>5. c \in Pairs /\ c[1] = s_fun_id /\ c[2] = l
  BY <1>2, <1>3, <1>4 DEF Pairs, TypeOK
<1>6. /\ m_cbs' \in [Names -> SUBSET Pairs]
      /\ \A y \in Names : m_cbs'[y] \subseteq m_cbs[y] \cup (IF y = x THEN {c} ELSE {})
  BY <1>3, <1>4, <1>5 DEF TypeOK
<1>7. /\ pc' \in [Threads -> Points] /\ PhaseOK'
      /\ pc'[Main] = "added" /\ \A u \in Threads : SetOf(u)'
  <2>1. "added" \in {"idle", "insert"} \cup Adding  BY DEF Adding
  <2>2. arg[Main] \in Args /\ arg[Main].todo = {} /\ arg' = [arg EXCEPT ![Main] = arg[Main]]
    BY <1>3 DEF TypeOK, SetOf
  <2> QED  BY <1>1, <1>3, <2>1, <2>2, NobodySets
<1>8. Registered' = Registered
  BY <1>3 DEF Registered
<1>9. TypeOK' /\ InsertOK'
  BY <1>3, <1>6, <1>7 DEF TypeOK, InsertOK
<1>10. AddingOK'
  BY <1>2, <1>3, <1>4, <1>7, <1>8 DEF AddingOK
<1>11. ASSUME NEW y \in Names, NEW p \in m_cbs'[y] PROVE CbOK(y, p)' /\ m_val'[y] \in heard'[p[2]]
  <2>1. CASE p \in m_cbs[y]
    <3>1. CbOK(y, p) /\ p[2] # l /\ m_val[y] \in heard[p[2]]
      BY <1>3, <1>4, <2>1 DEF CbsOK, ValueHeard
    <3> QED  BY <1>2, <1>3, <1>8, <3>1 DEF CbOK
  <2>2. CASE y = x /\ p = c
    BY <1>2, <1>3, <1>4, <1>5, <1>7, <1>8, <2>2 DEF CbOK
  <2> QED  BY <1>6, <2>1, <2>2
<1> QED  BY <1>7, <1>9, <1>10, <1>11 DEF IInv, CbsOK, ValueHeard

(* The client is given the key.                                            *)
LEMMA AddedKeeps ==
    ASSUME IInv, NEW t \in Threads, Added(t)
    PROVE  IInv'
<1>1. t = Main /\ ~started
  <2>1. pc[t] \notin Running  BY DEF Added, Running
  <2> QED  BY <2>1, OnlyMain
<1>2. PICK l : l = arg[Main].l  OBVIOUS
<1>3. /\ pc[Main] = "added" /\ Goto(Main, "idle") /\ arg' = [arg EXCEPT ![Main] = NoArg]
      /\ key' = [key EXCEPT ![l] = s_fun_id]
      /\ UNCHANGED <<started, datas, m_val, m_cbs, readers, s_fun_id, of, heard, gone>>
      /\ TypeOK /\ CbsOK /\ ValueHeard /\ AddingOK /\ Main \in Threads
  BY <1>1, <1>2, ThreadsAssumption DEF Added, regVars, varVars, clientVars, IInv
<1>4. l \in Listeners
  BY <1>2, <1>3 DEF AddingOK, Adding
<1>5. /\ pc' \in [Threads -> Points] /\ arg' \in [Threads -> Args] /\ PhaseOK'
      /\ pc'[Main] = "idle" /\ \A u \in Threads : SetOf(u)'
  BY <1>1, <1>3, SomeArg, NobodySets
<1>6. Registered' = Registered
  BY <1>3 DEF Registered
<1>7. DOMAIN key' = Listeners /\ key'[l] = s_fun_id /\ \A k \in Listeners \ {l} : key'[k] = key[k]
  BY <1>3, <1>4 DEF TypeOK
<1>8. TypeOK' /\ InsertOK' /\ AddingOK'
  BY <1>3, <1>5, <1>7 DEF TypeOK, InsertOK, AddingOK, Adding
<1>9. ASSUME NEW y \in Names, NEW p \in m_cbs'[y] PROVE CbOK(y, p)'
  <2>1. CbOK(y, p) /\ p[2] \in Listeners
    BY <1>3, <1>9 DEF CbsOK, TypeOK, Pairs
  <2> QED  BY <1>2, <1>3, <1>5, <1>6, <1>7, <2>1 DEF CbOK
<1>10. ValueHeard'
  BY <1>3 DEF ValueHeard
<1> QED  BY <1>5, <1>8, <1>9, <1>10 DEF IInv, CbsOK

(* main() begins.                                                          *)
LEMMA StartKeeps ==
    ASSUME IInv, Start
    PROVE  IInv'
<1>1. /\ ~started /\ pc[Main] = "idle" /\ started' /\ Main \in Threads
      /\ UNCHANGED <<datas, m_val, m_cbs, readers, s_fun_id, pc, arg, key, of, heard, gone>>
  BY ThreadsAssumption DEF Start, varVars, lockVars, threadVars, clientVars
<1>2. TypeOK' /\ InsertOK' /\ AddingOK' /\ ValueHeard'
  BY <1>1 DEF IInv, TypeOK, InsertOK, AddingOK, Adding, ValueHeard
<1>3. PhaseOK'
  BY <1>1 DEF IInv, PhaseOK
<1>4. CbsOK' /\ \A u \in Threads : SetOf(u)'
  BY <1>1 DEF IInv, CbsOK, CbOK, Registered, SetOf
<1> QED  BY <1>2, <1>3, <1>4 DEF IInv

-----------------------------------------------------------------------------
(* Theorems                                                                *)

(* The next node of a document.                                            *)
LEMMA LoadNodeKeeps ==
    ASSUME IInv, NEW t \in Threads, LoadNode(t)
    PROVE  IInv'
<1>1. PICK n : n = Head(nodes[t].left)  OBVIOUS
<1>2. pc[t] = "load" /\ UNCHANGED <<regVars, varVars, writer, s_fun_id, clientVars>>
  BY DEF LoadNode
<1>3. started  BY <1>2, IsStarted
<1>4. CASE UNCHANGED <<threadVars, readers, done>>
  <2>1. pc' = pc /\ UNCHANGED <<regVars, varVars, lockVars, s_fun_id, arg, clientVars>>
    BY <1>2, <1>4 DEF threadVars, lockVars
  <2> QED  BY <1>2, <1>3, <2>1, LoadingKeeps
<1>5. CASE n[1] \in Registered /\ n[2] \in Values /\ EnterSet(t, n[1], n[2])
  BY <1>2, <1>3, <1>5, EnterSetKeeps
<1> QED  BY <1>1, <1>4, <1>5 DEF LoadNode, LookupBase, Converts

(* The program starts without variables.                                   *)
LEMMA InitIInv == Init => IInv
<1> SUFFICES ASSUME Init PROVE IInv
  OBVIOUS
<1>1. NoArg \in Args /\ NoArg.todo = {} /\ Main \in Threads
  BY SomeArg, ThreadsAssumption
<1>2. TypeOK
  BY <1>1 DEF Init, TypeOK, Points
<1>3. PhaseOK /\ InsertOK /\ AddingOK
  BY <1>1 DEF Init, PhaseOK, InsertOK, AddingOK, Adding
<1>4. CbsOK /\ ValueHeard
  BY DEF Init, CbsOK, ValueHeard
<1>5. \A t \in Threads : SetOf(t)
  BY <1>1 DEF Init, SetOf
<1> QED  BY <1>2, <1>3, <1>4, <1>5 DEF IInv

(* Every step keeps the invariant.                                         *)
LEMMA NextIInv ==
    ASSUME ~Late
    PROVE  IInv /\ [Next]_vars => IInv'
<1> SUFFICES ASSUME IInv, [Next]_vars PROVE IInv'
  OBVIOUS
<1>1. CASE UNCHANGED vars
  <2>1. UNCHANGED <<started, datas, m_val, m_cbs, readers, s_fun_id, pc, arg, key, of, heard, gone>>
    BY <1>1 DEF vars, regVars, varVars, lockVars, threadVars, clientVars
  <2>2. TypeOK' /\ PhaseOK' /\ ValueHeard'
    BY <2>1 DEF IInv, TypeOK, PhaseOK, ValueHeard
  <2>3. InsertOK' /\ AddingOK' /\ CbsOK'
    BY <2>1 DEF IInv, InsertOK, AddingOK, CbsOK, CbOK, Registered
  <2>4. \A u \in Threads : SetOf(u)'
    BY <2>1 DEF IInv, SetOf
  <2> QED  BY <2>2, <2>3, <2>4 DEF IInv
<1>2. CASE Start
  BY <1>2, StartKeeps
<1>3. ASSUME NEW t \in Threads, Call(t) PROVE IInv'
  <2>1. ASSUME NEW x \in Names, NEW v \in Values, setValue(t, x, v) PROVE IInv'
    <3>1. /\ started /\ pc[t] \in {"idle", "load"} /\ x \in Registered /\ EnterSet(t, x, v)
          /\ UNCHANGED <<regVars, varVars, writer, s_fun_id, clientVars>>
      BY <2>1 DEF setValue, Calls
    <3> QED  BY <3>1, EnterSetKeeps
  <2>2. ASSUME NEW doc \in Docs, LoadFromYaml(t, doc) PROVE IInv'
    <3>1. /\ started /\ pc[t] \in {"idle", "load"} /\ Goto(t, "load")
          /\ UNCHANGED <<regVars, varVars, lockVars, s_fun_id, arg, clientVars>>
      BY <2>2 DEF LoadFromYaml, Calls
    <3> QED  BY <3>1, LoadingKeeps
  <2> QED  BY <1>3, <2>1, <2>2, LookupKeeps, DelListenerKeeps, GetValueKeeps, ClearListenerKeeps DEF Call
<1>4. ASSUME NEW t \in Threads, GoOn(t) PROVE IInv'
  <2>1. CASE Loaded(t)
    <3>1. /\ pc[t] \in {"idle", "load"} /\ Goto(t, "idle") /\ pc[t] \in {"announce", "store", "load"}
          /\ UNCHANGED <<regVars, varVars, lockVars, s_fun_id, arg, clientVars>>
      BY <2>1 DEF Loaded
    <3>2. started  BY <3>1, IsStarted
    <3> QED  BY <3>1, <3>2, LoadingKeeps
  <2> QED  BY <1>4, <2>1, InsertKeeps, AnnounceKeeps, ReleaseKeeps, StoreKeeps, AddListenerKeeps,
              EnterCbKeeps, AddedKeeps, LoadNodeKeeps DEF GoOn
<1> QED  BY <1>1, <1>2, <1>3, <1>4 DEF Next

(* A variable never has a value that one of its listeners was not told of, *)
(* whichever setValue() and LoadFromYaml() calls interleave and whichever  *)
(* listeners throw, though setValue() gives up its lock between announcing *)
(* the value and storing it.                                               *)
THEOREM EveryValueHeard ==
    ASSUME ~Late
    PROVE  Spec => []ValueHeard
<1>1. IInv /\ [Next]_vars => IInv'
  BY NextIInv
<1>2. IInv => ValueHeard
  BY DEF IInv
<1> QED  BY <1>1, <1>2, InitIInv, PTL DEF Spec

(* A listener that was deleted is not called any more: deleting waits for  *)
(* those who announce, and the key finds the client's own listener.        *)
THEOREM DeletedNotCalled ==
    ASSUME ~Late
    PROVE  Spec => []DeletedIsSilent
<1>1. IInv /\ [Next]_vars => IInv'
  BY NextIInv
<1>2. IInv => DeletedIsSilent
  <2> SUFFICES ASSUME IInv, NEW t \in Threads, NEW p \in arg[t].todo PROVE p[2] \notin gone
    BY DEF DeletedIsSilent
  <2>1. SetOf(t) /\ CbsOK
    BY DEF IInv
  <2>2. arg[t].x \in Names /\ p \in m_cbs[arg[t].x]
    BY <2>1 DEF SetOf
  <2> QED  BY <2>1, <2>2 DEF CbsOK, CbOK
<1> QED  BY <1>1, <1>2, InitIInv, PTL DEF Spec
-----------------------------------------------------------------------------
(* LoadFromYaml(): the list of nodes                                       *)

(* A set of numbers that is not empty has a least one.                     *)
LEMMA LeastNumber ==
    ASSUME NEW S \in SUBSET Nat, S # {}
    PROVE  \E x \in S : \A y \in S : x <= y
<1>1. PICK x \in S : \A y \in S : ~(<<y, x>> \in OpToRel(<, Nat))
  BY NatLessThanWellFounded, WFMin
<1>2. ASSUME NEW y \in S PROVE x <= y
  <2>1. ~(<<y, x>> \in OpToRel(<, Nat)) /\ <<y, x>> \in Nat \X Nat  BY <1>1
  <2> QED  BY <2>1 DEF OpToRel
<1> QED  BY <1>2

(* The lists that ListAllMember() makes of the first nodes, up to the m-th.*)
ListOf(doc, i, before) ==
    IF i = 0 THEN << >>
    ELSE IF doc[i][1] \in LoadRejects THEN before ELSE Append(before, doc[i])
Lists(doc, m, f) == f = [i \in 0..m |-> ListOf(doc, i, f[i - 1])]

(* For any number of nodes there are such lists.                           *)
LEMMA ListsExist ==
    ASSUME NEW doc, NEW n \in Nat
    PROVE  \E f : Lists(doc, n, f)
<1> DEFINE Bad == {m \in Nat : ~ \E f : Lists(doc, m, f)}
<1>1. CASE Bad = {}
  BY <1>1
<1>2. CASE Bad # {}
  <2>1. PICK x \in Bad : \A y \in Bad : x <= y
    <3>1. Bad \in SUBSET Nat  OBVIOUS
    <3> QED  BY <1>2, <3>1, LeastNumber
  <2>2. x \in Nat  BY <2>1
  <2>3. CASE x = 0
    <3>1. PICK f : f = [i \in 0..0 |-> << >>]  OBVIOUS
    <3>2. Lists(doc, 0, f)  BY <3>1 DEF Lists, ListOf
    <3> QED  BY <2>1, <2>3, <3>2
  <2>4. CASE x # 0
    <3>1. x - 1 \in Nat /\ ~(x <= x - 1)  BY <2>2, <2>4
    <3>2. PICK f : Lists(doc, x - 1, f)  BY <2>1, <3>1
    <3>3. PICK g : g = [i \in 0..x |-> IF i = x THEN ListOf(doc, x, f[x - 1]) ELSE f[i]]  OBVIOUS
    <3>4. ASSUME NEW i \in 0..x PROVE g[i] = ListOf(doc, i, g[i - 1])
      <4>1. CASE i = x
        <5>1. g[x - 1] = f[x - 1]  BY <2>2, <2>4, <3>1, <3>3
        <5> QED  BY <2>2, <3>3, <4>1, <5>1
      <4>2. CASE i = 0
        <5>1. g[0] = f[0] /\ f[0] = << >>  BY <2>2, <2>4, <3>1, <3>2, <3>3 DEF Lists, ListOf
        <5> QED  BY <4>2, <5>1 DEF ListOf
      <4>3. CASE i # x /\ i # 0
        <5>1. i \in 0..(x - 1) /\ i - 1 \in 0..x /\ i - 1 # x  BY <2>2, <4>3
        <5>2. g[i] = f[i] /\ g[i - 1] = f[i - 1]  BY <3>3, <4>3, <5>1
        <5>3. f[i] = ListOf(doc, i, f[i - 1])  BY <3>2, <5>1 DEF Lists
        <5> QED  BY <5>2, <5>3
      <4> QED  BY <4>1, <4>2, <4>3
    <3>5. Lists(doc, x, g)
      <4>1. g = [i \in 0..x |-> g[i]]  BY <3>3
      <4> QED  BY <3>4, <4>1 DEF Lists
    <3> QED  BY <2>1, <3>5
  <2> QED  BY <2>3, <2>4
<1> QED  BY <1>1, <1>2

(* A list of elements of S that has the first k nodes with valid names.    *)
Has(s, n) == \E j \in DOMAIN s : s[j] = n
ListOK(doc, S, s, k) ==
    s \in Seq(S) /\ \A i \in 1..k : doc[i][1] \notin LoadRejects => Has(s, doc[i])

(* The k-th list has the nodes up to the k-th whose names are valid.       *)
LEMMA ListsHave ==
    ASSUME NEW S, NEW doc \in Seq(S), NEW f, Lists(doc, Len(doc), f), NEW k \in 0..Len(doc)
    PROVE  ListOK(doc, S, f[k], k)
<1> DEFINE Bad == {m \in 0..Len(doc) : ~ListOK(doc, S, f[m], m)}
<1>1. CASE Bad = {}
  BY <1>1
<1>2. CASE Bad # {}
  <2>1. PICK x \in Bad : \A y \in Bad : x <= y
    <3>1. Bad \in SUBSET Nat  OBVIOUS
    <3> QED  BY <1>2, <3>1, LeastNumber
  <2>2. x \in 0..Len(doc) /\ Len(doc) \in Nat /\ f[x] = ListOf(doc, x, f[x - 1])
    BY <2>1, SMTT(60) DEF Lists
  <2>3. CASE x = 0
    <3>1. f[x] = << >> /\ << >> \in Seq(S)  BY <2>2, <2>3 DEF ListOf
    <3>2. 1..x = {}  BY <2>3
    <3>3. ListOK(doc, S, f[x], x)  BY <3>1, <3>2 DEF ListOK
    <3> QED  BY <2>1, <3>3
  <2>4. CASE x # 0
    <3>1. x - 1 \in 0..Len(doc) /\ ~(x <= x - 1) /\ x \in 1..Len(doc)  BY <2>2, <2>4
    <3>2. ListOK(doc, S, f[x - 1], x - 1)  BY <2>1, <3>1
    <3>3. f[x - 1] \in Seq(S) /\ doc[x] \in S  BY <3>1, <3>2 DEF ListOK
    <3>4. CASE doc[x][1] \in LoadRejects
      <4>1. f[x] = f[x - 1]  BY <2>2, <2>4, <3>4 DEF ListOf
      <4>2. \A i \in 1..x : i \in 1..(x - 1) \/ i = x  BY <3>1
      <4> QED  BY <2>1, <3>2, <3>4, <4>1, <4>2 DEF ListOK
    <3>5. CASE doc[x][1] \notin LoadRejects
      <4>1. f[x] = Append(f[x - 1], doc[x])  BY <2>2, <2>4, <3>5 DEF ListOf
      <4>2. f[x] \in Seq(S) /\ Has(f[x], doc[x])  BY <3>3, <4>1, SMTT(60) DEF Has
      <4>3. ASSUME NEW n, Has(f[x - 1], n) PROVE Has(f[x], n)
        <5>1. PICK s : s = f[x - 1]  OBVIOUS
        <5>2. s \in Seq(S) /\ f[x] = Append(s, doc[x])  BY <3>3, <4>1, <5>1
        <5>3. PICK j \in DOMAIN s : s[j] = n  BY <4>3, <5>1 DEF Has
        <5>4. j \in DOMAIN f[x] /\ f[x][j] = s[j]  BY <3>3, <5>2, <5>3
        <5> QED  BY <5>3, <5>4 DEF Has
      <4>4. ASSUME NEW i \in 1..x, doc[i][1] \notin LoadRejects PROVE Has(f[x], doc[i])
        <5>1. i \in 1..(x - 1) \/ i = x  BY <3>1
        <5> QED  BY <3>2, <4>2, <4>3, <4>4, <5>1 DEF ListOK
      <4> QED  BY <2>1, <4>2, <4>4 DEF ListOK
    <3> QED  BY <3>4, <3>5
  <2> QED  BY <2>3, <2>4
<1> QED  BY <1>1, <1>2

(* ListAllMember() drops the nodes with invalid names and no other.        *)
LEMMA ListHasValid ==
    ASSUME NEW S, NEW doc \in Seq(S)
    PROVE  ListOK(doc, S, ListAllMember(doc), Len(doc))
<1>1. PICK f : f = CHOOSE g : Lists(doc, Len(doc), g)  OBVIOUS
<1>2. Len(doc) \in Nat  OBVIOUS
<1>3. Lists(doc, Len(doc), f)  BY <1>1, <1>2, ListsExist
<1>4. ListAllMember(doc) = f[Len(doc)]  BY <1>1 DEF ListAllMember, Lists, ListOf
<1>5. Len(doc) \in 0..Len(doc)  BY <1>2
<1> QED  BY <1>3, <1>4, <1>5, ListsHave

-----------------------------------------------------------------------------
(* LoadFromYaml(): every node is applied                                   *)

(* A variable has a name that ListAllMember() accepts.                     *)
NamesOK ==
    /\ Registered \cap LoadRejects = {}
    /\ \A t \in Threads : pc[t] = "insert" => arg[t].x \notin LoadRejects

(* A node that can be set is set already, still in the list, or the one    *)
(* that setValue() is at work on.                                          *)
Nodes(doc) == {<<doc[i][1], doc[i][2]>> : i \in DOMAIN doc}
Settable(n) ==
    n[1] \in Registered /\ Converts(n[2]) /\ \A l \in Throwing : of[l] # n[1]
InHand(t, n) == pc[t] \in {"announce", "store"} /\ n = <<arg[t].x, arg[t].v>>
Served(t, n) == n \in done[t] \/ Has(nodes[t].left, n) \/ InHand(t, n)
LoadOf(t) ==
    /\ nodes[t] = [doc |-> nodes[t].doc, left |-> nodes[t].left]
    /\ nodes[t].doc \in Docs \cup {<< >>}
    /\ nodes[t].left \in Seq(Nodes(nodes[t].doc))
    /\ ~started => nodes[t] = NotLoading
    /\ \A i \in DOMAIN nodes[t].doc : Settable(nodes[t].doc[i]) => Served(t, nodes[t].doc[i])
Loads ==
    /\ DOMAIN nodes = Threads /\ DOMAIN done = Threads
    /\ \A t \in Threads : LoadOf(t)

(* A thread that loads nothing.                                            *)
LEMMA NothingToLoad ==
    ASSUME NEW t \in Threads, nodes[t] = NotLoading
    PROVE  LoadOf(t)
BY DEF LoadOf, NotLoading

(* A function of threads changes for one thread only.                      *)
Alone(f, g, t) == DOMAIN g = Threads /\ \A u \in Threads \ {t} : g[u] = f[u]

(* What a step of a thread leaves to the others, and what it changes only  *)
(* before main() begins.                                                   *)
LEMMA StepFrame ==
    ASSUME ~Late, IInv, Loads, NEW t \in Threads, Call(t) \/ GoOn(t)
    PROVE  /\ Alone(pc, pc', t) /\ Alone(arg, arg', t)
           /\ Alone(nodes, nodes', t) /\ Alone(done, done', t)
           /\ started' = started
           /\ started => datas' = datas /\ of' = of
<1>1. /\ DOMAIN pc = Threads /\ DOMAIN arg = Threads /\ DOMAIN nodes = Threads /\ DOMAIN done = Threads
  BY DEF IInv, TypeOK, Loads
<1>2. started => pc[t] \in Running
  BY DEF IInv, PhaseOK, Running
<1>3. /\ Alone(pc, pc, t) /\ Alone(arg, arg, t) /\ Alone(nodes, nodes, t) /\ Alone(done, done, t)
  BY <1>1 DEF Alone
<1>4. /\ \A p : Goto(t, p) => Alone(pc, pc', t)
      /\ Return(t) => Alone(pc, pc', t)
      /\ \A a : arg' = [arg EXCEPT ![t] = a] => Alone(arg, arg', t)
      /\ \A n : nodes' = [nodes EXCEPT ![t] = n] => Alone(nodes, nodes', t)
      /\ \A d : done' = [done EXCEPT ![t] = d] => Alone(done, done', t)
  BY <1>1 DEF Alone, Goto, Return
<1>5. \A x, v : EnterSet(t, x, v) =>
          Alone(pc, pc', t) /\ Alone(arg, arg', t) /\ Alone(done, done', t)
  BY <1>3, <1>4 DEF EnterSet, Applied
<1>6. CASE Call(t)
  <2>1. ASSUME NEW x \in Names, NEW v \in Values, setValue(t, x, v)
        PROVE  UNCHANGED <<started, datas, of, nodes>> /\ EnterSet(t, x, v)
    BY <2>1 DEF setValue, regVars, clientVars
  <2>2. ASSUME NEW x \in Names, NEW v \in Values, NEW T \in Types, Lookup(t, x, T, v)
        PROVE  /\ ~started /\ UNCHANGED <<started, nodes, done>>
               /\ Alone(pc, pc', t) /\ Alone(arg, arg', t)
    BY <1>3, <1>4, <2>2 DEF Lookup, Calls, regVars, loadVars, threadVars
  <2>3. ASSUME NEW l \in Listeners, delListener(t, l)
        PROVE  UNCHANGED <<started, datas, of, nodes, done, pc, arg>>
    BY <2>3 DEF delListener, regVars, loadVars, threadVars
  <2>4. ASSUME NEW l \in Listeners, NEW x \in Names, getValue(t, x, l)
        PROVE  /\ ~started /\ UNCHANGED <<started, nodes, done>>
               /\ Alone(pc, pc', t) /\ Alone(arg, arg', t)
    BY <1>4, <2>4 DEF getValue, Calls, regVars, loadVars
  <2>5. ASSUME NEW x \in Names, clearListener(t, x)
        PROVE  UNCHANGED <<started, datas, of, nodes, done, pc, arg>>
    BY <2>5 DEF clearListener, regVars, loadVars, threadVars
  <2>6. ASSUME NEW doc \in Docs, LoadFromYaml(t, doc)
        PROVE  /\ UNCHANGED <<started, datas, of, arg>>
               /\ Alone(pc, pc', t) /\ Alone(nodes, nodes', t) /\ Alone(done, done', t)
    BY <1>4, <2>6 DEF LoadFromYaml, regVars, clientVars
  <2> QED  BY <1>3, <1>5, <1>6, <2>1, <2>2, <2>3, <2>4, <2>5, <2>6 DEF Call
<1>7. CASE GoOn(t)
  <2>1. /\ started' = started /\ Alone(pc, pc', t) /\ Alone(arg, arg', t)
    <3>1. CASE Insert(t) \/ Throws(t) \/ Announced(t) \/ Store(t)
      BY <1>3, <1>4, <3>1 DEF Insert, Throws, Announced, Store, regVars
    <3>2. CASE Announce(t) \/ addListener(t)
      <4>1. Alone(arg, arg', t)
        BY <1>1, <3>2 DEF Announce, addListener, Alone
      <4> QED  BY <1>3, <1>4, <3>2, <4>1 DEF Announce, addListener, regVars
    <3>3. CASE Increment(t) \/ EnterCb(t) \/ Added(t) \/ Loaded(t)
      BY <1>3, <1>4, <3>3 DEF Increment, EnterCb, Added, Loaded, regVars
    <3>4. CASE LoadNode(t)
      BY <1>3, <1>5, <3>4 DEF LoadNode, regVars, threadVars
    <3> QED  BY <1>7, <3>1, <3>2, <3>3, <3>4 DEF GoOn
  <2>2. Alone(nodes, nodes', t) /\ Alone(done, done', t)
    <3>1. CASE Store(t)
      BY <1>3, <1>4, <3>1 DEF Store, Applied
    <3>2. CASE Loaded(t)
      BY <1>3, <1>4, <3>2 DEF Loaded
    <3>3. CASE LoadNode(t)
      <4>1. Alone(nodes, nodes', t)
        BY <1>1, <3>3 DEF LoadNode, Alone
      <4> QED  BY <1>3, <1>5, <3>3, <4>1 DEF LoadNode
    <3>4. ASSUME ~Store(t), ~Loaded(t), ~LoadNode(t) PROVE nodes' = nodes /\ done' = done
      BY <1>7, <3>4 DEF GoOn, Insert, Announce, Throws, Announced, addListener, Increment,
        EnterCb, Added, loadVars
    <3> QED  BY <1>3, <3>1, <3>2, <3>3, <3>4
  <2>3. started => datas' = datas /\ of' = of
    <3>1. started => pc[t] # "insert"  BY <1>2 DEF Running
    <3> QED  BY <1>7, <3>1 DEF GoOn, Insert, Announce, Throws, Announced, Store, addListener, Increment,
        EnterCb, Added, LoadNode, Loaded, regVars, clientVars
  <2> QED  BY <2>1, <2>2, <2>3
<1> QED  BY <1>6, <1>7

(* Lookup() lets only names in that ListAllMember() accepts.               *)
LEMMA NextNamesOK ==
    ASSUME ~Late, IInv, Loads, NamesOK, [Next]_vars
    PROVE  NamesOK'
<1>1. CASE Start \/ UNCHANGED vars
  BY <1>1 DEF Start, vars, regVars, threadVars, NamesOK, Registered
<1>2. ASSUME NEW t \in Threads, Call(t) \/ GoOn(t) PROVE NamesOK'
  <2>1. Alone(pc, pc', t) /\ Alone(arg, arg', t)
    BY <1>2, StepFrame
  <2>2. /\ DOMAIN pc = Threads /\ DOMAIN arg = Threads /\ pc \in [Threads -> Points]
        /\ DOMAIN datas = Names
    BY DEF IInv, TypeOK
  <2>3. \A p : Goto(t, p) => pc'[t] = p
    BY <2>2 DEF Goto
  <2>4. Return(t) => pc'[t] \in {"idle", "load"}
    BY <2>2 DEF Return, Goto
  <2>5. \A x, v : EnterSet(t, x, v) => pc'[t] \in {"idle", "load", "announce"}
    BY <2>3, <2>4 DEF EnterSet
  <2>6. CASE Insert(t)
    <3>1. pc[t] = "insert" /\ pc'[t] = "idle" /\ datas' = [datas EXCEPT ![arg[t].x] = arg[t].l]
      BY <2>3, <2>6 DEF Insert
    <3>2. Registered' \subseteq Registered \cup {arg[t].x}
      BY <2>2, <3>1 DEF Registered
    <3> QED  BY <2>1, <3>1, <3>2 DEF NamesOK, Alone
  <2>7. ASSUME NEW x \in Names, NEW v \in Values, NEW T \in Types, Lookup(t, x, T, v) PROVE NamesOK'
    <3>1. datas' = datas  BY <2>7 DEF Lookup, regVars
    <3>2. CASE x \in Registered \/ x \in LookupRejects
      BY <2>7, <3>1, <3>2 DEF Lookup, threadVars, NamesOK, Registered
    <3>3. CASE ~(x \in Registered \/ x \in LookupRejects)
      <4>1. arg' = [arg EXCEPT ![t] = [NoArg EXCEPT !.x = x, !.l = T, !.v = v]]
        BY <2>7, <3>3 DEF Lookup
      <4>2. arg'[t].x = x  BY <2>2, <4>1 DEF NoArg
      <4>3. x \notin LoadRejects  BY <3>3, NamesAssumption
      <4> QED  BY <2>1, <3>1, <4>2, <4>3 DEF NamesOK, Alone, Registered
    <3> QED  BY <3>2, <3>3
  <2>8. ASSUME datas' = datas, pc'[t] = "insert" => pc[t] = "insert" /\ arg'[t] = arg[t]
        PROVE  NamesOK'
    BY <2>1, <2>8 DEF NamesOK, Alone, Registered
  <2>9. CASE Call(t) /\ ~ \E x \in Names, v \in Values, T \in Types : Lookup(t, x, T, v)
    <3>1. ASSUME NEW x \in Names, NEW v \in Values, setValue(t, x, v) PROVE NamesOK'
      <4>1. datas' = datas /\ pc'[t] # "insert"
        BY <2>5, <3>1 DEF setValue, regVars
      <4> QED  BY <2>8, <4>1
    <3>2. ASSUME NEW l \in Listeners, delListener(t, l) PROVE NamesOK'
      BY <2>8, <3>2 DEF delListener, regVars, threadVars
    <3>3. ASSUME NEW l \in Listeners, NEW x \in Names, getValue(t, x, l) PROVE NamesOK'
      <4>1. datas' = datas /\ pc'[t] = "add"  BY <2>3, <3>3 DEF getValue, regVars
      <4> QED  BY <2>8, <4>1
    <3>4. ASSUME NEW x \in Names, clearListener(t, x) PROVE NamesOK'
      BY <2>8, <3>4 DEF clearListener, regVars, threadVars
    <3>5. ASSUME NEW doc \in Docs, LoadFromYaml(t, doc) PROVE NamesOK'
      <4>1. datas' = datas /\ pc'[t] = "load"  BY <2>3, <3>5 DEF LoadFromYaml, regVars
      <4> QED  BY <2>8, <4>1
    <3> QED  BY <2>9, <3>1, <3>2, <3>3, <3>4, <3>5 DEF Call
  <2>10. CASE GoOn(t) /\ ~Insert(t)
    <3>1. datas' = datas
      BY <2>10 DEF GoOn, Announce, Throws, Announced, Store, addListener, Increment,
        EnterCb, Added, LoadNode, Loaded, regVars
    <3>2. CASE Announce(t)
      <4>1. pc'[t] # "insert"  BY <3>2 DEF Announce
      <4> QED  BY <2>8, <3>1, <4>1
    <3>3. CASE Throws(t) \/ Announced(t) \/ Store(t) \/ addListener(t) \/ Increment(t)
               \/ EnterCb(t) \/ Added(t) \/ Loaded(t)
      <4>1. pc'[t] # "insert"
        BY <2>3, <2>4, <3>3 DEF Throws, Announced, Store, addListener, Increment, EnterCb, Added, Loaded
      <4> QED  BY <2>8, <3>1, <4>1
    <3>4. CASE LoadNode(t)
      <4>1. pc'[t] # "insert"  BY <2>5, <3>4 DEF LoadNode, threadVars
      <4> QED  BY <2>8, <3>1, <4>1
    <3> QED  BY <2>10, <3>2, <3>3, <3>4 DEF GoOn
  <2> QED  BY <1>2, <2>6, <2>7, <2>9, <2>10
<1> QED  BY <1>1, <1>2 DEF Next

(* The listener that is called is one of those left: the keys are numbers, *)
(* so there is a first.                                                    *)
LEMMA NextCbIsLeft ==
    ASSUME IInv, NEW t \in Threads, arg[t].todo # {}
    PROVE  NextCb(t) \in arg[t].todo
<1>1. arg[t].todo \in SUBSET Pairs
  BY DEF IInv, TypeOK, Args
<1>2. PICK S : S = {p[1] : p \in arg[t].todo}  OBVIOUS
<1>3. S \in SUBSET Nat /\ S # {}
  BY <1>1, <1>2 DEF Pairs
<1>4. PICK k \in S : \A m \in S : k <= m
  BY <1>3, LeastNumber
<1>5. PICK p \in arg[t].todo : p[1] = k
  BY <1>2, <1>4
<1>6. \A q \in arg[t].todo : p[1] <= q[1]
  BY <1>2, <1>4, <1>5
<1> QED  BY <1>5, <1>6 DEF NextCb

(* The elements of a document are pairs of a name and a scalar.            *)
LEMMA NodesArePairs ==
    ASSUME NEW doc \in Docs \cup {<< >>}
    PROVE  doc \in Seq(Nodes(doc)) /\ \A i \in DOMAIN doc : doc[i] \in Nodes(doc)
<1>1. doc \in Seq(Nodes(doc))
  <2>1. CASE doc \in Docs  BY <2>1, DocsAssumption DEF Nodes
  <2>2. CASE doc = << >>  BY <2>2
  <2> QED  BY <2>1, <2>2
<1> QED  BY <1>1

(* The thread's document stays, and so do its nodes, somewhere.            *)
LEMMA LoadOfKept ==
    ASSUME NEW t \in Threads, LoadOf(t), started, started', datas' = datas, of' = of,
           nodes'[t] = [nodes[t] EXCEPT !.left = nodes'[t].left],
           nodes'[t].left \in Seq(Nodes(nodes[t].doc)),
           \A n \in Nodes(nodes[t].doc) : Settable(n) /\ Served(t, n) => Served(t, n)'
    PROVE  LoadOf(t)'
<1>1. /\ nodes[t] = [doc |-> nodes[t].doc, left |-> nodes[t].left]
      /\ nodes[t].doc \in Docs \cup {<< >>}
      /\ \A i \in DOMAIN nodes[t].doc : Settable(nodes[t].doc[i]) => Served(t, nodes[t].doc[i])
  BY DEF LoadOf
<1>2. nodes'[t] = [doc |-> nodes[t].doc, left |-> nodes'[t].left]
  BY <1>1
<1>3. nodes'[t].doc = nodes[t].doc /\ nodes'[t] = [doc |-> nodes'[t].doc, left |-> nodes'[t].left]
  BY <1>2
<1>4. ASSUME NEW i \in DOMAIN nodes'[t].doc, Settable(nodes[t].doc[i])'
      PROVE  Served(t, nodes[t].doc[i])'
  <2>1. PICK n \in Nodes(nodes[t].doc) : n = nodes[t].doc[i] /\ n = nodes'[t].doc[i]
    BY <1>1, <1>3, NodesArePairs
  <2>2. Settable(n)  BY <1>4, <2>1 DEF Settable, Registered, Converts
  <2>3. Served(t, n)  BY <1>1, <1>3, <1>4, <2>1, <2>2
  <2>4. Served(t, n)'  BY <1>3, <1>4, <2>1, <2>2, <2>3
  <2> QED  BY <2>1, <2>4 DEF Served, InHand
<1> QED  BY <1>1, <1>3, <1>4 DEF LoadOf

(* The thread does something else than to go on with a document.           *)
LEMMA LoadOfUntouched ==
    ASSUME NEW t \in Threads, LoadOf(t), started, started', datas' = datas, of' = of,
           nodes'[t] = nodes[t], done[t] \subseteq done'[t],
           pc[t] \in {"announce", "store"} =>
               pc'[t] \in {"announce", "store"} /\ arg'[t].x = arg[t].x /\ arg'[t].v = arg[t].v
    PROVE  LoadOf(t)'
<1>1. nodes[t] = [doc |-> nodes[t].doc, left |-> nodes[t].left] /\ nodes[t].left \in Seq(Nodes(nodes[t].doc))
  BY DEF LoadOf
<1>2. nodes'[t] = [nodes[t] EXCEPT !.left = nodes'[t].left] /\ nodes'[t].left \in Seq(Nodes(nodes[t].doc))
  BY <1>1
<1>3. ASSUME NEW n \in Nodes(nodes[t].doc), Served(t, n) PROVE Served(t, n)'
  BY <1>3 DEF Served, InHand, Has
<1> QED  BY <1>2, <1>3, LoadOfKept

(* setValue() takes the read lock: the value is in force, or in hand.      *)
LEMMA EnterServes ==
    ASSUME IInv, Loads, NEW t \in Threads, pc[t] \in {"idle", "load"}, NEW x, NEW v, EnterSet(t, x, v)
    PROVE  done[t] \subseteq done'[t] /\ (<<x, v>> \in done'[t] \/ InHand(t, <<x, v>>)')
<1>1. DOMAIN pc = Threads /\ DOMAIN arg = Threads /\ DOMAIN done = Threads
  BY DEF IInv, TypeOK, Loads
<1>2. CASE v = m_val[x]
  BY <1>1, <1>2 DEF EnterSet, Applied
<1>3. CASE v # m_val[x]
  <2>1. PICK a : a = [NoArg EXCEPT !.x = x, !.v = v, !.todo = m_cbs[x]]  OBVIOUS
  <2>2. a.x = x /\ a.v = v  BY <2>1 DEF NoArg
  <2>3. pc'[t] = "announce" /\ arg'[t] = a /\ done' = done
    BY <1>1, <1>3, <2>1 DEF EnterSet, Goto
  <2> QED  BY <2>2, <2>3 DEF InHand
<1> QED  BY <1>2, <1>3

(* A document is begun: its list has all nodes that can be set.            *)
LEMMA LoadFromYamlLoads ==
    ASSUME IInv, Loads, NamesOK, NEW t \in Threads, NEW doc \in Docs, LoadFromYaml(t, doc)
    PROVE  LoadOf(t)'
<1>1. PICK s : s = ListAllMember(doc)  OBVIOUS
<1>2. /\ started /\ UNCHANGED <<started, datas>> /\ nodes'[t] = [doc |-> doc, left |-> s]
  BY <1>1 DEF LoadFromYaml, regVars, Loads
<1>3. nodes'[t].doc = doc /\ nodes'[t].left = s
  BY <1>2
<1>4. doc \in Seq(Nodes(doc)) /\ \A i \in DOMAIN doc : doc[i] \in Nodes(doc)
  BY NodesArePairs
<1>5. s \in Seq(Nodes(doc)) /\ \A i \in 1..Len(doc) : doc[i][1] \notin LoadRejects => Has(s, doc[i])
  BY <1>1, <1>4, ListHasValid DEF ListOK
<1>6. ASSUME NEW i \in DOMAIN nodes'[t].doc, Settable(nodes[t].doc[i])'
      PROVE  Served(t, nodes[t].doc[i])'
  <2>1. i \in 1..Len(doc) /\ nodes'[t].doc[i] = doc[i]  BY <1>3, <1>4, <1>6
  <2>2. doc[i][1] \in Registered  BY <1>2, <1>6, <2>1 DEF Settable, Registered
  <2>3. Has(s, doc[i])  BY <1>5, <2>1, <2>2 DEF NamesOK
  <2> QED  BY <1>3, <2>1, <2>3 DEF Served, Has
<1> QED  BY <1>2, <1>3, <1>5, <1>6 DEF LoadOf

(* The next node is taken from the list; when it can be set, setValue() is *)
(* begun or has nothing to do.                                             *)
LEMMA LoadNodeLoads ==
    ASSUME ~Late, IInv, Loads, NEW t \in Threads, LoadNode(t)
    PROVE  LoadOf(t)'
<1>1. PICK s, n, doc : s = nodes[t].left /\ n = Head(s) /\ doc = nodes[t].doc  OBVIOUS
<1>2. /\ pc[t] = "load" /\ UNCHANGED <<started, datas, of>> /\ s # << >>
      /\ nodes' = [nodes EXCEPT ![t].left = Tail(s)]
      /\ DOMAIN nodes = Threads /\ LoadOf(t)
  BY <1>1 DEF LoadNode, Loads, regVars, clientVars
<1>3. started  BY <1>2, IsStarted
<1>4. s \in Seq(Nodes(doc)) /\ nodes[t] = [doc |-> doc, left |-> s]
  BY <1>1, <1>2 DEF LoadOf
<1>5. nodes'[t] = [nodes[t] EXCEPT !.left = Tail(s)]
  BY <1>2
<1>6. nodes'[t].left = Tail(s) /\ nodes'[t] = [nodes[t] EXCEPT !.left = nodes'[t].left]
  BY <1>4, <1>5
<1>7. /\ Tail(s) \in Seq(Nodes(doc)) /\ n \in Nodes(doc)
      /\ \A m : Has(s, m) => m = n \/ Has(Tail(s), m)
  <2>1. Tail(s) \in Seq(Nodes(doc)) /\ n = s[1] /\ 1 \in DOMAIN s /\ DOMAIN s = 1..Len(s) /\ Len(s) \in Nat
    <3>1. s \in Seq(Nodes(doc)) /\ s # << >> /\ n = Head(s)  BY <1>1, <1>2, <1>4
    <3>2. n = s[1] /\ Len(s) \in Nat /\ Len(s) # 0  BY <3>1
    <3> QED  BY <3>1, <3>2
  <2>2. DOMAIN Tail(s) = 1..(Len(s) - 1) /\ \A j \in 1..(Len(s) - 1) : Tail(s)[j] = s[j + 1]
    BY <1>2, <1>4
  <2>3. ASSUME NEW m, NEW j \in DOMAIN s, s[j] = m, m # n PROVE Has(Tail(s), m)
    <3>1. j - 1 \in 1..(Len(s) - 1) /\ (j - 1) + 1 = j  BY <2>1, <2>3
    <3>2. Tail(s)[j - 1] = m  BY <2>2, <2>3, <3>1
    <3> QED  BY <2>2, <3>1, <3>2 DEF Has
  <2> QED  BY <1>4, <2>1, <2>3 DEF Has
<1>8. /\ done[t] \subseteq done'[t]
      /\ Settable(n) => n \in done'[t] \/ InHand(t, n)'
  <2>1. LookupBase(n[1]) = {(n[1] \in Registered)}
    <3>1. \A u \in Threads : pc[u] # "insert"
      BY <1>3 DEF IInv, PhaseOK
    <3> QED  BY <3>1 DEF LookupBase
  <2>2. CASE UNCHANGED done /\ ~(n[1] \in Registered /\ Converts(n[2]))
    BY <2>2 DEF Settable
  <2>3. CASE EnterSet(t, n[1], n[2])
    <3>1. n = <<n[1], n[2]>>  BY <1>7 DEF Nodes
    <3> QED  BY <1>2, <2>3, <3>1, EnterServes
  <2>4. PICK found \in LookupBase(n[1]) :
          IF found /\ Converts(n[2]) THEN EnterSet(t, n[1], n[2]) ELSE UNCHANGED <<threadVars, readers, done>>
    BY <1>1 DEF LoadNode
  <2>5. found = (n[1] \in Registered)  BY <2>1, <2>4
  <2> QED  BY <2>2, <2>3, <2>4, <2>5
<1>9. ASSUME NEW m \in Nodes(doc), Settable(m), Served(t, m) PROVE Served(t, m)'
  <2>1. m \in done[t] \/ Has(s, m)  BY <1>1, <1>2, <1>9 DEF Served, InHand
  <2>2. Has(Tail(s), m) => Has(nodes'[t].left, m)  BY <1>6
  <2> QED  BY <1>7, <1>8, <1>9, <2>1, <2>2 DEF Served, Has
<1> QED  BY <1>1, <1>2, <1>3, <1>6, <1>7, <1>9, LoadOfKept

(* A listener throws: the variable is not one that can be set for certain. *)
LEMMA ThrowsLoads ==
    ASSUME ~Late, IInv, Loads, NEW t \in Threads, Throws(t)
    PROVE  LoadOf(t)'
<1>1. /\ pc[t] = "announce" /\ arg[t].todo # {} /\ NextCb(t)[2] \in Throwing
      /\ UNCHANGED <<started, datas, of, nodes, done>> /\ LoadOf(t) /\ SetOf(t) /\ CbsOK
  BY DEF Throws, regVars, loadVars, clientVars, Loads, IInv
<1>2. started  BY <1>1, IsStarted
<1>3. /\ nodes[t] = [doc |-> nodes[t].doc, left |-> nodes[t].left]
      /\ nodes[t].left \in Seq(Nodes(nodes[t].doc))
  BY <1>1 DEF LoadOf
<1>4. NextCb(t) \in m_cbs[arg[t].x] /\ arg[t].x \in Names
  BY <1>1, NextCbIsLeft DEF SetOf
<1>5. of[NextCb(t)[2]] = arg[t].x
  BY <1>1, <1>4 DEF CbsOK, CbOK
<1>6. ASSUME NEW n \in Nodes(nodes[t].doc), Settable(n), Served(t, n) PROVE Served(t, n)'
  <2>1. n # <<arg[t].x, arg[t].v>>  BY <1>1, <1>5, <1>6 DEF Settable
  <2> QED  BY <1>1, <1>6, <2>1 DEF Served, InHand, Has
<1>7. nodes'[t] = [nodes[t] EXCEPT !.left = nodes'[t].left] /\ nodes'[t].left \in Seq(Nodes(nodes[t].doc))
  BY <1>1, <1>3
<1> QED  BY <1>1, <1>2, <1>6, <1>7, LoadOfKept

(* The value is stored.                                                    *)
LEMMA StoreLoads ==
    ASSUME ~Late, IInv, Loads, NEW t \in Threads, Store(t)
    PROVE  LoadOf(t)'
<1>1. /\ pc[t] = "store" /\ UNCHANGED <<started, datas, of, nodes>> /\ LoadOf(t)
      /\ done' = [done EXCEPT ![t] = done[t] \cup {<<arg[t].x, arg[t].v>>}] /\ DOMAIN done = Threads
  BY DEF Store, Applied, regVars, clientVars, Loads
<1>2. started  BY <1>1, IsStarted
<1>3. /\ nodes[t] = [doc |-> nodes[t].doc, left |-> nodes[t].left]
      /\ nodes[t].left \in Seq(Nodes(nodes[t].doc))
  BY <1>1 DEF LoadOf
<1>4. done'[t] = done[t] \cup {<<arg[t].x, arg[t].v>>}
  BY <1>1
<1>5. ASSUME NEW n \in Nodes(nodes[t].doc), Settable(n), Served(t, n) PROVE Served(t, n)'
  BY <1>1, <1>4, <1>5 DEF Served, InHand, Has
<1>6. nodes'[t] = [nodes[t] EXCEPT !.left = nodes'[t].left] /\ nodes'[t].left \in Seq(Nodes(nodes[t].doc))
  BY <1>1, <1>3
<1> QED  BY <1>1, <1>2, <1>5, <1>6, LoadOfKept

(* A step of the thread itself, once main() has begun.                     *)
LEMMA StepLoads ==
    ASSUME ~Late, IInv, Loads, NamesOK, started, NEW t \in Threads, Call(t) \/ GoOn(t)
    PROVE  LoadOf(t)'
<1>1. started' = started /\ datas' = datas /\ of' = of /\ LoadOf(t)
  BY StepFrame DEF Loads
<1>2. pc[t] \in Running /\ DOMAIN nodes = Threads /\ DOMAIN pc = Threads /\ arg \in [Threads -> Args]
  BY DEF IInv, PhaseOK, TypeOK, Running, Loads
<1>3. ASSUME NEW x \in Names, NEW v \in Values, setValue(t, x, v) PROVE LoadOf(t)'
  <2>1. pc[t] = "idle" /\ nodes' = nodes /\ EnterSet(t, x, v)
    BY <1>3 DEF setValue, Calls
  <2>2. done[t] \subseteq done'[t]  BY <2>1, EnterServes
  <2> QED  BY <1>1, <2>1, <2>2, LoadOfUntouched
<1>4. ASSUME NEW x \in Names, NEW v \in Values, NEW T \in Types, Lookup(t, x, T, v) PROVE FALSE
  BY <1>4 DEF Lookup, Calls
<1>5. ASSUME NEW l \in Listeners, NEW x \in Names, getValue(t, x, l) PROVE FALSE
  BY <1>5 DEF getValue, Calls
<1>6. ASSUME UNCHANGED <<nodes, done, pc, arg>> PROVE LoadOf(t)'
  BY <1>1, <1>6, LoadOfUntouched
<1>7. ASSUME NEW l \in Listeners, delListener(t, l) PROVE LoadOf(t)'
  BY <1>6, <1>7 DEF delListener, loadVars, threadVars
<1>8. ASSUME NEW x \in Names, clearListener(t, x) PROVE LoadOf(t)'
  BY <1>6, <1>8 DEF clearListener, loadVars, threadVars
<1>9. CASE Announce(t)
  <2>1. /\ pc' = pc /\ nodes' = nodes /\ done' = done
        /\ arg' = [arg EXCEPT ![t].todo = arg[t].todo \ {NextCb(t)}]
    BY <1>9 DEF Announce, loadVars
  <2>2. arg'[t].x = arg[t].x /\ arg'[t].v = arg[t].v
    <3>1. arg[t] \in Args  BY <1>2
    <3> QED  BY <1>2, <2>1, <3>1 DEF Args
  <2> QED  BY <1>1, <2>1, <2>2, LoadOfUntouched
<1>10. CASE Announced(t)
  <2>1. pc'[t] = "store" /\ nodes' = nodes /\ done' = done /\ arg' = arg
    BY <1>2, <1>10 DEF Announced, loadVars, Goto
  <2> QED  BY <1>1, <2>1, LoadOfUntouched
<1>11. CASE Loaded(t)
  <2>1. nodes'[t] = NotLoading  BY <1>2, <1>11 DEF Loaded
  <2> QED  BY <2>1 DEF LoadOf, NotLoading
<1>12. ~Insert(t) /\ ~addListener(t) /\ ~Increment(t) /\ ~EnterCb(t) /\ ~Added(t)
  BY <1>2 DEF Running, Insert, addListener, Increment, EnterCb, Added
<1> QED  BY <1>3, <1>4, <1>5, <1>7, <1>8, <1>9, <1>10, <1>11, <1>12, LoadFromYamlLoads,
            ThrowsLoads, StoreLoads, LoadNodeLoads DEF Call, GoOn

(* Before main() begins nobody loads.                                      *)
LEMMA NobodyLoads ==
    ASSUME IInv, Loads, ~started, NEW t \in Threads, Call(t) \/ GoOn(t)
    PROVE  nodes' = nodes
<1>1. pc[t] # "load"  BY IsStarted
<1>2. CASE Call(t)
  BY <1>2 DEF Call, setValue, Lookup, delListener, getValue, clearListener, LoadFromYaml, loadVars
<1>3. CASE GoOn(t)
  BY <1>1, <1>3 DEF GoOn, Insert, Announce, Throws, Announced, Store, addListener, Increment,
    EnterCb, Added, LoadNode, Loaded, loadVars
<1> QED  BY <1>2, <1>3

(* Every step keeps what is said of loading threads.                       *)
LEMMA NextLoads ==
    ASSUME ~Late, IInv, Loads, NamesOK, [Next]_vars
    PROVE  Loads'
<1>1. ASSUME UNCHANGED <<nodes, done, pc, arg, datas, of>>, started' = started \/ ~started PROVE Loads'
  <2>1. ASSUME NEW t \in Threads PROVE LoadOf(t)'
    <3>1. LoadOf(t)  BY DEF Loads
    <3>2. CASE started  BY <1>1, <3>1, <3>2, LoadOfUntouched
    <3>3. CASE ~started
      <4>1. nodes'[t] = NotLoading  BY <1>1, <3>1, <3>3 DEF LoadOf
      <4> QED  BY <4>1 DEF LoadOf, NotLoading
    <3> QED  BY <3>2, <3>3
  <2> QED  BY <1>1, <2>1 DEF Loads
<1>2. CASE UNCHANGED vars
  BY <1>1, <1>2 DEF vars, regVars, loadVars, threadVars, clientVars
<1>3. CASE Start
  BY <1>1, <1>3 DEF Start, loadVars, threadVars, clientVars
<1>4. ASSUME NEW t \in Threads, Call(t) \/ GoOn(t) PROVE Loads'
  <2>1. /\ Alone(pc, pc', t) /\ Alone(arg, arg', t)
        /\ Alone(nodes, nodes', t) /\ Alone(done, done', t)
        /\ started' = started /\ (started => datas' = datas /\ of' = of)
    BY <1>4, StepFrame
  <2>2. ASSUME NEW u \in Threads PROVE LoadOf(u)'
    <3>1. LoadOf(u)  BY DEF Loads
    <3>2. CASE ~started
      <4>1. nodes' = nodes  BY <1>4, <3>2, NobodyLoads
      <4>2. nodes'[u] = NotLoading  BY <3>1, <3>2, <4>1 DEF LoadOf
      <4> QED  BY <4>2 DEF LoadOf, NotLoading
    <3>3. CASE started /\ u = t
      BY <1>4, <3>3, StepLoads
    <3>4. CASE started /\ u # t
      <4>1. nodes'[u] = nodes[u] /\ done'[u] = done[u] /\ pc'[u] = pc[u] /\ arg'[u] = arg[u]
        BY <2>1, <3>4 DEF Alone
      <4> QED  BY <2>1, <3>1, <3>4, <4>1, LoadOfUntouched
    <3> QED  BY <3>2, <3>3, <3>4
  <2> QED  BY <2>1, <2>2 DEF Loads, Alone
<1> QED  BY <1>2, <1>3, <1>4 DEF Next

(* LoadFromYaml() sets every variable of the document that it can set: a   *)
(* name that is invalid or unknown, a scalar that does not convert and a   *)
(* listener that throws (config.cc:26, :52) stop none of the others,       *)
(* however the calls of several threads interleave.                        *)
THEOREM EveryNodeApplied ==
    ASSUME ~Late
    PROVE  Spec => []LoadApplies
<1>1. Init => Loads /\ NamesOK
  <2> SUFFICES ASSUME Init PROVE Loads /\ NamesOK  OBVIOUS
  <2>1. ASSUME NEW t \in Threads PROVE nodes[t] = NotLoading  BY DEF Init
  <2>2. \A t \in Threads : LoadOf(t)  BY <2>1, NothingToLoad
  <2> QED  BY <2>2 DEF Init, Loads, NamesOK, Registered
<1>2. IInv /\ [Next]_vars => IInv'
  BY NextIInv
<1>3. IInv /\ Loads /\ NamesOK /\ [Next]_vars => Loads' /\ NamesOK'
  BY NextLoads, NextNamesOK
<1>4. Loads => LoadApplies
  <2> SUFFICES ASSUME Loads, NEW t \in Threads, pc[t] = "load", nodes[t].left = << >>,
                      NEW i \in DOMAIN nodes[t].doc, Settable(nodes[t].doc[i])
               PROVE  nodes[t].doc[i] \in done[t]
    BY DEF LoadApplies, Settable
  <2>1. Served(t, nodes[t].doc[i])  BY DEF Loads, LoadOf
  <2>2. DOMAIN nodes[t].left = {}  OBVIOUS
  <2> QED  BY <2>1, <2>2 DEF Served, InHand, Has
<1> QED  BY <1>1, <1>2, <1>3, <1>4, InitIInv, PTL DEF Spec
=============================================================================
