------------------------------- MODULE Config -------------------------------
(***************************************************************************)
(* duan_src/config.{h,cc}: the registry of configuration variables, the    *)
(* variables with their listeners, and LoadFromYaml().                     *)
(*                                                                         *)
(* Critical sections of a variable's read-write lock are single actions,   *)
(* except where they call out (setValue() announces to one listener after  *)
(* the other under the read lock) or touch s_fun_id, which variables of    *)
(* one type share and their own locks do not protect.                      *)
(*                                                                         *)
(* A client keeps a copy of a variable the way hook.cc does: it reads the  *)
(* value, adds a listener, and the listener updates the copy.  Names stand *)
(* for dotted keys; all that counts of their spelling is who rejects them. *)
(***************************************************************************)
EXTENDS Integers, Sequences, FiniteSets, FiniteSetsExt

CONSTANTS
    Threads,
    Main,           \* the thread of the static initialisers
    Names,          \* keys
    LookupRejects,  \* with a character Lookup() has no place for
    LoadRejects,    \* with one ListAllMember() has no place for
    Types,
    Values,
    Docs,           \* YAML documents: sequences of <<name, scalar>>
    Listeners,
    Throwing,       \* listeners that may throw
    Late,           \* new names and listeners also after initialisation
    Null,
    MaxCalls        \* bound: calls made by all threads once started

ASSUME ThreadsAssumption == Main \in Threads
(* Lookup() lacks one letter that ListAllMember() has, "j".                *)
ASSUME NamesAssumption == LookupRejects \subseteq Names /\ LoadRejects \subseteq LookupRejects
ASSUME DocsAssumption ==
    \A doc \in Docs : doc \in Seq({<<doc[i][1], doc[i][2]>> : i \in DOMAIN doc})
ASSUME ListenersAssumption == Throwing \subseteq Listeners /\ Late \in BOOLEAN
ASSUME NullAssumption == Null \notin Names
ASSUME CallsAssumption == MaxCalls \in Nat

VARIABLES
    started,        \* the static initialisers are done
    datas,          \* type of the variable registered under each name
    m_val,          \* ConfigVar::m_val
    m_cbs,          \* ConfigVar::m_cbs, as a set of <<key, listener>>
    readers, writer,    \* ConfigVar::m_mutex
    s_fun_id,       \* the last listener key given
    pc, arg,        \* of each thread: where it is, and its call's arguments
    nodes,          \* what LoadFromYaml() has still to look at
    copy, key, of,  \* of each client: its copy, the key it got, the variable
    heard, gone,    \* history: values told to a listener; listeners deleted
    done,           \* history: what the thread's LoadFromYaml() has set
    calls

regVars == <<started, datas>>
varVars == <<m_val, m_cbs>>
lockVars == <<readers, writer>>
threadVars == <<pc, arg>>
loadVars == <<nodes, done>>
clientVars == <<copy, key, of, heard, gone>>
vars == <<regVars, varVars, lockVars, s_fun_id, threadVars, loadVars, clientVars, calls>>

NoArg == [x |-> Null, v |-> Null, l |-> Null, id |-> 0, todo |-> {}]
NotLoading == [doc |-> <<>>, left |-> <<>>]

Init ==
    /\ started = FALSE
    /\ datas = [x \in Names |-> Null]
    /\ m_val = [x \in Names |-> Null]
    /\ m_cbs = [x \in Names |-> {}]
    /\ readers = [x \in Names |-> {}] /\ writer = [x \in Names |-> Null]
    /\ s_fun_id = 0
    /\ pc = [t \in Threads |-> "idle"] /\ arg = [t \in Threads |-> NoArg]
    /\ nodes = [t \in Threads |-> NotLoading] /\ done = [t \in Threads |-> {}]
    /\ copy = [l \in Listeners |-> Null] /\ key = [l \in Listeners |-> 0]
    /\ of = [l \in Listeners |-> Null]
    /\ heard = [l \in Listeners |-> {}] /\ gone = {}
    /\ calls = 0

Registered == {x \in Names : datas[x] # Null}
Free(x) == readers[x] = {} /\ writer[x] = Null

Goto(t, p) == pc' = [pc EXCEPT ![t] = p]

(* A thread is between two calls, and may make another one.                *)
Calls(t, late) ==
    /\ pc[t] = "idle"
    /\ IF started
       THEN late /\ calls < MaxCalls /\ calls' = calls + 1
       ELSE t = Main /\ calls' = calls

(* main() begins; the initialisers have run in one thread.                 *)
Start ==
    /\ ~started /\ pc[Main] = "idle"
    /\ Registered # {}
    /\ started' = TRUE
    /\ UNCHANGED <<datas, varVars, lockVars, s_fun_id, threadVars, loadVars, clientVars, calls>>

-----------------------------------------------------------------------------
(* The registry                                                            *)

(* Lookup(name, default): a known name gives its variable, or nothing when *)
(* the type differs; an invalid one throws; a new one is inserted.         *)
Lookup(t, x, T, v) ==
    /\ Calls(t, Late)
    /\ \A u \in Threads : pc[u] # "insert"
    /\ IF x \in Registered \/ x \in LookupRejects
       THEN UNCHANGED threadVars
       ELSE Goto(t, "insert") /\ arg' = [arg EXCEPT ![t] = [NoArg EXCEPT !.x = x, !.l = T, !.v = v]]
    /\ UNCHANGED <<regVars, varVars, lockVars, s_fun_id, loadVars, clientVars>>

Insert(t) ==
    /\ pc[t] = "insert"
    /\ Goto(t, "idle")
    /\ datas' = [datas EXCEPT ![arg[t].x] = arg[t].l]
    /\ m_val' = [m_val EXCEPT ![arg[t].x] = arg[t].v]
    /\ arg' = [arg EXCEPT ![t] = NoArg]
    /\ UNCHANGED <<started, m_cbs, lockVars, s_fun_id, loadVars, clientVars, calls>>

(* LookupBase() takes no lock: while the map is being changed it may miss  *)
(* what is there.                                                          *)
LookupBase(x) ==
    LET Found == {(x \in Registered)} IN
    IF \E u \in Threads : pc[u] = "insert" THEN {FALSE} \cup Found ELSE Found

-----------------------------------------------------------------------------
(* setValue()                                                              *)

(* Whatever setValue() ends with, LoadFromYaml() goes on.                  *)
Return(t) == Goto(t, IF nodes[t] = NotLoading THEN "idle" ELSE "load")

(* History: the document's value of the variable is in force.              *)
Applied(t, x, v) == done' = [done EXCEPT ![t] = @ \cup {<<x, v>>}]

(* The section under the read lock begins: nothing to do, or announce.     *)
EnterSet(t, x, v) ==
    /\ writer[x] = Null
    /\ IF v = m_val[x]
       THEN Return(t) /\ Applied(t, x, v) /\ UNCHANGED <<readers, arg>>
       ELSE /\ Goto(t, "announce")
            /\ readers' = [readers EXCEPT ![x] = @ \cup {t}]
            /\ arg' = [arg EXCEPT ![t] = [NoArg EXCEPT !.x = x, !.v = v, !.todo = m_cbs[x]]]
            /\ UNCHANGED done

setValue(t, x, v) ==
    /\ started /\ Calls(t, TRUE)
    /\ x \in Registered
    /\ EnterSet(t, x, v)
    /\ UNCHANGED <<regVars, varVars, writer, s_fun_id, nodes, clientVars>>

(* m_cbs is a std::map: the listeners are called in the order of the keys. *)
NextCb(t) == CHOOSE p \in arg[t].todo : \A q \in arg[t].todo : p[1] <= q[1]

(* One listener is called with the new value.                              *)
Announce(t) ==
    LET l == NextCb(t)[2] IN
    /\ pc[t] = "announce" /\ arg[t].todo # {}
    /\ arg' = [arg EXCEPT ![t].todo = @ \ {NextCb(t)}]
    /\ copy' = [copy EXCEPT ![l] = arg[t].v]
    /\ heard' = [heard EXCEPT ![l] = @ \cup {arg[t].v}]
    /\ UNCHANGED <<regVars, varVars, lockVars, s_fun_id, pc, loadVars, key, of, gone, calls>>

(* Mutant: the lock is not released.                                       *)
Throws_KeepsLock(t) ==
    /\ pc[t] = "announce" /\ arg[t].todo # {} /\ NextCb(t)[2] \in Throwing
    /\ arg' = [arg EXCEPT ![t] = NoArg]
    /\ Return(t)
    /\ UNCHANGED <<regVars, varVars, lockVars, s_fun_id, loadVars, clientVars, calls>>

(* Mutant: the exception is caught around the listener, and the rest told. *)
Throws_Swallowed(t) ==
    /\ pc[t] = "announce" /\ arg[t].todo # {} /\ NextCb(t)[2] \in Throwing
    /\ arg' = [arg EXCEPT ![t].todo = @ \ {NextCb(t)}]
    /\ UNCHANGED <<regVars, varVars, lockVars, s_fun_id, pc, loadVars, clientVars, calls>>

(* A listener throws: the lock is released, nothing is stored; fromString()*)
(* catches it.                                                             *)
Throws(t) ==
    /\ pc[t] = "announce" /\ arg[t].todo # {} /\ NextCb(t)[2] \in Throwing
    /\ readers' = [readers EXCEPT ![arg[t].x] = @ \ {t}]
    /\ arg' = [arg EXCEPT ![t] = NoArg]
    /\ Return(t)
    /\ UNCHANGED <<regVars, varVars, writer, s_fun_id, loadVars, clientVars, calls>>

(* The read lock is released; the write lock is still to be taken.         *)
Announced(t) ==
    /\ pc[t] = "announce" /\ arg[t].todo = {}
    /\ readers' = [readers EXCEPT ![arg[t].x] = @ \ {t}]
    /\ Goto(t, "store")
    /\ UNCHANGED <<regVars, varVars, writer, s_fun_id, arg, loadVars, clientVars, calls>>

Store(t) ==
    LET x == arg[t].x IN
    /\ pc[t] = "store" /\ Free(x)
    /\ m_val' = [m_val EXCEPT ![x] = arg[t].v]
    /\ Applied(t, x, arg[t].v)
    /\ Return(t)
    /\ arg' = [arg EXCEPT ![t] = NoArg]
    /\ UNCHANGED <<regVars, m_cbs, lockVars, s_fun_id, nodes, clientVars, calls>>

-----------------------------------------------------------------------------
(* Listeners                                                               *)

(* A client reads the value it will keep a copy of.                        *)
getValue(t, x, l) ==
    /\ Calls(t, Late)
    /\ x \in Registered /\ of[l] = Null /\ writer[x] = Null
    /\ of' = [of EXCEPT ![l] = x]
    /\ copy' = [copy EXCEPT ![l] = m_val[x]]
    /\ heard' = [heard EXCEPT ![l] = {m_val[x]}]
    /\ Goto(t, "add")
    /\ arg' = [arg EXCEPT ![t] = [NoArg EXCEPT !.x = x, !.l = l]]
    /\ UNCHANGED <<regVars, varVars, lockVars, s_fun_id, loadVars, key, gone>>

(* addListener(): the write lock is taken; ++s_fun_id reads, and writes.   *)
addListener(t) ==
    /\ pc[t] = "add" /\ Free(arg[t].x)
    /\ writer' = [writer EXCEPT ![arg[t].x] = t]
    /\ arg' = [arg EXCEPT ![t].id = s_fun_id]
    /\ Goto(t, "increment")
    /\ UNCHANGED <<regVars, varVars, readers, s_fun_id, loadVars, clientVars, calls>>

Increment(t) ==
    /\ pc[t] = "increment"
    /\ s_fun_id' = arg[t].id + 1
    /\ Goto(t, "enter")
    /\ UNCHANGED <<regVars, varVars, lockVars, arg, loadVars, clientVars, calls>>

(* m_cbs[s_fun_id] = cb replaces what the key stood for.                   *)
EnterCb(t) ==
    LET x == arg[t].x IN
    /\ pc[t] = "enter"
    /\ m_cbs' = [m_cbs EXCEPT ![x] = {p \in @ : p[1] # s_fun_id} \cup {<<s_fun_id, arg[t].l>>}]
    /\ Goto(t, "added")
    /\ UNCHANGED <<regVars, m_val, lockVars, s_fun_id, arg, loadVars, clientVars, calls>>

(* s_fun_id is read once more for the result; the lock is released.        *)
Added(t) ==
    /\ pc[t] = "added"
    /\ key' = [key EXCEPT ![arg[t].l] = s_fun_id]
    /\ writer' = [writer EXCEPT ![arg[t].x] = Null]
    /\ arg' = [arg EXCEPT ![t] = NoArg]
    /\ Goto(t, "idle")
    /\ UNCHANGED <<regVars, varVars, readers, s_fun_id, loadVars, copy, of, heard, gone, calls>>

(* Mutant: without the lock.                                               *)
delListener_NoLock(t, l) ==
    /\ started /\ Calls(t, TRUE)
    /\ key[l] # 0 /\ l \notin gone
    /\ m_cbs' = [m_cbs EXCEPT ![of[l]] = {p \in @ : p[1] # key[l]}]
    /\ gone' = gone \cup {l}
    /\ UNCHANGED <<regVars, m_val, lockVars, s_fun_id, threadVars, loadVars, copy, key, of, heard>>

delListener(t, l) ==
    /\ started /\ Calls(t, TRUE)
    /\ key[l] # 0 /\ l \notin gone
    /\ Free(of[l])
    /\ m_cbs' = [m_cbs EXCEPT ![of[l]] = {p \in @ : p[1] # key[l]}]
    /\ gone' = gone \cup {l}
    /\ UNCHANGED <<regVars, m_val, lockVars, s_fun_id, threadVars, loadVars, copy, key, of, heard>>

clearListener(t, x) ==
    /\ started /\ Calls(t, TRUE)
    /\ x \in Registered /\ Free(x)
    /\ m_cbs' = [m_cbs EXCEPT ![x] = {}]
    /\ gone' = gone \cup {p[2] : p \in m_cbs[x]}
    /\ UNCHANGED <<regVars, m_val, lockVars, s_fun_id, threadVars, loadVars, copy, key, of, heard>>

-----------------------------------------------------------------------------
(* LoadFromYaml()                                                          *)

(* Mutant: an invalid name ends it all.                                    *)
ListAllMember_Stops(doc) ==
    IF \E i \in DOMAIN doc : doc[i][1] \in LoadRejects THEN <<>> ELSE doc

(* What becomes of a document: the nodes with valid names, in order.       *)
ListAllMember(doc) ==
    LET output[i \in 0..Len(doc)] ==
        IF i = 0 THEN << >>
        ELSE IF doc[i][1] \in LoadRejects THEN output[i - 1] ELSE Append(output[i - 1], doc[i])
    IN output[Len(doc)]

LoadFromYaml(t, doc) ==
    /\ started /\ Calls(t, TRUE)
    /\ nodes' = [nodes EXCEPT ![t] = [doc |-> doc, left |-> ListAllMember(doc)]]
    /\ done' = [done EXCEPT ![t] = {}]
    /\ Goto(t, "load")
    /\ UNCHANGED <<regVars, varVars, lockVars, s_fun_id, arg, clientVars>>

(* FromStr: a scalar that is no value of the type throws.                  *)
Converts(v) == v \in Values

(* fromString() of the next node's variable, when there is one.            *)
LoadNode(t) ==
    LET n == Head(nodes[t].left) IN
    /\ pc[t] = "load" /\ nodes[t].left # <<>>
    /\ nodes' = [nodes EXCEPT ![t].left = Tail(@)]
    /\ \E found \in LookupBase(n[1]) :
        IF found /\ Converts(n[2])
        THEN EnterSet(t, n[1], n[2])
        ELSE UNCHANGED <<threadVars, readers, done>>
    /\ UNCHANGED <<regVars, varVars, writer, s_fun_id, clientVars, calls>>

Loaded(t) ==
    /\ pc[t] = "load" /\ nodes[t].left = <<>>
    /\ nodes' = [nodes EXCEPT ![t] = NotLoading]
    /\ Goto(t, "idle")
    /\ UNCHANGED <<regVars, varVars, lockVars, s_fun_id, arg, done, clientVars, calls>>

-----------------------------------------------------------------------------
Call(t) ==
    \/ \E x \in Names, v \in Values :
        setValue(t, x, v) \/ \E T \in Types : Lookup(t, x, T, v)
    \/ \E l \in Listeners : delListener(t, l) \/ \E x \in Names : getValue(t, x, l)
    \/ \E x \in Names : clearListener(t, x)
    \/ \E doc \in Docs : LoadFromYaml(t, doc)

GoOn(t) ==
    \/ Insert(t) \/ Announce(t) \/ Throws(t) \/ Announced(t) \/ Store(t)
    \/ addListener(t) \/ Increment(t) \/ EnterCb(t) \/ Added(t)
    \/ LoadNode(t) \/ Loaded(t)

Next == Start \/ \E t \in Threads : Call(t) \/ GoOn(t)

Spec == Init /\ [][Next]_vars
FairSpec == Spec /\ \A t \in Threads : WF_vars(GoOn(t))

-----------------------------------------------------------------------------
(* Properties                                                              *)

(* Whichever value a variable has, each of its listeners has been told of  *)
(* it, however setValue() calls of several threads and LoadFromYaml()      *)
(* interleave and whichever listeners throw.  (For listeners added before  *)
(* the threads start.)                                                     *)
ValueHeard == \A x \in Names : \A p \in m_cbs[x] : m_val[x] \in heard[p[2]]

(* Once delListener() or clearListener() has returned, the listener is not *)
(* called any more: no thread is about to.                                 *)
DeletedIsSilent == \A t \in Threads : \A p \in arg[t].todo : p[2] \notin gone

(* LoadFromYaml() sets every variable of the document it can, whatever     *)
(* happens to the others: one that is unknown, does not convert or has a   *)
(* listener that throws stops none of the rest.                            *)
LoadApplies ==
    \A t \in Threads :
        pc[t] = "load" /\ nodes[t].left = <<>> =>
            \A i \in DOMAIN nodes[t].doc :
                LET n == nodes[t].doc[i] IN
                n[1] \in Registered /\ Converts(n[2]) /\ (\A l \in Throwing : of[l] # n[1])
                    => n \in done[t]

(* Every call returns: readers and writers of one variable do not block    *)
(* each other for ever.                                                    *)
CallsReturn == \A t \in Threads : (pc[t] # "idle") ~> (pc[t] = "idle")

(* setValue() announces every change: when no call is under way, the       *)
(* copies that listeners keep are the values ("要通知变化", config.h:302).  *)
CopiesFollow ==
    (\A t \in Threads : pc[t] = "idle") =>
        \A x \in Names : \A p \in m_cbs[x] : copy[p[2]] = m_val[x]
=============================================================================
