------------------------------- MODULE Thread -------------------------------
(***************************************************************************)
(* duan_src/thread.{h,cc}: Thread, Semaphore and Mutex, seen with their    *)
(* user Scheduler::start(): a creator that holds a Mutex while it makes    *)
(* one Thread after the other, whose callbacks begin by taking the same    *)
(* Mutex, and that later joins them or lets go of them.                    *)
(*                                                                         *)
(* run() uses the Thread object through a plain pointer.  After the        *)
(* constructor has returned nothing but the creator keeps that object      *)
(* alive.                                                                  *)
(***************************************************************************)
EXTENDS Naturals, Sequences

CONSTANTS
    Children,       \* Thread objects, and the threads they stand for
    Creator,
    Null

ASSUME ChildrenAssumption == Creator \notin Children /\ Null \notin Children \cup {Creator}

VARIABLES
    object,         \* the Thread object: "none", "making", "made", or "gone"
    m_thread,       \* its thread handle is not 0
    m_id,           \* its m_id has been set
    m_cb,           \* it still holds the callback
    m_name,         \* "given", or "new" after SetName()
    sem,            \* the value of m_semaphore
    step,           \* how far run() has come in each thread, 0 before it exists
    ended,          \* the threads that have ended
    t_thread_name,  \* the thread-local name
    main,           \* what the creator does, and for which object
    mutex,          \* the owner of the creator's Mutex
    interrupted,    \* history: objects whose constructor threw out of wait()
    usedGone,       \* history: threads that used their object after it was gone, in run()
    renamedGone     \* history: the same in SetName()

objVars == <<object, m_thread, m_id, m_cb, m_name, sem>>
childVars == <<step, ended, t_thread_name>>
history == <<interrupted, usedGone, renamedGone>>
vars == <<objVars, childVars, main, mutex, history>>

Init ==
    /\ object = [x \in Children |-> "none"]
    /\ m_thread = [x \in Children |-> FALSE]
    /\ m_id = [x \in Children |-> FALSE]
    /\ m_cb = [x \in Children |-> FALSE]
    /\ m_name = [x \in Children |-> "given"]
    /\ sem = [x \in Children |-> 0]
    /\ step = [x \in Children |-> 0]
    /\ ended = {}
    /\ t_thread_name = [x \in Children |-> "UNKNOW"]
    /\ main = [at |-> "new", x |-> Null]
    /\ mutex = Null
    /\ interrupted = {} /\ usedGone = {} /\ renamedGone = {}

-----------------------------------------------------------------------------
(* The creator                                                             *)

(* ScopedLockImpl's constructor and destructor over Mutex.                 *)
Lock(t) == mutex = Null /\ mutex' = t
Unlock(t) == mutex = t /\ mutex' = Null

BeginStart ==
    /\ main.at = "new"
    /\ Lock(Creator)
    /\ main' = [main EXCEPT !.at = "start"]
    /\ UNCHANGED <<objVars, childVars, history>>

(* The constructor up to m_semaphore.wait().                               *)
Construct(x) ==
    /\ main.at = "start" /\ object[x] = "none"
    /\ object' = [object EXCEPT ![x] = "making"]
    /\ m_thread' = [m_thread EXCEPT ![x] = TRUE]
    /\ m_cb' = [m_cb EXCEPT ![x] = TRUE]
    /\ step' = [step EXCEPT ![x] = 1]
    /\ main' = [at |-> "wait", x |-> x]
    /\ UNCHANGED <<m_id, m_name, sem, ended, t_thread_name, mutex, history>>

(* pthread_create() fails: the constructor throws, which ends start() and  *)
(* releases its lock.                                                      *)
ConstructFails(x) ==
    /\ main.at = "start" /\ object[x] = "none"
    /\ object' = [object EXCEPT ![x] = "gone"]
    /\ Unlock(Creator)
    /\ main' = [at |-> "idle", x |-> Null]
    /\ UNCHANGED <<m_thread, m_id, m_cb, m_name, sem, childVars, history>>

(* Semaphore::wait() returns.                                              *)
Constructed ==
    /\ main.at = "wait" /\ sem[main.x] > 0
    /\ sem' = [sem EXCEPT ![main.x] = @ - 1]
    /\ object' = [object EXCEPT ![main.x] = "made"]
    /\ main' = [at |-> "start", x |-> Null]
    /\ UNCHANGED <<m_thread, m_id, m_cb, m_name, childVars, mutex, history>>

(* A signal interrupts sem_wait(), and wait() throws: the object goes      *)
(* although its thread exists.                                             *)
Interrupted ==
    /\ main.at = "wait"
    /\ object' = [object EXCEPT ![main.x] = "gone"]
    /\ Unlock(Creator)
    /\ main' = [at |-> "idle", x |-> Null]
    /\ interrupted' = interrupted \cup {main.x}
    /\ UNCHANGED <<m_thread, m_id, m_cb, m_name, sem, childVars, usedGone, renamedGone>>

EndStart ==
    /\ main.at = "start"
    /\ \A x \in Children : object[x] # "none"
    /\ Unlock(Creator)
    /\ main' = [at |-> "idle", x |-> Null]
    /\ UNCHANGED <<objVars, childVars, history>>

(* join(): nothing to do when m_thread is 0.                               *)
JoinBegin(x) ==
    /\ main.at = "idle" /\ object[x] = "made" /\ m_thread[x]
    /\ main' = [at |-> "join", x |-> x]
    /\ UNCHANGED <<objVars, childVars, mutex, history>>

JoinEnd ==
    /\ main.at = "join" /\ main.x \in ended
    /\ m_thread' = [m_thread EXCEPT ![main.x] = FALSE]
    /\ main' = [at |-> "idle", x |-> Null]
    /\ UNCHANGED <<object, m_id, m_cb, m_name, sem, childVars, mutex, history>>

(* ~Thread(): a thread that was not joined is detached and runs on.        *)
Destroy(x) ==
    /\ main.at = "idle" /\ object[x] = "made"
    /\ object' = [object EXCEPT ![x] = "gone"]
    /\ UNCHANGED <<m_thread, m_id, m_cb, m_name, sem, childVars, main, mutex, history>>

CreatorStep ==
    \/ BeginStart \/ Constructed \/ Interrupted \/ EndStart \/ JoinEnd
    \/ \E x \in Children : Construct(x) \/ ConstructFails(x) \/ JoinBegin(x) \/ Destroy(x)

-----------------------------------------------------------------------------
(* The new thread                                                          *)

Gone(x) == object[x] = "gone"

(* Mutants: the creator is told before run() has read the object, or after *)
(* the callback has returned.                                              *)
RunSteps_NotifyFirst == <<"notify", "take", "enter", "call">>
RunSteps_NotifyLast == <<"take", "enter", "call", "notify">>
(* Thread::run().                                                          *)
RunSteps == <<"take", "notify", "enter", "call">>

At(x, name) == step[x] \in DOMAIN RunSteps /\ RunSteps[step[x]] = name
Advance(x) ==
    /\ step' = [step EXCEPT ![x] = @ + 1]
    /\ ended' = IF step[x] = Len(RunSteps) THEN ended \cup {x} ELSE ended

(* t_thread, the name and m_id, and the callback is taken out.             *)
Take(x) ==
    /\ At(x, "take")
    /\ t_thread_name' = [t_thread_name EXCEPT ![x] = m_name[x]]
    /\ m_id' = [m_id EXCEPT ![x] = TRUE]
    /\ m_cb' = [m_cb EXCEPT ![x] = FALSE]
    /\ usedGone' = IF Gone(x) THEN usedGone \cup {x} ELSE usedGone
    /\ Advance(x)
    /\ UNCHANGED <<object, m_thread, m_name, sem, main, mutex, interrupted, renamedGone>>

(* Semaphore::notify().                                                    *)
Notify(x) ==
    /\ At(x, "notify")
    /\ sem' = [sem EXCEPT ![x] = @ + 1]
    /\ usedGone' = IF Gone(x) THEN usedGone \cup {x} ELSE usedGone
    /\ Advance(x)
    /\ UNCHANGED <<object, m_thread, m_id, m_cb, m_name, t_thread_name, main, mutex,
                   interrupted, renamedGone>>

(* The callback begins with a section under the creator's Mutex.           *)
Enter(x) ==
    /\ At(x, "enter")
    /\ mutex = Null
    /\ Advance(x)
    /\ UNCHANGED <<objVars, t_thread_name, main, mutex, history>>

(* The callback calls Thread::SetName(), which writes through t_thread.    *)
SetName(x) ==
    /\ At(x, "call")
    /\ t_thread_name[x] # "new"
    /\ t_thread_name' = [t_thread_name EXCEPT ![x] = "new"]
    /\ m_name' = [m_name EXCEPT ![x] = "new"]
    /\ renamedGone' = IF Gone(x) THEN renamedGone \cup {x} ELSE renamedGone
    /\ UNCHANGED <<object, m_thread, m_id, m_cb, sem, step, ended, main, mutex, interrupted,
                   usedGone>>

End(x) ==
    /\ At(x, "call")
    /\ Advance(x)
    /\ UNCHANGED <<objVars, t_thread_name, main, mutex, history>>

ChildStep(x) == Take(x) \/ Notify(x) \/ Enter(x) \/ SetName(x) \/ End(x)

-----------------------------------------------------------------------------
Next == CreatorStep \/ \E x \in Children : ChildStep(x)

Spec == Init /\ [][Next]_vars

(* Threads are scheduled; what the creator is in the middle of goes on.    *)
Fairness ==
    /\ WF_vars(Constructed \/ EndStart \/ JoinEnd \/ \E x \in Children : Construct(x))
    /\ \A x \in Children : WF_vars(Take(x) \/ Notify(x) \/ Enter(x) \/ End(x))
FairSpec == Spec /\ Fairness

-----------------------------------------------------------------------------
(* Properties                                                              *)

(* A constructor that returned has left an object that its thread is ready *)
(* with: getId() is the thread's (scheduler.cc:67 uses it at once), the    *)
(* callback is with the thread, and both copies of the name agree.  run()  *)
(* is never behind: it does not touch the object after the creator may     *)
(* have destroyed it (thread.cc:110 is its last use), unless a signal made *)
(* the constructor throw.  SetName() does so only in a thread that was let *)
(* go of and never joined.                                                 *)
Handover ==
    \A x \in Children :
        /\ object[x] = "made" => m_id[x] /\ ~m_cb[x] /\ t_thread_name[x] = m_name[x]
        /\ x \in usedGone => x \in interrupted
        /\ x \in renamedGone => m_thread[x]

(* start() returns although it waits for threads that want its Mutex, and  *)
(* every thread that was created comes through its callback: the new       *)
(* thread reports before it calls anything (thread.cc:110).                *)
StartReturns ==
    /\ (main.at \in {"start", "wait"}) ~> (main.at = "idle")
    /\ \A x \in Children : (step[x] = 1) ~> (x \in ended)
=============================================================================
