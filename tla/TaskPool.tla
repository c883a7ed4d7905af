------------------------------ MODULE TaskPool ------------------------------
(***************************************************************************)
(* What the scheduler promises to whoever hands it a task, without queue,  *)
(* fibers, counters or locks: each task is executed at most once, after it *)
(* was submitted; the pool closes only when it is drained, and accepts     *)
(* nothing until everyone has left and it may open again.                  *)
(***************************************************************************)
CONSTANT Tasks

VARIABLES pending, running, ended, closed

vars == <<pending, running, ended, closed>>

Init == pending = {} /\ running = {} /\ ended = {} /\ closed = FALSE

Submit(S) ==
    /\ ~closed
    /\ S \cap (pending \cup running \cup ended) = {}
    /\ pending' = pending \cup S
    /\ UNCHANGED <<running, ended, closed>>

Begin(x) ==
    /\ x \in pending
    /\ pending' = pending \ {x}
    /\ running' = running \cup {x}
    /\ UNCHANGED <<ended, closed>>

(* The task returns, throws or gives its thread up for good.               *)
End(x) ==
    /\ x \in running
    /\ running' = running \ {x}
    /\ ended' = ended \cup {x}
    /\ UNCHANGED <<pending, closed>>

Close ==
    /\ pending = {} /\ running = {}
    /\ closed' = TRUE
    /\ UNCHANGED <<pending, running, ended>>

(* Everyone has left: the pool may be used again.                          *)
Reopen ==
    /\ closed
    /\ closed' = FALSE
    /\ UNCHANGED <<pending, running, ended>>

Next ==
    \/ \E S \in SUBSET Tasks : Submit(S)
    \/ \E x \in Tasks : Begin(x) \/ End(x)
    \/ Close
    \/ Reopen

Spec == Init /\ [][Next]_vars
=============================================================================
