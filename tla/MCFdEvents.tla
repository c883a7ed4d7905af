----------------------------- MODULE MCFdEvents -----------------------------
(* FdEvents for TLC. *)
EXTENDS FdEvents, TLC

Symmetry == Permutations(Users) \cup Permutations(IOThreads)
=============================================================================
