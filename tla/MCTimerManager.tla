--------------------------- MODULE MCTimerManager ---------------------------
(* Small instances of TimerManager for TLC; the .cfg files give the values.*)
EXTENDS TimerManager, TLC

(* The IO threads are interchangeable.                                     *)
Symmetry == Permutations(IOThreads)
=============================================================================
