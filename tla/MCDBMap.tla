------------------------------ MODULE MCDBMap ------------------------------
(* Instances of DBMap for TLC.                                             *)
EXTENDS DBMap, TLC

ThreadSymmetry == Permutations(Threads)
=============================================================================
