----------------------------- MODULE HandlesMC ------------------------------
(* Instances of Handles for TLC.                                            *)
EXTENDS Handles, TLC

ThreadSymmetry == Permutations(Threads)
=============================================================================
