------------------------------ MODULE LoggerMC ------------------------------
(* Instances of Logger for TLC.                                             *)
EXTENDS Logger, TLC

ThreadSymmetry == Permutations(Threads)
=============================================================================
