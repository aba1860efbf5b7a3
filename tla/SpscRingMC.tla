----------------------------- MODULE SpscRingMC -----------------------------
(* Instances of SpscRing for TLC: spans of every length up to one more than *)
(* the ring holds.                                                          *)
EXTENDS SpscRing

AllBatches == UNION {[1..length -> Values] : length \in 0..(Capacity + 1)}
=============================================================================
