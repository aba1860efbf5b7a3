---------------------------- MODULE ProducerLife ----------------------------
(***************************************************************************)
(* What core_log.h promises of the ring a thread registers for: it is      *)
(* free, live, closed and free again, in that order and once, and nothing  *)
(* is logged through it but while it is live.  Rings that are live or      *)
(* closed take one of k_MAX_THREADS places, and when one is freed every    *)
(* record logged through it has been settled: written or reported lost.    *)
(*                                                                         *)
(* Handles and Logger implement this from either side: the callers, who    *)
(* register, log and close, and the logger that settles and frees.         *)
(***************************************************************************)
EXTENDS Naturals, FiniteSets

CONSTANTS
    Producers,
    k_MAX_THREADS

VARIABLES
    life,       \* of each producer: "none", "live", "closed" or "freed"
    logged,     \* number of records logged through each
    settled     \* and of those among them that were written or reported lost

life_vars == <<life, logged, settled>>

InSlots == {p \in Producers : life[p] \in {"live", "closed"}}

Init ==
    /\ life = [p \in Producers |-> "none"]
    /\ logged = [p \in Producers |-> 0]
    /\ settled = [p \in Producers |-> 0]

Register(p) ==
    /\ life[p] = "none" /\ Cardinality(InSlots) < k_MAX_THREADS
    /\ life' = [life EXCEPT ![p] = "live"]
    /\ UNCHANGED <<logged, settled>>

Log(p) ==
    /\ life[p] = "live"
    /\ logged' = [logged EXCEPT ![p] = @ + 1]
    /\ UNCHANGED <<life, settled>>

Settle(p) ==
    /\ p \in InSlots
    /\ \E n \in (settled[p] + 1)..logged[p] : settled' = [settled EXCEPT ![p] = n]
    /\ UNCHANGED <<life, logged>>

Close(p) ==
    /\ life[p] = "live"
    /\ life' = [life EXCEPT ![p] = "closed"]
    /\ UNCHANGED <<logged, settled>>

Free(p) ==
    /\ life[p] = "closed"
    /\ life' = [life EXCEPT ![p] = "freed"]
    /\ settled' = [settled EXCEPT ![p] = logged[p]]
    /\ UNCHANGED logged

Next == \E p \in Producers : Register(p) \/ Log(p) \/ Settle(p) \/ Close(p) \/ Free(p)

Spec == Init /\ [][Next]_life_vars
=============================================================================
