---------------------------- MODULE TickClockMC -----------------------------
(***************************************************************************)
(* Rates for checking TickClock with TLC: a tick worth more than, less     *)
(* than and exactly a nanosecond, and the largest terms.                   *)
(***************************************************************************)
EXTENDS TickClock

MC_Rates == {<<1, 1>>, <<5, 3>>, <<3, 5>>, <<7, 1>>, <<7, 6>>, <<6, 7>>}
=============================================================================
