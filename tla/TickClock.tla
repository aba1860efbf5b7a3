----------------------------- MODULE TickClock ------------------------------
(***************************************************************************)
(* The clock of core_clock.h, and what becomes of its ticks: threads read  *)
(* it when they log, a record keeps the low bits of the tick, and the      *)
(* logger thread turns what is left into nanoseconds since it started.     *)
(*                                                                         *)
(* Numbers wrap as the unsigned words of the code do: every sum and every  *)
(* product is modulo WordSpace.                                            *)
(***************************************************************************)
EXTENDS Integers, Sequences

CONSTANTS
    WordSpace,      \* 2^64 in the code
    TermSpace,      \* 2^32, the terms of a rate
    TickSpace,      \* 2^59, the ticks of a record
    Rates,          \* what a tick may be worth: <<num, denom>>
    Threads,        \* that log
    LastTick,       \* bound: the last reading of the clock
    MaxPending      \* bound: records of one thread not yet shown

ASSUME TickClockAssumption ==
    /\ {WordSpace, TermSpace, TickSpace, LastTick, MaxPending} \subseteq Nat \ {0}
    \* A product of two terms fits in a word.
    /\ TermSpace * TermSpace <= WordSpace
    /\ TickSpace <= WordSpace /\ LastTick < WordSpace
    /\ Rates \subseteq (0..(TermSpace - 1)) \X (1..(TermSpace - 1))

VARIABLES
    now,            \* what the clock reads
    d_start,
    d_num,
    d_denom,
    pending,        \* of each thread, the ticks its records were made at
    shown           \* of each thread, the last record shown: its tick, its time

conversion == <<d_start, d_num, d_denom>>
vars == <<now, d_start, d_num, d_denom, pending, shown>>

-----------------------------------------------------------------------------
(* (An operator named X_Fault is X with a bug, for showing that a property *)
(* detects it; nothing else uses it.)                                      *)

\* The remainder is scaled apart, so that no product of it overflows.
SplitScaled_MultiplyFirst(elapsed, num, denom) ==
    ((elapsed * num) % WordSpace) \div denom
SplitScaled(elapsed, num, denom) ==
    LET whole == ((elapsed \div denom) * num) % WordSpace
        rest == (((elapsed % denom) * num) % WordSpace) \div denom
    IN  (whole + rest) % WordSpace

ns_elapsed_since_start_Wrapped(ticks) ==
    SplitScaled((ticks - d_start) % WordSpace, d_num, d_denom)
ns_elapsed_since_start(ticks) ==
    IF ticks <= d_start THEN 0 ELSE SplitScaled(ticks - d_start, d_num, d_denom)

\* LogRecord::make keeps the low bits of a tick.
ticks_of(tick) == tick % TickSpace

-----------------------------------------------------------------------------
\* A machine may have been up for any time when the logger starts.
Init ==
    /\ now \in 0..LastTick
    /\ d_start = now
    /\ \E rate \in Rates : d_num = rate[1] /\ d_denom = rate[2]
    /\ pending = [t \in Threads |-> <<>>]
    /\ shown = [t \in Threads |-> [tick |-> d_start, ns |-> 0]]

\* Time passes; a later reading is never less.
Advance ==
    /\ now < LastTick
    /\ now' = now + 1
    /\ UNCHANGED <<d_start, d_num, d_denom, pending, shown>>

\* Clock::now, as a thread logs.
Log(t) ==
    /\ Len(pending[t]) < MaxPending
    /\ pending' = [pending EXCEPT ![t] = Append(@, now)]
    /\ UNCHANGED <<now, d_start, d_num, d_denom, shown>>

\* The logger thread pops a record of the thread, and shows its time.
Show(t) ==
    /\ pending[t] # <<>>
    /\ shown' = [shown EXCEPT ![t] =
                    [tick |-> Head(pending[t]),
                     ns |-> ns_elapsed_since_start(ticks_of(Head(pending[t])))]]
    /\ pending' = [pending EXCEPT ![t] = Tail(@)]
    /\ UNCHANGED <<now, d_start, d_num, d_denom>>

Next == Advance \/ \E t \in Threads : Log(t) \/ Show(t)

Spec == Init /\ [][Next]_vars

-----------------------------------------------------------------------------
(* Properties.                                                             *)

TypeOK ==
    /\ now \in 0..LastTick /\ d_start \in 0..LastTick
    /\ <<d_num, d_denom>> \in Rates
    /\ pending \in [Threads -> Seq(0..LastTick)]
    /\ shown \in [Threads -> [tick : 0..LastTick, ns : 0..(WordSpace - 1)]]

\* The exact time from the start to a tick, rounded down.
Elapsed(tick) == ((tick - d_start) * d_num) \div d_denom

\* What is shown is the exact time, rounded down, as long as the tick fits in
\* a record and its time fits in a word: no product on the way overflows,
\* though the whole product may (core_clock.h:32-40, :134-136).
ExactTime ==
    \A t \in Threads :
        shown[t].tick < TickSpace /\ Elapsed(shown[t].tick) < WordSpace
            => shown[t].ns = Elapsed(shown[t].tick)

\* A record whose tick lost its high bits is shown too early, never late: the
\* tick is then before the start, or less far from it (core_clock.h:134-136,
\* core_log_record.h:113-115).
NeverLate ==
    \A t \in Threads : shown[t].ns <= Elapsed(shown[t].tick)

=============================================================================
