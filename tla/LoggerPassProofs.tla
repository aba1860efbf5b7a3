-------------------------- MODULE LoggerPassProofs --------------------------
(***************************************************************************)
(* The passes of the draining thread keep PassInvariant, for every number  *)
(* of slots and every capacity: no ring is freed with a record in it, and  *)
(* none is taken from under the thread that drains it.                     *)
(***************************************************************************)
EXTENDS LoggerPass, TLAPS

-----------------------------------------------------------------------------
\* The shared ring comes after the slots, and nothing else does.
LEMMA RingTypes ==
    /\ Shared \in Rings /\ Shared \notin Slots
    /\ 1 \in Slots
    /\ Slots \subseteq Rings
    /\ \A r \in Rings : r \notin Slots => r = Shared
    /\ \A s \in Slots : s + 1 \in Rings
    /\ k_RING_CAPACITY \in Nat \ {0}
<1>1. k_MAX_THREADS \in Nat \ {0} /\ k_RING_CAPACITY \in Nat \ {0}
    BY LoggerPassAssumption
<1>2. QED BY <1>1 DEF Shared, Rings, Slots

\* The counts of the rings.
LEMMA Counts ==
    ASSUME PassInvariant
    PROVE  /\ waiting \in [Rings -> 0..k_RING_CAPACITY] /\ known \in [Rings -> 0..k_RING_CAPACITY]
           /\ \A r \in Rings : waiting[r] \in Nat /\ known[r] \in Nat /\ known[r] <= waiting[r]
<1>1. waiting \in [Rings -> 0..k_RING_CAPACITY] /\ known \in [Rings -> 0..k_RING_CAPACITY]
    BY DEF PassInvariant, TypeOK
<1>2. \A r \in Rings : known[r] <= waiting[r]
    BY DEF PassInvariant, TypeOK
<1>3. QED BY <1>1, <1>2, RingTypes

LEMMA InitIsRight == Init => PassInvariant
<1> SUFFICES ASSUME Init PROVE PassInvariant
    OBVIOUS
<1>1. /\ place = [s \in Slots |-> "free"] /\ logger_at = "checking" /\ slot = 1 /\ phase = "live"
      /\ waiting = [r \in Rings |-> 0] /\ known = [r \in Rings |-> 0] /\ count = 0
    BY DEF Init
<1>2. 0 \in 0..k_RING_CAPACITY /\ 0 <= 0
    BY RingTypes
<1>3. TypeOK
    <2>1. waiting \in [Rings -> 0..k_RING_CAPACITY] /\ known \in [Rings -> 0..k_RING_CAPACITY]
        BY <1>1, <1>2
    <2>2. \A r \in Rings : known[r] <= waiting[r]
        BY <1>1, <1>2
    <2>3. slot \in Rings /\ count \in 0..k_RING_CAPACITY
        BY <1>1, <1>2, RingTypes
    <2>4. QED BY <2>1, <2>2, <2>3 DEF Init, TypeOK
<1>4. RingsAreEmptied
    BY <1>1, RingTypes DEF RingsAreEmptied
<1>5. SlotIsHeld
    BY <1>1 DEF SlotIsHeld
<1>6. QED BY <1>3, <1>4, <1>5 DEF PassInvariant

-----------------------------------------------------------------------------
(* The threads that log.                                                   *)

LEMMA RegisterKeeps ==
    ASSUME PassInvariant, NEW s \in Slots, Register(s)
    PROVE  PassInvariant'
<1>1. place[s] = "free" /\ place' = [place EXCEPT ![s] = "live"]
    BY DEF Register
<1>2. TypeOK'
    BY <1>1 DEF PassInvariant, TypeOK, Register, logger_vars
<1>3. RingsAreEmptied'
    BY <1>1 DEF PassInvariant, TypeOK, RingsAreEmptied, Register, logger_vars
<1>4. SlotIsHeld'
    <2>1. /\ SlotIsHeld /\ UNCHANGED <<logger_at, slot, phase>>
          /\ place \in [Slots -> {"free", "live", "closed", "freed"}]
        BY DEF PassInvariant, TypeOK, Register, logger_vars
    <2>2. place'[s] = "live" /\ \A q \in Slots : q # s => place'[q] = place[q]
        BY <1>1, <2>1
    <2>3. ~(logger_at = "clearing" /\ slot = s)
        BY <1>1, <2>1 DEF SlotIsHeld
    <2>4. \A q \in Slots : place'[q] = "freed" <=> logger_at = "clearing" /\ slot = q
        BY <2>1, <2>2, <2>3 DEF SlotIsHeld
    <2>5. phase = "closed" /\ logger_at # "clearing" => place'[slot] = "closed"
        BY <1>1, <2>1, <2>2 DEF SlotIsHeld, PassInvariant, RingsAreEmptied
    <2>6. logger_at = "reading phase" /\ slot \in Slots => place'[slot] # "free"
        BY <1>1, <2>1, <2>2 DEF SlotIsHeld
    <2>7. QED BY <2>1, <2>4, <2>5, <2>6 DEF SlotIsHeld
<1>5. QED BY <1>2, <1>3, <1>4 DEF PassInvariant

\* A ring is logged through while its slot is live, so not once its phase has been
\* read as closed.
LEMMA LogKeeps ==
    ASSUME PassInvariant, NEW r \in Rings, Log(r)
    PROVE  PassInvariant'
<1>1. waiting[r] < k_RING_CAPACITY /\ waiting' = [waiting EXCEPT ![r] = @ + 1]
    BY DEF Log
<1>2. r \in Slots => place[r] = "live"
    BY DEF Log
<1>3. TypeOK'
    <2>1. waiting[r] + 1 \in 0..k_RING_CAPACITY /\ waiting[r] <= waiting[r] + 1
        BY <1>1, Counts, RingTypes
    <2>2. waiting' \in [Rings -> 0..k_RING_CAPACITY]
        BY <1>1, <2>1, Counts
    <2>3. \A q \in Rings : known'[q] <= waiting'[q]
        <3>1. \A q \in Rings : waiting'[q] \in {waiting[q], waiting[q] + 1}
            BY <1>1, Counts
        <3>2. \A q \in Rings : known[q] <= waiting[q] /\ known[q] <= waiting[q] + 1
            BY Counts
        <3>3. known' = known
            BY DEF Log
        <3>4. QED BY <3>1, <3>2, <3>3
    <2>4. QED BY <2>2, <2>3 DEF PassInvariant, TypeOK, Log, logger_vars
<1>4. RingsAreEmptied'
    <2>1. phase = "closed" => slot # r
        BY <1>2, RingTypes DEF PassInvariant, RingsAreEmptied, SlotIsHeld
    <2>2. slot \in Rings /\ \A q \in Rings : q # r => waiting'[q] = waiting[q]
        BY <1>1 DEF PassInvariant, TypeOK
    <2>3. QED BY <1>2, <2>1, <2>2, RingTypes
             DEF PassInvariant, TypeOK, RingsAreEmptied, Log, logger_vars
<1>5. SlotIsHeld'
    BY DEF PassInvariant, SlotIsHeld, Log, logger_vars
<1>6. QED BY <1>3, <1>4, <1>5 DEF PassInvariant

LEMMA CloseKeeps ==
    ASSUME PassInvariant, NEW s \in Slots, Close(s)
    PROVE  PassInvariant'
<1>1. place[s] = "live" /\ place' = [place EXCEPT ![s] = "closed"]
    BY DEF Close
<1>2. TypeOK'
    BY <1>1 DEF PassInvariant, TypeOK, Close, logger_vars
<1>3. RingsAreEmptied'
    BY <1>1 DEF PassInvariant, TypeOK, RingsAreEmptied, Close, logger_vars
<1>4. SlotIsHeld'
    <2>1. /\ SlotIsHeld /\ UNCHANGED <<logger_at, slot, phase>>
          /\ place \in [Slots -> {"free", "live", "closed", "freed"}]
        BY DEF PassInvariant, TypeOK, Close, logger_vars
    <2>2. place'[s] = "closed" /\ \A q \in Slots : q # s => place'[q] = place[q]
        BY <1>1, <2>1
    <2>3. ~(logger_at = "clearing" /\ slot = s)
        BY <1>1, <2>1 DEF SlotIsHeld
    <2>4. \A q \in Slots : place'[q] = "freed" <=> logger_at = "clearing" /\ slot = q
        BY <2>1, <2>2, <2>3 DEF SlotIsHeld
    <2>5. phase = "closed" /\ logger_at # "clearing" => place'[slot] = "closed"
        BY <1>1, <2>1, <2>2 DEF SlotIsHeld, PassInvariant, RingsAreEmptied
    <2>6. logger_at = "reading phase" /\ slot \in Slots => place'[slot] # "free"
        BY <1>1, <2>1, <2>2 DEF SlotIsHeld
    <2>7. QED BY <2>1, <2>4, <2>5, <2>6 DEF SlotIsHeld
<1>5. QED BY <1>2, <1>3, <1>4 DEF PassInvariant

LEMMA RequestStopKeeps == PassInvariant /\ RequestStop => PassInvariant'
    BY DEF PassInvariant, TypeOK, RingsAreEmptied, SlotIsHeld, RequestStop, logger_vars

-----------------------------------------------------------------------------
(* The thread that drains.                                                 *)

LEMMA CheckStopKeeps == PassInvariant /\ CheckStop => PassInvariant'
    BY RingTypes DEF PassInvariant, TypeOK, RingsAreEmptied, SlotIsHeld, CheckStop

LEMMA LoadSlotKeeps == PassInvariant /\ LoadSlot => PassInvariant'
    BY RingTypes DEF PassInvariant, TypeOK, RingsAreEmptied, SlotIsHeld, LoadSlot

\* Here a closed ring's records become known, all of them.
LEMMA ReadPhaseKeeps ==
    ASSUME PassInvariant, ReadPhase
    PROVE  PassInvariant'
<1>1. slot \in Rings /\ phase = "live"
    BY DEF PassInvariant, TypeOK, SlotIsHeld, ReadPhase
<1>2. slot \in Slots => place[slot] \in {"live", "closed"}
    BY <1>1 DEF PassInvariant, TypeOK, SlotIsHeld, ReadPhase
<1>3. /\ phase' \in {"live", "closed"}
      /\ (phase' = "closed" => slot \in Slots /\ place[slot] = "closed")
    BY <1>2 DEF ReadPhase
<1>4. known' = [known EXCEPT ![slot] = waiting[slot]] \/ known' = known
    BY DEF ReadPhase
<1>5. known' \in [Rings -> 0..k_RING_CAPACITY] /\ \A r \in Rings : known'[r] <= waiting[r]
    <2>1. \A r \in Rings : waiting[r] \in 0..k_RING_CAPACITY /\ waiting[r] <= waiting[r]
        BY Counts
    <2>2. QED BY <1>4, <2>1 DEF PassInvariant, TypeOK
<1>6. TypeOK'
    <2>1. count' = 0 /\ 0 \in 0..k_RING_CAPACITY
        <3>1. count' = 0
            BY DEF ReadPhase
        <3>2. QED BY <3>1, RingTypes
    <2>2. QED BY <1>3, <1>5, <2>1 DEF PassInvariant, TypeOK, ReadPhase
<1>7. RingsAreEmptied'
    BY <1>1, <1>3 DEF PassInvariant, TypeOK, RingsAreEmptied, ReadPhase
<1>8. SlotIsHeld'
    BY <1>1, <1>3 DEF PassInvariant, SlotIsHeld, ReadPhase
<1>9. QED BY <1>6, <1>7, <1>8 DEF PassInvariant

LEMMA LearnPushesKeeps ==
    ASSUME PassInvariant, NEW r \in Rings, LearnPushes(r)
    PROVE  PassInvariant'
<1>1. waiting[r] \in 0..k_RING_CAPACITY /\ k_RING_CAPACITY \in Nat
    BY RingTypes DEF PassInvariant, TypeOK
<1>2. PICK n \in 1..waiting[r] : known' = [known EXCEPT ![r] = n]
    BY DEF LearnPushes
<1>3. n \in 0..k_RING_CAPACITY /\ n <= waiting[r]
    BY <1>1
<1>4. TypeOK'
    BY <1>2, <1>3 DEF PassInvariant, TypeOK, LearnPushes, logger_vars
\* Of a closed ring nothing is left to learn.
<1>5. RingsAreEmptied'
    <2>1. slot = r /\ known[r] = 0
        BY DEF LearnPushes
    <2>2. phase # "closed"
        BY <1>1, <2>1 DEF PassInvariant, RingsAreEmptied
    <2>3. QED BY <2>2 DEF PassInvariant, RingsAreEmptied, LearnPushes, logger_vars
<1>6. SlotIsHeld'
    BY DEF PassInvariant, SlotIsHeld, LearnPushes, logger_vars
<1>7. QED BY <1>4, <1>5, <1>6 DEF PassInvariant

LEMMA PopRecordKeeps ==
    ASSUME PassInvariant, PopRecord
    PROVE  PassInvariant'
<1>1. /\ slot \in Rings
      /\ known[slot] \in 0..k_RING_CAPACITY /\ waiting[slot] \in 0..k_RING_CAPACITY
      /\ known[slot] <= waiting[slot] /\ known[slot] > 0
      /\ k_RING_CAPACITY \in Nat
    BY RingTypes DEF PassInvariant, TypeOK, PopRecord
<1>2. known' = [known EXCEPT ![slot] = @ - 1] /\ waiting' = [waiting EXCEPT ![slot] = @ - 1]
    BY DEF PopRecord
<1>3. TypeOK'
    <2>1. known[slot] - 1 \in 0..k_RING_CAPACITY /\ waiting[slot] - 1 \in 0..k_RING_CAPACITY
          /\ known[slot] - 1 <= waiting[slot] - 1
        BY <1>1
    <2>2. known' \in [Rings -> 0..k_RING_CAPACITY] /\ waiting' \in [Rings -> 0..k_RING_CAPACITY]
        BY <1>2, <2>1 DEF PassInvariant, TypeOK
    <2>3. \A r \in Rings : known'[r] <= waiting'[r]
        BY <1>1, <1>2, <2>1 DEF PassInvariant, TypeOK
    <2>4. count' \in 0..k_RING_CAPACITY
        <3>1. count \in 0..k_RING_CAPACITY
            BY DEF PassInvariant, TypeOK
        <3>2. count' = IF count < k_RING_CAPACITY THEN count + 1 ELSE count
            BY DEF PopRecord
        <3>3. QED BY <1>1, <3>1, <3>2
    <2>5. QED BY <2>2, <2>3, <2>4 DEF PassInvariant, TypeOK, PopRecord
<1>4. RingsAreEmptied'
    <2>1. \A s \in Slots : place[s] \in {"free", "freed"} => s # slot
        BY <1>1 DEF PassInvariant, RingsAreEmptied
    <2>2. \A s \in Slots : s # slot => waiting'[s] = waiting[s]
        BY <1>2, RingTypes DEF PassInvariant, TypeOK
    <2>3. phase = "closed" => known'[slot] = waiting'[slot]
        BY <1>1, <1>2 DEF PassInvariant, TypeOK, RingsAreEmptied
    <2>4. QED BY <2>1, <2>2, <2>3 DEF PassInvariant, RingsAreEmptied, PopRecord
<1>5. SlotIsHeld'
    BY DEF PassInvariant, SlotIsHeld, PopRecord
<1>6. QED BY <1>3, <1>4, <1>5 DEF PassInvariant

\* A closed ring's pops end when nothing is left in it.
LEMMA PopsEndKeeps ==
    ASSUME PassInvariant, PopsEnd
    PROVE  PassInvariant'
<1>1. TypeOK'
    BY DEF PassInvariant, TypeOK, PopsEnd
<1>2. RingsAreEmptied'
    <2>1. phase = "closed" => known[slot] = 0
        BY DEF PopsEnd, WholePass
    <2>2. QED BY <2>1 DEF PassInvariant, RingsAreEmptied, PopsEnd
<1>3. SlotIsHeld'
    BY DEF PassInvariant, SlotIsHeld, PopsEnd
<1>4. QED BY <1>1, <1>2, <1>3 DEF PassInvariant

LEMMA RingDoneTypes ==
    ASSUME PassInvariant, RingDone
    PROVE  /\ phase' = "live" /\ count' \in 0..k_RING_CAPACITY /\ slot' \in Rings
           /\ logger_at' \in {"loading", "destroyed", "checking", "resting"}
<1>1. slot \in Rings
    BY DEF PassInvariant, TypeOK
<1>2. slot' \in Rings
    BY <1>1, RingTypes DEF RingDone
<1>3. count' = 0
    BY DEF RingDone
<1>4. count' \in 0..k_RING_CAPACITY
    BY <1>3, RingTypes
<1>5. QED BY <1>2, <1>4 DEF RingDone

LEMMA TakeDroppedKeeps ==
    ASSUME PassInvariant, TakeDropped
    PROVE  PassInvariant'
<1>1. CASE phase = "closed"
    BY <1>1 DEF PassInvariant, TypeOK, RingsAreEmptied, SlotIsHeld, TakeDropped
<1>2. CASE phase # "closed"
    <2>1. RingDone /\ UNCHANGED <<place, waiting, known, drainer, behind, stop_requested>>
        BY <1>2 DEF TakeDropped
    <2>2. TypeOK'
        BY <2>1, RingDoneTypes DEF PassInvariant, TypeOK
    <2>3. RingsAreEmptied'
        BY <2>1, RingDoneTypes DEF PassInvariant, RingsAreEmptied
    <2>4. SlotIsHeld'
        BY <2>1, RingDoneTypes DEF PassInvariant, SlotIsHeld, TakeDropped
    <2>5. QED BY <2>2, <2>3, <2>4 DEF PassInvariant
<1>3. QED BY <1>1, <1>2

LEMMA FreeProducerKeeps ==
    ASSUME PassInvariant, FreeProducer
    PROVE  PassInvariant'
<1>1. phase = "closed" /\ slot \in Slots /\ waiting[slot] = 0
    BY DEF PassInvariant, RingsAreEmptied, SlotIsHeld, FreeProducer
<1>2. place' = [place EXCEPT ![slot] = "freed"]
    BY DEF FreeProducer
<1>3. TypeOK'
    BY <1>2 DEF PassInvariant, TypeOK, FreeProducer
<1>4. RingsAreEmptied'
    BY <1>1, <1>2 DEF PassInvariant, TypeOK, RingsAreEmptied, FreeProducer
<1>5. SlotIsHeld'
    BY <1>1, <1>2 DEF PassInvariant, TypeOK, SlotIsHeld, FreeProducer
<1>6. QED BY <1>3, <1>4, <1>5 DEF PassInvariant

LEMMA ClearSlotKeeps ==
    ASSUME PassInvariant, ClearSlot
    PROVE  PassInvariant'
<1>1. phase = "closed" /\ slot \in Slots /\ waiting[slot] = 0
    BY DEF PassInvariant, RingsAreEmptied, SlotIsHeld, ClearSlot
<1>2. place' = [place EXCEPT ![slot] = "free"] /\ RingDone
      /\ UNCHANGED <<waiting, known, drainer, behind, stop_requested>>
    BY DEF ClearSlot
<1>3. TypeOK'
    BY <1>2, RingDoneTypes DEF PassInvariant, TypeOK
<1>4. RingsAreEmptied'
    BY <1>1, <1>2, RingDoneTypes DEF PassInvariant, TypeOK, RingsAreEmptied
<1>5. SlotIsHeld'
    BY <1>1, <1>2, RingDoneTypes DEF PassInvariant, TypeOK, SlotIsHeld, ClearSlot
<1>6. QED BY <1>3, <1>4, <1>5 DEF PassInvariant

LEMMA RestKeeps == PassInvariant /\ Rest => PassInvariant'
    BY DEF PassInvariant, TypeOK, RingsAreEmptied, SlotIsHeld, Rest

LEMMA JoinKeeps ==
    ASSUME PassInvariant, Join
    PROVE  PassInvariant'
<1>1. phase = "live"
    BY DEF PassInvariant, TypeOK, SlotIsHeld, Join
<1>2. known' = waiting /\ waiting' = waiting
    BY DEF Join
<1>3. TypeOK'
    <2>1. known' \in [Rings -> 0..k_RING_CAPACITY] /\ \A r \in Rings : known'[r] <= waiting'[r]
        BY <1>2, Counts
    <2>2. QED BY <1>2, <2>1, RingTypes DEF PassInvariant, TypeOK, Join
<1>4. RingsAreEmptied'
    BY <1>1 DEF PassInvariant, RingsAreEmptied, Join
<1>5. SlotIsHeld'
    BY <1>1 DEF PassInvariant, SlotIsHeld, Join
<1>6. QED BY <1>3, <1>4, <1>5 DEF PassInvariant

-----------------------------------------------------------------------------

LEMMA NextKeeps == PassInvariant /\ [Next]_vars => PassInvariant'
<1> SUFFICES ASSUME PassInvariant, [Next]_vars PROVE PassInvariant'
    OBVIOUS
<1>1. CASE \E s \in Slots : Register(s) \/ Close(s)
    BY <1>1, RegisterKeeps, CloseKeeps
<1>2. CASE \E r \in Rings : Log(r) \/ LearnPushes(r)
    BY <1>2, LogKeeps, LearnPushesKeeps
<1>3. CASE RequestStop
    BY <1>3, RequestStopKeeps
<1>4. CASE LoggerStep
    BY <1>4, CheckStopKeeps, LoadSlotKeeps, ReadPhaseKeeps, PopRecordKeeps, PopsEndKeeps,
       TakeDroppedKeeps, FreeProducerKeeps, ClearSlotKeeps, RestKeeps DEF LoggerStep
<1>5. CASE Join
    BY <1>5, JoinKeeps
<1>6. CASE UNCHANGED vars \/ Terminated
    BY <1>6 DEF PassInvariant, TypeOK, RingsAreEmptied, SlotIsHeld, Terminated, vars, logger_vars
<1>7. QED BY <1>1, <1>2, <1>3, <1>4, <1>5, <1>6 DEF Next

\* A ring is freed empty and its slot given away empty, whatever the other threads
\* do meanwhile, for every number of slots and every capacity.
THEOREM PassesAreRight == Spec => []PassInvariant
<1>1. QED BY InitIsRight, NextKeeps, PTL DEF Spec
=============================================================================
