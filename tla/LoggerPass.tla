----------------------------- MODULE LoggerPass -----------------------------
(***************************************************************************)
(* The passes of the logger thread of core_log.h, among threads that never *)
(* stop: any number of them register, log as fast as they can and          *)
(* unregister, for ever.  A ring is what is in each slot, and how many     *)
(* records wait in it; who logs and what is left out, and so is what is    *)
(* lost, so that nothing here is counted without an end.                   *)
(*                                                                         *)
(* Logger has these passes in detail, and implements them.                 *)
(***************************************************************************)
EXTENDS Naturals

CONSTANTS
    k_MAX_THREADS,      \* number of slots
    k_RING_CAPACITY

ASSUME LoggerPassAssumption == {k_MAX_THREADS, k_RING_CAPACITY} \subseteq Nat \ {0}

VARIABLES
    place,          \* "free", "live", "closed" or "freed": what is in each slot
    waiting,        \* the number of records in each ring
    known,          \* and of those among them that the logger thread knows of
    logger_at,      \* where the thread that drains is
    drainer,        \* which one that is
    slot,           \* the slot being drained; past the last one, the shared ring
    phase,          \* the phase read of it
    count,          \* the records taken from it in this pass
    behind,         \* whether a ring gave a whole pass's worth
    stop_requested

logger_vars == <<logger_at, drainer, slot, phase, count, behind>>
vars == <<place, waiting, known, logger_vars, stop_requested>>

Slots == 1..k_MAX_THREADS
Shared == k_MAX_THREADS + 1
Rings == 1..Shared

Init ==
    /\ place = [s \in Slots |-> "free"]
    /\ waiting = [r \in Rings |-> 0] /\ known = [r \in Rings |-> 0]
    /\ logger_at = "checking" /\ drainer = "logger thread"
    /\ slot = 1 /\ phase = "live" /\ count = 0 /\ behind = FALSE
    /\ stop_requested = FALSE

-----------------------------------------------------------------------------
(* The threads that log.  (An operator named X_Fault is X with a bug, for  *)
(* showing that a property detects it; nothing else uses it.)              *)

\* A registration takes any free slot.
Register(s) ==
    /\ ~stop_requested /\ place[s] = "free"
    /\ place' = [place EXCEPT ![s] = "live"]
    /\ UNCHANGED <<waiting, known, logger_vars, stop_requested>>

\* Through a handle, or through the shared ring.
Log_OneTooMany(r) ==
    /\ ~stop_requested
    /\ r \in Slots => place[r] = "live"
    /\ waiting[r] <= k_RING_CAPACITY
    /\ waiting' = [waiting EXCEPT ![r] = @ + 1]
    /\ UNCHANGED <<place, known, logger_vars, stop_requested>>
Log(r) ==
    /\ ~stop_requested
    /\ r \in Slots => place[r] = "live"
    /\ waiting[r] < k_RING_CAPACITY
    /\ waiting' = [waiting EXCEPT ![r] = @ + 1]
    /\ UNCHANGED <<place, known, logger_vars, stop_requested>>

Close(s) ==
    /\ place[s] = "live"
    /\ place' = [place EXCEPT ![s] = "closed"]
    /\ UNCHANGED <<waiting, known, logger_vars, stop_requested>>

RequestStop ==
    /\ ~stop_requested
    /\ \A s \in Slots : place[s] # "live"
    /\ stop_requested' = TRUE
    /\ UNCHANGED <<place, waiting, known, logger_vars>>

-----------------------------------------------------------------------------
(* The thread that drains.                                                 *)

CheckStop_OnlyIfBehind ==
    /\ logger_at = "checking"
    /\ logger_at' = IF stop_requested /\ behind THEN "exited" ELSE "loading"
    /\ slot' = 1 /\ behind' = FALSE
    /\ UNCHANGED <<place, waiting, known, drainer, phase, count, stop_requested>>
CheckStop ==
    /\ logger_at = "checking"
    /\ logger_at' = IF stop_requested THEN "exited" ELSE "loading"
    /\ slot' = 1 /\ behind' = FALSE
    /\ UNCHANGED <<place, waiting, known, drainer, phase, count, stop_requested>>

LoadSlot_StopsAtFree ==
    /\ logger_at = "loading"
    /\ IF slot \in Slots /\ place[slot] = "free"
       THEN slot' = Shared /\ UNCHANGED logger_at
       ELSE logger_at' = "reading phase" /\ UNCHANGED slot
    /\ UNCHANGED <<place, waiting, known, drainer, phase, count, behind, stop_requested>>
LoadSlot ==
    /\ logger_at = "loading"
    /\ IF slot \in Slots /\ place[slot] = "free"
       THEN slot' = slot + 1 /\ UNCHANGED logger_at
       ELSE logger_at' = "reading phase" /\ UNCHANGED slot
    /\ UNCHANGED <<place, waiting, known, drainer, phase, count, behind, stop_requested>>

ReadPhase ==
    /\ logger_at = "reading phase"
    /\ phase' = IF slot \in Slots THEN place[slot] ELSE "live"
    /\ known' = IF phase' = "closed" THEN [known EXCEPT ![slot] = waiting[slot]] ELSE known
    /\ count' = 0
    /\ logger_at' = "popping"
    /\ UNCHANGED <<place, waiting, drainer, slot, behind, stop_requested>>

WholePass_Never == FALSE
WholePass == phase = "live" /\ count = k_RING_CAPACITY

LearnPushes(r) ==
    /\ logger_at = "popping" /\ slot = r /\ ~WholePass
    /\ known[r] = 0
    /\ \E n \in 1..waiting[r] : known' = [known EXCEPT ![r] = n]
    /\ UNCHANGED <<place, waiting, logger_vars, stop_requested>>

\* (A count past the capacity, of a closed ring, says no more than the capacity.)
PopRecord ==
    /\ logger_at = "popping" /\ ~WholePass
    /\ known[slot] > 0
    /\ known' = [known EXCEPT ![slot] = @ - 1]
    /\ waiting' = [waiting EXCEPT ![slot] = @ - 1]
    /\ count' = IF count < k_RING_CAPACITY THEN count + 1 ELSE count
    /\ UNCHANGED <<place, logger_at, drainer, slot, phase, behind, stop_requested>>

PopsEnd ==
    /\ logger_at = "popping"
    /\ \/ WholePass /\ behind' = TRUE
       \/ ~WholePass /\ known[slot] = 0 /\ UNCHANGED behind
    /\ logger_at' = "taking drops"
    /\ UNCHANGED <<place, waiting, known, drainer, slot, phase, count, stop_requested>>

RingDone ==
    /\ phase' = "live" /\ count' = 0
    /\ slot' = IF slot \in Slots THEN slot + 1 ELSE slot
    /\ logger_at' = IF slot \in Slots THEN "loading"
                    ELSE IF drainer = "destructor" THEN "destroyed"
                    ELSE IF behind THEN "checking" ELSE "resting"

TakeDropped_ReadsPhaseAgain ==
    /\ logger_at = "taking drops"
    /\ IF slot \in Slots /\ place[slot] = "closed"
       THEN logger_at' = "freeing" /\ UNCHANGED <<slot, phase, count>>
       ELSE RingDone
    /\ UNCHANGED <<place, waiting, known, drainer, behind, stop_requested>>
TakeDropped ==
    /\ logger_at = "taking drops"
    /\ IF phase = "closed"
       THEN logger_at' = "freeing" /\ UNCHANGED <<slot, phase, count>>
       ELSE RingDone
    /\ UNCHANGED <<place, waiting, known, drainer, behind, stop_requested>>

FreeProducer ==
    /\ logger_at = "freeing"
    /\ place' = [place EXCEPT ![slot] = "freed"]
    /\ logger_at' = "clearing"
    /\ UNCHANGED <<waiting, known, drainer, slot, phase, count, behind, stop_requested>>

ClearSlot ==
    /\ logger_at = "clearing"
    /\ place' = [place EXCEPT ![slot] = "free"]
    /\ RingDone
    /\ UNCHANGED <<waiting, known, drainer, behind, stop_requested>>

Rest ==
    /\ logger_at = "resting"
    /\ logger_at' = "checking"
    /\ UNCHANGED <<place, waiting, known, drainer, slot, phase, count, behind, stop_requested>>

LoggerStep ==
    \/ CheckStop \/ LoadSlot \/ ReadPhase \/ PopRecord \/ PopsEnd \/ TakeDropped
    \/ FreeProducer \/ ClearSlot \/ Rest

Join ==
    /\ logger_at = "exited"
    /\ drainer' = "destructor"
    /\ logger_at' = "loading" /\ slot' = 1 /\ behind' = FALSE
    /\ known' = waiting
    /\ UNCHANGED <<place, waiting, phase, count, stop_requested>>

Terminated == logger_at = "destroyed" /\ UNCHANGED vars

-----------------------------------------------------------------------------
Next ==
    \/ \E s \in Slots : Register(s) \/ Close(s)
    \/ \E r \in Rings : Log(r) \/ LearnPushes(r)
    \/ RequestStop \/ LoggerStep \/ Join \/ Terminated

Spec == Init /\ [][Next]_vars

\* Only the threads that drain are sure to run on, and a store to a ring is seen in
\* a finite time by a thread that keeps looking.
FairSpec ==
    /\ Spec
    /\ WF_vars(LoggerStep) /\ WF_vars(Join)
    /\ \A r \in Rings : SF_vars(LearnPushes(r))

-----------------------------------------------------------------------------
(* Properties.                                                             *)

\* Every variable has its type, and what is known of a ring is in it.
TypeOK ==
    /\ place \in [Slots -> {"free", "live", "closed", "freed"}]
    /\ waiting \in [Rings -> 0..k_RING_CAPACITY] /\ known \in [Rings -> 0..k_RING_CAPACITY]
    /\ \A r \in Rings : known[r] <= waiting[r]
    /\ logger_at \in {"checking", "loading", "reading phase", "popping", "taking drops",
                      "freeing", "clearing", "resting", "exited", "destroyed"}
    /\ drainer \in {"logger thread", "destructor"}
    /\ slot \in Rings /\ phase \in {"live", "closed"}
    /\ count \in 0..k_RING_CAPACITY
    /\ behind \in BOOLEAN /\ stop_requested \in BOOLEAN

\* A ring is empty when it is freed, and so the next thread's in its slot begins
\* empty, however fast rings are filled until they are closed (:82-87, :622-624):
\* a phase that was read as closed tells of every record there will ever be.
RingsAreEmptied ==
    /\ \A s \in Slots : place[s] \in {"free", "freed"} => waiting[s] = 0
    /\ phase = "closed" => slot \in Slots /\ known[slot] = waiting[slot]
    /\ phase = "closed" /\ logger_at # "popping" => waiting[slot] = 0

\* Only the slot being cleared holds a freed ring, and one that is being drained is
\* not taken from under the thread that drains it (:605-618).
SlotIsHeld ==
    /\ phase = "closed" => logger_at \in {"popping", "taking drops", "freeing", "clearing"}
    /\ logger_at \in {"freeing", "clearing"} => phase = "closed"
    /\ \A s \in Slots : place[s] = "freed" <=> logger_at = "clearing" /\ slot = s
    /\ phase = "closed" /\ logger_at # "clearing" => place[slot] = "closed"
    /\ logger_at = "reading phase" /\ slot \in Slots => place[slot] # "free"

PassInvariant == TypeOK /\ RingsAreEmptied /\ SlotIsHeld

\* What waits in a ring is written though other threads never stop logging: no
\* thread's flood, in a lower slot or in the shared ring, keeps another's records
\* back, nor does a pass over it go on for ever (:624-630).
FloodStarvesNobody == \A r \in Rings : waiting[r] > 0 ~> (slot = r /\ count > 0)

\* A closed ring is freed and its slot cleared, though the others are in use, and
\* are taken again, for ever (:82-87).
ClosedIsCleared == \A s \in Slots : place[s] = "closed" ~> place[s] = "free"

\* The destructor returns, with everything written and every slot free.
DestroyedAtLast ==
    stop_requested ~> /\ logger_at = "destroyed"
                      /\ \A s \in Slots : place[s] = "free"
                      /\ \A r \in Rings : waiting[r] = 0
=============================================================================
