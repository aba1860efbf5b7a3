------------------------------- MODULE Logger -------------------------------
(***************************************************************************)
(* The Logger of core_log.h: threads that register, log through a ring of  *)
(* their own and unregister, threads that cannot register and share one    *)
(* ring behind a mutex, the logger thread that pops every ring and frees   *)
(* the closed ones, and the destructor.                                    *)
(*                                                                         *)
(* Each ring is what SpscFifo promises: a push or a pop takes effect at    *)
(* once, and each end may lag behind the other.  The other shared          *)
(* variables (slots, phases, drop counts) are read and written one at a    *)
(* time; a relaxed or acquire load of one of them that returned an older   *)
(* value would be the same load made earlier.  A closed phase, read with   *)
(* acquire, tells the logger thread of every push before the close.        *)
(*                                                                         *)
(* A record is its number in its ring; what it says, its time stamp, and   *)
(* the batch the lines are gathered in are left out.                       *)
(***************************************************************************)
EXTENDS Integers, Sequences, FiniteSets

CONSTANTS
    Threads,            \* threads that register
    ForeignThreads,     \* threads that log through the shared ring
    k_MAX_THREADS,      \* number of slots
    k_RING_CAPACITY,
    Null,               \* the null pointer, and the holder of a free mutex
    MaxRegistrations,   \* bound: registrations tried by one thread
    MaxRecords,         \* bound: records logged through one registered thread's ring
    MaxSharedRecords    \* bound: records logged through the shared one

ASSUME LoggerAssumption ==
    /\ {k_MAX_THREADS, k_RING_CAPACITY, MaxRegistrations, MaxRecords,
        MaxSharedRecords} \subseteq Nat
    /\ k_MAX_THREADS > 0 /\ k_RING_CAPACITY > 0
    /\ Threads \intersect ForeignThreads = {} /\ "shared" \notin Threads

VARIABLES
    d_slots,        \* the producer in each slot, or Null
    d_shared_lock,  \* the foreign thread holding the mutex, or Null
    heap,           \* the producers made and not freed
    d_phase,        \* of each producer
    d_dropped,      \* of each producer
    d_reported,     \* of each producer
    d_ring,         \* of each producer, as SpscFifo has it
    thread_at,      \* where each logging thread is
    registrations,  \* number of times each thread has tried to register
    \* Locals are reset when they go out of scope.
    scanned,        \* the slot a registering thread tries next
    count_read,     \* d_dropped as a thread that adds one to it has loaded it
    full_seen,      \* history: registering threads in whose scan all slots were
                    \* taken at one moment
    logger_at,      \* where the thread that drains is
    drainer,        \* which one that is: the logger thread, then the destructor's
    stop_requested,
    slot,           \* the slot being drained
    producer,       \* the producer being drained
    phase,          \* its phase, as read before popping
    count,          \* the records taken from it in this pass
    behind,         \* whether a ring gave a whole pass's worth
    logged,         \* history: the records logged through each ring
    written,        \* history: the records each thread has in the log, in order
    lost            \* history: the records of each ring reported lost

thread_vars == <<thread_at, registrations, scanned, count_read, full_seen, logged>>
logger_vars == <<logger_at, drainer, slot, producer, phase, count, behind, written, lost>>
vars == <<d_slots, d_shared_lock, heap, d_phase, d_dropped, d_reported, d_ring,
          thread_vars, logger_vars, stop_requested>>

-----------------------------------------------------------------------------
(* Producers, and what they hold.                                          *)

Slots == 1..k_MAX_THREADS
Loggers == Threads \union ForeignThreads

\* The producer of a thread's n-th registration, and the shared one.
Shared == <<"shared", 1>>
Producers == (Threads \X (1..MaxRegistrations)) \union {Shared}

\* A pointer to a producer is not null, and a thread that holds the mutex is not
\* its absence.
ASSUME NullAssumption == Null \notin Producers \union ForeignThreads

\* The producer that a thread logs through.
producer_of(t) ==
    IF t \in ForeignThreads THEN Shared ELSE <<t, registrations[t]>>

\* The records that are logged through a ring.
Records(p) == 1..(IF p = Shared THEN MaxSharedRecords ELSE MaxRecords)

EmptyRing == [queue |-> <<>>, known |-> 0, unseen |-> 0, offered |-> <<>>,
              push_answer |-> FALSE, pop_answer |-> <<>>]

AllTaken(slots) == \A s \in Slots : slots[s] # Null

Init ==
    /\ d_slots = [s \in Slots |-> Null]
    /\ d_shared_lock = Null
    /\ heap = {Shared}
    /\ d_phase = [p \in Producers |-> "live"]
    /\ d_dropped = [p \in Producers |-> 0]
    /\ d_reported = [p \in Producers |-> 0]
    /\ d_ring = [p \in Producers |-> EmptyRing]
    /\ thread_at = [t \in Loggers |-> "outside"]
    /\ registrations = [t \in Threads |-> 0]
    /\ scanned = [t \in Threads |-> 1]
    /\ count_read = [t \in Loggers |-> 0]
    /\ full_seen = {}
    /\ logger_at = "checking" /\ drainer = "logger thread"
    /\ stop_requested = FALSE
    /\ slot = 1 /\ producer = Null /\ phase = "live" /\ count = 0 /\ behind = FALSE
    /\ logged = [p \in Producers |-> 0]
    /\ written = [t \in Threads \union {"shared"} |-> <<>>]
    /\ lost = [p \in Producers |-> 0]

-----------------------------------------------------------------------------
(* The rings, in the words of SpscFifo.                                    *)
(*                                                                         *)
(* (An operator named X_Fault is X with a bug, for showing that a property *)
(* detects it; nothing else uses it.)                                      *)

Offered(ring, record) == [ring EXCEPT !.offered = <<record>>]

\* The producer's copy of the tail says how many pops it has seen; refreshed, it
\* may say any number up to all of them.
RoomFor_OneTooMany(ring) == Len(ring.queue) + ring.unseen <= k_RING_CAPACITY
RoomFor(ring) == Len(ring.queue) + ring.unseen < k_RING_CAPACITY

Accepted(ring) ==
    [ring EXCEPT !.queue = @ \o ring.offered, !.offered = <<>>, !.push_answer = TRUE]

Refused(ring, unseen) ==
    [ring EXCEPT !.offered = <<>>, !.unseen = unseen, !.push_answer = FALSE]

Popped_NotHandedBack(ring) ==
    [ring EXCEPT !.pop_answer = <<Head(ring.queue)>>]
Popped(ring) ==
    [ring EXCEPT !.queue = Tail(@), !.known = @ - 1, !.unseen = @ + 1,
                 !.pop_answer = <<Head(ring.queue)>>]

\* Everything pushed so far is known to the thread that pops.
Synchronized(ring) == [ring EXCEPT !.known = Len(ring.queue)]

-----------------------------------------------------------------------------
(* Registration.                                                           *)

\* The producer is made, and its slots are tried one after the other.
RegisterBegin(t) ==
    /\ thread_at[t] = "outside" /\ ~stop_requested
    /\ registrations[t] < MaxRegistrations
    /\ registrations' = [registrations EXCEPT ![t] = @ + 1]
    /\ heap' = heap \union {<<t, registrations'[t]>>}
    /\ thread_at' = [thread_at EXCEPT ![t] = "scanning"]
    /\ full_seen' = IF AllTaken(d_slots) THEN full_seen \union {t} ELSE full_seen \ {t}
    /\ UNCHANGED <<d_slots, d_shared_lock, d_phase, d_dropped, d_reported, d_ring,
                   scanned, count_read, logged, logger_vars, stop_requested>>

\* One compare-exchange, of null for the new producer.
TrySlot_Overwrites(t) ==
    /\ thread_at[t] = "scanning" /\ scanned[t] \in Slots
    /\ IF d_slots[scanned[t]] = Null \/ scanned[t] = k_MAX_THREADS
       THEN /\ d_slots' = [d_slots EXCEPT ![scanned[t]] = producer_of(t)]
            /\ thread_at' = [thread_at EXCEPT ![t] = "inside"]
            /\ scanned' = [scanned EXCEPT ![t] = 1]
       ELSE /\ scanned' = [scanned EXCEPT ![t] = @ + 1]
            /\ UNCHANGED <<d_slots, thread_at>>
    /\ UNCHANGED <<d_shared_lock, heap, d_phase, d_dropped, d_reported, d_ring,
                   registrations, count_read, full_seen, logged, logger_vars, stop_requested>>
TrySlot(t) ==
    /\ thread_at[t] = "scanning" /\ scanned[t] \in Slots
    /\ IF d_slots[scanned[t]] = Null
       THEN /\ d_slots' = [d_slots EXCEPT ![scanned[t]] = producer_of(t)]
            /\ thread_at' = [thread_at EXCEPT ![t] = "inside"]
            /\ full_seen' = (IF AllTaken(d_slots')
                             THEN {u \in Threads : thread_at[u] = "scanning"}
                             ELSE full_seen) \ {t}
            /\ scanned' = [scanned EXCEPT ![t] = 1]
       ELSE /\ scanned' = [scanned EXCEPT ![t] = @ + 1]
            /\ UNCHANGED <<d_slots, thread_at, full_seen>>
    /\ UNCHANGED <<d_shared_lock, heap, d_phase, d_dropped, d_reported, d_ring,
                   registrations, count_read, logged, logger_vars, stop_requested>>

\* No slot was free: the producer just made is freed and an error returned.
RegisterFails(t) ==
    /\ thread_at[t] = "scanning" /\ scanned[t] \notin Slots
    /\ heap' = heap \ {producer_of(t)}
    /\ thread_at' = [thread_at EXCEPT ![t] = "refused"]
    /\ UNCHANGED <<d_slots, d_shared_lock, d_phase, d_dropped, d_reported, d_ring,
                   registrations, scanned, count_read, full_seen, logged, logger_vars,
                   stop_requested>>

\* The caller of a failed registration goes on without a handle.
RefusalReturns(t) ==
    /\ thread_at[t] = "refused"
    /\ thread_at' = [thread_at EXCEPT ![t] = "outside"]
    /\ scanned' = [scanned EXCEPT ![t] = 1]
    /\ full_seen' = full_seen \ {t}
    /\ UNCHANGED <<d_slots, d_shared_lock, heap, d_phase, d_dropped, d_reported, d_ring,
                   registrations, count_read, logged, logger_vars, stop_requested>>

\* ~Handle: the last thing a thread does with its producer.
Close(t) ==
    /\ t \in Threads /\ thread_at[t] = "inside"
    /\ d_phase' = [d_phase EXCEPT ![producer_of(t)] = "closed"]
    /\ thread_at' = [thread_at EXCEPT ![t] = "outside"]
    /\ UNCHANGED <<d_slots, d_shared_lock, heap, d_dropped, d_reported, d_ring,
                   registrations, scanned, count_read, full_seen, logged, logger_vars,
                   stop_requested>>

-----------------------------------------------------------------------------
(* Logging.                                                                *)

\* A push begins, of the next record of the ring.
Offer(t) ==
    LET p == producer_of(t) IN
    /\ logged[p] + 1 \in Records(p)
    /\ logged' = [logged EXCEPT ![p] = @ + 1]
    /\ d_ring' = [d_ring EXCEPT ![p] = Offered(@, logged'[p])]
    /\ thread_at' = [thread_at EXCEPT ![t] = "pushing"]

\* log_error or log_message of a handle.
Log(t) ==
    /\ t \in Threads /\ thread_at[t] = "inside"
    /\ Offer(t)
    /\ UNCHANGED <<d_slots, d_shared_lock, heap, d_phase, d_dropped, d_reported,
                   registrations, scanned, count_read, full_seen, logger_vars,
                   stop_requested>>

\* log_error_locked or log_message_locked, once the mutex is taken.
LogLocked_NoLock(t) ==
    /\ t \in ForeignThreads /\ thread_at[t] = "outside" /\ ~stop_requested
    /\ Offer(t)
    /\ UNCHANGED <<d_slots, d_shared_lock, heap, d_phase, d_dropped, d_reported,
                   registrations, scanned, count_read, full_seen, logger_vars,
                   stop_requested>>
LogLocked(t) ==
    /\ t \in ForeignThreads /\ thread_at[t] = "outside" /\ ~stop_requested
    /\ d_shared_lock = Null
    /\ d_shared_lock' = t
    /\ Offer(t)
    /\ UNCHANGED <<d_slots, heap, d_phase, d_dropped, d_reported, registrations, scanned,
                   count_read, full_seen, logger_vars, stop_requested>>

\* The call returns; a foreign thread's gives the mutex back.
LogReturns(t) ==
    /\ thread_at' = [thread_at EXCEPT ![t] = IF t \in Threads THEN "inside" ELSE "outside"]
    /\ d_shared_lock' = IF t \in Threads THEN d_shared_lock ELSE Null

\* The ring's producer side learns of pops it had not seen.
LearnPops(t) ==
    LET p == producer_of(t) IN
    /\ thread_at[t] = "pushing" /\ ~RoomFor(d_ring[p])
    /\ \E unseen \in 0..(d_ring[p].unseen - 1) :
          d_ring' = [d_ring EXCEPT ![p].unseen = unseen]
    /\ UNCHANGED <<d_slots, d_shared_lock, heap, d_phase, d_dropped, d_reported,
                   thread_vars, logger_vars, stop_requested>>

PushAccepted(t) ==
    LET p == producer_of(t) IN
    /\ thread_at[t] = "pushing" /\ RoomFor(d_ring[p])
    /\ d_ring' = [d_ring EXCEPT ![p] = Accepted(@)]
    /\ LogReturns(t)
    /\ UNCHANGED <<d_slots, heap, d_phase, d_dropped, d_reported, registrations, scanned,
                   count_read, full_seen, logged, logger_vars, stop_requested>>

PushRefused_TriesAgain(t) ==
    /\ thread_at[t] = "pushing" /\ ~RoomFor(d_ring[producer_of(t)])
    /\ UNCHANGED vars
PushRefused(t) ==
    LET p == producer_of(t) IN
    /\ thread_at[t] = "pushing" /\ ~RoomFor(d_ring[p])
    /\ d_ring' = [d_ring EXCEPT ![p] = Refused(@, d_ring[p].unseen)]
    /\ thread_at' = [thread_at EXCEPT ![t] = "dropping"]
    /\ UNCHANGED <<d_slots, d_shared_lock, heap, d_phase, d_dropped, d_reported,
                   registrations, scanned, count_read, full_seen, logged, logger_vars,
                   stop_requested>>

\* The drop is counted with a load and a store, not with a fetch_add.
LoadDropped(t) ==
    /\ thread_at[t] = "dropping"
    /\ count_read' = [count_read EXCEPT ![t] = d_dropped[producer_of(t)]]
    /\ thread_at' = [thread_at EXCEPT ![t] = "counting"]
    /\ UNCHANGED <<d_slots, d_shared_lock, heap, d_phase, d_dropped, d_reported, d_ring,
                   registrations, scanned, full_seen, logged, logger_vars, stop_requested>>

StoreDropped(t) ==
    /\ thread_at[t] = "counting"
    /\ d_dropped' = [d_dropped EXCEPT ![producer_of(t)] = count_read[t] + 1]
    /\ count_read' = [count_read EXCEPT ![t] = 0]
    /\ LogReturns(t)
    /\ UNCHANGED <<d_slots, heap, d_phase, d_reported, d_ring, registrations, scanned,
                   full_seen, logged, logger_vars, stop_requested>>

ThreadStep(t) ==
    \/ t \in Threads /\ (TrySlot(t) \/ RegisterFails(t) \/ RefusalReturns(t))
    \/ LearnPops(t) \/ PushAccepted(t) \/ PushRefused(t) \/ LoadDropped(t) \/ StoreDropped(t)

-----------------------------------------------------------------------------
(* The thread that drains.                                                 *)

DrainUnchanged == UNCHANGED <<d_shared_lock, thread_vars, stop_requested, drainer>>

\* The head of consume: stop, or begin a pass.
CheckStop ==
    /\ logger_at = "checking"
    /\ logger_at' = IF stop_requested THEN "exited" ELSE "loading"
    /\ slot' = 1 /\ behind' = FALSE
    /\ UNCHANGED <<d_slots, heap, d_phase, d_dropped, d_reported, d_ring, producer, phase,
                   count, written, lost>>
    /\ DrainUnchanged

\* Load a slot; past the last one comes the shared ring.
LoadSlot_StopsAtFree ==
    /\ logger_at = "loading"
    /\ IF slot \in Slots /\ d_slots[slot] = Null
       THEN slot' = k_MAX_THREADS + 1 /\ UNCHANGED <<producer, logger_at>>
       ELSE /\ producer' = IF slot \in Slots THEN d_slots[slot] ELSE Shared
            /\ logger_at' = "reading phase"
            /\ UNCHANGED slot
    /\ UNCHANGED <<d_slots, heap, d_phase, d_dropped, d_reported, d_ring, phase, count,
                   behind, written, lost>>
    /\ DrainUnchanged
LoadSlot ==
    /\ logger_at = "loading"
    /\ IF slot \in Slots /\ d_slots[slot] = Null
       THEN slot' = slot + 1 /\ UNCHANGED <<producer, logger_at>>
       ELSE /\ producer' = IF slot \in Slots THEN d_slots[slot] ELSE Shared
            /\ logger_at' = "reading phase"
            /\ UNCHANGED slot
    /\ UNCHANGED <<d_slots, heap, d_phase, d_dropped, d_reported, d_ring, phase, count,
                   behind, written, lost>>
    /\ DrainUnchanged

ReadPhase ==
    /\ logger_at = "reading phase"
    /\ phase' = d_phase[producer]
    /\ d_ring' = IF phase' = "closed"
                 THEN [d_ring EXCEPT ![producer] = Synchronized(@)] ELSE d_ring
    /\ count' = 0
    /\ logger_at' = "popping"
    /\ UNCHANGED <<d_slots, heap, d_phase, d_dropped, d_reported, slot, producer, behind,
                   written, lost>>
    /\ DrainUnchanged

\* A closed ring is popped until it is empty, a live one at most a ring's worth.
WholePass == phase = "live" /\ count = k_RING_CAPACITY

\* The ring's consumer side learns of pushes it had not seen.
LearnPushes ==
    /\ logger_at = "popping" /\ ~WholePass
    /\ d_ring[producer].known = 0
    /\ \E known \in 1..Len(d_ring[producer].queue) :
          d_ring' = [d_ring EXCEPT ![producer].known = known]
    /\ UNCHANGED <<d_slots, heap, d_phase, d_dropped, d_reported, logger_at, slot, producer,
                   phase, count, behind, written, lost>>
    /\ DrainUnchanged

\* A record leaves its ring for the log.
PopRecord ==
    /\ logger_at = "popping" /\ ~WholePass
    /\ d_ring[producer].known > 0
    /\ d_ring' = [d_ring EXCEPT ![producer] = Popped(@)]
    /\ written' = [written EXCEPT ![producer[1]] =
                       Append(@, <<producer[2], Head(d_ring[producer].queue)>>)]
    /\ count' = count + 1
    /\ UNCHANGED <<d_slots, heap, d_phase, d_dropped, d_reported, logger_at, slot, producer,
                   phase, behind, lost>>
    /\ DrainUnchanged

\* The loop ends: the ring gave nothing, or a whole pass's worth.
PopsEnd ==
    /\ logger_at = "popping"
    /\ \/ /\ WholePass
          /\ behind' = TRUE
          /\ UNCHANGED d_ring
       \/ /\ ~WholePass /\ d_ring[producer].known = 0
          /\ d_ring' = [d_ring EXCEPT ![producer].pop_answer = <<>>]
          /\ UNCHANGED behind
    /\ logger_at' = "taking drops"
    /\ UNCHANGED <<d_slots, heap, d_phase, d_dropped, d_reported, slot, producer, phase,
                   count, written, lost>>
    /\ DrainUnchanged

\* After a ring comes the next slot; after the shared ring the pass ends, the
\* batch is written and, unless a ring gave a whole pass's worth, the logger
\* thread rests.
RingDone ==
    /\ producer' = Null /\ phase' = "live" /\ count' = 0
    /\ slot' = IF slot \in Slots THEN slot + 1 ELSE slot
    /\ logger_at' = IF slot \in Slots THEN "loading"
                    ELSE IF drainer = "destructor" THEN "destroyed"
                    ELSE IF behind THEN "checking" ELSE "resting"

\* take_dropped, and the line that says how many records were lost.
TakeDropped_ReportsAgain ==
    /\ logger_at = "taking drops"
    /\ lost' = [lost EXCEPT ![producer] = @ + d_dropped[producer] - d_reported[producer]]
    /\ IF phase = "closed"
       THEN logger_at' = "freeing" /\ UNCHANGED <<slot, producer, phase, count>>
       ELSE RingDone
    /\ UNCHANGED <<d_slots, heap, d_phase, d_dropped, d_reported, d_ring, behind, written>>
    /\ DrainUnchanged
TakeDropped_ReadsPhaseAgain ==
    /\ logger_at = "taking drops"
    /\ d_reported' = [d_reported EXCEPT ![producer] = d_dropped[producer]]
    /\ lost' = [lost EXCEPT ![producer] = @ + d_dropped[producer] - d_reported[producer]]
    /\ IF d_phase[producer] = "closed"
       THEN logger_at' = "freeing" /\ UNCHANGED <<slot, producer, phase, count>>
       ELSE RingDone
    /\ UNCHANGED <<d_slots, heap, d_phase, d_dropped, d_ring, behind, written>>
    /\ DrainUnchanged
TakeDropped_FreesIdle ==
    /\ logger_at = "taking drops"
    /\ d_reported' = [d_reported EXCEPT ![producer] = d_dropped[producer]]
    /\ lost' = [lost EXCEPT ![producer] = @ + d_dropped[producer] - d_reported[producer]]
    /\ IF phase = "closed" \/ (count = 0 /\ producer # Shared)
       THEN logger_at' = "freeing" /\ UNCHANGED <<slot, producer, phase, count>>
       ELSE RingDone
    /\ UNCHANGED <<d_slots, heap, d_phase, d_dropped, d_ring, behind, written>>
    /\ DrainUnchanged
TakeDropped ==
    /\ logger_at = "taking drops"
    /\ d_reported' = [d_reported EXCEPT ![producer] = d_dropped[producer]]
    /\ lost' = [lost EXCEPT ![producer] = @ + d_dropped[producer] - d_reported[producer]]
    /\ IF phase = "closed"
       THEN logger_at' = "freeing" /\ UNCHANGED <<slot, producer, phase, count>>
       ELSE RingDone
    /\ UNCHANGED <<d_slots, heap, d_phase, d_dropped, d_ring, behind, written>>
    /\ DrainUnchanged

FreeProducer ==
    /\ logger_at = "freeing"
    /\ heap' = heap \ {producer}
    /\ logger_at' = "clearing"
    /\ UNCHANGED <<d_slots, d_phase, d_dropped, d_reported, d_ring, slot, producer, phase,
                   count, behind, written, lost>>
    /\ DrainUnchanged

ClearSlot ==
    /\ logger_at = "clearing"
    /\ d_slots' = [d_slots EXCEPT ![slot] = Null]
    /\ RingDone
    /\ UNCHANGED <<heap, d_phase, d_dropped, d_reported, d_ring, behind, written, lost>>
    /\ DrainUnchanged

Rest ==
    /\ logger_at = "resting"
    /\ logger_at' = "checking"
    /\ UNCHANGED <<d_slots, heap, d_phase, d_dropped, d_reported, d_ring, slot, producer,
                   phase, count, behind, written, lost>>
    /\ DrainUnchanged

LoggerStep ==
    \/ CheckStop \/ LoadSlot \/ ReadPhase \/ PopRecord \/ PopsEnd \/ TakeDropped
    \/ FreeProducer \/ ClearSlot \/ Rest

-----------------------------------------------------------------------------
(* The destructor, called once every handle is gone and every foreign      *)
(* thread has stopped.                                                     *)

RequestStop ==
    /\ ~stop_requested
    /\ \A t \in Loggers : thread_at[t] = "outside"
    /\ stop_requested' = TRUE
    /\ UNCHANGED <<d_slots, d_shared_lock, heap, d_phase, d_dropped, d_reported, d_ring,
                   thread_vars, logger_vars>>

\* Once the logger thread has been joined, its caller drains in its place.
Join_NoDrain ==
    /\ logger_at = "exited"
    /\ drainer' = "destructor"
    /\ logger_at' = "destroyed"
    /\ UNCHANGED <<d_slots, d_shared_lock, heap, d_phase, d_dropped, d_reported, d_ring,
                   thread_vars, slot, producer, phase, count, behind, written, lost,
                   stop_requested>>
Join ==
    /\ logger_at = "exited"
    /\ drainer' = "destructor"
    /\ logger_at' = "loading" /\ slot' = 1 /\ behind' = FALSE
    /\ d_ring' = [p \in Producers |-> Synchronized(d_ring[p])]
    /\ UNCHANGED <<d_slots, d_shared_lock, heap, d_phase, d_dropped, d_reported, thread_vars,
                   producer, phase, count, written, lost, stop_requested>>

\* The logger is gone.
Terminated == logger_at = "destroyed" /\ UNCHANGED vars

-----------------------------------------------------------------------------
Next ==
    \/ \E t \in Threads : RegisterBegin(t) \/ Close(t) \/ Log(t)
    \/ \E t \in ForeignThreads : LogLocked(t)
    \/ \E t \in Loggers : ThreadStep(t)
    \/ LoggerStep \/ LearnPushes
    \/ RequestStop \/ Join \/ Terminated

Spec == Init /\ [][Next]_vars

-----------------------------------------------------------------------------
(* Safety.                                                                 *)

TypeOK ==
    /\ d_slots \in [Slots -> Producers \union {Null}]
    /\ d_shared_lock \in ForeignThreads \union {Null}
    /\ heap \subseteq Producers
    /\ d_phase \in [Producers -> {"live", "closed"}]
    /\ \A p \in Producers :
          /\ {d_dropped[p], d_reported[p], logged[p], lost[p]} \subseteq Records(p) \union {0}
          /\ d_ring[p].queue \in Seq(Records(p))
          /\ d_ring[p].known \in 0..Len(d_ring[p].queue)
          /\ d_ring[p].unseen \in 0..(k_RING_CAPACITY - Len(d_ring[p].queue))
    /\ thread_at \in [Loggers -> {"outside", "scanning", "refused", "inside", "pushing",
                                  "dropping", "counting"}]
    /\ registrations \in [Threads -> 0..MaxRegistrations]
    /\ scanned \in [Threads -> 1..(k_MAX_THREADS + 1)]
    /\ \A t \in Loggers : count_read[t] \in Records(producer_of(t)) \union {0}
    /\ full_seen \subseteq Threads
    /\ logger_at \in {"checking", "loading", "reading phase", "popping", "taking drops",
                      "freeing", "clearing", "resting", "exited", "destroyed"}
    /\ drainer \in {"logger thread", "destructor"}
    /\ slot \in 1..(k_MAX_THREADS + 1)
    /\ producer \in Producers \union {Null}

\* The records of a ring that are in the log.
WrittenOf(p) == Cardinality({i \in DOMAIN written[p[1]] : written[p[1]][i][1] = p[2]})

\* The threads with a record of the ring in hand, neither pushed nor counted yet.
Handing(p) ==
    {t \in Loggers : producer_of(t) = p /\ thread_at[t] \in {"pushing", "dropping", "counting"}}

\* Every record logged is written, in its ring, in hand or counted as dropped,
\* and the losses reported are drops that happened, each reported once: a full
\* ring costs records, never the knowledge of how many (:27-34).  The shared
\* ring's counts are added to with a load and a store, by many threads.
EveryRecordIsAccounted ==
    \A p \in Producers :
        /\ logged[p] = WrittenOf(p) + Len(d_ring[p].queue) + Cardinality(Handing(p))
                       + d_dropped[p]
        /\ lost[p] <= d_dropped[p]

\* What a thread logged just before it finished is written, and its drops are
\* reported, before its producer is freed (:82-87): the phase is read before the
\* pops, so a record pushed just before the close is not freed unread.
FreedIsWritten ==
    \A p \in Producers :
        d_phase[p] = "closed" /\ p \notin heap => logged[p] = WrittenOf(p) + lost[p]

\* The records logged through one handle come out in the order they were logged
\* (:40), the dropped ones left out.
HandleOrder ==
    \A t \in DOMAIN written : \A i, j \in DOMAIN written[t] :
        i < j /\ written[t][i][1] = written[t][j][1]
            => written[t][i][2] < written[t][j][2]

\* The logger thread frees a producer that its thread may have just used: neither
\* touches it afterwards, nor does a slot lead to it for anyone else (:66-87).
NoUseAfterFree ==
    /\ \A t \in Threads :
          thread_at[t] \notin {"outside", "refused"} => producer_of(t) \in heap
    /\ logger_at \in {"reading phase", "popping", "taking drops", "freeing"}
          => producer \in heap
    /\ \A s \in Slots :
          d_slots[s] # Null =>
              d_slots[s] \in heap \/ (logger_at = "clearing" /\ slot = s)

\* A thread that holds a handle is in exactly one slot, so that its ring is
\* drained, and until its producer is freed it stays in it; no registration took
\* another's slot (:77-80).
RegisteredIsInOneSlot ==
    \A t \in Threads : \A n \in 1..registrations[t] :
        LET p == <<t, n>>
            here == {s \in Slots : d_slots[s] = p}
        IN  /\ Cardinality(here) <= 1
            /\ p \in heap /\ ~(p = producer_of(t) /\ thread_at[t] = "scanning")
                  => Cardinality(here) = 1

\* Once the destructor returns nothing is left behind: every record has been
\* written or reported lost, every slot is free (the destructor's assertion) and
\* every thread's producer has been freed.
DestroyedLeavesNothing ==
    logger_at = "destroyed" =>
        /\ \A s \in Slots : d_slots[s] = Null
        /\ heap = {Shared}
        /\ \A p \in Producers : logged[p] = WrittenOf(p) + lost[p]

\* Two claims of the documentation that the code does not keep.

\* Registration fails when k_MAX_THREADS threads are registered at once (:63-65).
RefusedOnlyIfFull ==
    \A t \in Threads : thread_at[t] = "refused" => t \in full_seen

\* The records of one thread come out in the order it logged them (:40), also
\* when it unregisters and registers again.
ThreadOrder ==
    \A t \in Threads : \A i, j \in DOMAIN written[t] :
        i < j => written[t][i][1] <= written[t][j][1]

-----------------------------------------------------------------------------
(* Composition: each ring is used as SpscFifo, so by one producer and one  *)
(* consumer at a time.                                                     *)

Fifo(p) == INSTANCE SpscFifo WITH
    Capacity <- k_RING_CAPACITY,
    Values <- Records(p),
    Batches <- {<<n>> : n \in Records(p)},
    queue <- d_ring[p].queue,
    views <- d_ring[p].known..Len(d_ring[p].queue),
    unseen_pops <- d_ring[p].unseen,
    offered <- d_ring[p].offered,
    push_answer <- d_ring[p].push_answer,
    pop_answer <- d_ring[p].pop_answer

\* The threads never ask more of a ring than SpscRing promises, and get no more.
\* Foreign threads, which share a ring, are one producer to it.
RingsAreUsedAsPromised ==
    /\ \A p \in Producers : Fifo(p)!Init
    /\ [][\A p \in Producers : [Fifo(p)!Next]_(Fifo(p)!fifo_vars)]_vars

\* A producer is live once it is in a slot, and freed before it leaves it.
LifeOf(p) ==
    IF d_phase[p] = "closed" THEN IF p \in heap THEN "closed" ELSE "freed"
    ELSE IF \E s \in Slots : d_slots[s] = p THEN "live" ELSE "none"

Registered == Producers \ {Shared}

Life == INSTANCE ProducerLife WITH
    Producers <- Registered,
    life <- [p \in Registered |-> LifeOf(p)],
    logged <- [p \in Registered |-> logged[p]],
    settled <- [p \in Registered |-> WrittenOf(p) + lost[p]]

\* What a registered thread is promised, whatever slot its ring is in and however
\* its steps and the logger thread's interleave: the steps of ProducerLife, where
\* a ring is freed once, after it was closed and with every record of it settled
\* (:66-87).  Handles says why callers cannot do more than it allows.
ImplementsLife == Life!Spec

OfRings(number) == [r \in 1..(k_MAX_THREADS + 1) |->
    IF r \notin Slots THEN number[Shared] ELSE IF d_slots[r] = Null THEN 0 ELSE number[d_slots[r]]]

Pass == INSTANCE LoggerPass WITH
    place <- [s \in Slots |->
                 IF d_slots[s] = Null THEN "free"
                 ELSE IF d_slots[s] \notin heap THEN "freed"
                 ELSE d_phase[d_slots[s]]],
    waiting <- OfRings([p \in Producers |-> Len(d_ring[p].queue)]),
    known <- OfRings([p \in Producers |-> d_ring[p].known]),
    count <- IF count < k_RING_CAPACITY THEN count ELSE k_RING_CAPACITY

\* The logger thread and the destructor make the passes of LoggerPass, whatever the
\* threads do meanwhile: LoggerPass follows them without a bound on how long the
\* threads go on.
ImplementsPass == Pass!Spec

-----------------------------------------------------------------------------
(* Liveness.  LoggerPass says what the threads that drain do at last.      *)

\* A thread inside a call is scheduled.
CallFairness(t) == WF_vars(ThreadStep(t))

\* A logging call returns though no other thread, the logger thread included,
\* takes another step (:27-34): registered threads never wait, and a foreign thread,
\* once it has the mutex, gives it back.
CallsReturn ==
    \A t \in Loggers : CallFairness(t) =>
        (thread_at[t] \in {"pushing", "dropping", "counting"} ~>
             thread_at[t] \in {"inside", "outside"} /\ d_shared_lock # t)
=============================================================================
