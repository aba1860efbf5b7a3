------------------------ MODULE LoggerAccountProofs ------------------------
(***************************************************************************)
(* Every record logged is accounted for, for every number of threads,      *)
(* slots, registrations and records: it is written, in its ring, in hand   *)
(* or counted as dropped; a ring is freed once everything logged through   *)
(* it is written or reported lost, and the destructor leaves nothing.  So  *)
(* the Logger keeps the promises of ProducerLife, and its thread makes the *)
(* passes of LoggerPass.                                                   *)
(***************************************************************************)
EXTENDS LoggerProofs

-----------------------------------------------------------------------------
(* The inductive invariant, beside OwnerInvariant and RingInvariant: first *)
(* what is counted.                                                        *)

HandingStates == {"pushing", "dropping", "counting"}

\* The number of records of a ring that a thread has in hand.
Held(p) ==
    IF \E t \in Loggers : producer_of(t) = p /\ thread_at[t] \in HandingStates THEN 1 ELSE 0

CountTypes ==
    /\ d_dropped \in [Producers -> Nat] /\ d_reported \in [Producers -> Nat]
    /\ lost \in [Producers -> Nat] /\ count_read \in [Loggers -> Nat]
    /\ \A p \in Producers : logged[p] \in Records(p) \union {0}

RingAccount(p) ==
    /\ logged[p] = WrittenOf(p) + Len(d_ring[p].queue) + Held(p) + d_dropped[p]
    /\ lost[p] = d_reported[p] /\ d_reported[p] <= d_dropped[p]
    /\ Len(d_ring[p].queue) + d_ring[p].unseen <= k_RING_CAPACITY
    /\ \A i \in 1..Len(d_ring[p].queue) : d_ring[p].queue[i] >= 1

\* A thread that adds one to a drop count has loaded the latest.
Counting ==
    \A t \in Loggers :
        count_read[t] = IF thread_at[t] = "counting" THEN d_dropped[producer_of(t)] ELSE 0

AccountInvariant == CountTypes /\ (\A p \in Producers : RingAccount(p)) /\ Counting

-----------------------------------------------------------------------------
(* The counts.                                                             *)

LEMMA BoundTypes ==
    /\ k_RING_CAPACITY \in Nat \ {0} /\ MaxRegistrations \in Nat
    /\ MaxRecords \in Nat /\ MaxSharedRecords \in Nat
BY LoggerAssumption

LEMMA WrittenType ==
    ASSUME RingTypes, NEW p \in Producers
    PROVE  /\ IsFiniteSet({i \in DOMAIN written[p[1]] : written[p[1]][i][1] = p[2]})
           /\ WrittenOf(p) \in Nat
<1>1. written[p[1]] \in Seq(Nat \X Nat)
    BY ProducerPairs DEF RingTypes
<1>2. DOMAIN written[p[1]] = 1..Len(written[p[1]]) /\ Len(written[p[1]]) \in Nat
    BY <1>1
<1>3. IsFiniteSet(DOMAIN written[p[1]])
    BY <1>2, FS_Interval
<1>4. IsFiniteSet({i \in DOMAIN written[p[1]] : written[p[1]][i][1] = p[2]})
    BY <1>3, FS_Subset
<1>5. QED BY <1>4, FS_CardinalityType DEF WrittenOf

\* A record written is one more of its ring, and of no other.
LEMMA WrittenGrows ==
    ASSUME RingTypes, NEW p \in Producers, NEW n \in Nat,
           written' = [written EXCEPT ![p[1]] = Append(@, <<p[2], n>>)]
    PROVE  /\ WrittenOf(p)' = WrittenOf(p) + 1
           /\ \A q \in Producers \ {p} : WrittenOf(q)' = WrittenOf(q)
<1> DEFINE log == written[p[1]]
           entry == <<p[2], n>>
<1>1. log \in Seq(Nat \X Nat) /\ Len(log) \in Nat /\ entry \in Nat \X Nat /\ entry[1] = p[2]
    BY ProducerPairs DEF RingTypes
<1>2. /\ written'[p[1]] = Append(log, entry)
      /\ \A t \in (Threads \union {"shared"}) \ {p[1]} : written'[t] = written[t]
    BY ProducerPairs DEF RingTypes
<1>3. /\ DOMAIN Append(log, entry) = 1..(Len(log) + 1) /\ DOMAIN log = 1..Len(log)
      /\ \A i \in 1..Len(log) : Append(log, entry)[i] = log[i]
      /\ Append(log, entry)[Len(log) + 1] = entry
    BY <1>1, AppendProperties
<1>4. /\ \A i \in 1..(Len(log) + 1) : i \in 1..Len(log) \/ i = Len(log) + 1
      /\ \A i \in 1..Len(log) : i \in 1..(Len(log) + 1) /\ i # Len(log) + 1
      /\ Len(log) + 1 \in 1..(Len(log) + 1)
    <2>1. \A length \in Nat :
              /\ \A i \in 1..(length + 1) : i \in 1..length \/ i = length + 1
              /\ \A i \in 1..length : i \in 1..(length + 1) /\ i # length + 1
              /\ length + 1 \in 1..(length + 1)
        OBVIOUS
    <2> HIDE DEF log
    <2>2. QED BY <1>1, <2>1
<1> HIDE DEF log, entry
<1>5. WrittenOf(p)' = WrittenOf(p) + 1
    <2> DEFINE old == {i \in DOMAIN log : log[i][1] = p[2]}
               new == {i \in DOMAIN Append(log, entry) : Append(log, entry)[i][1] = p[2]}
    <2>1. new = old \union {Len(log) + 1} /\ Len(log) + 1 \notin old
        BY <1>1, <1>3, <1>4
    <2>2. IsFiniteSet(old)
        BY WrittenType DEF log
    <2>3. Cardinality(new) = Cardinality(old) + 1
        BY <2>1, <2>2, FS_AddElement
    <2>4. WrittenOf(p) = Cardinality(old)
        BY DEF WrittenOf, log
    <2>5. WrittenOf(p)' = Cardinality(new)
        BY <1>2 DEF WrittenOf
    <2>6. QED BY <2>3, <2>4, <2>5
<1>6. ASSUME NEW q \in Producers \ {p} PROVE WrittenOf(q)' = WrittenOf(q)
    <2>1. CASE q[1] # p[1]
        <3>1. written'[q[1]] = written[q[1]]
            BY <2>1, <1>2, ProducerPairs
        <3>2. QED BY <3>1 DEF WrittenOf
    <2>2. CASE q[1] = p[1]
        <3>1. q[2] # p[2]
            BY <2>2, ProducerPairs
        <3>2. written[q[1]] = log /\ written'[q[1]] = Append(log, entry)
            BY <2>2, <1>2 DEF log
        <3>3. {i \in DOMAIN Append(log, entry) : Append(log, entry)[i][1] = q[2]}
                  = {i \in DOMAIN log : log[i][1] = q[2]}
            BY <3>1, <1>1, <1>3, <1>4
        <3>4. QED BY <3>2, <3>3 DEF WrittenOf
    <2>3. QED BY <2>1, <2>2
<1>7. QED BY <1>5, <1>6


LEMMA HeldUnchanged ==
    ASSUME \A t \in Loggers :
               /\ thread_at'[t] \in HandingStates <=> thread_at[t] \in HandingStates
               /\ thread_at[t] \in HandingStates => producer_of(t)' = producer_of(t)
    PROVE  \A p : Held(p)' = Held(p)
BY DEF Held

\* A thread has a record in hand, of a ring that nobody else has one of.
LEMMA HeldBy ==
    ASSUME OwnerInvariant, RingInvariant, NEW t \in Loggers, thread_at[t] \in HandingStates
    PROVE  /\ producer_of(t) \in Producers /\ Held(producer_of(t)) = 1
           /\ \A u \in Loggers \ {t} :
                 thread_at[u] \in HandingStates => producer_of(u) # producer_of(t)
           /\ d_phase[producer_of(t)] = "live" /\ producer_of(t) \in heap
<1>1. HandingStates \subseteq HandleStates
    BY DEF HandingStates, HandleStates
<1>2. producer_of(t) \in Producers /\ Held(producer_of(t)) = 1
    BY <1>1, OneCaller DEF Held
<1>3. \A u \in Loggers \ {t} : thread_at[u] \in HandingStates => producer_of(u) # producer_of(t)
    BY <1>1, OneCaller
<1>4. d_phase[producer_of(t)] = "live" /\ producer_of(t) \in heap
    <2>1. thread_at[t] \notin {"outside", "refused"}
        BY DEF HandingStates
    <2>2. CASE t \in Threads
        BY <2>1, <2>2, ProducerOf DEF OwnerInvariant, ThreadsOwn
    <2>3. CASE t \in ForeignThreads
        BY <2>3 DEF producer_of, OwnerInvariant, DrainerHolds
    <2>4. QED BY <2>2, <2>3 DEF Loggers
<1>5. QED BY <1>2, <1>3, <1>4

\* A record leaves the hand of the thread that has it.
LEMMA HeldEnds ==
    ASSUME OwnerInvariant, RingInvariant, NEW t \in Loggers, thread_at[t] \in HandingStates,
           NEW p \in Producers, p = producer_of(t), UNCHANGED registrations,
           thread_at'[t] \notin HandingStates,
           \A u \in Loggers \ {t} : thread_at'[u] = thread_at[u]
    PROVE  Held(p) = 1 /\ Held(p)' = 0 /\ \A q \in Producers \ {p} : Held(q)' = Held(q)
<1>1. \A u : producer_of(u)' = producer_of(u)
    BY DEF producer_of
<1>2. Held(p) = 1
    BY DEF Held
<1>3. Held(p)' = 0
    BY <1>1, HeldBy DEF Held
<1>4. \A q \in Producers \ {p} : Held(q)' = Held(q)
    BY <1>1 DEF Held
<1>5. QED BY <1>2, <1>3, <1>4

-----------------------------------------------------------------------------
(* Each step keeps the accounts.                                           *)

LEMMA AccountTypes ==
    ASSUME RingInvariant, AccountInvariant, NEW p \in Producers
    PROVE  /\ RingAccount(p) /\ WrittenOf(p) \in Nat /\ Held(p) \in Nat
           /\ logged[p] \in Nat /\ d_dropped[p] \in Nat /\ d_reported[p] \in Nat
           /\ lost[p] \in Nat /\ Len(d_ring[p].queue) \in Nat /\ d_ring[p].unseen \in Nat
           /\ d_ring[p].queue \in Seq(Nat)
<1>1. RingTypes /\ CountTypes /\ RingAccount(p)
    BY DEF RingInvariant, AccountInvariant
<1>2. WrittenOf(p) \in Nat
    BY <1>1, WrittenType
<1>3. Held(p) \in Nat
    <2>1. Held(p) = 0 \/ Held(p) = 1
        BY DEF Held
    <2>2. QED BY <2>1
<1>4. logged[p] \in Nat
    BY <1>1 DEF RingTypes
<1>5. d_dropped[p] \in Nat /\ d_reported[p] \in Nat /\ lost[p] \in Nat
    BY <1>1 DEF CountTypes
<1>6. QED BY <1>1, <1>2, <1>3, <1>4, <1>5, RingFields

\* A step that moves no record.
LEMMA NoRecordMoves ==
    ASSUME RingInvariant, AccountInvariant, RingInvariant',
           UNCHANGED <<logged, written, d_dropped, d_reported, lost, count_read>>,
           \A p \in Producers :
               /\ d_ring'[p].queue = d_ring[p].queue
               /\ d_ring'[p].unseen <= d_ring[p].unseen,
           \A t \in Loggers :
               /\ thread_at'[t] \in HandingStates <=> thread_at[t] \in HandingStates
               /\ thread_at'[t] = "counting" <=> thread_at[t] = "counting"
               /\ thread_at[t] \in HandingStates => producer_of(t)' = producer_of(t)
    PROVE  AccountInvariant'
<1>1. CountTypes' /\ Counting'
    <2>1. CountTypes /\ Counting
        BY DEF AccountInvariant
    <2>2. CountTypes'
        BY <2>1 DEF CountTypes
    <2>3. Counting'
        BY <2>1 DEF Counting, HandingStates
    <2>4. QED BY <2>2, <2>3
<1>2. ASSUME NEW p \in Producers PROVE RingAccount(p)'
    <2>1. WrittenOf(p)' = WrittenOf(p)
        BY DEF WrittenOf
    <2>2. Held(p)' = Held(p)
        BY HeldUnchanged
    <2>3. d_ring'[p].unseen \in Nat
        BY RingFields DEF RingInvariant, RingTypes, RingStates
    <2>4. Len(d_ring'[p].queue) + d_ring'[p].unseen <= k_RING_CAPACITY
        <3>1. Len(d_ring[p].queue) \in Nat /\ d_ring[p].unseen \in Nat
            BY AccountTypes
        <3>2. Len(d_ring[p].queue) + d_ring[p].unseen <= k_RING_CAPACITY
            BY AccountTypes DEF RingAccount
        <3>3. d_ring'[p].queue = d_ring[p].queue /\ d_ring'[p].unseen <= d_ring[p].unseen
            OBVIOUS
        <3>4. QED BY <2>3, <3>1, <3>2, <3>3, BoundTypes
    <2>5. RingAccount(p)
        BY AccountTypes
    <2>6. QED BY <2>1, <2>2, <2>4, <2>5 DEF RingAccount
<1>3. QED BY <1>1, <1>2 DEF AccountInvariant

\* A record more is logged, and in hand.
LEMMA OfferIsAccounted ==
    ASSUME OwnerInvariant, RingInvariant, AccountInvariant, NEW t \in Loggers, Offer(t),
           thread_at[t] \notin HandingStates,
           NEW p \in Producers, p = producer_of(t), d_ring[p].offered = <<>>, Held(p) = 0,
           UNCHANGED <<registrations, written, d_dropped, d_reported, lost, count_read>>
    PROVE  AccountInvariant'
<1>1. RingTypes /\ CountTypes /\ Counting
    BY DEF RingInvariant, AccountInvariant
<1>2. logged[p] \in Nat /\ logged[p] + 1 \in Records(p)
    BY AccountTypes DEF Offer
<1>3. logged'[p] = logged[p] + 1 /\ \A q \in Producers \ {p} : logged'[q] = logged[q]
    BY <1>1 DEF Offer, RingTypes
<1>4. \A q \in Producers :
          d_ring'[q].queue = d_ring[q].queue /\ d_ring'[q].unseen = d_ring[q].unseen
    <2>1. /\ d_ring'[p] = Offered(d_ring[p], logged'[p])
          /\ \A q \in Producers \ {p} : d_ring'[q] = d_ring[q]
        BY <1>1 DEF Offer, RingTypes
    <2>2. d_ring'[p].queue = d_ring[p].queue /\ d_ring'[p].unseen = d_ring[p].unseen
        BY <1>1, <2>1, RingFields DEF Offered, RingStates
    <2>3. QED BY <2>1, <2>2
<1>5. thread_at'[t] = "pushing" /\ \A u \in Loggers \ {t} : thread_at'[u] = thread_at[u]
    BY DEF OwnerInvariant, OwnerTypes, Offer
<1>6. \A u : producer_of(u)' = producer_of(u)
    BY DEF producer_of
<1>7. Held(p)' = 1
    BY <1>5, <1>6 DEF Held, HandingStates
<1>8. \A q \in Producers \ {p} : Held(q)' = Held(q)
    BY <1>5, <1>6 DEF Held
<1>9. CountTypes'
    BY <1>1, <1>2, <1>3 DEF CountTypes
<1>10. Counting'
    <2>1. \A u \in Loggers : thread_at'[u] = "counting" <=> thread_at[u] = "counting"
        BY <1>5 DEF HandingStates
    <2>2. QED BY <1>1, <1>6, <2>1 DEF Counting
<1>11. ASSUME NEW q \in Producers PROVE RingAccount(q)'
    <2>1. WrittenOf(q)' = WrittenOf(q)
        BY DEF WrittenOf
    <2>2. RingAccount(q) /\ WrittenOf(q) \in Nat /\ d_dropped[q] \in Nat
        BY AccountTypes
    <2>3. Len(d_ring[q].queue) \in Nat
        BY AccountTypes
    <2>4. logged'[q] = WrittenOf(q) + Len(d_ring[q].queue) + Held(q)' + d_dropped[q]
        <3>1. CASE q = p
            BY <3>1, <2>2, <2>3, <1>3, <1>7 DEF RingAccount
        <3>2. CASE q # p
            BY <3>2, <2>2, <1>3, <1>8 DEF RingAccount
        <3>3. QED BY <3>1, <3>2
    <2>5. QED BY <2>1, <2>2, <2>4, <1>4 DEF RingAccount
<1>12. QED BY <1>9, <1>10, <1>11 DEF AccountInvariant

\* The record in hand goes into the ring.
LEMMA AcceptIsAccounted ==
    ASSUME OwnerInvariant, RingInvariant, AccountInvariant, NEW t \in Loggers, PushAccepted(t),
           NEW p \in Producers, p = producer_of(t)
    PROVE  AccountInvariant'
<1> DEFINE ring == d_ring[p]
           n == Len(ring.queue)
<1>1. RingTypes /\ OnePusher /\ CountTypes /\ Counting
    BY DEF RingInvariant, AccountInvariant
<1>2. /\ thread_at[t] = "pushing" /\ RoomFor(ring) /\ LogReturns(t)
      /\ d_ring' = [d_ring EXCEPT ![p] = Accepted(ring)]
      /\ UNCHANGED <<registrations, logged, written, d_dropped, d_reported, lost, count_read>>
    BY DEF PushAccepted, logger_vars
<1>3. thread_at[t] \in HandingStates
    BY <1>2 DEF HandingStates
<1>4. /\ thread_at'[t] \notin HandingStates
      /\ \A u \in Loggers \ {t} : thread_at'[u] = thread_at[u]
    BY <1>2 DEF OwnerInvariant, OwnerTypes, LogReturns, HandingStates
<1>5. Held(p) = 1 /\ Held(p)' = 0 /\ \A q \in Producers \ {p} : Held(q)' = Held(q)
    BY <1>2, <1>3, <1>4, HeldEnds
<1>6. ring.offered = <<logged[p]>> /\ logged[p] \in Nat
    BY <1>1, <1>2 DEF OnePusher, RingTypes
<1>7. d_ring'[p] = Accepted(ring) /\ \A q \in Producers \ {p} : d_ring'[q] = d_ring[q]
    BY <1>1, <1>2 DEF RingTypes
<1>8. d_ring'[p].queue = ring.queue \o <<logged[p]>> /\ d_ring'[p].unseen = ring.unseen
    BY <1>1, <1>6, <1>7, RingFields DEF Accepted, RingStates
<1>9. /\ n \in Nat /\ Len(ring.queue \o <<logged[p]>>) = n + 1
      /\ \A i \in 1..n : (ring.queue \o <<logged[p]>>)[i] = ring.queue[i]
      /\ (ring.queue \o <<logged[p]>>)[n + 1] = logged[p]
    BY <1>1, <1>6, RingFields
<1>10. CountTypes'
    BY <1>1, <1>2 DEF CountTypes
<1>11. Counting'
    <2>1. \A u \in Loggers : thread_at'[u] = "counting" <=> thread_at[u] = "counting"
        BY <1>2, <1>4 DEF HandingStates
    <2>2. QED BY <1>1, <1>2, <2>1 DEF Counting, producer_of
<1>12. RingAccount(p)'
    <2>1. WrittenOf(p)' = WrittenOf(p)
        BY <1>2 DEF WrittenOf
    <2>2. /\ logged[p] = WrittenOf(p) + (n + 1) + 0 + d_dropped[p]
          /\ n + 1 + ring.unseen <= k_RING_CAPACITY /\ logged[p] >= 1
        <3>1. RingAccount(p) /\ WrittenOf(p) \in Nat /\ d_dropped[p] \in Nat /\ n \in Nat
            BY AccountTypes
        <3>2. ring.unseen \in Nat /\ n + ring.unseen < k_RING_CAPACITY
            BY <1>2, AccountTypes DEF RoomFor
        <3> HIDE DEF ring
        <3>3. n + 1 + ring.unseen <= k_RING_CAPACITY
            BY <3>1, <3>2, BoundTypes
        <3>4. logged[p] = WrittenOf(p) + n + 1 + d_dropped[p]
            BY <1>5, <3>1 DEF RingAccount, ring
        <3>5. QED BY <3>1, <3>3, <3>4
    <2>3. \A i \in 1..(n + 1) : i \in 1..n \/ i = n + 1
        BY <1>9
    <2>4. \A i \in 1..(n + 1) : d_ring'[p].queue[i] >= 1
        BY <1>8, <1>9, <2>2, <2>3, AccountTypes DEF RingAccount
    <2>5. lost[p] = d_reported[p] /\ d_reported[p] <= d_dropped[p]
        BY AccountTypes DEF RingAccount
    <2>6. Len(d_ring'[p].queue) = n + 1 /\ d_ring'[p].unseen = ring.unseen
        BY <1>8, <1>9
    <2> HIDE DEF n
    <2>7. QED BY <1>2, <1>5, <2>1, <2>2, <2>4, <2>5, <2>6 DEF RingAccount
<1>13. ASSUME NEW q \in Producers \ {p} PROVE RingAccount(q)'
    <2>1. WrittenOf(q)' = WrittenOf(q)
        BY <1>2 DEF WrittenOf
    <2>2. RingAccount(q)
        BY AccountTypes
    <2>3. QED BY <1>2, <1>5, <1>7, <2>1, <2>2 DEF RingAccount
<1>14. QED BY <1>10, <1>11, <1>12, <1>13 DEF AccountInvariant

\* A thread that counts a drop loads the count; nobody else will add to it.
LEMMA LoadIsAccounted ==
    ASSUME OwnerInvariant, RingInvariant, AccountInvariant, NEW t \in Loggers, LoadDropped(t)
    PROVE  AccountInvariant'
<1>1. RingTypes /\ CountTypes /\ Counting /\ thread_at \in [Loggers -> ThreadStates]
    BY DEF RingInvariant, AccountInvariant, OwnerInvariant, OwnerTypes
<1>2. /\ thread_at[t] = "dropping" /\ thread_at' = [thread_at EXCEPT ![t] = "counting"]
      /\ count_read' = [count_read EXCEPT ![t] = d_dropped[producer_of(t)]]
      /\ UNCHANGED <<d_ring, registrations, logged, written, d_dropped, d_reported, lost>>
    BY DEF LoadDropped, logger_vars
<1>3. producer_of(t) \in Producers
    BY <1>2, HeldBy DEF HandingStates
<1>4. thread_at'[t] = "counting" /\ \A u \in Loggers \ {t} : thread_at'[u] = thread_at[u]
    BY <1>1, <1>2
<1>5. /\ count_read'[t] = d_dropped[producer_of(t)]
      /\ \A u \in Loggers \ {t} : count_read'[u] = count_read[u]
    BY <1>1, <1>2 DEF CountTypes
<1>6. \A u : producer_of(u)' = producer_of(u)
    BY <1>2 DEF producer_of
<1>7. CountTypes'
    <2>1. d_dropped[producer_of(t)] \in Nat
        BY <1>1, <1>3 DEF CountTypes
    <2>2. count_read' \in [Loggers -> Nat]
        BY <1>1, <1>2, <2>1 DEF CountTypes
    <2>3. QED BY <1>1, <1>2, <2>2 DEF CountTypes
<1>8. Counting'
    <2> SUFFICES ASSUME NEW u \in Loggers
                 PROVE  count_read'[u] = IF thread_at'[u] = "counting"
                                         THEN d_dropped[producer_of(u)] ELSE 0
        BY <1>2, <1>6 DEF Counting
    <2>1. QED BY <1>1, <1>4, <1>5 DEF Counting
<1>9. ASSUME NEW p \in Producers PROVE RingAccount(p)'
    <2>1. WrittenOf(p)' = WrittenOf(p)
        BY <1>2 DEF WrittenOf
    <2>2. Held(p)' = Held(p)
        BY <1>2, <1>4, <1>6, HeldUnchanged DEF HandingStates
    <2>3. RingAccount(p)
        BY AccountTypes
    <2>4. QED BY <1>2, <2>1, <2>2, <2>3 DEF RingAccount
<1>10. QED BY <1>7, <1>8, <1>9 DEF AccountInvariant

\* The record in hand is counted as dropped, though the count is added to with a load
\* and a store.
LEMMA StoreIsAccounted ==
    ASSUME OwnerInvariant, RingInvariant, AccountInvariant, NEW t \in Loggers, StoreDropped(t),
           NEW p \in Producers, p = producer_of(t)
    PROVE  AccountInvariant'
<1>1. RingTypes /\ CountTypes /\ Counting
    BY DEF RingInvariant, AccountInvariant
<1>2. /\ thread_at[t] = "counting" /\ LogReturns(t)
      /\ d_dropped' = [d_dropped EXCEPT ![p] = count_read[t] + 1]
      /\ count_read' = [count_read EXCEPT ![t] = 0]
      /\ UNCHANGED <<d_ring, registrations, logged, written, d_reported, lost>>
    BY DEF StoreDropped, logger_vars
<1>3. thread_at[t] \in HandingStates
    BY <1>2 DEF HandingStates
<1>4. /\ thread_at'[t] \notin HandingStates
      /\ \A u \in Loggers \ {t} : thread_at'[u] = thread_at[u]
    BY <1>2 DEF OwnerInvariant, OwnerTypes, LogReturns, HandingStates
<1>5. Held(p) = 1 /\ Held(p)' = 0 /\ \A q \in Producers \ {p} : Held(q)' = Held(q)
    BY <1>2, <1>3, <1>4, HeldEnds
<1>6. count_read[t] = d_dropped[p] /\ d_dropped[p] \in Nat
    BY <1>1, <1>2 DEF Counting, CountTypes
<1>7. /\ d_dropped'[p] = d_dropped[p] + 1
      /\ \A q \in Producers \ {p} : d_dropped'[q] = d_dropped[q]
    BY <1>1, <1>2, <1>6 DEF CountTypes
<1>8. CountTypes'
    <2>1. d_dropped[p] + 1 \in Nat
        BY <1>6
    <2>2. d_dropped' \in [Producers -> Nat] /\ count_read' \in [Loggers -> Nat]
        BY <1>1, <1>2, <1>6, <2>1 DEF CountTypes
    <2>3. QED BY <1>1, <1>2, <2>2 DEF CountTypes
<1>9. Counting'
    <2>1. \A u : producer_of(u)' = producer_of(u)
        BY <1>2 DEF producer_of
    <2> SUFFICES ASSUME NEW u \in Loggers
                 PROVE  count_read'[u] = IF thread_at'[u] = "counting"
                                         THEN d_dropped'[producer_of(u)] ELSE 0
        BY <2>1 DEF Counting
    <2>2. CASE u = t
        BY <2>2, <1>1, <1>2, <1>4 DEF CountTypes, HandingStates
    <2>3. CASE u # t
        <3>1. count_read'[u] = count_read[u] /\ thread_at'[u] = thread_at[u]
            BY <2>3, <1>1, <1>2, <1>4 DEF CountTypes
        <3>2. thread_at[u] = "counting" => producer_of(u) # p /\ producer_of(u) \in Producers
            BY <2>3, <1>3, HeldBy DEF HandingStates
        <3>3. QED BY <3>1, <3>2, <1>1, <1>7 DEF Counting
    <2>4. QED BY <2>2, <2>3
<1>10. ASSUME NEW q \in Producers PROVE RingAccount(q)'
    <2>1. WrittenOf(q)' = WrittenOf(q)
        BY <1>2 DEF WrittenOf
    <2>2. RingAccount(q)
        BY AccountTypes
    <2>3. CASE q # p
        BY <2>1, <2>2, <2>3, <1>2, <1>5, <1>7 DEF RingAccount
    <2>4. CASE q = p
        <3>1. /\ WrittenOf(p) \in Nat /\ Len(d_ring[p].queue) \in Nat
              /\ d_reported[p] \in Nat
            BY AccountTypes
        <3>2. /\ logged[p] = WrittenOf(p) + Len(d_ring[p].queue) + 0 + d_dropped'[p]
              /\ d_reported[p] <= d_dropped'[p]
            <4>1. /\ logged[p] = WrittenOf(p) + Len(d_ring[p].queue) + 1 + d_dropped[p]
                  /\ d_reported[p] <= d_dropped[p]
                BY <2>2, <2>4, <1>5 DEF RingAccount
            <4>2. d_dropped'[p] = d_dropped[p] + 1 /\ d_dropped[p] \in Nat
                BY <1>6, <1>7
            <4>3. d_reported[p] <= d_dropped[p] + 1
                BY <3>1, <4>1, <4>2
            <4>4. WrittenOf(p) + Len(d_ring[p].queue) + 1 + d_dropped[p]
                      = WrittenOf(p) + Len(d_ring[p].queue) + 0 + (d_dropped[p] + 1)
                BY <3>1, <4>2
            <4>5. QED BY <4>1, <4>2, <4>3, <4>4
        <3>3. QED BY <2>1, <2>2, <2>4, <3>2, <1>2, <1>5 DEF RingAccount
    <2>5. QED BY <2>3, <2>4
<1>11. QED BY <1>8, <1>9, <1>10 DEF AccountInvariant

\* A record goes from its ring to the log.
LEMMA PopIsAccounted ==
    ASSUME OwnerInvariant, RingInvariant, AccountInvariant, PopRecord,
           NEW p \in Producers, p = producer
    PROVE  AccountInvariant'
<1> DEFINE ring == d_ring[p]
<1>1. RingTypes /\ CountTypes /\ Counting
    BY DEF RingInvariant, AccountInvariant
<1>2. /\ ring.known > 0
      /\ d_ring' = [d_ring EXCEPT ![p] = Popped(@)]
      /\ written' = [written EXCEPT ![p[1]] = Append(@, <<p[2], Head(ring.queue)>>)]
      /\ UNCHANGED <<thread_at, registrations, logged, count_read, d_dropped, d_reported, lost>>
    BY DEF PopRecord, DrainUnchanged, thread_vars
<1>4. d_ring'[p] = Popped(ring) /\ \A q \in Producers \ {p} : d_ring'[q] = d_ring[q]
    BY <1>1, <1>2 DEF RingTypes
<1>5. d_ring'[p].queue = Tail(ring.queue) /\ d_ring'[p].unseen = ring.unseen + 1
    BY <1>1, <1>4, PoppedFields
<1>6. /\ ring.queue \in Seq(Nat) /\ Len(ring.queue) \in Nat \ {0} /\ ring.unseen \in Nat
    BY <1>1, <1>2, RingFields
<1>7. /\ Head(ring.queue) \in Nat /\ Len(Tail(ring.queue)) = Len(ring.queue) - 1
      /\ \A i \in 1..(Len(ring.queue) - 1) : Tail(ring.queue)[i] = ring.queue[i + 1]
    BY <1>6
<1>8. /\ WrittenOf(p)' = WrittenOf(p) + 1
      /\ \A q \in Producers \ {p} : WrittenOf(q)' = WrittenOf(q)
    BY <1>1, <1>2, <1>7, WrittenGrows
<1>9. \A q : Held(q)' = Held(q)
    BY <1>2 DEF Held, producer_of
<1>10. CountTypes' /\ Counting'
    BY <1>1, <1>2 DEF CountTypes, Counting, producer_of
<1>11. RingAccount(p) /\ WrittenOf(p) \in Nat /\ Held(p) \in Nat /\ d_dropped[p] \in Nat
    BY AccountTypes
<1>12. RingAccount(p)'
    <2>1. logged[p] = (WrittenOf(p) + 1) + (Len(ring.queue) - 1) + Held(p) + d_dropped[p]
        BY <1>6, <1>11 DEF RingAccount
    <2>2. (Len(ring.queue) - 1) + (ring.unseen + 1) <= k_RING_CAPACITY
        <3>1. Len(ring.queue) + ring.unseen <= k_RING_CAPACITY
            BY <1>11 DEF RingAccount
        <3>2. QED BY <3>1, <1>6, BoundTypes
    <2>3. \A i \in 1..(Len(ring.queue) - 1) : d_ring'[p].queue[i] >= 1
        <3>1. \A i \in 1..(Len(ring.queue) - 1) : i + 1 \in 1..Len(ring.queue)
            BY <1>6
        <3>2. \A i \in 1..Len(ring.queue) : ring.queue[i] >= 1
            BY <1>11 DEF RingAccount
        <3>3. QED BY <3>1, <3>2, <1>5, <1>7
    <2>4. Len(d_ring'[p].queue) = Len(ring.queue) - 1 /\ d_ring'[p].unseen = ring.unseen + 1
        BY <1>5, <1>7
    <2>5. lost[p] = d_reported[p] /\ d_reported[p] <= d_dropped[p]
        BY <1>11 DEF RingAccount
    <2> HIDE DEF ring
    <2>6. QED BY <2>1, <2>2, <2>3, <2>4, <2>5, <1>2, <1>8, <1>9 DEF RingAccount
<1>13. ASSUME NEW q \in Producers \ {p} PROVE RingAccount(q)'
    <2>1. RingAccount(q)
        BY AccountTypes
    <2>2. QED BY <2>1, <1>2, <1>4, <1>8, <1>9 DEF RingAccount
<1>14. QED BY <1>10, <1>12, <1>13 DEF AccountInvariant

\* The losses reported become the drops counted.
LEMMA TakeIsAccounted ==
    ASSUME OwnerInvariant, RingInvariant, AccountInvariant, TakeDropped,
           NEW p \in Producers, p = producer
    PROVE  AccountInvariant'
<1>1. CountTypes /\ Counting
    BY DEF AccountInvariant
<1>2. /\ d_reported' = [d_reported EXCEPT ![p] = d_dropped[p]]
      /\ lost' = [lost EXCEPT ![p] = @ + d_dropped[p] - d_reported[p]]
      /\ UNCHANGED <<thread_at, registrations, logged, written, count_read, d_ring, d_dropped>>
    BY DEF TakeDropped, DrainUnchanged, thread_vars
<1>4. /\ RingAccount(p) /\ d_dropped[p] \in Nat /\ d_reported[p] \in Nat /\ lost[p] \in Nat
    BY AccountTypes
<1>5. lost[p] + d_dropped[p] - d_reported[p] = d_dropped[p]
    BY <1>4 DEF RingAccount
<1>6. /\ d_reported'[p] = d_dropped[p] /\ lost'[p] = d_dropped[p]
      /\ \A q \in Producers \ {p} : d_reported'[q] = d_reported[q] /\ lost'[q] = lost[q]
    BY <1>1, <1>2, <1>5 DEF CountTypes
<1>7. CountTypes'
    <2>1. d_reported' \in [Producers -> Nat] /\ lost' \in [Producers -> Nat]
        BY <1>1, <1>2, <1>4, <1>5 DEF CountTypes
    <2>2. QED BY <1>1, <1>2, <2>1 DEF CountTypes
<1>8. Counting'
    BY <1>1, <1>2 DEF Counting, producer_of
<1>9. ASSUME NEW q \in Producers PROVE RingAccount(q)'
    <2>1. WrittenOf(q)' = WrittenOf(q) /\ Held(q)' = Held(q)
        BY <1>2 DEF WrittenOf, Held, producer_of
    <2>2. RingAccount(q)
        BY AccountTypes
    <2>3. lost'[q] = d_reported'[q] /\ d_reported'[q] <= d_dropped[q]
        BY <2>2, <1>4, <1>6 DEF RingAccount
    <2>4. QED BY <2>1, <2>2, <2>3, <1>2 DEF RingAccount
<1>10. QED BY <1>7, <1>8, <1>9 DEF AccountInvariant

LEMMA InitIsAccounted == Init => AccountInvariant
<1> SUFFICES ASSUME Init PROVE AccountInvariant
    OBVIOUS
<1>1. /\ d_dropped = [p \in Producers |-> 0] /\ d_reported = [p \in Producers |-> 0]
      /\ lost = [p \in Producers |-> 0] /\ logged = [p \in Producers |-> 0]
      /\ count_read = [t \in Loggers |-> 0] /\ thread_at = [t \in Loggers |-> "outside"]
      /\ d_ring = [p \in Producers |-> EmptyRing]
      /\ written = [t \in Threads \union {"shared"} |-> <<>>]
    BY DEF Init
<1>2. CountTypes
    BY <1>1 DEF CountTypes
<1>3. Counting
    BY <1>1 DEF Counting
<1>4. ASSUME NEW p \in Producers PROVE RingAccount(p)
    <2>1. WrittenOf(p) = 0
        <3>1. written[p[1]] = <<>>
            BY <1>1, ProducerPairs
        <3>2. DOMAIN <<>> = {}
            OBVIOUS
        <3>3. {i \in DOMAIN written[p[1]] : written[p[1]][i][1] = p[2]} = {}
            BY <3>1, <3>2
        <3>4. QED BY <3>3, FS_EmptySet DEF WrittenOf
    <2>2. Held(p) = 0
        BY <1>1 DEF Held, HandingStates
    <2>3. d_ring[p].queue = <<>> /\ d_ring[p].unseen = 0 /\ Len(<<>>) = 0
        BY <1>1 DEF EmptyRing
    <2>4. \A i \in 1..0 : FALSE
        OBVIOUS
    <2>5. QED BY <1>1, <2>1, <2>2, <2>3, <2>4, BoundTypes DEF RingAccount
<1>5. QED BY <1>2, <1>3, <1>4 DEF AccountInvariant

LEMMA ThreadKeepsAccounts ==
    ASSUME OwnerInvariant, RingInvariant, AccountInvariant, RingInvariant', NEW t \in Loggers,
           \/ t \in Threads /\ (RegisterBegin(t) \/ Close(t) \/ Log(t))
           \/ t \in ForeignThreads /\ LogLocked(t)
           \/ ThreadStep(t)
    PROVE  AccountInvariant'
<1>1. /\ RingTypes /\ OnePusher /\ thread_at \in [Loggers -> ThreadStates]
      /\ registrations \in [Threads -> 0..MaxRegistrations]
    BY DEF OwnerInvariant, RingInvariant, OwnerTypes
<1>2. /\ Threads \intersect ForeignThreads = {}
      /\ ForeignThreads \subseteq Loggers /\ Threads \subseteq Loggers
    BY LoggerAssumption DEF Loggers
<1>3. \A p \in Producers : d_ring[p].unseen <= d_ring[p].unseen
    BY <1>1, RingFields
<1>4. CASE \/ t \in Threads /\ (RegisterBegin(t) \/ Close(t))
           \/ t \in Threads /\ (TrySlot(t) \/ RegisterFails(t) \/ RefusalReturns(t))
    <2>1. UNCHANGED <<d_ring, logged, written, d_dropped, d_reported, lost, count_read>>
        BY <1>4 DEF RegisterBegin, Close, TrySlot, RegisterFails, RefusalReturns, logger_vars
    <2>2. /\ thread_at[t] \notin HandingStates /\ thread_at'[t] \notin HandingStates
          /\ \A u \in Loggers \ {t} : thread_at'[u] = thread_at[u]
        <3>1. /\ thread_at[t] \notin HandingStates
              /\ \/ \E place \in {"outside", "inside", "refused", "scanning"} :
                      thread_at' = [thread_at EXCEPT ![t] = place]
                 \/ thread_at' = thread_at
            BY <1>4
            DEF RegisterBegin, Close, TrySlot, RegisterFails, RefusalReturns, HandingStates
        <3>2. QED BY <1>1, <3>1 DEF HandingStates
    <2>3. \A u \in Loggers : u # t => producer_of(u)' = producer_of(u)
        <3>1. \A u \in Threads \ {t} : registrations'[u] = registrations[u]
            BY <1>1, <1>4 DEF RegisterBegin, Close, TrySlot, RegisterFails, RefusalReturns
        <3>2. QED BY <3>1, <1>2 DEF producer_of, Loggers
    <2>4. \A u \in Loggers :
              /\ thread_at'[u] \in HandingStates <=> thread_at[u] \in HandingStates
              /\ thread_at'[u] = "counting" <=> thread_at[u] = "counting"
              /\ thread_at[u] \in HandingStates => producer_of(u)' = producer_of(u)
        BY <2>2, <2>3 DEF HandingStates
    <2>5. QED BY <1>3, <2>1, <2>4, NoRecordMoves
<1>5. ASSUME NEW p \in Producers, p = producer_of(t), thread_at[t] \notin HandingStates,
             Offer(t),
             UNCHANGED <<registrations, written, d_dropped, d_reported, lost, count_read>>,
             \A u \in Loggers : thread_at[u] \in HandingStates => producer_of(u) # p
      PROVE  AccountInvariant'
    <2>1. Held(p) = 0
        BY <1>5 DEF Held
    <2>2. d_ring[p].offered = <<>>
        BY <1>1, <1>5 DEF OnePusher, HandingStates
    <2>3. QED BY <1>5, <2>1, <2>2, OfferIsAccounted
<1>6. CASE t \in Threads /\ Log(t)
    <2>1. /\ thread_at[t] = "inside" /\ Offer(t)
          /\ UNCHANGED <<registrations, written, d_dropped, d_reported, lost, count_read>>
        BY <1>6 DEF Log, logger_vars
    <2>2. /\ producer_of(t) \in Producers /\ thread_at[t] \notin HandingStates
          /\ \A u \in Loggers : thread_at[u] \in HandingStates => producer_of(u) # producer_of(t)
        BY <2>1, OneCaller DEF HandleStates, HandingStates
    <2>3. QED BY <1>5, <2>1, <2>2
<1>7. CASE t \in ForeignThreads /\ LogLocked(t)
    <2>1. /\ d_shared_lock = Null /\ thread_at[t] = "outside" /\ Offer(t)
          /\ UNCHANGED <<registrations, written, d_dropped, d_reported, lost, count_read>>
        BY <1>7 DEF LogLocked, logger_vars
    <2>2. \A u \in ForeignThreads : thread_at[u] = "outside"
        BY <1>1, <2>1, NullAssumption DEF OnePusher
    <2>3. producer_of(t) = Shared /\ Shared \in Producers
        BY <1>7, ProducerTypes DEF producer_of
    <2>4. ASSUME NEW u \in Loggers, thread_at[u] \in HandingStates PROVE producer_of(u) # Shared
        <3>1. u \in Threads /\ thread_at[u] \notin {"outside", "refused"}
            BY <2>2, <2>4 DEF Loggers, HandingStates
        <3>2. producer_of(u) = <<u, registrations[u]>> /\ registrations[u] \in 1..MaxRegistrations
            BY <3>1, ProducerOf DEF OwnerInvariant, ThreadsOwn
        <3>3. QED BY <3>1, <3>2, ProducerTypes
    <2>5. thread_at[t] \notin HandingStates
        BY <2>1 DEF HandingStates
    <2>6. QED BY <1>5, <2>1, <2>3, <2>4, <2>5
<1>8. CASE PushAccepted(t) \/ StoreDropped(t)
    <2>1. producer_of(t) \in Producers
        BY <1>8, HeldBy DEF PushAccepted, StoreDropped, HandingStates
    <2>2. QED BY <1>8, <2>1, AcceptIsAccounted, StoreIsAccounted
<1>9. CASE LoadDropped(t)
    BY <1>9, LoadIsAccounted
<1>10. CASE LearnPops(t) \/ PushRefused(t)
    <2>1. PICK p \in Producers : p = producer_of(t)
        BY <1>10, HeldBy DEF LearnPops, PushRefused, HandingStates
    <2>2. /\ UNCHANGED <<registrations, logged, written, d_dropped, d_reported, lost, count_read>>
          /\ \/ thread_at' = thread_at
             \/ thread_at[t] = "pushing" /\ thread_at' = [thread_at EXCEPT ![t] = "dropping"]
        BY <1>10 DEF LearnPops, PushRefused, thread_vars, logger_vars
    <2>3. \A u : producer_of(u)' = producer_of(u)
        BY <2>2 DEF producer_of
    <2>4. \A u \in Loggers :
              /\ thread_at'[u] \in HandingStates <=> thread_at[u] \in HandingStates
              /\ thread_at'[u] = "counting" <=> thread_at[u] = "counting"
        BY <1>1, <2>2 DEF HandingStates
    <2>5. d_ring'[p].queue = d_ring[p].queue /\ d_ring'[p].unseen <= d_ring[p].unseen
        <3>1. CASE LearnPops(t)
            <4>1. PICK unseen \in 0..(d_ring[p].unseen - 1) :
                      d_ring' = [d_ring EXCEPT ![p].unseen = unseen]
                BY <2>1, <3>1 DEF LearnPops
            <4>2. d_ring'[p] = [d_ring[p] EXCEPT !.unseen = unseen]
                BY <1>1, <4>1 DEF RingTypes
            <4>3. d_ring'[p].queue = d_ring[p].queue /\ d_ring'[p].unseen = unseen
                BY <1>1, <4>2, RingFields DEF RingStates
            <4>4. QED BY <1>1, <4>3, RingFields
        <3>2. CASE PushRefused(t)
            <4>1. d_ring'[p] = Refused(d_ring[p], d_ring[p].unseen)
                BY <1>1, <2>1, <3>2 DEF PushRefused, RingTypes
            <4>2. QED BY <1>1, <4>1, RingFields DEF Refused, RingStates
        <3>3. QED BY <1>10, <3>1, <3>2
    <2>6. \A q \in Producers \ {p} : d_ring'[q] = d_ring[q]
        BY <1>1, <1>10, <2>1 DEF LearnPops, PushRefused, RingTypes
    <2>7. \A q \in Producers :
              d_ring'[q].queue = d_ring[q].queue /\ d_ring'[q].unseen <= d_ring[q].unseen
        BY <1>3, <2>5, <2>6
    <2>8. QED BY <2>2, <2>3, <2>4, <2>7, NoRecordMoves
<1>11. QED BY <1>4, <1>6, <1>7, <1>8, <1>9, <1>10 DEF ThreadStep

\* The thread that drains takes records out of rings by popping only.
LEMMA QueuesStay ==
    ASSUME OwnerInvariant, RingInvariant,
           LoggerStep \/ LearnPushes \/ RequestStop \/ Join \/ UNCHANGED vars, ~PopRecord
    PROVE  \A p \in Producers :
               d_ring'[p].queue = d_ring[p].queue /\ d_ring'[p].unseen = d_ring[p].unseen
<1>1. RingTypes
    BY DEF RingInvariant
<1>2. CASE \/ CheckStop \/ LoadSlot \/ TakeDropped \/ FreeProducer \/ ClearSlot \/ Rest
           \/ RequestStop \/ UNCHANGED vars
    <2>1. UNCHANGED d_ring
        BY <1>2
        DEF CheckStop, LoadSlot, TakeDropped, FreeProducer, ClearSlot, Rest, RequestStop, vars
    <2>2. QED BY <2>1
<1>3. CASE ReadPhase \/ LearnPushes \/ PopsEnd
    <2>1. PICK p \in Producers : p = producer
        BY <1>3, DrainedRing DEF ReadPhase, LearnPushes, PopsEnd, DrainStates
    <2>2. \/ d_ring' = d_ring
          \/ d_ring' = [d_ring EXCEPT ![p] = Synchronized(@)]
          \/ \E known : d_ring' = [d_ring EXCEPT ![p].known = known]
          \/ d_ring' = [d_ring EXCEPT ![p].pop_answer = <<>>]
        BY <1>3, <2>1 DEF ReadPhase, LearnPushes, PopsEnd
    <2>3. d_ring'[p].queue = d_ring[p].queue /\ d_ring'[p].unseen = d_ring[p].unseen
        <3>1. \/ d_ring'[p] = d_ring[p]
              \/ d_ring'[p] = Synchronized(d_ring[p])
              \/ \E known : d_ring'[p] = [d_ring[p] EXCEPT !.known = known]
              \/ d_ring'[p] = [d_ring[p] EXCEPT !.pop_answer = <<>>]
            BY <1>1, <2>2 DEF RingTypes
        <3>2. QED BY <1>1, <3>1, RingFields DEF Synchronized, RingStates
    <2>4. \A q \in Producers \ {p} : d_ring'[q] = d_ring[q]
        BY <1>1, <2>2 DEF RingTypes
    <2>5. QED BY <2>3, <2>4
<1>4. CASE Join
    <2>1. d_ring' = [p \in Producers |-> Synchronized(d_ring[p])]
        BY <1>4 DEF Join
    <2>2. QED BY <2>1, <1>1, RingFields DEF Synchronized, RingStates
<1>5. QED BY <1>2, <1>3, <1>4 DEF LoggerStep

LEMMA LoggerKeepsAccounts ==
    ASSUME OwnerInvariant, RingInvariant, AccountInvariant, RingInvariant',
           LoggerStep \/ LearnPushes \/ RequestStop \/ Join \/ UNCHANGED vars
    PROVE  AccountInvariant'
<1>1. RingTypes
    BY DEF RingInvariant
<1>2. ASSUME UNCHANGED <<logged, written, d_dropped, d_reported, lost, count_read, thread_at,
                         registrations>>,
             \A p \in Producers :
                 d_ring'[p].queue = d_ring[p].queue /\ d_ring'[p].unseen = d_ring[p].unseen
      PROVE  AccountInvariant'
    <2>1. \A u : producer_of(u)' = producer_of(u)
        BY <1>2 DEF producer_of
    <2>2. \A p \in Producers :
              d_ring'[p].queue = d_ring[p].queue /\ d_ring'[p].unseen <= d_ring[p].unseen
        BY <1>1, <1>2, RingFields
    <2>3. QED BY <1>2, <2>1, <2>2, NoRecordMoves
<1>3. CASE PopRecord
    BY <1>3, DrainedRing, PopIsAccounted DEF PopRecord, DrainStates
<1>4. CASE TakeDropped
    BY <1>4, DrainedRing, TakeIsAccounted DEF TakeDropped, DrainStates
<1>5. CASE ~PopRecord /\ ~TakeDropped
    <2>1. UNCHANGED <<logged, written, d_dropped, d_reported, lost, count_read, thread_at,
                      registrations>>
        <3>1. CASE LoggerStep \/ LearnPushes
            BY <1>5, <3>1
            DEF LoggerStep, CheckStop, LoadSlot, ReadPhase, LearnPushes, PopsEnd, FreeProducer,
                ClearSlot, Rest, DrainUnchanged, thread_vars
        <3>2. CASE RequestStop \/ Join \/ UNCHANGED vars
            BY <3>2 DEF RequestStop, Join, thread_vars, logger_vars, vars
        <3>3. QED BY <3>1, <3>2
    <2>2. QED BY <1>2, <1>5, <2>1, QueuesStay
<1>6. QED BY <1>3, <1>4, <1>5

LEMMA NextKeepsAccounts ==
    ASSUME OwnerInvariant, RingInvariant, AccountInvariant, [Next]_vars
    PROVE  AccountInvariant'
<1>1. RingInvariant'
    BY NextKeepsOrder
<1>2. CASE \E t \in Threads : RegisterBegin(t) \/ Close(t) \/ Log(t)
    BY <1>1, <1>2, ThreadKeepsAccounts, ProducerOf
<1>3. CASE \E t \in ForeignThreads : LogLocked(t)
    BY <1>1, <1>3, ThreadKeepsAccounts DEF Loggers
<1>4. CASE \E t \in Loggers : ThreadStep(t)
    BY <1>1, <1>4, ThreadKeepsAccounts
<1>5. CASE LoggerStep \/ LearnPushes \/ RequestStop \/ Join \/ Terminated \/ UNCHANGED vars
    BY <1>1, <1>5, LoggerKeepsAccounts DEF Terminated
<1>6. QED BY <1>2, <1>3, <1>4, <1>5 DEF Next

\* The number of records of each ring in the log, in the ring, in hand and dropped
\* together is the number logged, and no ring holds more than its capacity (:27-34).
THEOREM AccountsAreKept == Spec => []AccountInvariant
<1>1. OwnerInvariant /\ RingInvariant /\ AccountInvariant /\ [Next]_vars => AccountInvariant'
    BY NextKeepsAccounts
<1>2. QED BY <1>1, InitIsAccounted, RingsAreInOrder, OwnersAgree, PTL DEF Spec

\* A full ring costs records, never the knowledge of how many (:27-34): every record
\* logged is in the log, in its ring, in a thread's hand or counted as dropped, and the
\* losses reported are drops that happened, though a count shared by many threads is
\* added to with a load and a store.
THEOREM RecordsAreAccounted == Spec => []EveryRecordIsAccounted
<1>1. OwnerInvariant /\ RingInvariant /\ AccountInvariant => EveryRecordIsAccounted
    <2> SUFFICES ASSUME OwnerInvariant, RingInvariant, AccountInvariant, NEW p \in Producers
                 PROVE  /\ logged[p] = WrittenOf(p) + Len(d_ring[p].queue)
                                       + Cardinality(Handing(p)) + d_dropped[p]
                        /\ lost[p] <= d_dropped[p]
        BY DEF EveryRecordIsAccounted
    <2>1. Cardinality(Handing(p)) = Held(p)
        <3>1. CASE \E t \in Loggers : producer_of(t) = p /\ thread_at[t] \in HandingStates
            <4>1. PICK t \in Loggers : producer_of(t) = p /\ thread_at[t] \in HandingStates
                BY <3>1
            <4>2. Handing(p) = {t}
                BY <4>1, HeldBy DEF Handing, HandingStates
            <4>3. QED BY <3>1, <4>2, FS_Singleton DEF Held
        <3>2. CASE ~\E t \in Loggers : producer_of(t) = p /\ thread_at[t] \in HandingStates
            <4>1. Handing(p) = {}
                BY <3>2 DEF Handing, HandingStates
            <4>2. QED BY <3>2, <4>1, FS_EmptySet DEF Held
        <3>3. QED BY <3>1, <3>2
    <2>2. RingAccount(p)
        BY AccountTypes
    <2>3. QED BY <2>1, <2>2 DEF RingAccount
<1>2. QED BY <1>1, AccountsAreKept, RingsAreInOrder, OwnersAgree, PTL

-----------------------------------------------------------------------------
(* What is left when a ring, or the Logger, goes.                          *)

\* A live producer has its thread; one that is in no slot yet, or was refused one, has
\* had nothing logged.
LiveHasItsThread ==
    \A t \in Threads : \A n \in 1..MaxRegistrations :
        /\ <<t, n>> \in heap /\ d_phase[<<t, n>>] = "live" =>
              n = registrations[t] /\ thread_at[t] \notin {"outside", "refused"}
        /\ <<t, n>> \notin heap /\ d_phase[<<t, n>>] = "live" => logged[<<t, n>>] = 0
        /\ n = registrations[t] /\ thread_at[t] = "scanning" => logged[<<t, n>>] = 0

\* The destructor is called after every other thread's last call.
StopIsLast ==
    /\ stop_requested => \A t \in Loggers : thread_at[t] = "outside"
    /\ logger_at \in {"exited", "destroyed"} \/ drainer = "destructor" => stop_requested

\* A ring is empty when it is freed: from the moment its phase is read as closed,
\* everything in it is known to the thread that drains.
FreedIsEmpty ==
    /\ \A p \in Producers :
          d_phase[p] = "closed" /\ p \notin heap =>
              d_ring[p].queue = <<>> /\ d_reported[p] = d_dropped[p]
    /\ phase = "closed" =>
          /\ d_ring[producer].known = Len(d_ring[producer].queue)
          /\ logger_at # "popping" => d_ring[producer].queue = <<>>
          /\ logger_at \in {"freeing", "clearing"} => d_reported[producer] = d_dropped[producer]

\* The destructor's pass, with nobody left to log, empties every ring and every slot.
LastPass ==
    /\ logger_at = "destroyed" => drainer = "destructor"
    /\ drainer = "destructor" =>
          /\ logger_at \in DrainStates \union {"loading", "destroyed"}
          /\ \A s \in Slots : s < slot => d_slots[s] = Null
          /\ \A p \in Producers : d_ring[p].known = Len(d_ring[p].queue)
          /\ logger_at \in DrainStates \ {"reading phase"} /\ slot \in Slots => phase = "closed"
          /\ slot \notin Slots =>
                /\ logger_at = "popping" => count + Len(d_ring[Shared].queue) <= k_RING_CAPACITY
                /\ logger_at \in {"taking drops", "destroyed"} => d_ring[Shared].queue = <<>>
                /\ logger_at = "destroyed" => d_reported[Shared] = d_dropped[Shared]
          /\ logger_at = "destroyed" => slot \notin Slots

RestTypes ==
    /\ d_shared_lock \in ForeignThreads \union {Null}
    /\ scanned \in [Threads -> 1..(k_MAX_THREADS + 1)] /\ full_seen \subseteq Threads
    /\ drainer \in {"logger thread", "destructor"} /\ producer \in Producers \union {Null}
    /\ count \in Nat

EndInvariant == LiveHasItsThread /\ StopIsLast /\ FreedIsEmpty /\ LastPass /\ RestTypes

LEMMA InitEnds == Init => EndInvariant
<1> SUFFICES ASSUME Init PROVE EndInvariant
    OBVIOUS
<1>1. /\ heap = {Shared} /\ d_phase = [p \in Producers |-> "live"]
      /\ logged = [p \in Producers |-> 0] /\ thread_at = [t \in Loggers |-> "outside"]
      /\ d_shared_lock = Null /\ full_seen = {} /\ scanned = [t \in Threads |-> 1]
      /\ logger_at = "checking" /\ drainer = "logger thread" /\ stop_requested = FALSE
      /\ producer = Null /\ phase = "live" /\ count = 0
    BY DEF Init
<1>2. LiveHasItsThread
    BY <1>1, ProducerTypes, ProducerOf DEF LiveHasItsThread
<1>3. StopIsLast
    BY <1>1 DEF StopIsLast
<1>4. FreedIsEmpty
    BY <1>1 DEF FreedIsEmpty
<1>5. LastPass
    BY <1>1 DEF LastPass
<1>6. RestTypes
    <2>1. 1 \in 1..(k_MAX_THREADS + 1) /\ 0 \in Nat
        BY SlotTypes
    <2>2. QED BY <1>1, <2>1 DEF RestTypes
<1>7. QED BY <1>2, <1>3, <1>4, <1>5, <1>6 DEF EndInvariant

-----------------------------------------------------------------------------
(* The threads that log.                                                   *)

\* A step of a thread leaves the closed producers and the thread that drains alone, and
\* is none of a thread that has been told of the stop.
LEMMA ThreadLeaves ==
    ASSUME OwnerInvariant, RingInvariant, AccountInvariant, NEW t \in Loggers,
           \/ t \in Threads /\ (RegisterBegin(t) \/ Close(t) \/ Log(t))
           \/ t \in ForeignThreads /\ LogLocked(t)
           \/ ThreadStep(t)
    PROVE  /\ UNCHANGED <<logger_vars, stop_requested, d_reported>>
           /\ ~(stop_requested /\ thread_at[t] = "outside")
           /\ \A p \in Producers : d_phase[p] = "closed" =>
                 /\ d_ring'[p] = d_ring[p] /\ d_dropped'[p] = d_dropped[p]
                 /\ d_phase'[p] = "closed"
<1>1. /\ RingTypes /\ CountTypes /\ d_phase \in [Producers -> {"live", "closed"}]
      /\ Threads \intersect ForeignThreads = {}
    BY LoggerAssumption DEF OwnerInvariant, RingInvariant, AccountInvariant, OwnerTypes
<1>2. /\ UNCHANGED <<logger_vars, stop_requested, d_reported>>
      /\ ~(stop_requested /\ thread_at[t] = "outside")
    <2>1. UNCHANGED <<logger_vars, stop_requested, d_reported>>
        <3>1. CASE \/ t \in Threads /\ (RegisterBegin(t) \/ Close(t) \/ Log(t))
                   \/ t \in ForeignThreads /\ LogLocked(t)
            BY <3>1 DEF RegisterBegin, Close, Log, LogLocked
        <3>2. CASE t \in Threads /\ (TrySlot(t) \/ RegisterFails(t) \/ RefusalReturns(t))
            BY <3>2 DEF TrySlot, RegisterFails, RefusalReturns
        <3>3. CASE LearnPops(t) \/ PushAccepted(t) \/ PushRefused(t)
            BY <3>3 DEF LearnPops, PushAccepted, PushRefused
        <3>4. CASE LoadDropped(t) \/ StoreDropped(t)
            BY <3>4 DEF LoadDropped, StoreDropped
        <3>5. QED BY <3>1, <3>2, <3>3, <3>4 DEF ThreadStep
    <2>2. ASSUME stop_requested, thread_at[t] = "outside" PROVE FALSE
        BY <2>2
        DEF RegisterBegin, Close, Log, LogLocked, ThreadStep, TrySlot, RegisterFails,
            RefusalReturns, LearnPops, PushAccepted, PushRefused, LoadDropped, StoreDropped
    <2>3. QED BY <2>1, <2>2
<1>3. CASE \/ t \in Threads /\ RegisterBegin(t)
           \/ t \in Threads /\ (TrySlot(t) \/ RegisterFails(t) \/ RefusalReturns(t))
           \/ LoadDropped(t)
    <2>1. UNCHANGED <<d_ring, d_dropped, d_phase>>
        BY <1>3 DEF RegisterBegin, TrySlot, RegisterFails, RefusalReturns, LoadDropped
    <2>2. QED BY <2>1, <1>2
<1>4. CASE t \in Threads /\ Close(t)
    <2>1. /\ UNCHANGED <<d_ring, d_dropped>>
          /\ d_phase' = [d_phase EXCEPT ![producer_of(t)] = "closed"]
        BY <1>4 DEF Close
    <2>2. QED BY <2>1, <1>1, <1>2
<1>5. CASE \/ t \in Threads /\ Log(t)
           \/ t \in ForeignThreads /\ LogLocked(t)
           \/ LearnPops(t) \/ PushAccepted(t) \/ PushRefused(t) \/ StoreDropped(t)
    <2>1. d_phase[producer_of(t)] = "live"
        <3>1. CASE t \in Threads /\ Log(t)
            BY <3>1, ProducerOf DEF Log, OwnerInvariant, ThreadsOwn
        <3>2. CASE t \in ForeignThreads /\ LogLocked(t)
            BY <3>2 DEF producer_of, OwnerInvariant, DrainerHolds
        <3>3. CASE LearnPops(t) \/ PushAccepted(t) \/ PushRefused(t) \/ StoreDropped(t)
            BY <3>3, HeldBy DEF LearnPops, PushAccepted, PushRefused, StoreDropped, HandingStates
        <3>4. QED BY <1>5, <3>1, <3>2, <3>3
    <2>2. /\ UNCHANGED d_phase
          /\ d_ring' = d_ring \/ \E ring : d_ring' = [d_ring EXCEPT ![producer_of(t)] = ring]
          /\ \/ d_dropped' = d_dropped
             \/ \E n : d_dropped' = [d_dropped EXCEPT ![producer_of(t)] = n]
        BY <1>5
        DEF Log, LogLocked, Offer, LearnPops, PushAccepted, PushRefused, StoreDropped
    <2>3. QED BY <2>1, <2>2, <1>1, <1>2 DEF RingTypes, CountTypes
<1>6. QED BY <1>3, <1>4, <1>5 DEF ThreadStep

LEMMA ThreadKeepsLife ==
    ASSUME OwnerInvariant, RingInvariant, LiveHasItsThread, NEW t \in Loggers,
           \/ t \in Threads /\ (RegisterBegin(t) \/ Close(t) \/ Log(t))
           \/ t \in ForeignThreads /\ LogLocked(t)
           \/ ThreadStep(t)
    PROVE  LiveHasItsThread'
<1>1. /\ RingTypes /\ thread_at \in [Loggers -> ThreadStates]
      /\ d_phase \in [Producers -> {"live", "closed"}]
      /\ registrations \in [Threads -> 0..MaxRegistrations] /\ MaxRegistrations \in Nat
    BY BoundTypes DEF OwnerInvariant, RingInvariant, OwnerTypes
<1>2. Threads \intersect ForeignThreads = {} /\ Threads \subseteq Loggers
    BY LoggerAssumption DEF Loggers
<1> DEFINE Kept(u, n, heap_, phase_, last, at, total) ==
               /\ <<u, n>> \in heap_ /\ phase_ = "live" =>
                     n = last /\ at \notin {"outside", "refused"}
               /\ <<u, n>> \notin heap_ /\ phase_ = "live" => total = 0
               /\ n = last /\ at = "scanning" => total = 0
<1>3. ASSUME NEW u \in Threads, NEW n \in 1..MaxRegistrations
      PROVE  Kept(u, n, heap, d_phase[<<u, n>>], registrations[u], thread_at[u], logged[<<u, n>>])
    BY DEF LiveHasItsThread
<1>4. SUFFICES ASSUME NEW u \in Threads, NEW n \in 1..MaxRegistrations
               PROVE  Kept(u, n, heap', d_phase'[<<u, n>>], registrations'[u], thread_at'[u],
                           logged'[<<u, n>>])
    BY DEF LiveHasItsThread
<1> DEFINE p == <<u, n>>
<1>5. p \in Producers /\ \A m : p = <<t, m>> <=> u = t /\ n = m
    BY ProducerTypes
<1>6. CASE t \in Threads /\ RegisterBegin(t)
    <2>1. /\ thread_at[t] = "outside" /\ thread_at' = [thread_at EXCEPT ![t] = "scanning"]
          /\ registrations' = [registrations EXCEPT ![t] = @ + 1]
          /\ heap' = heap \union {<<t, registrations'[t]>>} /\ UNCHANGED <<d_phase, logged>>
        BY <1>6 DEF RegisterBegin
    <2>2. CASE u # t
        <3>1. /\ thread_at'[u] = thread_at[u] /\ registrations'[u] = registrations[u]
              /\ p \in heap' <=> p \in heap
            BY <2>1, <2>2, <1>1, <1>2, <1>5
        <3>2. QED BY <2>1, <3>1, <1>3
    <2>3. CASE u = t
        <3>1. /\ thread_at'[t] = "scanning" /\ registrations'[t] = registrations[t] + 1
              /\ heap' = heap \union {<<t, registrations[t] + 1>>}
            BY <2>1, <1>1, <1>2, <1>6
        <3>2. ~(p \in heap /\ d_phase[p] = "live")
            BY <2>1, <2>3, <1>3
        <3>3. n = registrations[t] + 1 => p \notin heap /\ d_phase[p] = "live"
            <4>1. n = registrations[t] + 1 => n > registrations[t]
                BY <1>1, <1>6
            <4>2. QED BY <2>3, <4>1 DEF OwnerInvariant, Registrations
        <3>4. CASE n = registrations[t] + 1
            <4>1. logged[p] = 0 /\ UNCHANGED logged
                BY <2>1, <3>3, <3>4, <1>3
            <4>2. registrations'[u] = n /\ thread_at'[u] = "scanning"
                BY <2>3, <3>1, <3>4
            <4>3. QED BY <4>1, <4>2
        <3>5. CASE n # registrations[t] + 1
            <4>1. p \in heap' <=> p \in heap
                BY <3>1, <3>5, <1>5, <2>3
            <4>2. QED BY <2>1, <2>3, <3>1, <3>2, <3>5, <4>1, <1>3
        <3>6. QED BY <3>4, <3>5
    <2>4. QED BY <2>2, <2>3
<1>7. CASE t \in Threads /\ (TrySlot(t) \/ RefusalReturns(t))
    <2>1. /\ UNCHANGED <<heap, d_phase, registrations, logged>>
          /\ \/ thread_at' = thread_at
             \/ thread_at[t] = "scanning" /\ thread_at' = [thread_at EXCEPT ![t] = "inside"]
             \/ thread_at[t] = "refused" /\ thread_at' = [thread_at EXCEPT ![t] = "outside"]
        BY <1>7 DEF TrySlot, RefusalReturns
    <2>2. \/ thread_at'[u] = thread_at[u]
          \/ thread_at[u] = "scanning" /\ thread_at'[u] = "inside"
          \/ thread_at[u] = "refused" /\ thread_at'[u] = "outside"
        BY <2>1, <1>1, <1>2
    <2>3. QED BY <2>1, <2>2, <1>3
<1>8. CASE t \in Threads /\ RegisterFails(t)
    <2>1. /\ thread_at[t] = "scanning" /\ thread_at' = [thread_at EXCEPT ![t] = "refused"]
          /\ heap' = heap \ {<<t, registrations[t]>>}
          /\ UNCHANGED <<d_phase, registrations, logged>>
        BY <1>8, ProducerOf DEF RegisterFails
    <2>2. CASE u # t
        <3>1. thread_at'[u] = thread_at[u] /\ (p \in heap' <=> p \in heap)
            BY <2>1, <2>2, <1>1, <1>2, <1>5
        <3>2. QED BY <2>1, <3>1, <1>3
    <2>3. CASE u = t
        <3>1. thread_at'[t] = "refused" /\ thread_at[t] = "scanning"
            BY <2>1, <1>1
        <3>2. CASE n = registrations[t]
            <4>1. logged[p] = 0
                BY <2>3, <3>1, <3>2, <1>3
            <4>2. p \notin heap'
                BY <2>1, <2>3, <3>2
            <4>3. QED BY <2>1, <4>1, <4>2
        <3>3. CASE n # registrations[t]
            <4>1. p \in heap' <=> p \in heap
                BY <2>1, <3>3, <1>5
            <4>2. QED BY <2>1, <2>3, <3>1, <3>3, <4>1, <1>3
        <3>4. QED BY <3>2, <3>3
    <2>4. QED BY <2>2, <2>3
<1>9. CASE t \in Threads /\ Close(t)
    <2>1. /\ thread_at[t] = "inside" /\ thread_at' = [thread_at EXCEPT ![t] = "outside"]
          /\ d_phase' = [d_phase EXCEPT ![<<t, registrations[t]>>] = "closed"]
          /\ UNCHANGED <<heap, registrations, logged>>
        BY <1>9, ProducerOf DEF Close
    <2>2. CASE u # t
        <3>1. thread_at'[u] = thread_at[u] /\ d_phase'[p] = d_phase[p]
            BY <2>1, <2>2, <1>1, <1>2, <1>5
        <3>2. QED BY <2>1, <3>1, <1>3
    <2>3. CASE u = t
        <3>1. thread_at'[t] = "outside" /\ thread_at[t] = "inside"
            BY <2>1, <1>1
        <3>2. CASE n = registrations[t]
            <4>1. d_phase'[p] = "closed"
                BY <2>1, <2>3, <3>2, <1>1, <1>5
            <4>2. QED BY <2>3, <3>1, <4>1
        <3>3. CASE n # registrations[t]
            <4>1. d_phase'[p] = d_phase[p]
                BY <2>1, <3>3, <1>1, <1>5
            <4>2. QED BY <2>1, <2>3, <3>1, <3>3, <4>1, <1>3
        <3>4. QED BY <3>2, <3>3
    <2>4. QED BY <2>2, <2>3
<1>10. CASE \/ t \in Threads /\ Log(t)
            \/ t \in ForeignThreads /\ LogLocked(t)
            \/ LearnPops(t) \/ PushAccepted(t) \/ PushRefused(t) \/ LoadDropped(t)
            \/ StoreDropped(t)
    <2>1. UNCHANGED <<heap, d_phase, registrations>>
        BY <1>10
        DEF Log, LogLocked, LearnPops, PushAccepted, PushRefused, LoadDropped, StoreDropped,
            thread_vars
    <2>2. /\ thread_at'[u] \in {"outside", "refused"} <=> thread_at[u] \in {"outside", "refused"}
          /\ thread_at'[u] = "scanning" <=> thread_at[u] = "scanning"
        <3>1. \/ thread_at' = thread_at
              \/ /\ t \in Threads => thread_at[t] \in HandleStates
                 /\ \E place \in HandleStates \union {"outside"} :
                       /\ thread_at' = [thread_at EXCEPT ![t] = place]
                       /\ t \in Threads => place \in HandleStates
            BY <1>2, <1>10
            DEF Log, LogLocked, Offer, LearnPops, PushAccepted, PushRefused, LoadDropped,
                StoreDropped, LogReturns, HandleStates, thread_vars
        <3>2. QED BY <3>1, <1>1, <1>2 DEF HandleStates
    <2>3. logged'[p] = logged[p] \/ (p \in heap /\ thread_at[u] # "scanning")
        <3>1. CASE t \in Threads /\ Log(t)
            <4>1. /\ thread_at[t] = "inside"
                  /\ logged' = [logged EXCEPT ![<<t, registrations[t]>>] = @ + 1]
                  /\ <<t, registrations[t]>> \in heap
                BY <3>1, ProducerOf DEF Log, Offer, OwnerInvariant, ThreadsOwn
            <4>2. QED BY <4>1, <1>1, <1>5 DEF RingTypes
        <3>2. CASE t \in ForeignThreads /\ LogLocked(t)
            <4>1. logged' = [logged EXCEPT ![Shared] = @ + 1] /\ p # Shared
                BY <3>2, ProducerTypes DEF LogLocked, Offer, producer_of
            <4>2. QED BY <4>1, <1>1, <1>5 DEF RingTypes
        <3>3. CASE \/ LearnPops(t) \/ PushAccepted(t) \/ PushRefused(t)
                   \/ LoadDropped(t) \/ StoreDropped(t)
            BY <3>3
            DEF LearnPops, PushAccepted, PushRefused, LoadDropped, StoreDropped, thread_vars
        <3>4. QED BY <1>10, <3>1, <3>2, <3>3
    <2>4. QED BY <2>1, <2>2, <2>3, <1>3
<1>11. QED BY <1>6, <1>7, <1>8, <1>9, <1>10 DEF ThreadStep

\* A thread's step moves no record of a closed ring, and is not the last pass's concern.
LEMMA ThreadKeepsEnds ==
    ASSUME OwnerInvariant, RingInvariant, AccountInvariant, EndInvariant, OwnerInvariant',
           NEW t \in Loggers,
           \/ t \in Threads /\ (RegisterBegin(t) \/ Close(t) \/ Log(t))
           \/ t \in ForeignThreads /\ LogLocked(t)
           \/ ThreadStep(t)
    PROVE  EndInvariant'
<1>1. /\ LiveHasItsThread /\ StopIsLast /\ FreedIsEmpty /\ LastPass /\ RestTypes
      /\ thread_at \in [Loggers -> ThreadStates]
    BY DEF EndInvariant, OwnerInvariant, OwnerTypes
<1>2. /\ UNCHANGED <<logger_at, drainer, slot, producer, phase, count, stop_requested, d_reported>>
      /\ ~(stop_requested /\ thread_at[t] = "outside")
    BY ThreadLeaves DEF logger_vars
<1>3. \A p \in Producers : d_phase[p] = "closed" =>
          d_ring'[p] = d_ring[p] /\ d_dropped'[p] = d_dropped[p] /\ d_phase'[p] = "closed"
    BY ThreadLeaves
<1>4. ~stop_requested
    BY <1>1, <1>2 DEF StopIsLast
<1>5. LiveHasItsThread'
    BY <1>1, ThreadKeepsLife
<1>6. StopIsLast' /\ LastPass'
    BY <1>1, <1>2, <1>4 DEF StopIsLast, LastPass
<1>7. FreedIsEmpty'
    <2>1. ASSUME NEW p \in Producers, d_phase'[p] = "closed", p \notin heap'
          PROVE  d_ring'[p].queue = <<>> /\ d_reported'[p] = d_dropped'[p]
        <3>1. d_phase[p] = "closed" /\ p \notin heap
            <4>1. CASE t \in Threads /\ Close(t)
                <5>1. /\ heap' = heap /\ d_phase' = [d_phase EXCEPT ![producer_of(t)] = "closed"]
                      /\ producer_of(t) \in heap
                    BY <4>1, ProducerOf DEF Close, OwnerInvariant, ThreadsOwn
                <5>2. QED BY <5>1, <2>1 DEF OwnerInvariant, OwnerTypes
            <4>2. CASE t \in Threads /\ RegisterFails(t)
                <5>1. /\ heap' = heap \ {producer_of(t)} /\ d_phase' = d_phase
                      /\ d_phase[producer_of(t)] = "live"
                    BY <4>2, ProducerOf DEF RegisterFails, OwnerInvariant, ThreadsOwn
                <5>2. QED BY <5>1, <2>1
            <4>3. CASE \/ /\ t \in Threads
                          /\ RegisterBegin(t) \/ Log(t) \/ TrySlot(t) \/ RefusalReturns(t)
                       \/ t \in ForeignThreads /\ LogLocked(t)
                       \/ LearnPops(t) \/ PushAccepted(t) \/ PushRefused(t) \/ LoadDropped(t)
                       \/ StoreDropped(t)
                <5>1. d_phase' = d_phase /\ heap \subseteq heap'
                    BY <4>3
                    DEF RegisterBegin, Log, LogLocked, TrySlot, RefusalReturns, LearnPops,
                        PushAccepted, PushRefused, LoadDropped, StoreDropped
                <5>2. QED BY <5>1, <2>1
            <4>4. QED BY <4>1, <4>2, <4>3 DEF ThreadStep
        <3>2. QED BY <3>1, <1>1, <1>2, <1>3 DEF FreedIsEmpty
    <2>2. ASSUME phase' = "closed"
          PROVE  /\ d_ring'[producer'].known = Len(d_ring'[producer'].queue)
                 /\ logger_at' # "popping" => d_ring'[producer'].queue = <<>>
                 /\ logger_at' \in {"freeing", "clearing"} =>
                       d_reported'[producer'] = d_dropped'[producer']
        <3>1. phase = "closed" /\ producer' = producer /\ logger_at' = logger_at
            BY <2>2, <1>2
        <3>2. producer \in Producers /\ d_phase[producer] = "closed"
            BY <3>1, DrainedRing DEF OwnerInvariant, DrainerHolds
        <3>3. QED BY <3>1, <3>2, <1>1, <1>2, <1>3 DEF FreedIsEmpty
    <2>3. QED BY <2>1, <2>2 DEF FreedIsEmpty
<1>8. RestTypes'
    <2>1. d_shared_lock' \in ForeignThreads \union {Null}
        BY <1>1
        DEF RestTypes, RegisterBegin, Close, Log, LogLocked, ThreadStep, TrySlot, RegisterFails,
            RefusalReturns, LearnPops, PushAccepted, PushRefused, LoadDropped, StoreDropped,
            LogReturns
    <2>2. scanned' \in [Threads -> 1..(k_MAX_THREADS + 1)]
        <3>1. \/ scanned' = scanned
              \/ t \in Threads /\ scanned' = [scanned EXCEPT ![t] = 1]
              \/ t \in Threads /\ scanned[t] \in Slots /\ scanned' = [scanned EXCEPT ![t] = @ + 1]
            <4>1. CASE t \in Threads /\ (TrySlot(t) \/ RefusalReturns(t))
                BY <4>1 DEF TrySlot, RefusalReturns
            <4>2. CASE \/ /\ t \in Threads
                          /\ RegisterBegin(t) \/ Close(t) \/ Log(t) \/ RegisterFails(t)
                       \/ t \in ForeignThreads /\ LogLocked(t)
                       \/ LearnPops(t) \/ PushAccepted(t) \/ PushRefused(t) \/ LoadDropped(t)
                       \/ StoreDropped(t)
                BY <4>2
                DEF RegisterBegin, Close, Log, LogLocked, RegisterFails, LearnPops, PushAccepted,
                    PushRefused, LoadDropped, StoreDropped, thread_vars
            <4>3. QED BY <4>1, <4>2 DEF ThreadStep
        <3>2. \A s \in Slots : s + 1 \in 1..(k_MAX_THREADS + 1)
            BY SlotTypes DEF Slots
        <3>3. 1 \in 1..(k_MAX_THREADS + 1)
            BY SlotTypes
        <3>4. scanned \in [Threads -> 1..(k_MAX_THREADS + 1)]
            BY <1>1 DEF RestTypes
        <3>5. QED BY <3>1, <3>2, <3>3, <3>4
    <2>3. full_seen' \subseteq Threads
        <3>1. CASE t \in Threads /\ (RegisterBegin(t) \/ TrySlot(t) \/ RefusalReturns(t))
            BY <3>1, <1>1 DEF RegisterBegin, TrySlot, RefusalReturns, RestTypes
        <3>2. CASE \/ t \in Threads /\ (Close(t) \/ Log(t) \/ RegisterFails(t))
                   \/ t \in ForeignThreads /\ LogLocked(t)
                   \/ LearnPops(t) \/ PushAccepted(t) \/ PushRefused(t) \/ LoadDropped(t)
                   \/ StoreDropped(t)
            BY <3>2, <1>1
            DEF Close, Log, LogLocked, RegisterFails, LearnPops, PushAccepted, PushRefused,
                LoadDropped, StoreDropped, thread_vars, RestTypes
        <3>3. QED BY <3>1, <3>2 DEF ThreadStep
    <2>4. QED BY <2>1, <2>2, <2>3, <1>1, <1>2 DEF RestTypes
<1>9. QED BY <1>5, <1>6, <1>7, <1>8 DEF EndInvariant

-----------------------------------------------------------------------------
(* The thread that drains.                                                 *)

LEMMA DrainLeaves ==
    ASSUME LoggerStep \/ LearnPushes
    PROVE  UNCHANGED <<d_shared_lock, thread_at, registrations, scanned, count_read, full_seen,
                       logged, stop_requested, drainer, d_phase, d_dropped>>
<1>1. CASE CheckStop \/ LoadSlot \/ ReadPhase
    BY <1>1 DEF CheckStop, LoadSlot, ReadPhase, DrainUnchanged, thread_vars
<1>2. CASE LearnPushes \/ PopRecord \/ PopsEnd
    BY <1>2 DEF LearnPushes, PopRecord, PopsEnd, DrainUnchanged, thread_vars
<1>3. CASE TakeDropped \/ FreeProducer \/ ClearSlot \/ Rest
    BY <1>3 DEF TakeDropped, FreeProducer, ClearSlot, Rest, DrainUnchanged, thread_vars
<1>4. QED BY <1>1, <1>2, <1>3 DEF LoggerStep

LEMMA LoggerKeepsLife ==
    ASSUME OwnerInvariant, LiveHasItsThread,
           LoggerStep \/ LearnPushes \/ RequestStop \/ Join \/ UNCHANGED vars
    PROVE  LiveHasItsThread'
<1>1. UNCHANGED <<d_phase, registrations, thread_at, logged>>
    <2>1. CASE LoggerStep \/ LearnPushes
        BY <2>1, DrainLeaves
    <2>2. CASE RequestStop \/ Join \/ UNCHANGED vars
        BY <2>2 DEF RequestStop, Join, vars, thread_vars
    <2>3. QED BY <2>1, <2>2
<1>2. CASE FreeProducer
    <2>1. heap' = heap \ {producer} /\ d_phase[producer] = "closed"
        BY <1>2 DEF FreeProducer, OwnerInvariant, DrainerHolds
    <2>2. QED BY <2>1, <1>1 DEF LiveHasItsThread
<1>3. CASE ~FreeProducer
    <2>1. heap' = heap
        BY <1>3
        DEF LoggerStep, LearnPushes, CheckStop, LoadSlot, ReadPhase, PopRecord, PopsEnd,
            TakeDropped, ClearSlot, Rest, RequestStop, Join, vars
    <2>2. QED BY <2>1, <1>1 DEF LiveHasItsThread
<1>4. QED BY <1>2, <1>3

LEMMA LoggerKeepsStop ==
    ASSUME StopIsLast,
           LoggerStep \/ LearnPushes \/ RequestStop \/ Join \/ UNCHANGED vars
    PROVE  StopIsLast'
<1>1. CASE LoggerStep \/ LearnPushes
    <2>1. UNCHANGED <<thread_at, stop_requested, drainer>>
        BY <1>1, DrainLeaves
    <2>2. logger_at' \in {"exited", "destroyed"} => stop_requested
        <3>1. CASE CheckStop
            BY <3>1 DEF CheckStop
        <3>2. CASE LoadSlot \/ ReadPhase \/ LearnPushes \/ PopRecord \/ PopsEnd
            BY <3>2 DEF LoadSlot, ReadPhase, LearnPushes, PopRecord, PopsEnd
        <3>3. CASE TakeDropped \/ ClearSlot
            BY <3>3 DEF TakeDropped, ClearSlot, RingDone, StopIsLast
        <3>4. CASE FreeProducer \/ Rest
            BY <3>4 DEF FreeProducer, Rest
        <3>5. QED BY <1>1, <3>1, <3>2, <3>3, <3>4 DEF LoggerStep
    <2>3. QED BY <2>1, <2>2 DEF StopIsLast
<1>2. CASE RequestStop
    <2>1. /\ \A t \in Loggers : thread_at[t] = "outside"
          /\ stop_requested' = TRUE /\ UNCHANGED thread_at
        BY <1>2 DEF RequestStop, thread_vars
    <2>2. QED BY <2>1 DEF StopIsLast
<1>3. CASE Join
    <2>1. logger_at = "exited" /\ UNCHANGED <<thread_at, stop_requested>>
        BY <1>3 DEF Join, thread_vars
    <2>2. QED BY <2>1 DEF StopIsLast
<1>4. CASE UNCHANGED vars
    BY <1>4 DEF StopIsLast, vars, thread_vars, logger_vars
<1>5. QED BY <1>1, <1>2, <1>3, <1>4

LEMMA SynchronizedFields ==
    ASSUME RingTypes, NEW p \in Producers, d_ring'[p] = Synchronized(d_ring[p])
    PROVE  /\ d_ring'[p].queue = d_ring[p].queue /\ d_ring'[p].unseen = d_ring[p].unseen
           /\ d_ring'[p].known = Len(d_ring[p].queue)
BY RingFields DEF Synchronized, RingStates

\* What is known of a ring that is popped, and what is in it.
LEMMA PoppedLengths ==
    ASSUME OwnerInvariant, RingInvariant, PopRecord, NEW p \in Producers, p = producer
    PROVE  /\ d_ring[p].known \in Nat \ {0} /\ Len(d_ring[p].queue) \in Nat \ {0}
           /\ d_ring'[p].known = d_ring[p].known - 1
           /\ Len(d_ring'[p].queue) = Len(d_ring[p].queue) - 1
           /\ \A q \in Producers \ {p} : d_ring'[q] = d_ring[q]
<1>1. RingTypes
    BY DEF RingInvariant
<1>2. d_ring[p].known > 0 /\ d_ring' = [d_ring EXCEPT ![p] = Popped(@)]
    BY DEF PopRecord
<1>3. d_ring'[p] = Popped(d_ring[p]) /\ \A q \in Producers \ {p} : d_ring'[q] = d_ring[q]
    BY <1>1, <1>2 DEF RingTypes
<1>4. /\ d_ring'[p].queue = Tail(d_ring[p].queue) /\ d_ring'[p].known = d_ring[p].known - 1
    BY <1>1, <1>3, PoppedFields
<1>5. /\ d_ring[p].known \in Nat \ {0} /\ d_ring[p].queue \in Seq(Nat)
      /\ Len(d_ring[p].queue) \in Nat \ {0}
    BY <1>1, <1>2, RingFields
<1>6. Len(Tail(d_ring[p].queue)) = Len(d_ring[p].queue) - 1
    BY <1>5
<1>7. QED BY <1>3, <1>4, <1>5, <1>6

LEMMA LoggerKeepsFreed ==
    ASSUME OwnerInvariant, RingInvariant, AccountInvariant, FreedIsEmpty,
           LoggerStep \/ LearnPushes \/ RequestStop \/ Join \/ UNCHANGED vars
    PROVE  FreedIsEmpty'
<1>1. RingTypes /\ CountTypes
    BY DEF RingInvariant, AccountInvariant
<1>2. UNCHANGED <<d_phase, d_dropped>>
    <2>1. CASE RequestStop \/ Join \/ UNCHANGED vars
        BY <2>1 DEF RequestStop, Join, vars
    <2>2. QED BY <2>1, DrainLeaves
<1>3. phase = "closed" =>
          /\ logger_at \in DrainStates /\ producer \in Producers
          /\ d_ring[producer].known = Len(d_ring[producer].queue)
          /\ logger_at # "popping" => d_ring[producer].queue = <<>>
          /\ logger_at \in {"freeing", "clearing"} => d_reported[producer] = d_dropped[producer]
    BY DrainedRing DEF FreedIsEmpty, OwnerInvariant, DrainerHolds
<1>4. ASSUME NEW p \in Producers, d_phase'[p] = "closed", p \notin heap'
      PROVE  d_ring'[p].queue = <<>> /\ d_reported'[p] = d_dropped'[p]
    <2>1. ASSUME p \notin heap
          PROVE  d_ring[p].queue = <<>> /\ d_reported[p] = d_dropped[p]
        BY <1>2, <1>4, <2>1 DEF FreedIsEmpty
    <2>2. CASE FreeProducer
        <3>1. /\ logger_at = "freeing" /\ heap' = heap \ {producer}
              /\ UNCHANGED <<d_ring, d_reported>> /\ phase = "closed"
            BY <2>2 DEF FreeProducer, OwnerInvariant, DrainerHolds
        <3>2. QED BY <1>2, <1>3, <1>4, <2>1, <3>1
    <2>3. CASE PopRecord
        <3>1. UNCHANGED <<heap, d_reported>>
            BY <2>3 DEF PopRecord
        <3>2. CASE p = producer
            <4>1. Len(d_ring[p].queue) # 0
                BY <2>3, <3>2, PoppedLengths
            <4>2. QED BY <1>4, <2>1, <3>1, <4>1
        <3>3. CASE p # producer
            <4>1. producer \in Producers
                BY <2>3, DrainedRing DEF PopRecord, DrainStates
            <4>2. d_ring'[p] = d_ring[p]
                BY <2>3, <3>3, <4>1, PoppedLengths
            <4>3. QED BY <1>2, <1>4, <2>1, <3>1, <4>2
        <3>4. QED BY <3>2, <3>3
    <2>4. CASE TakeDropped
        <3>1. /\ UNCHANGED <<heap, d_ring>>
              /\ d_reported' = [d_reported EXCEPT ![producer] = d_dropped[producer]]
            BY <2>4 DEF TakeDropped
        <3>2. d_reported'[p] = d_reported[p] \/ d_reported'[p] = d_dropped[p]
            BY <3>1
        <3>3. QED BY <1>2, <1>4, <2>1, <3>1, <3>2
    <2>5. CASE ~FreeProducer /\ ~PopRecord /\ ~TakeDropped
        <3>1. UNCHANGED <<heap, d_reported>>
            BY <2>5
            DEF LoggerStep, LearnPushes, CheckStop, LoadSlot, ReadPhase, PopsEnd, ClearSlot, Rest,
                RequestStop, Join, vars
        <3>2. d_ring'[p].queue = d_ring[p].queue
            BY <2>5, QueuesStay
        <3>3. QED BY <1>2, <1>4, <2>1, <3>1, <3>2
    <2>6. QED BY <2>2, <2>3, <2>4, <2>5
<1>5. ASSUME phase' = "closed"
      PROVE  /\ d_ring'[producer'].known = Len(d_ring'[producer'].queue)
             /\ logger_at' # "popping" => d_ring'[producer'].queue = <<>>
             /\ logger_at' \in {"freeing", "clearing"} =>
                   d_reported'[producer'] = d_dropped'[producer']
    <2>1. CASE ReadPhase
        <3>1. /\ producer' = producer /\ logger_at' = "popping" /\ logger_at \in DrainStates
              /\ d_ring' = [d_ring EXCEPT ![producer] = Synchronized(@)]
            BY <1>5, <2>1 DEF ReadPhase, DrainStates
        <3>2. PICK p \in Producers : p = producer
            BY <3>1, DrainedRing
        <3>3. d_ring'[p] = Synchronized(d_ring[p])
            BY <1>1, <3>1, <3>2 DEF RingTypes
        <3>4. d_ring'[p].known = Len(d_ring'[p].queue)
            BY <1>1, <3>3, SynchronizedFields
        <3>5. QED BY <3>1, <3>2, <3>4
    <2>2. CASE LearnPushes
        <3>1. PICK known \in 1..Len(d_ring[producer].queue) : TRUE
            BY <2>2 DEF LearnPushes
        <3>2. d_ring[producer].known = 0 /\ phase = "closed"
            BY <1>5, <2>2 DEF LearnPushes
        <3>3. Len(d_ring[producer].queue) = 0
            BY <1>3, <3>2
        <3>4. QED BY <3>1, <3>3
    <2>3. CASE PopRecord
        <3>1. logger_at' = "popping" /\ producer' = producer /\ phase = "closed"
            BY <1>5, <2>3 DEF PopRecord
        <3>2. PICK p \in Producers : p = producer
            BY <1>3, <3>1
        <3>3. d_ring[p].known = Len(d_ring[p].queue)
            BY <1>3, <3>1, <3>2
        <3>4. QED BY <2>3, <3>1, <3>2, <3>3, PoppedLengths
    <2>4. CASE PopsEnd
        <3>1. /\ phase = "closed" /\ d_ring[producer].known = 0 /\ producer' = producer
              /\ d_ring' = [d_ring EXCEPT ![producer].pop_answer = <<>>]
              /\ logger_at' = "taking drops"
            BY <1>5, <2>4 DEF PopsEnd, WholePass
        <3>2. PICK p \in Producers : p = producer
            BY <1>3, <3>1
        <3>3. d_ring'[p] = [d_ring[p] EXCEPT !.pop_answer = <<>>]
            BY <1>1, <3>1, <3>2 DEF RingTypes
        <3>4. d_ring'[p].queue = d_ring[p].queue /\ d_ring'[p].known = d_ring[p].known
            BY <1>1, <3>3, RingFields DEF RingStates
        <3>5. Len(d_ring[p].queue) = 0 /\ d_ring[p].queue \in Seq(Nat)
            BY <1>1, <1>3, <3>1, <3>2, RingFields
        <3>6. d_ring[p].queue = <<>>
            BY <3>5, EmptySeq
        <3>7. QED BY <3>1, <3>2, <3>4, <3>5, <3>6
    <2>5. CASE TakeDropped
        <3>1. phase = "closed"
            BY <1>5, <2>5 DEF TakeDropped, RingDone
        <3>2. /\ producer' = producer /\ logger_at = "taking drops" /\ logger_at' = "freeing"
              /\ d_reported' = [d_reported EXCEPT ![producer] = d_dropped[producer]]
              /\ UNCHANGED d_ring
            BY <2>5, <3>1 DEF TakeDropped
        <3>3. PICK p \in Producers : p = producer
            BY <1>3, <3>1
        <3>4. d_ring'[p].known = Len(d_ring'[p].queue) /\ d_ring'[p].queue = <<>>
            BY <1>3, <3>1, <3>2, <3>3
        <3>5. d_reported'[p] = d_dropped'[p]
            BY <1>1, <1>2, <3>2, <3>3 DEF CountTypes
        <3>6. QED BY <3>2, <3>3, <3>4, <3>5
    <2>6. CASE FreeProducer \/ RequestStop \/ UNCHANGED vars
        <3>1. /\ UNCHANGED <<phase, producer, d_ring, d_reported>>
              /\ logger_at' = logger_at \/ logger_at = "freeing"
            BY <2>6 DEF FreeProducer, RequestStop, vars, logger_vars
        <3>2. QED BY <1>2, <1>3, <1>5, <3>1
    <2>7. CASE ClearSlot \/ CheckStop \/ LoadSlot \/ Rest \/ Join
        <3>1. CASE ClearSlot
            BY <1>5, <3>1 DEF ClearSlot, RingDone
        <3>2. CASE CheckStop \/ LoadSlot \/ Rest \/ Join
            <4>1. phase = "closed" /\ logger_at \notin DrainStates
                BY <1>5, <3>2 DEF CheckStop, LoadSlot, Rest, Join, DrainStates
            <4>2. QED BY <1>3, <4>1
        <3>3. QED BY <2>7, <3>1, <3>2
    <2>8. QED BY <2>1, <2>2, <2>3, <2>4, <2>5, <2>6, <2>7 DEF LoggerStep
<1>6. QED BY <1>4, <1>5 DEF FreedIsEmpty

\* When the destructor drains no thread has a producer, so every slot that is taken holds a
\* closed one, and an open one that is not allocated was never used.
LEMMA DestructorsRings ==
    ASSUME OwnerInvariant, LiveHasItsThread, StopIsLast, stop_requested
    PROVE  /\ \A t \in Loggers : thread_at[t] = "outside"
           /\ \A p \in Registered : d_phase[p] = "live" => p \notin heap /\ logged[p] = 0
           /\ \A p \in Producers : Held(p) = 0
<1>1. \A t \in Loggers : thread_at[t] = "outside"
    BY DEF StopIsLast
<1>2. ASSUME NEW p \in Registered, d_phase[p] = "live"
      PROVE  p \notin heap /\ logged[p] = 0
    <2>1. PICK t \in Threads, n \in 1..MaxRegistrations : p = <<t, n>>
        BY ProducerTypes
    <2>2. thread_at[t] = "outside"
        BY <1>1, ProducerOf
    <2>3. QED BY <1>2, <2>1, <2>2 DEF LiveHasItsThread
<1>3. \A p \in Producers : Held(p) = 0
    BY <1>1 DEF Held, HandingStates
<1>4. QED BY <1>1, <1>2, <1>3

LEMMA LoggerKeepsLast ==
    ASSUME OwnerInvariant, RingInvariant, AccountInvariant, EndInvariant,
           LoggerStep \/ LearnPushes \/ RequestStop \/ Join \/ UNCHANGED vars
    PROVE  LastPass'
<1>1. /\ RingTypes /\ CountTypes /\ OwnerTypes /\ SlotsOwn /\ DrainerHolds
      /\ LiveHasItsThread /\ StopIsLast /\ FreedIsEmpty /\ LastPass /\ RestTypes
    BY DEF OwnerInvariant, RingInvariant, AccountInvariant, EndInvariant
<1>2. slot \in Nat /\ count \in Nat /\ (\A s \in Slots : s \in Nat)
    <2>1. k_MAX_THREADS \in Nat
        BY SlotTypes
    <2>2. slot \in 1..(k_MAX_THREADS + 1) /\ count \in Nat
        BY <1>1 DEF OwnerTypes, RestTypes
    <2>3. QED BY <2>1, <2>2 DEF Slots
<1>3. CASE Join
    <2>1. /\ drainer' = "destructor" /\ logger_at' = "loading" /\ slot' = 1
          /\ d_ring' = [p \in Producers |-> Synchronized(d_ring[p])]
        BY <1>3 DEF Join
    <2>2. \A p \in Producers : d_ring'[p].known = Len(d_ring'[p].queue)
        BY <1>1, <2>1, SynchronizedFields
    <2>3. slot' \in Slots /\ \A s \in Slots : ~(s < slot')
        BY <2>1, SlotTypes DEF Slots
    <2>4. QED BY <2>1, <2>2, <2>3 DEF LastPass, DrainStates
<1>4. CASE ~Join /\ drainer # "destructor"
    <2>1. drainer' = drainer /\ logger_at # "destroyed"
        <3>1. CASE RequestStop \/ UNCHANGED vars
            BY <1>1, <1>4, <3>1 DEF RequestStop, vars, logger_vars, LastPass
        <3>2. QED BY <1>1, <1>4, <3>1, DrainLeaves DEF LastPass
    <2>2. logger_at' # "destroyed"
        <3>1. CASE CheckStop \/ LoadSlot \/ ReadPhase \/ LearnPushes
            BY <3>1, <2>1 DEF CheckStop, LoadSlot, ReadPhase, LearnPushes
        <3>2. CASE PopRecord \/ PopsEnd \/ FreeProducer \/ Rest
            BY <3>2, <2>1 DEF PopRecord, PopsEnd, FreeProducer, Rest
        <3>3. CASE TakeDropped \/ ClearSlot
            BY <1>4, <3>3 DEF TakeDropped, ClearSlot, RingDone
        <3>4. CASE RequestStop \/ UNCHANGED vars
            BY <2>1, <3>4 DEF RequestStop, vars, logger_vars
        <3>5. QED BY <1>4, <3>1, <3>2, <3>3, <3>4 DEF LoggerStep
    <2>3. QED BY <1>4, <2>1, <2>2 DEF LastPass
<1>5. CASE ~Join /\ drainer = "destructor"
    <2>1. /\ stop_requested
          /\ \A p \in Registered : d_phase[p] = "live" => p \notin heap
        BY <1>1, <1>5, DestructorsRings DEF StopIsLast
    <2>2. /\ logger_at \in DrainStates \union {"loading", "destroyed"}
          /\ \A s \in Slots : s < slot => d_slots[s] = Null
          /\ \A p \in Producers : d_ring[p].known = Len(d_ring[p].queue)
          /\ logger_at \in DrainStates \ {"reading phase"} /\ slot \in Slots => phase = "closed"
          /\ slot \notin Slots =>
                /\ logger_at = "popping" => count + Len(d_ring[Shared].queue) <= k_RING_CAPACITY
                /\ logger_at \in {"taking drops", "destroyed"} => d_ring[Shared].queue = <<>>
                /\ logger_at = "destroyed" => d_reported[Shared] = d_dropped[Shared]
          /\ logger_at = "destroyed" => slot \notin Slots
        BY <1>1, <1>5 DEF LastPass
    <2>3. logger_at \in DrainStates =>
              /\ producer \in Producers
              /\ slot \notin Slots => producer = Shared /\ phase = "live"
        BY <1>1, DrainedRing DEF DrainerHolds, OwnerTypes
    <2>4. Len(d_ring[Shared].queue) \in Nat /\ d_ring[Shared].queue \in Seq(Nat)
        BY <1>1, ProducerTypes, RingFields
    <2>5. CASE UNCHANGED vars
        BY <1>1, <2>5 DEF vars, logger_vars, LastPass
    <2>6. CASE LoadSlot
        <3>1. /\ logger_at = "loading"
              /\ UNCHANGED <<d_slots, d_ring, drainer>>
            BY <2>6 DEF LoadSlot, DrainUnchanged
        <3>2. CASE slot \in Slots /\ d_slots[slot] = Null
            <4>1. slot' = slot + 1 /\ logger_at' = "loading"
                BY <2>6, <3>1, <3>2 DEF LoadSlot
            <4>2. \A s \in Slots : s < slot' => d_slots'[s] = Null
                BY <1>2, <2>2, <3>1, <3>2, <4>1
            <4>3. QED BY <2>2, <3>1, <4>1, <4>2 DEF LastPass, DrainStates
        <3>3. CASE ~(slot \in Slots /\ d_slots[slot] = Null)
            <4>1. slot' = slot /\ logger_at' = "reading phase"
                BY <2>6, <3>3 DEF LoadSlot
            <4>2. QED BY <2>2, <3>1, <4>1 DEF LastPass, DrainStates
        <3>4. QED BY <3>2, <3>3
    <2>7. CASE ReadPhase
        <3>1. /\ logger_at = "reading phase" /\ logger_at' = "popping" /\ count' = 0
              /\ phase' = d_phase[producer] /\ producer \in Producers
              /\ UNCHANGED <<d_slots, slot, drainer>>
              /\ d_ring' = IF phase' = "closed"
                           THEN [d_ring EXCEPT ![producer] = Synchronized(@)] ELSE d_ring
            BY <2>3, <2>7 DEF ReadPhase, DrainUnchanged, DrainStates
        <3>2. ASSUME NEW p \in Producers
              PROVE  d_ring'[p].known = Len(d_ring'[p].queue)
            <4>1. d_ring'[p] = d_ring[p] \/ d_ring'[p] = Synchronized(d_ring[p])
                BY <1>1, <3>1 DEF RingTypes
            <4>2. QED BY <1>1, <2>2, <4>1, SynchronizedFields
        <3>3. ASSUME slot \in Slots PROVE phase' = "closed"
            <4>1. producer = d_slots[slot] /\ producer \in Registered /\ producer \in heap
                BY <1>1, <3>1, <3>3 DEF DrainerHolds, SlotsOwn, OwnerTypes, DrainStates
            <4>2. QED BY <1>1, <2>1, <3>1, <4>1 DEF OwnerTypes
        <3>4. ASSUME slot \notin Slots
              PROVE  count' + Len(d_ring'[Shared].queue) <= k_RING_CAPACITY
            <4>1. producer = Shared /\ d_phase[Shared] = "live"
                BY <1>1, <3>1, <3>4 DEF DrainerHolds, DrainStates
            <4>2. d_ring' = d_ring
                BY <3>1, <4>1
            <4>3. /\ Len(d_ring[Shared].queue) + d_ring[Shared].unseen <= k_RING_CAPACITY
                  /\ d_ring[Shared].unseen \in Nat
                BY <1>1, ProducerTypes, RingFields DEF AccountInvariant, RingAccount
            <4>4. \A n, m, c \in Nat : n + m <= c => 0 + n <= c
                OBVIOUS
            <4>5. Len(d_ring'[Shared].queue) = Len(d_ring[Shared].queue) /\ count' = 0
                BY <3>1, <4>2
            <4>6. QED BY <2>4, <4>3, <4>4, <4>5, BoundTypes
        <3>5. QED BY <2>2, <3>1, <3>2, <3>3, <3>4 DEF LastPass, DrainStates
    <2>8. CASE PopRecord
        <3>1. /\ logger_at = "popping" /\ logger_at' = "popping" /\ count' = count + 1
              /\ UNCHANGED <<d_slots, slot, phase, drainer>>
            BY <2>8 DEF PopRecord, DrainUnchanged
        <3>2. PICK p \in Producers : p = producer
            BY <2>3, <3>1 DEF DrainStates
        <3>3. /\ Len(d_ring[p].queue) \in Nat
              /\ d_ring'[p].known = d_ring[p].known - 1
              /\ Len(d_ring'[p].queue) = Len(d_ring[p].queue) - 1
              /\ \A q \in Producers \ {p} : d_ring'[q] = d_ring[q]
            BY <2>8, <3>2, PoppedLengths
        <3>4. \A q \in Producers : d_ring'[q].known = Len(d_ring'[q].queue)
            BY <2>2, <3>3
        <3>5. ASSUME slot \notin Slots
              PROVE  count' + Len(d_ring'[Shared].queue) <= k_RING_CAPACITY
            <4>1. p = Shared /\ count + Len(d_ring[Shared].queue) <= k_RING_CAPACITY
                BY <2>2, <2>3, <3>1, <3>2, <3>5 DEF DrainStates
            <4>2. count' + Len(d_ring'[Shared].queue) = count + Len(d_ring[Shared].queue)
                <5>1. \A n, m \in Nat : (m + 1) + (n - 1) = m + n
                    OBVIOUS
                <5>2. QED BY <1>2, <3>1, <3>3, <4>1, <5>1
            <4>3. QED BY <4>1, <4>2
        <3>6. slot \in Slots => phase = "closed"
            BY <2>2, <3>1 DEF DrainStates
        <3>7. QED BY <2>2, <3>1, <3>4, <3>5, <3>6 DEF LastPass, DrainStates
    <2>9. CASE PopsEnd
        <3>1. /\ logger_at = "popping" /\ logger_at' = "taking drops"
              /\ UNCHANGED <<d_slots, slot, phase, drainer>>
              /\ \/ WholePass /\ d_ring' = d_ring
                 \/ /\ d_ring[producer].known = 0
                    /\ d_ring' = [d_ring EXCEPT ![producer].pop_answer = <<>>]
            BY <2>9 DEF PopsEnd, DrainUnchanged
        <3>2. producer \in Producers /\ (slot \in Slots => phase = "closed")
            BY <2>2, <2>3, <3>1 DEF DrainStates
        <3>3. ASSUME NEW p \in Producers
              PROVE  /\ d_ring'[p].queue = d_ring[p].queue
                     /\ d_ring'[p].known = Len(d_ring'[p].queue)
            <4>1. d_ring'[p] = d_ring[p] \/ d_ring'[p] = [d_ring[p] EXCEPT !.pop_answer = <<>>]
                BY <1>1, <3>1 DEF RingTypes
            <4>2. d_ring'[p].queue = d_ring[p].queue /\ d_ring'[p].known = d_ring[p].known
                BY <1>1, <4>1, RingFields DEF RingStates
            <4>3. QED BY <2>2, <4>2
        <3>4. ASSUME slot \notin Slots PROVE d_ring[Shared].queue = <<>>
            <4>1. count + Len(d_ring[Shared].queue) <= k_RING_CAPACITY /\ producer = Shared
                BY <2>2, <2>3, <3>1, <3>4 DEF DrainStates
            <4>2. CASE WholePass
                <5>1. Len(d_ring[Shared].queue) = 0
                    BY <1>2, <2>4, <4>1, <4>2, BoundTypes DEF WholePass
                <5>2. QED BY <2>4, <5>1, EmptySeq
            <4>3. CASE d_ring[producer].known = 0
                <5>1. Len(d_ring[Shared].queue) = 0
                    BY <2>2, <3>2, <4>1, <4>3
                <5>2. QED BY <2>4, <5>1, EmptySeq
            <4>4. QED BY <3>1, <4>2, <4>3
        <3>5. d_ring'[Shared].queue = d_ring[Shared].queue
            BY <3>3, ProducerTypes
        <3>6. QED BY <2>2, <3>1, <3>2, <3>3, <3>4, <3>5 DEF LastPass, DrainStates
    <2>10. CASE TakeDropped
        <3>1. /\ logger_at = "taking drops"
              /\ d_reported' = [d_reported EXCEPT ![producer] = d_dropped[producer]]
              /\ UNCHANGED <<d_slots, d_ring, d_dropped, drainer>>
            BY <2>10 DEF TakeDropped, DrainUnchanged
        <3>2. CASE phase = "closed"
            <4>1. logger_at' = "freeing" /\ UNCHANGED <<slot, phase>> /\ slot \in Slots
                BY <1>1, <2>10, <3>2 DEF TakeDropped, DrainerHolds
            <4>2. QED BY <2>2, <3>1, <3>2, <4>1 DEF LastPass, DrainStates
        <3>3. CASE phase # "closed"
            <4>1. slot \notin Slots
                BY <2>2, <3>1, <3>3 DEF DrainStates
            <4>2. slot' = slot /\ logger_at' = "destroyed"
                BY <1>5, <2>10, <3>3, <4>1 DEF TakeDropped, RingDone
            <4>3. d_reported'[Shared] = d_dropped[Shared]
                BY <1>1, <2>3, <3>1, <4>1 DEF DrainStates, CountTypes
            <4>4. d_ring[Shared].queue = <<>>
                BY <2>2, <3>1, <4>1
            <4>5. QED BY <1>5, <2>2, <3>1, <4>1, <4>2, <4>3, <4>4 DEF LastPass, DrainStates
        <3>4. QED BY <3>2, <3>3
    <2>11. CASE FreeProducer
        <3>1. /\ logger_at = "freeing" /\ logger_at' = "clearing"
              /\ UNCHANGED <<d_slots, d_ring, slot, phase, drainer>>
            BY <2>11 DEF FreeProducer, DrainUnchanged
        <3>2. phase = "closed" /\ slot \in Slots
            BY <1>1, <3>1 DEF DrainerHolds
        <3>3. QED BY <2>2, <3>1, <3>2 DEF LastPass, DrainStates
    <2>12. CASE ClearSlot
        <3>1. slot \in Slots
            BY <1>1, <2>12 DEF ClearSlot, DrainerHolds
        <3>2. /\ slot' = slot + 1 /\ logger_at' = "loading"
              /\ d_slots' = [d_slots EXCEPT ![slot] = Null]
              /\ UNCHANGED <<d_ring, drainer>>
            BY <2>12, <3>1 DEF ClearSlot, RingDone, DrainUnchanged
        <3>3. \A s \in Slots : s < slot' => d_slots'[s] = Null
            <4> SUFFICES ASSUME NEW s \in Slots, s < slot + 1 PROVE d_slots'[s] = Null
                BY <3>2
            <4>1. s = slot \/ s < slot
                BY <1>2
            <4>2. QED BY <1>1, <2>2, <3>2, <4>1 DEF OwnerTypes
        <3>4. QED BY <2>2, <3>2, <3>3 DEF LastPass, DrainStates
    <2>13. CASE LearnPushes
        <3>1. logger_at = "popping" /\ d_ring[producer].known = 0
              /\ \E known \in 1..Len(d_ring[producer].queue) : TRUE
            BY <2>13 DEF LearnPushes
        <3>2. d_ring[producer].known = Len(d_ring[producer].queue)
            BY <2>2, <2>3, <3>1 DEF DrainStates
        <3>3. QED BY <3>1, <3>2
    <2>14. CASE CheckStop \/ Rest \/ RequestStop
        BY <2>1, <2>2, <2>14 DEF CheckStop, Rest, RequestStop, DrainStates
    <2>15. QED
        BY <1>5, <2>5, <2>6, <2>7, <2>8, <2>9, <2>10, <2>11, <2>12, <2>13, <2>14 DEF LoggerStep
<1>6. QED BY <1>3, <1>4, <1>5

LEMMA LoggerKeepsRest ==
    ASSUME OwnerInvariant, RestTypes, OwnerInvariant',
           LoggerStep \/ LearnPushes \/ RequestStop \/ Join \/ UNCHANGED vars
    PROVE  RestTypes'
<1>1. /\ UNCHANGED <<d_shared_lock, scanned, full_seen>>
      /\ drainer' = drainer \/ drainer' = "destructor"
    <2>1. CASE LoggerStep \/ LearnPushes
        BY <2>1, DrainLeaves
    <2>2. CASE RequestStop \/ Join \/ UNCHANGED vars
        BY <2>2 DEF RequestStop, Join, vars, thread_vars, logger_vars
    <2>3. QED BY <2>1, <2>2
<1>2. producer' \in Producers \union {Null}
    <2>1. producer' = producer \/ producer' = Null \/ logger_at' = "reading phase"
        <3>1. CASE CheckStop \/ LoadSlot \/ ReadPhase \/ LearnPushes \/ PopRecord \/ PopsEnd
            BY <3>1 DEF CheckStop, LoadSlot, ReadPhase, LearnPushes, PopRecord, PopsEnd
        <3>2. CASE TakeDropped \/ FreeProducer \/ ClearSlot \/ Rest
            BY <3>2 DEF TakeDropped, FreeProducer, ClearSlot, Rest, RingDone
        <3>3. CASE RequestStop \/ Join \/ UNCHANGED vars
            BY <3>3 DEF RequestStop, Join, vars, logger_vars
        <3>4. QED BY <3>1, <3>2, <3>3 DEF LoggerStep
    <2>2. logger_at' = "reading phase" =>
              producer' \in Registered \/ producer' = Shared
        BY DEF OwnerInvariant, OwnerTypes, DrainerHolds, DrainStates
    <2>3. QED BY <2>1, <2>2, ProducerTypes DEF RestTypes, Registered
<1>3. count' \in Nat
    <2>1. count' = count \/ count' = count + 1 \/ count' = 0
        <3>1. CASE CheckStop \/ LoadSlot \/ ReadPhase \/ LearnPushes \/ PopRecord \/ PopsEnd
            BY <3>1 DEF CheckStop, LoadSlot, ReadPhase, LearnPushes, PopRecord, PopsEnd
        <3>2. CASE TakeDropped \/ FreeProducer \/ ClearSlot \/ Rest
            BY <3>2 DEF TakeDropped, FreeProducer, ClearSlot, Rest, RingDone
        <3>3. CASE RequestStop \/ Join \/ UNCHANGED vars
            BY <3>3 DEF RequestStop, Join, vars, logger_vars
        <3>4. QED BY <3>1, <3>2, <3>3 DEF LoggerStep
    <2>2. count \in Nat
        BY DEF RestTypes
    <2>3. QED BY <2>1, <2>2
<1>4. QED BY <1>1, <1>2, <1>3 DEF RestTypes

LEMMA NextKeepsEnds ==
    ASSUME OwnerInvariant, RingInvariant, AccountInvariant, EndInvariant, OwnerInvariant',
           [Next]_vars
    PROVE  EndInvariant'
<1>1. CASE \E t \in Threads : RegisterBegin(t) \/ Close(t) \/ Log(t)
    BY <1>1, ThreadKeepsEnds, ProducerOf
<1>2. CASE \E t \in ForeignThreads : LogLocked(t)
    BY <1>2, ThreadKeepsEnds DEF Loggers
<1>3. CASE \E t \in Loggers : ThreadStep(t)
    BY <1>3, ThreadKeepsEnds
<1>4. CASE LoggerStep \/ LearnPushes \/ RequestStop \/ Join \/ UNCHANGED vars
    BY <1>4, LoggerKeepsLife, LoggerKeepsStop, LoggerKeepsFreed, LoggerKeepsLast,
       LoggerKeepsRest
    DEF EndInvariant
<1>5. QED BY <1>1, <1>2, <1>3, <1>4 DEF Next, Terminated

-----------------------------------------------------------------------------
(* The theorems about the end.                                             *)

\* A closed ring is empty when it is freed, and the destructor's pass, after every other
\* thread's last call, empties the rest (:82-87).
THEOREM EndsAreClean == Spec => []EndInvariant
<1>1. OwnerInvariant /\ RingInvariant /\ AccountInvariant /\ EndInvariant /\ OwnerInvariant'
          /\ [Next]_vars => EndInvariant'
    BY NextKeepsEnds
<1>2. QED BY <1>1, InitEnds, AccountsAreKept, RingsAreInOrder, OwnersAgree, PTL DEF Spec

\* What was logged through a ring that is closed and freed, or that nobody can use any
\* more, is written or reported lost.
LEMMA EmptyIsSettled ==
    ASSUME RingInvariant, AccountInvariant, NEW p \in Producers,
           Held(p) = 0, d_ring[p].queue = <<>>, d_reported[p] = d_dropped[p]
    PROVE  logged[p] = WrittenOf(p) + lost[p]
<1>1. Len(d_ring[p].queue) = 0
    OBVIOUS
<1>2. /\ logged[p] = WrittenOf(p) + Len(d_ring[p].queue) + Held(p) + d_dropped[p]
      /\ lost[p] = d_dropped[p]
    BY AccountTypes DEF RingAccount
<1>3. WrittenOf(p) \in Nat /\ lost[p] \in Nat
    BY AccountTypes
<1>4. QED BY <1>1, <1>2, <1>3

\* A ring is freed once every record logged through it is written or reported lost,
\* however late before the close it was logged (:82-87).
THEOREM FreedIsSettled == Spec => []FreedIsWritten
<1>1. OwnerInvariant /\ RingInvariant /\ AccountInvariant /\ EndInvariant => FreedIsWritten
    <2> SUFFICES ASSUME OwnerInvariant, RingInvariant, AccountInvariant, EndInvariant,
                        NEW p \in Producers, d_phase[p] = "closed", p \notin heap
                 PROVE  logged[p] = WrittenOf(p) + lost[p]
        BY DEF FreedIsWritten
    <2>1. Held(p) = 0
        BY HeldBy DEF Held
    <2>2. d_ring[p].queue = <<>> /\ d_reported[p] = d_dropped[p]
        BY DEF EndInvariant, FreedIsEmpty
    <2>3. QED BY <2>1, <2>2, EmptyIsSettled
<1>2. QED BY <1>1, EndsAreClean, AccountsAreKept, RingsAreInOrder, OwnersAgree, PTL

\* The destructor, which takes its own pass over the rings once the logger thread has
\* been joined, leaves no record in a ring, no slot taken and no producer allocated.
THEOREM NothingIsLeft == Spec => []DestroyedLeavesNothing
<1>1. OwnerInvariant /\ RingInvariant /\ AccountInvariant /\ EndInvariant
          => DestroyedLeavesNothing
    <2> SUFFICES ASSUME OwnerInvariant, RingInvariant, AccountInvariant, EndInvariant,
                        logger_at = "destroyed"
                 PROVE  /\ \A s \in Slots : d_slots[s] = Null
                        /\ heap = {Shared}
                        /\ \A p \in Producers : logged[p] = WrittenOf(p) + lost[p]
        BY DEF DestroyedLeavesNothing
    <2>1. /\ drainer = "destructor" /\ slot \notin Slots /\ stop_requested
          /\ \A s \in Slots : s < slot => d_slots[s] = Null
          /\ d_ring[Shared].queue = <<>> /\ d_reported[Shared] = d_dropped[Shared]
        BY DEF EndInvariant, StopIsLast, LastPass
    <2>2. /\ \A t \in Loggers : thread_at[t] = "outside"
          /\ \A p \in Registered : d_phase[p] = "live" => p \notin heap /\ logged[p] = 0
          /\ \A p \in Producers : Held(p) = 0
        BY <2>1, DestructorsRings DEF EndInvariant
    <2>3. \A s \in Slots : d_slots[s] = Null
        <3>1. slot = k_MAX_THREADS + 1 /\ \A s \in Slots : s < k_MAX_THREADS + 1
            BY <2>1, LoggerAssumption DEF OwnerInvariant, OwnerTypes, Slots
        <3>2. QED BY <2>1, <3>1
    <2>4. \A p \in Registered : p \notin heap
        <3> SUFFICES ASSUME NEW p \in Registered, p \in heap PROVE FALSE
            OBVIOUS
        <3>1. PICK t \in Threads, n \in 1..MaxRegistrations : p = <<t, n>>
            BY ProducerTypes
        <3>2. thread_at[t] = "outside"
            BY <2>2, ProducerOf
        <3>3. InSlot(p)
            BY <3>1, <3>2 DEF OwnerInvariant, Registrations
        <3>4. QED BY <2>3, <3>1, <3>3, ProducerTypes DEF InSlot
    <2>5. heap = {Shared}
        BY <2>4 DEF OwnerInvariant, OwnerTypes, DrainerHolds, Registered
    <2>6. ASSUME NEW p \in Producers PROVE logged[p] = WrittenOf(p) + lost[p]
        <3>1. CASE p = Shared
            BY <2>1, <2>2, <3>1, ProducerTypes, EmptyIsSettled
        <3>2. CASE p # Shared /\ d_phase[p] = "closed"
            <4>1. p \notin heap
                BY <2>4, <3>2 DEF Registered
            <4>2. d_ring[p].queue = <<>> /\ d_reported[p] = d_dropped[p]
                BY <3>2, <4>1 DEF EndInvariant, FreedIsEmpty
            <4>3. QED BY <2>2, <4>2, EmptyIsSettled
        <3>3. CASE p # Shared /\ d_phase[p] = "live"
            <4>1. logged[p] = 0
                BY <2>2, <3>3 DEF Registered
            <4>2. /\ 0 = WrittenOf(p) + Len(d_ring[p].queue) + Held(p) + d_dropped[p]
                  /\ lost[p] <= d_dropped[p]
                  /\ WrittenOf(p) \in Nat /\ Len(d_ring[p].queue) \in Nat
                  /\ d_dropped[p] \in Nat /\ lost[p] \in Nat /\ Held(p) = 0
                BY <2>2, <4>1, AccountTypes DEF RingAccount
            <4>3. WrittenOf(p) = 0 /\ d_dropped[p] = 0
                <5>1. 0 = WrittenOf(p) + Len(d_ring[p].queue) + 0 + d_dropped[p]
                    BY <4>2
                <5>2. QED BY <4>2, <5>1
            <4>4. lost[p] = 0
                BY <4>2, <4>3
            <4>5. QED BY <4>1, <4>3, <4>4
        <3>4. QED BY <3>1, <3>2, <3>3 DEF OwnerInvariant, OwnerTypes
    <2>7. QED BY <2>3, <2>5, <2>6
<1>2. QED BY <1>1, EndsAreClean, AccountsAreKept, RingsAreInOrder, OwnersAgree, PTL

\* The counts of a ring, its drop count among them, stay within the records that can be
\* logged through it, and what the threads hold of it within its capacity; every pointer
\* is null or to a producer that was made.
THEOREM LoggerIsTyped == Spec => []TypeOK
<1>1. OwnerInvariant /\ RingInvariant /\ AccountInvariant /\ EndInvariant => TypeOK
    <2> SUFFICES ASSUME OwnerInvariant, RingInvariant, AccountInvariant, EndInvariant
                 PROVE  TypeOK
        OBVIOUS
    <2>1. OwnerTypes /\ RingTypes /\ RestTypes /\ CountTypes /\ Counting /\ RecordsInOrder
        BY DEF OwnerInvariant, RingInvariant, AccountInvariant, EndInvariant
    <2>2. ASSUME NEW p \in Producers
          PROVE  /\ \A n \in Nat : n <= logged[p] => n \in Records(p) \union {0}
                 /\ \A n \in Nat : n <= logged[p] /\ n >= 1 => n \in Records(p)
        <3> DEFINE most == IF p = Shared THEN MaxSharedRecords ELSE MaxRecords
        <3>1. most \in Nat
            BY BoundTypes
        <3>2. Records(p) = 1..most
            BY DEF Records
        <3> HIDE DEF most
        <3>3. logged[p] \in Nat /\ logged[p] <= most
            BY <2>1, <3>1, <3>2 DEF CountTypes
        <3>4. \A n \in Nat : n <= most => n \in (1..most) \union {0}
            BY <3>1
        <3>5. \A n \in Nat : n <= most /\ n >= 1 => n \in 1..most
            BY <3>1
        <3>6. \A n \in Nat : n <= logged[p] => n <= most
            BY <3>1, <3>3
        <3>7. QED BY <3>2, <3>4, <3>5, <3>6
    <2>3. ASSUME NEW p \in Producers
          PROVE  {d_dropped[p], d_reported[p], logged[p], lost[p]} \subseteq Records(p) \union {0}
        <3>1. /\ logged[p] = WrittenOf(p) + Len(d_ring[p].queue) + Held(p) + d_dropped[p]
              /\ lost[p] = d_reported[p] /\ d_reported[p] <= d_dropped[p]
              /\ WrittenOf(p) \in Nat /\ Len(d_ring[p].queue) \in Nat /\ Held(p) \in Nat
              /\ d_dropped[p] \in Nat /\ d_reported[p] \in Nat /\ logged[p] \in Nat
            BY AccountTypes DEF RingAccount
        <3>2. d_dropped[p] <= logged[p]
            BY <3>1
        <3>3. d_reported[p] <= logged[p]
            <4>1. d_reported[p] <= d_dropped[p] /\ d_reported[p] \in Nat /\ d_dropped[p] \in Nat
                  /\ logged[p] \in Nat
                BY <3>1
            <4>2. QED BY <3>2, <4>1
        <3>4. lost[p] = d_reported[p] /\ logged[p] <= logged[p]
            BY <3>1
        <3>5. QED BY <2>2, <3>1, <3>2, <3>3, <3>4
    <2>4. ASSUME NEW p \in Producers PROVE d_ring[p].queue \in Seq(Records(p))
        <3>1. d_ring[p].queue \in Seq(Nat) /\ logged[p] \in Nat
            BY <2>1, RingFields DEF RingTypes
        <3>2. ASSUME NEW i \in 1..Len(d_ring[p].queue)
              PROVE  d_ring[p].queue[i] \in Records(p)
            <4>1. d_ring[p].queue[i] \in Nat
                BY <3>1
            <4>2. d_ring[p].queue[i] >= 1
                BY AccountTypes DEF RingAccount
            <4>3. d_ring[p].queue[i] <= HandedOver(p)
                BY <2>1 DEF RecordsInOrder
            <4>4. d_ring[p].queue[i] <= logged[p]
                BY <3>1, <4>1, <4>3 DEF HandedOver
            <4>5. QED BY <2>2, <4>1, <4>2, <4>4
        <3>3. QED BY <3>1, <3>2
    <2>5. ASSUME NEW p \in Producers
          PROVE  /\ d_ring[p].known \in 0..Len(d_ring[p].queue)
                 /\ d_ring[p].unseen \in 0..(k_RING_CAPACITY - Len(d_ring[p].queue))
        <3>1. /\ Len(d_ring[p].queue) \in Nat /\ d_ring[p].known \in Nat
              /\ d_ring[p].unseen \in Nat /\ d_ring[p].known <= Len(d_ring[p].queue)
            BY <2>1, RingFields
        <3>2. Len(d_ring[p].queue) + d_ring[p].unseen <= k_RING_CAPACITY
            BY AccountTypes DEF RingAccount
        <3>3. \A n, u, c \in Nat : n + u <= c => u \in 0..(c - n)
            OBVIOUS
        <3>4. QED BY <3>1, <3>2, <3>3, BoundTypes
    <2>6. ASSUME NEW t \in Loggers PROVE count_read[t] \in Records(producer_of(t)) \union {0}
        <3>1. CASE thread_at[t] = "counting"
            <4>1. producer_of(t) \in Producers
                BY <3>1, HeldBy DEF HandingStates
            <4>2. count_read[t] = d_dropped[producer_of(t)]
                BY <2>1, <3>1 DEF Counting
            <4>3. QED BY <2>3, <4>1, <4>2
        <3>2. CASE thread_at[t] # "counting"
            BY <2>1, <3>2 DEF Counting
        <3>3. QED BY <3>1, <3>2
    <2>7. d_slots \in [Slots -> Producers \union {Null}]
        BY <2>1 DEF OwnerTypes, Registered
    <2>8. thread_at \in [Loggers -> {"outside", "scanning", "refused", "inside", "pushing",
                                     "dropping", "counting"}]
        BY <2>1 DEF OwnerTypes, ThreadStates, HandleStates
    <2>9. QED BY <2>1, <2>3, <2>4, <2>5, <2>6, <2>7, <2>8
          DEF TypeOK, OwnerTypes, RestTypes, LoggerStates, DrainStates
<1>2. QED BY <1>1, EndsAreClean, AccountsAreKept, RingsAreInOrder, OwnersAgree, PTL

-----------------------------------------------------------------------------
(* What a registered thread is promised: ProducerLife.                     *)

LifeMap == [p \in Registered |-> LifeOf(p)]
LoggedMap == [p \in Registered |-> logged[p]]
SettledMap == [p \in Registered |-> WrittenOf(p) + lost[p]]

LifeStep == [Life!Next]_(Life!life_vars)

\* A producer's life, in OwnerInvariant's words.
LEMMA LifeOfProducer ==
    ASSUME NEW p \in Producers
    PROVE  LifeOf(p) = IF d_phase[p] = "closed" THEN IF p \in heap THEN "closed" ELSE "freed"
                       ELSE IF InSlot(p) THEN "live" ELSE "none"
BY DEF LifeOf, InSlot

\* It goes on as long as a closed one is not freed and a live one stays in its slot.
LEMMA LifeGoesOn ==
    ASSUME NEW p \in Producers, d_phase'[p] = d_phase[p],
           d_phase[p] = "closed" => (p \in heap' <=> p \in heap),
           d_phase[p] # "closed" => (InSlot(p)' <=> InSlot(p))
    PROVE  LifeOf(p)' = LifeOf(p)
BY DEF LifeOf, InSlot

\* A thread that has a handle has a producer that is live.
LEMMA HolderIsLive ==
    ASSUME OwnerInvariant, NEW t \in Threads, thread_at[t] \in HandleStates,
           NEW p, p = producer_of(t)
    PROVE  p \in Registered /\ LifeOf(p) = "live" /\ InSlot(p)
<1>1. /\ registrations[t] \in 1..MaxRegistrations /\ p = <<t, registrations[t]>>
      /\ p \in heap /\ d_phase[p] = "live" /\ thread_at[t] # "scanning"
    BY ProducerOf DEF OwnerInvariant, ThreadsOwn, HandleStates
<1>2. InSlot(p)
    BY <1>1 DEF OwnerInvariant, Registrations
<1>3. QED BY <1>1, <1>2, ProducerTypes, LifeOfProducer DEF Registered

\* The instance brings a Cardinality of its own.
LEMMA SameCardinality == \A S : Life!Cardinality(S) = Cardinality(S)
BY DEF Life!Cardinality, Cardinality

\* Producers in a slot are fewer than the slots while one is free.
LEMMA SlotsAreEnough ==
    ASSUME OwnerInvariant, NEW s \in Slots, d_slots[s] = Null
    PROVE  Cardinality(Life!InSlots) < k_MAX_THREADS
<1> DEFINE holders == {p \in Registered : LifeOf(p) \in {"live", "closed"}}
           at == [p \in holders |-> CHOOSE r \in Slots : d_slots[r] = p]
           others == Slots \ {s}
<1>1. Life!InSlots = holders
    BY DEF Life!InSlots
<1>2. \A p \in holders : InSlot(p)
    <2> SUFFICES ASSUME NEW p \in holders PROVE InSlot(p)
        OBVIOUS
    <2>1. PICK t \in Threads, n \in 1..MaxRegistrations : p = <<t, n>>
        BY ProducerTypes
    <2>2. CASE d_phase[p] = "closed"
        <3>1. p \in heap
            BY <2>2, LifeOfProducer DEF Registered
        <3>2. ~(n = registrations[t] /\ thread_at[t] = "scanning")
            BY <2>1, <2>2 DEF OwnerInvariant, ThreadsOwn
        <3>3. QED BY <2>1, <3>1, <3>2 DEF OwnerInvariant, Registrations
    <2>3. CASE d_phase[p] # "closed"
        BY <2>3, LifeOfProducer DEF Registered
    <2>4. QED BY <2>2, <2>3
<1>3. \A p \in holders : at[p] \in Slots /\ d_slots[at[p]] = p
    BY <1>2 DEF InSlot
<1>4. \A p \in holders : p # Null
    BY ProducerTypes DEF Registered
<1>5. at \in [holders -> others]
    BY <1>3, <1>4
<1>6. at \in Injection(holders, others)
    BY <1>3, <1>5 DEF Injection, IsInjective
<1>7. IsFiniteSet(others) /\ Cardinality(others) = k_MAX_THREADS - 1
    <2>1. IsFiniteSet(Slots) /\ Cardinality(Slots) = k_MAX_THREADS
        BY SlotTypes, FS_Interval DEF Slots
    <2>2. QED BY <2>1, FS_RemoveElement
<1>8. IsFiniteSet(holders) /\ Cardinality(holders) <= k_MAX_THREADS - 1
    BY <1>6, <1>7, FS_Injection
<1>9. Cardinality(holders) \in Nat /\ k_MAX_THREADS \in Nat
    BY <1>8, FS_CardinalityType, SlotTypes
<1>10. QED BY <1>1, <1>8, <1>9

LEMMA LifeStutters ==
    ASSUME \A p \in Registered :
               /\ LifeOf(p)' = LifeOf(p) /\ logged'[p] = logged[p]
               /\ WrittenOf(p)' = WrittenOf(p) /\ lost'[p] = lost[p]
    PROVE  LifeStep
<1>1. LifeMap' = LifeMap /\ LoggedMap' = LoggedMap /\ SettledMap' = SettledMap
    BY DEF LifeMap, LoggedMap, SettledMap
<1>2. QED BY <1>1 DEF LifeStep, Life!life_vars, LifeMap, LoggedMap, SettledMap

\* A producer's life takes a step, and no other's does.
LEMMA LifeChanges ==
    ASSUME NEW p \in Registered, NEW now, LifeOf(p)' = now,
           \A q \in Registered \ {p} : LifeOf(q)' = LifeOf(q)
    PROVE  LifeMap' = [LifeMap EXCEPT ![p] = now]
BY DEF LifeMap

LEMMA RegisterIsInLife ==
    ASSUME OwnerInvariant, NEW t \in Threads, TrySlot(t), d_slots[scanned[t]] = Null
    PROVE  LifeStep
<1>1. /\ thread_at[t] = "scanning" /\ scanned[t] \in Slots
      /\ d_slots' = [d_slots EXCEPT ![scanned[t]] = producer_of(t)]
      /\ UNCHANGED <<heap, d_phase, logged, written, lost>>
    BY DEF TrySlot, logger_vars
<1>2. PICK p \in Registered : p = producer_of(t) /\ d_phase[p] = "live" /\ ~InSlot(p)
    BY <1>1, ProducerOf, ProducerTypes DEF OwnerInvariant, ThreadsOwn
<1>3. d_slots \in [Slots -> Registered \union {Null}]
    BY DEF OwnerInvariant, OwnerTypes
<1>4. InSlot(p)' /\ \A q \in Registered \ {p} : InSlot(q)' <=> InSlot(q)
    <2>1. InSlot(p)'
        BY <1>1, <1>2, <1>3 DEF InSlot
    <2>2. ASSUME NEW q \in Registered \ {p} PROVE InSlot(q)' <=> InSlot(q)
        <3>1. q # Null
            BY ProducerTypes DEF Registered
        <3>2. \A s \in Slots : d_slots'[s] = q <=> d_slots[s] = q
            BY <1>1, <1>2, <1>3, <2>2, <3>1
        <3>3. QED BY <3>2 DEF InSlot
    <2>3. QED BY <2>1, <2>2
<1>5. \A q \in Registered \ {p} : LifeOf(q)' = LifeOf(q)
    BY <1>1, <1>4, LifeGoesOn DEF Registered
<1>6. LifeOf(p) = "none" /\ LifeOf(p)' = "live"
    BY <1>1, <1>2, <1>4 DEF LifeOf, InSlot
<1>7. Cardinality(Life!InSlots) < k_MAX_THREADS
    BY <1>1, SlotsAreEnough
<1>8. LifeMap' = [LifeMap EXCEPT ![p] = "live"] /\ LifeMap[p] = "none"
    BY <1>5, <1>6, LifeChanges DEF LifeMap
<1>9. LoggedMap' = LoggedMap /\ SettledMap' = SettledMap
    BY <1>1 DEF LoggedMap, SettledMap, WrittenOf
<1>10. Life!Register(p)
    BY <1>7, <1>8, <1>9, SameCardinality DEF Life!Register, LifeMap, LoggedMap, SettledMap
<1>11. QED BY <1>10 DEF LifeStep, Life!Next

LEMMA CloseIsInLife ==
    ASSUME OwnerInvariant, NEW t \in Threads, Close(t)
    PROVE  LifeStep
<1>1. /\ thread_at[t] = "inside"
      /\ d_phase' = [d_phase EXCEPT ![producer_of(t)] = "closed"]
      /\ UNCHANGED <<d_slots, heap, logged, written, lost>>
    BY DEF Close, logger_vars
<1>2. PICK p \in Registered : p = producer_of(t) /\ LifeOf(p) = "live"
    BY <1>1, HolderIsLive DEF HandleStates
<1>3. p \in heap /\ d_phase \in [Producers -> {"live", "closed"}]
    BY <1>1, <1>2, ProducerOf DEF OwnerInvariant, OwnerTypes, ThreadsOwn
<1>4. \A q \in Registered \ {p} : LifeOf(q)' = LifeOf(q)
    BY <1>1, <1>2, <1>3, LifeGoesOn DEF Registered, InSlot
<1>5. LifeOf(p)' = "closed"
    BY <1>1, <1>2, <1>3 DEF LifeOf, Registered
<1>6. LifeMap' = [LifeMap EXCEPT ![p] = "closed"] /\ LifeMap[p] = "live"
    BY <1>2, <1>4, <1>5, LifeChanges DEF LifeMap
<1>7. LoggedMap' = LoggedMap /\ SettledMap' = SettledMap
    BY <1>1 DEF LoggedMap, SettledMap, WrittenOf
<1>8. Life!Close(p)
    BY <1>6, <1>7 DEF Life!Close, LifeMap, LoggedMap, SettledMap
<1>9. QED BY <1>8 DEF LifeStep, Life!Next

LEMMA LogIsInLife ==
    ASSUME OwnerInvariant, RingInvariant, NEW t \in Threads, Log(t)
    PROVE  LifeStep
<1>1. /\ thread_at[t] = "inside"
      /\ logged' = [logged EXCEPT ![producer_of(t)] = @ + 1]
      /\ UNCHANGED <<d_slots, heap, d_phase, written, lost>>
    BY DEF Log, Offer, logger_vars
<1>2. PICK p \in Registered : p = producer_of(t) /\ LifeOf(p) = "live"
    BY <1>1, HolderIsLive DEF HandleStates
<1>3. LifeMap' = LifeMap /\ SettledMap' = SettledMap
    BY <1>1, LifeGoesOn DEF LifeMap, SettledMap, WrittenOf, Registered, InSlot
<1>4. LoggedMap' = [LoggedMap EXCEPT ![p] = @ + 1]
    BY <1>1, <1>2 DEF LoggedMap, RingInvariant, RingTypes, Registered
<1>5. Life!Log(p)
    BY <1>2, <1>3, <1>4 DEF Life!Log, LifeMap, LoggedMap, SettledMap
<1>6. QED BY <1>5 DEF LifeStep, Life!Next

\* The other steps of the threads concern no life.
LEMMA ThreadIsInLife ==
    ASSUME OwnerInvariant, RingInvariant, NEW t \in Loggers,
           \/ t \in Threads /\ (RegisterBegin(t) \/ Close(t) \/ Log(t))
           \/ t \in ForeignThreads /\ LogLocked(t)
           \/ ThreadStep(t)
    PROVE  LifeStep
<1>1. CASE t \in Threads /\ RegisterBegin(t)
    <2>1. /\ registrations' = [registrations EXCEPT ![t] = @ + 1]
          /\ registrations[t] < MaxRegistrations
          /\ heap' = heap \union {<<t, registrations'[t]>>}
          /\ UNCHANGED <<d_slots, d_phase, logged, written, lost>>
        BY <1>1 DEF RegisterBegin, logger_vars
    <2>2. registrations \in [Threads -> 0..MaxRegistrations] /\ MaxRegistrations \in Nat
        BY LoggerAssumption DEF OwnerInvariant, OwnerTypes
    <2>3. registrations'[t] \in 1..MaxRegistrations /\ registrations'[t] > registrations[t]
        BY <1>1, <2>1, <2>2
    <2>4. d_phase[<<t, registrations'[t]>>] = "live"
        BY <1>1, <2>3 DEF OwnerInvariant, Registrations
    <2>5. \A p \in Registered : LifeOf(p)' = LifeOf(p)
        BY <2>1, <2>4, LifeGoesOn DEF Registered, InSlot
    <2>6. QED BY <2>1, <2>5, LifeStutters DEF WrittenOf
<1>2. CASE t \in Threads /\ TrySlot(t)
    <2>1. CASE d_slots[scanned[t]] = Null
        BY <1>2, <2>1, RegisterIsInLife
    <2>2. CASE d_slots[scanned[t]] # Null
        <3>1. UNCHANGED <<d_slots, heap, d_phase, logged, written, lost>>
            BY <1>2, <2>2 DEF TrySlot, logger_vars
        <3>2. QED BY <3>1, LifeStutters, LifeGoesOn DEF WrittenOf, Registered, InSlot
    <2>3. QED BY <2>1, <2>2
<1>3. CASE t \in Threads /\ RegisterFails(t)
    <2>1. /\ thread_at[t] = "scanning" /\ heap' = heap \ {producer_of(t)}
          /\ UNCHANGED <<d_slots, d_phase, logged, written, lost>>
        BY <1>3 DEF RegisterFails, logger_vars
    <2>2. d_phase[producer_of(t)] = "live"
        BY <1>3, <2>1, ProducerOf DEF OwnerInvariant, ThreadsOwn
    <2>3. \A p \in Registered : LifeOf(p)' = LifeOf(p)
        BY <2>1, <2>2, LifeGoesOn DEF Registered, InSlot
    <2>4. QED BY <2>1, <2>3, LifeStutters DEF WrittenOf
<1>4. CASE t \in Threads /\ (Close(t) \/ Log(t))
    BY <1>4, CloseIsInLife, LogIsInLife
<1>5. CASE t \in ForeignThreads /\ LogLocked(t)
    <2>1. /\ logged' = [logged EXCEPT ![Shared] = @ + 1]
          /\ UNCHANGED <<d_slots, heap, d_phase, written, lost>>
        BY <1>5 DEF LogLocked, Offer, producer_of, logger_vars
    <2>2. \A p \in Registered : logged'[p] = logged[p]
        BY <2>1 DEF Registered, RingInvariant, RingTypes
    <2>3. QED BY <2>1, <2>2, LifeStutters, LifeGoesOn DEF WrittenOf, Registered, InSlot
<1>6. CASE \/ t \in Threads /\ RefusalReturns(t)
           \/ LearnPops(t) \/ PushAccepted(t) \/ PushRefused(t) \/ LoadDropped(t)
           \/ StoreDropped(t)
    <2>1. UNCHANGED <<d_slots, heap, d_phase, logged, written, lost>>
        BY <1>6
        DEF RefusalReturns, LearnPops, PushAccepted, PushRefused, LoadDropped, StoreDropped,
            logger_vars, thread_vars
    <2>2. QED BY <2>1, LifeStutters, LifeGoesOn DEF WrittenOf, Registered, InSlot
<1>7. QED BY <1>1, <1>2, <1>3, <1>4, <1>5, <1>6 DEF ThreadStep

\* No more records are settled than were logged.
SettledBound ==
    \A p \in Producers :
        /\ WrittenOf(p) + lost[p] \in Nat /\ logged[p] \in Nat
        /\ WrittenOf(p) + lost[p] <= logged[p]

LEMMA SettledIsLogged == RingInvariant /\ AccountInvariant => SettledBound
<1> SUFFICES ASSUME RingInvariant, AccountInvariant, NEW p \in Producers
             PROVE  /\ WrittenOf(p) + lost[p] \in Nat /\ logged[p] \in Nat
                    /\ WrittenOf(p) + lost[p] <= logged[p]
    BY DEF SettledBound
<1>1. /\ logged[p] = WrittenOf(p) + Len(d_ring[p].queue) + Held(p) + d_dropped[p]
      /\ lost[p] <= d_dropped[p]
      /\ WrittenOf(p) \in Nat /\ Len(d_ring[p].queue) \in Nat /\ Held(p) \in Nat
      /\ d_dropped[p] \in Nat /\ lost[p] \in Nat /\ logged[p] \in Nat
    BY AccountTypes DEF RingAccount
<1>2. \A w, n, h, d, l \in Nat : l <= d => w + l \in Nat /\ w + l <= w + n + h + d
    OBVIOUS
<1>3. /\ WrittenOf(p) + lost[p] \in Nat
      /\ WrittenOf(p) + lost[p] <= WrittenOf(p) + Len(d_ring[p].queue) + Held(p) + d_dropped[p]
    BY <1>1, <1>2
<1>4. QED BY <1>1, <1>3

\* The records of the drained ring that are settled are more.
LEMMA SettleIsInLife ==
    ASSUME OwnerInvariant, SettledBound, SettledBound',
           UNCHANGED <<d_slots, heap, d_phase, logged>>,
           NEW p \in Registered, InSlot(p), p \in heap,
           WrittenOf(p)' + lost'[p] >= WrittenOf(p) + lost[p],
           \A q \in Registered \ {p} : WrittenOf(q)' = WrittenOf(q) /\ lost'[q] = lost[q]
    PROVE  LifeStep
<1>1. p \in Producers
    BY DEF Registered
<1>2. LifeMap' = LifeMap /\ LoggedMap' = LoggedMap
    BY LifeGoesOn DEF LifeMap, LoggedMap, Registered, InSlot
<1>3. LifeOf(p) \in {"live", "closed"}
    BY <1>1, LifeOfProducer
<1>4. /\ WrittenOf(p) + lost[p] \in Nat /\ WrittenOf(p)' + lost'[p] \in Nat
      /\ WrittenOf(p)' + lost'[p] <= logged[p] /\ logged[p] \in Nat
    <2>1. /\ WrittenOf(p) + lost[p] \in Nat /\ logged[p] \in Nat
          /\ WrittenOf(p)' + lost'[p] \in Nat /\ WrittenOf(p)' + lost'[p] <= logged'[p]
        BY <1>1 DEF SettledBound
    <2>2. QED BY <2>1
<1>5. SettledMap' = [SettledMap EXCEPT ![p] = WrittenOf(p)' + lost'[p]]
    BY DEF SettledMap
<1>6. CASE WrittenOf(p)' + lost'[p] = WrittenOf(p) + lost[p]
    <2>1. SettledMap' = SettledMap
        BY <1>5, <1>6 DEF SettledMap
    <2>2. QED BY <1>2, <2>1 DEF LifeStep, Life!life_vars, LifeMap, LoggedMap, SettledMap
<1>7. CASE WrittenOf(p)' + lost'[p] # WrittenOf(p) + lost[p]
    <2>1. WrittenOf(p)' + lost'[p] \in (SettledMap[p] + 1)..LoggedMap[p]
        BY <1>4, <1>7 DEF SettledMap, LoggedMap
    <2>2. p \in Life!InSlots
        BY <1>3 DEF Life!InSlots
    <2>3. Life!Settle(p)
        BY <1>2, <1>5, <2>1, <2>2 DEF Life!Settle, LifeMap, LoggedMap, SettledMap
    <2>4. QED BY <2>3 DEF LifeStep, Life!Next
<1>8. QED BY <1>6, <1>7

\* The thread that drains: what it writes or reports is settled, and it frees what is
\* closed and settled.
LEMMA LoggerIsInLife ==
    ASSUME OwnerInvariant, RingInvariant, AccountInvariant, SettledBound, SettledBound',
           FreedIsWritten',
           LoggerStep \/ LearnPushes \/ RequestStop \/ Join \/ UNCHANGED vars
    PROVE  LifeStep
<1>1. RingTypes /\ CountTypes /\ SlotsOwn /\ DrainerHolds
    BY DEF OwnerInvariant, RingInvariant, AccountInvariant
<1>2. logger_at \in DrainStates => producer \in Producers
    BY DrainedRing
<1>3. ASSUME logger_at \in DrainStates \ {"clearing"}, producer # Shared
      PROVE  producer \in Registered /\ InSlot(producer) /\ producer \in heap
    <2>1. slot \in Slots /\ producer = d_slots[slot] /\ producer # Null
        BY <1>1, <1>3 DEF DrainerHolds
    <2>2. QED BY <1>1, <1>2, <1>3, <2>1 DEF SlotsOwn, InSlot, Registered
<1>4. CASE PopRecord
    <2>1. /\ logger_at = "popping" /\ d_ring[producer].known > 0
          /\ written' = [written EXCEPT ![producer[1]] =
                             Append(@, <<producer[2], Head(d_ring[producer].queue)>>)]
          /\ UNCHANGED <<d_slots, heap, d_phase, logged, lost>>
        BY <1>4 DEF PopRecord, DrainUnchanged, thread_vars
    <2>2. PICK p \in Producers : p = producer
        BY <1>2, <2>1 DEF DrainStates
    <2>3. Head(d_ring[p].queue) \in Nat
        <3>1. d_ring[p].queue \in Seq(Nat) /\ Len(d_ring[p].queue) \in Nat \ {0}
            BY <1>1, <1>4, <2>2, RingFields, PoppedLengths
        <3>2. QED BY <3>1
    <2>4. /\ WrittenOf(p)' = WrittenOf(p) + 1
          /\ \A q \in Producers \ {p} : WrittenOf(q)' = WrittenOf(q)
        BY <1>1, <2>1, <2>2, <2>3, WrittenGrows
    <2>5. WrittenOf(p) \in Nat /\ lost[p] \in Nat
        BY AccountTypes
    <2>6. CASE p = Shared
        BY <2>1, <2>4, <2>6, LifeStutters, LifeGoesOn DEF Registered, InSlot
    <2>7. CASE p # Shared
        <3>1. WrittenOf(p)' + lost'[p] >= WrittenOf(p) + lost[p]
            BY <2>1, <2>4, <2>5
        <3>2. p \in Registered /\ InSlot(p) /\ p \in heap
            BY <1>3, <2>1, <2>2, <2>7 DEF DrainStates
        <3>3. QED BY <2>1, <2>4, <3>1, <3>2, SettleIsInLife DEF Registered
    <2>8. QED BY <2>6, <2>7
<1>5. CASE TakeDropped
    <2>1. /\ logger_at = "taking drops"
          /\ lost' = [lost EXCEPT ![producer] = @ + d_dropped[producer] - d_reported[producer]]
          /\ UNCHANGED <<d_slots, heap, d_phase, logged, written>>
        BY <1>5 DEF TakeDropped, DrainUnchanged, thread_vars
    <2>2. PICK p \in Producers : p = producer
        BY <1>2, <2>1 DEF DrainStates
    <2>3. /\ lost[p] \in Nat /\ d_dropped[p] \in Nat /\ d_reported[p] \in Nat
          /\ d_reported[p] <= d_dropped[p] /\ WrittenOf(p) \in Nat
        BY AccountTypes DEF RingAccount
    <2>4. /\ lost'[p] = lost[p] + d_dropped[p] - d_reported[p]
          /\ \A q \in Producers \ {p} : lost'[q] = lost[q]
          /\ \A q \in Producers : WrittenOf(q)' = WrittenOf(q)
        BY <1>1, <2>1, <2>2 DEF CountTypes, WrittenOf
    <2>5. CASE p = Shared
        BY <2>1, <2>4, <2>5, LifeStutters, LifeGoesOn DEF Registered, InSlot
    <2>6. CASE p # Shared
        <3>1. WrittenOf(p)' + lost'[p] >= WrittenOf(p) + lost[p]
            BY <2>3, <2>4
        <3>2. p \in Registered /\ InSlot(p) /\ p \in heap
            BY <1>3, <2>1, <2>2, <2>6 DEF DrainStates
        <3>3. QED BY <2>1, <2>4, <3>1, <3>2, SettleIsInLife DEF Registered
    <2>7. QED BY <2>5, <2>6
<1>6. CASE FreeProducer
    <2>1. /\ logger_at = "freeing" /\ heap' = heap \ {producer} /\ phase = "closed"
          /\ d_phase[producer] = "closed"
          /\ UNCHANGED <<d_slots, d_phase, logged, written, lost>>
        BY <1>1, <1>6 DEF FreeProducer, DrainUnchanged, thread_vars, DrainerHolds
    <2>2. producer # Shared
        BY <1>1, <2>1 DEF DrainerHolds
    <2>3. PICK p \in Registered : p = producer /\ p \in heap
        BY <1>3, <2>1, <2>2 DEF DrainStates
    <2>4. LifeOf(p) = "closed" /\ LifeOf(p)' = "freed"
        BY <2>1, <2>3 DEF LifeOf
    <2>5. \A q \in Registered \ {p} : LifeOf(q)' = LifeOf(q)
        BY <2>1, <2>3, LifeGoesOn DEF Registered, InSlot
    <2>6. LifeMap' = [LifeMap EXCEPT ![p] = "freed"] /\ LifeMap[p] = "closed"
        BY <2>4, <2>5, LifeChanges DEF LifeMap
    <2>7. WrittenOf(p) + lost[p] = logged[p]
        <3>1. p \in Producers /\ d_phase'[p] = "closed" /\ p \notin heap'
            BY <2>1, <2>3 DEF Registered
        <3>2. logged'[p] = WrittenOf(p)' + lost'[p]
            BY <3>1 DEF FreedIsWritten
        <3>3. QED BY <2>1, <3>2 DEF WrittenOf
    <2>8. SettledMap' = [SettledMap EXCEPT ![p] = LoggedMap[p]] /\ LoggedMap' = LoggedMap
        BY <2>1, <2>7 DEF SettledMap, LoggedMap, WrittenOf
    <2>9. Life!Free(p)
        BY <2>6, <2>8 DEF Life!Free, LifeMap, LoggedMap, SettledMap
    <2>10. QED BY <2>9 DEF LifeStep, Life!Next
<1>7. CASE ClearSlot
    <2>1. /\ logger_at = "clearing" /\ d_slots' = [d_slots EXCEPT ![slot] = Null]
          /\ slot \in Slots /\ producer = d_slots[slot] /\ d_phase[producer] = "closed"
          /\ UNCHANGED <<heap, d_phase, logged, written, lost>>
        BY <1>1, <1>7 DEF ClearSlot, DrainUnchanged, thread_vars, DrainerHolds, DrainStates
    <2>2. ASSUME NEW p \in Registered, d_phase[p] # "closed" PROVE InSlot(p)' <=> InSlot(p)
        <3>1. p # Null /\ p # producer
            BY <2>1, <2>2, ProducerTypes DEF Registered
        <3>2. \A s \in Slots : d_slots'[s] = p <=> d_slots[s] = p
            BY <2>1, <3>1 DEF OwnerInvariant, OwnerTypes
        <3>3. QED BY <3>2 DEF InSlot
    <2>3. \A p \in Registered : LifeOf(p)' = LifeOf(p)
        BY <2>1, <2>2, LifeGoesOn DEF Registered
    <2>4. QED BY <2>1, <2>3, LifeStutters DEF WrittenOf
<1>8. CASE ~PopRecord /\ ~TakeDropped /\ ~FreeProducer /\ ~ClearSlot
    <2>1. UNCHANGED <<d_slots, heap, d_phase, logged, written, lost>>
        BY <1>8
        DEF LoggerStep, CheckStop, LoadSlot, ReadPhase, PopsEnd, Rest, LearnPushes, RequestStop,
            Join, DrainUnchanged, vars, thread_vars, logger_vars
    <2>2. QED BY <2>1, LifeStutters, LifeGoesOn DEF WrittenOf, Registered, InSlot
<1>9. QED BY <1>4, <1>5, <1>6, <1>7, <1>8

LEMMA InitIsInLife == Init => Life!Init
<1> SUFFICES ASSUME Init PROVE Life!Init
    OBVIOUS
<1>1. /\ d_slots = [s \in Slots |-> Null] /\ d_phase = [p \in Producers |-> "live"]
      /\ logged = [p \in Producers |-> 0]
    BY DEF Init
<1>2. \A p \in Registered : LifeOf(p) = "none"
    BY <1>1, ProducerTypes DEF LifeOf, Registered
<1>3. \A p \in Registered : WrittenOf(p) + lost[p] = 0
    <2>1. SettledBound
        BY InitIsInOrder, InitIsAccounted, SettledIsLogged
    <2>2. QED BY <1>1, <2>1 DEF SettledBound, Registered
<1>4. QED BY <1>1, <1>2, <1>3 DEF Life!Init, Registered

LEMMA NextIsInLife ==
    ASSUME OwnerInvariant, RingInvariant, AccountInvariant, SettledBound, SettledBound',
           FreedIsWritten', [Next]_vars
    PROVE  LifeStep
<1>1. CASE \E t \in Threads : RegisterBegin(t) \/ Close(t) \/ Log(t)
    BY <1>1, ThreadIsInLife, ProducerOf
<1>2. CASE \E t \in ForeignThreads : LogLocked(t)
    BY <1>2, ThreadIsInLife DEF Loggers
<1>3. CASE \E t \in Loggers : ThreadStep(t)
    BY <1>3, ThreadIsInLife
<1>4. CASE LoggerStep \/ LearnPushes \/ RequestStop \/ Join \/ UNCHANGED vars
    BY <1>4, LoggerIsInLife
<1>5. QED BY <1>1, <1>2, <1>3, <1>4 DEF Next, Terminated

\* Whatever the interleaving, a registered thread gets what ProducerLife promises: one of
\* the slots, a ring that is live until it closes it, and every record settled before the
\* ring is freed, once (:66-87).
THEOREM LoggerImplementsLife == Spec => ImplementsLife
<1>1. RingInvariant /\ AccountInvariant => SettledBound
    BY SettledIsLogged
<1>2. OwnerInvariant /\ RingInvariant /\ AccountInvariant /\ SettledBound /\ SettledBound'
          /\ FreedIsWritten' /\ [Next]_vars => [Life!Next]_(Life!life_vars)
    BY NextIsInLife DEF LifeStep
<1>3. QED
    BY <1>1, <1>2, InitIsInLife, FreedIsSettled, AccountsAreKept, RingsAreInOrder,
       OwnersAgree, PTL
    DEF Spec, ImplementsLife, Life!Spec

-----------------------------------------------------------------------------
(* The passes over the rings: LoggerPass.                                  *)

Place == [s \in Slots |-> IF d_slots[s] = Null THEN "free"
                          ELSE IF d_slots[s] \notin heap THEN "freed" ELSE d_phase[d_slots[s]]]
Waiting == OfRings([p \in Producers |-> Len(d_ring[p].queue)])
Known == OfRings([p \in Producers |-> d_ring[p].known])
Count == IF count < k_RING_CAPACITY THEN count ELSE k_RING_CAPACITY

PassStep == [Pass!Next]_(Pass!vars)

\* The producer whose ring is the r-th, or Null.
Rings == 1..(k_MAX_THREADS + 1)
RingOf(r) == IF r \in Slots THEN d_slots[r] ELSE Shared

LEMMA SameRings == Pass!Slots = Slots /\ Pass!Shared = k_MAX_THREADS + 1 /\ Pass!Rings = Rings
BY DEF Pass!Slots, Slots, Pass!Shared, Pass!Rings, Rings

LEMMA RingsOwn ==
    ASSUME OwnerInvariant, NEW r \in Rings, RingOf(r) # Null
    PROVE  /\ RingOf(r) \in Producers
           /\ \A q \in Rings : RingOf(q) = RingOf(r) => q = r
<1>1. \A s \in Slots : d_slots[s] # Null => d_slots[s] \in Registered /\ d_slots[s] # Shared
    BY DEF OwnerInvariant, OwnerTypes, Registered
<1>2. \A q \in Rings : q \notin Slots => q = k_MAX_THREADS + 1
    BY SlotTypes DEF Rings, Slots
<1>3. \A s, q \in Slots : d_slots[s] # Null /\ d_slots[s] = d_slots[q] => s = q
    BY DEF OwnerInvariant, SlotsOwn
<1>4. QED BY <1>1, <1>2, <1>3, ProducerTypes DEF RingOf, Registered

LEMMA RingViews ==
    ASSUME OwnerInvariant, NEW r \in Rings
    PROVE  /\ Waiting[r] = IF RingOf(r) = Null THEN 0 ELSE Len(d_ring[RingOf(r)].queue)
           /\ Known[r] = IF RingOf(r) = Null THEN 0 ELSE d_ring[RingOf(r)].known
<1>1. Shared \in Producers /\ Shared # Null
    BY ProducerTypes
<1>2. r \in Slots /\ d_slots[r] # Null => d_slots[r] \in Producers
    BY DEF OwnerInvariant, OwnerTypes, Registered
<1>3. r \in 1..(k_MAX_THREADS + 1)
    BY DEF Rings
<1>4. QED BY <1>1, <1>2, <1>3 DEF Waiting, Known, OfRings, RingOf

LEMMA ViewsStay ==
    ASSUME OwnerInvariant, UNCHANGED d_slots,
           \A p \in Producers : /\ Len(d_ring'[p].queue) = Len(d_ring[p].queue)
                                /\ d_ring'[p].known = d_ring[p].known
    PROVE  Waiting' = Waiting /\ Known' = Known
<1>1. [p \in Producers |-> Len(d_ring'[p].queue)] = [p \in Producers |-> Len(d_ring[p].queue)]
    OBVIOUS
<1>2. [p \in Producers |-> d_ring'[p].known] = [p \in Producers |-> d_ring[p].known]
    OBVIOUS
<1>3. QED BY <1>1, <1>2 DEF Waiting, Known, OfRings

\* One ring holds more or less, or more or less is known of it.
LEMMA ViewChanges ==
    ASSUME OwnerInvariant, UNCHANGED d_slots,
           NEW r \in Rings, NEW p \in Producers, RingOf(r) = p,
           \A q \in Producers \ {p} : /\ Len(d_ring'[q].queue) = Len(d_ring[q].queue)
                                      /\ d_ring'[q].known = d_ring[q].known
    PROVE  /\ Waiting[r] = Len(d_ring[p].queue) /\ Known[r] = d_ring[p].known
           /\ Waiting' = [Waiting EXCEPT ![r] = Len(d_ring'[p].queue)]
           /\ Known' = [Known EXCEPT ![r] = d_ring'[p].known]
<1>1. p # Null
    BY ProducerTypes
<1>2. \A q \in Rings \ {r} : RingOf(q) # p
    BY <1>1, RingsOwn
<1>3. \A q \in Rings : RingOf(q) # Null => RingOf(q) \in Producers
    BY RingsOwn
<1>4. \A q \in Rings :
          /\ Waiting[q] = IF RingOf(q) = Null THEN 0 ELSE Len(d_ring[RingOf(q)].queue)
          /\ Known[q] = IF RingOf(q) = Null THEN 0 ELSE d_ring[RingOf(q)].known
    BY RingViews
<1>5. \A q \in Rings :
          /\ Waiting'[q] = IF RingOf(q) = Null THEN 0 ELSE Len(d_ring'[RingOf(q)].queue)
          /\ Known'[q] = IF RingOf(q) = Null THEN 0 ELSE d_ring'[RingOf(q)].known
    <2> SUFFICES ASSUME NEW q \in Rings
                 PROVE  /\ Waiting'[q] = IF RingOf(q) = Null THEN 0
                                         ELSE Len(d_ring'[RingOf(q)].queue)
                        /\ Known'[q] = IF RingOf(q) = Null THEN 0 ELSE d_ring'[RingOf(q)].known
        OBVIOUS
    <2>1. q \in 1..(k_MAX_THREADS + 1)
        BY DEF Rings
    <2>2. q \in Slots => RingOf(q) = d_slots[q] /\ d_slots'[q] = d_slots[q]
        BY DEF RingOf
    <2>3. q \notin Slots => RingOf(q) = Shared
        BY DEF RingOf
    <2>4. QED BY <1>3, <2>1, <2>2, <2>3, ProducerTypes DEF Waiting, Known, OfRings
<1>6. /\ DOMAIN Waiting = Rings /\ DOMAIN Waiting' = Rings
      /\ DOMAIN Known = Rings /\ DOMAIN Known' = Rings
      /\ Waiting = [q \in Rings |-> Waiting[q]] /\ Waiting' = [q \in Rings |-> Waiting'[q]]
      /\ Known = [q \in Rings |-> Known[q]] /\ Known' = [q \in Rings |-> Known'[q]]
    BY DEF Waiting, Known, OfRings, Rings
<1>7. /\ Waiting'[r] = Len(d_ring'[p].queue) /\ Known'[r] = d_ring'[p].known
      /\ \A q \in Rings \ {r} : Waiting'[q] = Waiting[q] /\ Known'[q] = Known[q]
    BY <1>1, <1>2, <1>3, <1>4, <1>5
<1>8. Waiting' = [Waiting EXCEPT ![r] = Len(d_ring'[p].queue)]
    BY <1>6, <1>7
<1>9. Known' = [Known EXCEPT ![r] = d_ring'[p].known]
    BY <1>6, <1>7
<1>10. QED BY <1>1, <1>4, <1>8, <1>9

LEMMA PlaceStays ==
    ASSUME UNCHANGED d_slots,
           \A s \in Slots : d_slots[s] # Null =>
               /\ d_slots[s] \in heap' <=> d_slots[s] \in heap
               /\ d_phase'[d_slots[s]] = d_phase[d_slots[s]]
    PROVE  Place' = Place
BY DEF Place

LEMMA PlaceChanges ==
    ASSUME NEW s \in Slots, NEW now, Place'[s] = now,
           \A r \in Slots \ {s} : Place'[r] = Place[r]
    PROVE  Place' = [Place EXCEPT ![s] = now]
BY DEF Place

LEMMA PassStutters ==
    ASSUME UNCHANGED <<Place, Waiting, Known, Count, logger_at, drainer, slot, phase, behind,
                       stop_requested>>
    PROVE  PassStep
BY DEF PassStep, Pass!vars, Pass!logger_vars, Place, Waiting, Known, Count

\* The threads that log, to whom the drainer's variables are nothing.
LEMMA SlotIsTakenInPass ==
    ASSUME OwnerInvariant, RingInvariant, AccountInvariant, LiveHasItsThread, StopIsLast,
           NEW t \in Threads, TrySlot(t), d_slots[scanned[t]] = Null
    PROVE  PassStep
<1>1. /\ thread_at[t] = "scanning" /\ scanned[t] \in Slots
      /\ d_slots' = [d_slots EXCEPT ![scanned[t]] = producer_of(t)]
      /\ UNCHANGED <<heap, d_phase, d_ring, logger_vars, stop_requested>>
    BY DEF TrySlot
<1>2. PICK p \in Registered : p = producer_of(t) /\ d_phase[p] = "live" /\ p \in heap
    BY <1>1, ProducerOf, ProducerTypes DEF OwnerInvariant, ThreadsOwn
<1>3. PICK s \in Slots : s = scanned[t]
    BY <1>1
<1>4. d_slots \in [Slots -> Registered \union {Null}] /\ p # Null /\ p \in Producers
    BY ProducerTypes DEF OwnerInvariant, OwnerTypes, Registered
<1>5. d_slots'[s] = p /\ \A r \in Slots \ {s} : d_slots'[r] = d_slots[r]
    BY <1>1, <1>2, <1>3, <1>4
<1>6. Place[s] = "free" /\ Place' = [Place EXCEPT ![s] = "live"]
    <2>1. Place[s] = "free"
        BY <1>3 DEF Place
    <2>2. Place'[s] = "live" /\ \A r \in Slots \ {s} : Place'[r] = Place[r]
        BY <1>1, <1>2, <1>4, <1>5 DEF Place
    <2>3. QED BY <2>1, <2>2, PlaceChanges
<1>7. Len(d_ring[p].queue) = 0 /\ d_ring[p].known = 0
    <2>1. logged[p] = 0
        <3>1. registrations[t] \in 1..MaxRegistrations /\ p = <<t, registrations[t]>>
            BY <1>1, <1>2, ProducerOf DEF OwnerInvariant, ThreadsOwn
        <3>2. QED BY <1>1, <3>1 DEF LiveHasItsThread
    <2>2. /\ logged[p] = WrittenOf(p) + Len(d_ring[p].queue) + Held(p) + d_dropped[p]
          /\ WrittenOf(p) \in Nat /\ Len(d_ring[p].queue) \in Nat /\ Held(p) \in Nat
          /\ d_dropped[p] \in Nat
        BY <1>4, AccountTypes DEF RingAccount
    <2>3. Len(d_ring[p].queue) = 0
        BY <2>1, <2>2
    <2>4. d_ring[p].known \in Nat /\ d_ring[p].known <= Len(d_ring[p].queue)
        BY <1>4, RingFields DEF RingInvariant
    <2>5. QED BY <2>3, <2>4
<1>8. Waiting' = Waiting /\ Known' = Known
    <2> DEFINE lens == [q \in Producers |-> Len(d_ring[q].queue)]
               knowns == [q \in Producers |-> d_ring[q].known]
    <2>1. /\ Waiting = OfRings(lens) /\ Known = OfRings(knowns)
          /\ Waiting' = OfRings(lens)' /\ Known' = OfRings(knowns)'
        BY DEF Waiting, Known
    <2>2. lens[p] = 0 /\ knowns[p] = 0 /\ UNCHANGED <<lens, knowns>>
        BY <1>1, <1>4, <1>7
    <2> HIDE DEF lens, knowns
    <2>3. d_slots[s] = Null /\ d_slots'[s] = p
        BY <1>3, <1>5
    <2>4. OfRings(lens)' = OfRings(lens) /\ OfRings(knowns)' = OfRings(knowns)
        BY <1>4, <1>5, <2>2, <2>3 DEF OfRings
    <2>5. QED BY <2>1, <2>4
<1>9. ~stop_requested
    BY <1>1, ProducerOf DEF StopIsLast
<1>10. Pass!Register(s)
    BY <1>1, <1>6, <1>8, <1>9
    DEF Pass!Register, Pass!logger_vars, logger_vars, Place, Waiting, Known
<1>11. QED BY <1>10, SameRings DEF PassStep, Pass!Next

LEMMA CloseIsInPass ==
    ASSUME OwnerInvariant, NEW t \in Threads, Close(t)
    PROVE  PassStep
<1>1. /\ thread_at[t] = "inside"
      /\ d_phase' = [d_phase EXCEPT ![producer_of(t)] = "closed"]
      /\ UNCHANGED <<d_slots, heap, d_ring, logger_vars, stop_requested>>
    BY DEF Close
<1>2. PICK p \in Registered : p = producer_of(t) /\ InSlot(p)
    BY <1>1, HolderIsLive DEF HandleStates
<1>3. PICK s \in Slots : d_slots[s] = p
    BY <1>2 DEF InSlot
<1>4. /\ p \in heap /\ d_phase[p] = "live" /\ d_phase \in [Producers -> {"live", "closed"}]
      /\ p # Null /\ p \in Producers
    BY <1>1, <1>2, ProducerOf, ProducerTypes
    DEF OwnerInvariant, OwnerTypes, ThreadsOwn, Registered
<1>5. \A r \in Slots \ {s} : d_slots[r] # p
    BY <1>3, <1>4 DEF OwnerInvariant, SlotsOwn
<1>6. Place[s] = "live" /\ Place' = [Place EXCEPT ![s] = "closed"]
    <2>1. Place[s] = "live" /\ Place'[s] = "closed"
        BY <1>1, <1>2, <1>3, <1>4 DEF Place
    <2>2. \A r \in Slots \ {s} : Place'[r] = Place[r]
        BY <1>1, <1>2, <1>4, <1>5 DEF Place
    <2>3. QED BY <2>1, <2>2, PlaceChanges
<1>7. Waiting' = Waiting /\ Known' = Known
    BY <1>1, ViewsStay
<1>8. Pass!Close(s)
    BY <1>1, <1>6, <1>7
    DEF Pass!Close, Pass!logger_vars, logger_vars, Place, Waiting, Known
<1>9. QED BY <1>8, SameRings DEF PassStep, Pass!Next

\* A record that a ring accepts waits in it.
LEMMA PushIsInPass ==
    ASSUME OwnerInvariant, RingInvariant, AccountInvariant, StopIsLast,
           NEW t \in Loggers, PushAccepted(t)
    PROVE  PassStep
<1>1. /\ thread_at[t] = "pushing" /\ RoomFor(d_ring[producer_of(t)])
      /\ d_ring' = [d_ring EXCEPT ![producer_of(t)] = Accepted(@)]
      /\ UNCHANGED <<d_slots, heap, d_phase, logger_vars, stop_requested>>
    BY DEF PushAccepted
<1>2. PICK p \in Producers : p = producer_of(t) /\ d_phase[p] = "live" /\ p \in heap
    BY <1>1, HeldBy DEF HandingStates
<1>3. PICK r \in Rings : RingOf(r) = p
    <2>1. CASE t \in Threads
        <3>1. InSlot(p)
            BY <1>1, <1>2, <2>1, HolderIsLive DEF HandleStates
        <3>2. PICK s \in Slots : d_slots[s] = p
            BY <3>1 DEF InSlot
        <3>3. s \in Rings /\ RingOf(s) = p
            BY <3>2, SlotTypes DEF Slots, Rings, RingOf
        <3>4. QED BY <3>3
    <2>2. CASE t \notin Threads
        <3>1. p = Shared
            BY <1>2, <2>2 DEF Loggers, producer_of
        <3>2. k_MAX_THREADS + 1 \in Rings /\ k_MAX_THREADS + 1 \notin Slots
            BY SlotTypes DEF Rings
        <3>3. QED BY <3>1, <3>2 DEF RingOf
    <2>3. QED BY <2>1, <2>2
<1>4. d_ring[p] \in RingStates /\ d_ring[p].queue \in Seq(Nat) /\ d_ring[p].unseen \in Nat
    BY RingFields DEF RingInvariant
<1>5. /\ d_ring'[p] = Accepted(d_ring[p])
      /\ \A q \in Producers \ {p} : d_ring'[q] = d_ring[q]
    BY <1>1, <1>2 DEF RingInvariant, RingTypes
<1>6. Len(d_ring'[p].queue) = Len(d_ring[p].queue) + 1 /\ d_ring'[p].known = d_ring[p].known
    <2>1. d_ring[p].offered = <<logged[p]>> /\ logged[p] \in Nat
        BY <1>1, <1>2 DEF RingInvariant, OnePusher, RingTypes
    <2>2. /\ d_ring'[p].queue = d_ring[p].queue \o <<logged[p]>>
          /\ d_ring'[p].known = d_ring[p].known
        BY <1>4, <1>5, <2>1 DEF Accepted, RingStates
    <2>3. QED BY <1>4, <2>1, <2>2
<1>7. Waiting[r] < k_RING_CAPACITY
    <2>1. Len(d_ring[p].queue) + d_ring[p].unseen < k_RING_CAPACITY
        BY <1>1, <1>2 DEF RoomFor
    <2>2. Waiting[r] = Len(d_ring[p].queue)
        BY <1>3, <1>2, RingViews, ProducerTypes
    <2>3. QED BY <1>4, <2>1, <2>2, BoundTypes
<1>8. Waiting' = [Waiting EXCEPT ![r] = @ + 1] /\ Known' = Known
    <2>1. /\ Waiting[r] = Len(d_ring[p].queue) /\ Known[r] = d_ring[p].known
          /\ Waiting' = [Waiting EXCEPT ![r] = Len(d_ring'[p].queue)]
          /\ Known' = [Known EXCEPT ![r] = d_ring'[p].known]
        BY <1>1, <1>3, <1>5, ViewChanges
    <2>2. Known = [q \in Rings |-> Known[q]]
        BY DEF Known, OfRings, Rings
    <2>3. QED BY <1>6, <2>1, <2>2
<1>9. ~stop_requested
    BY <1>1 DEF StopIsLast
<1>10. r \in Slots => Place[r] = "live"
    BY <1>2, <1>3, ProducerTypes DEF Place, RingOf
<1>11. Place' = Place
    BY <1>1, PlaceStays
<1>12. Pass!Log(r)
    BY <1>1, <1>7, <1>8, <1>9, <1>10, <1>11, SameRings
    DEF Pass!Log, Pass!logger_vars, logger_vars, Place, Waiting, Known
<1>13. QED BY <1>12, SameRings DEF PassStep, Pass!Next

LEMMA ThreadIsInPass ==
    ASSUME OwnerInvariant, RingInvariant, AccountInvariant, LiveHasItsThread, StopIsLast,
           NEW t \in Loggers,
           \/ t \in Threads /\ (RegisterBegin(t) \/ Close(t) \/ Log(t))
           \/ t \in ForeignThreads /\ LogLocked(t)
           \/ ThreadStep(t)
    PROVE  PassStep
<1>1. UNCHANGED <<logger_vars, stop_requested>>
    BY ThreadLeaves
<1>2. ASSUME Place' = Place, Waiting' = Waiting, Known' = Known PROVE PassStep
    BY <1>1, <1>2, PassStutters DEF Count, logger_vars
<1>3. CASE t \in Threads /\ RegisterBegin(t)
    <2>1. /\ registrations' = [registrations EXCEPT ![t] = @ + 1]
          /\ registrations[t] < MaxRegistrations
          /\ heap' = heap \union {<<t, registrations'[t]>>}
          /\ UNCHANGED <<d_slots, d_phase, d_ring>>
        BY <1>3 DEF RegisterBegin
    <2>2. registrations \in [Threads -> 0..MaxRegistrations] /\ MaxRegistrations \in Nat
        BY LoggerAssumption DEF OwnerInvariant, OwnerTypes
    <2>3. registrations'[t] \in 1..MaxRegistrations /\ registrations'[t] > registrations[t]
        BY <1>3, <2>1, <2>2
    <2>4. ~InSlot(<<t, registrations'[t]>>)
        BY <1>3, <2>3 DEF OwnerInvariant, Registrations
    <2>5. Place' = Place
        BY <2>1, <2>4, PlaceStays DEF InSlot
    <2>6. Waiting' = Waiting /\ Known' = Known
        BY <2>1, ViewsStay
    <2>7. QED BY <1>2, <2>5, <2>6
<1>4. CASE t \in Threads /\ TrySlot(t)
    <2>1. CASE d_slots[scanned[t]] = Null
        BY <1>4, <2>1, SlotIsTakenInPass
    <2>2. CASE d_slots[scanned[t]] # Null
        <3>1. UNCHANGED <<d_slots, heap, d_phase, d_ring>>
            BY <1>4, <2>2 DEF TrySlot
        <3>2. QED BY <1>2, <3>1, PlaceStays, ViewsStay
    <2>3. QED BY <2>1, <2>2
<1>5. CASE t \in Threads /\ RegisterFails(t)
    <2>1. /\ thread_at[t] = "scanning" /\ heap' = heap \ {producer_of(t)}
          /\ UNCHANGED <<d_slots, d_phase, d_ring>>
        BY <1>5 DEF RegisterFails
    <2>2. ~InSlot(producer_of(t))
        BY <1>5, <2>1, ProducerOf DEF OwnerInvariant, ThreadsOwn
    <2>3. Place' = Place
        BY <2>1, <2>2, PlaceStays DEF InSlot
    <2>4. Waiting' = Waiting /\ Known' = Known
        BY <2>1, ViewsStay
    <2>5. QED BY <1>2, <2>3, <2>4
<1>6. CASE t \in Threads /\ Close(t)
    BY <1>6, CloseIsInPass
<1>7. CASE PushAccepted(t)
    BY <1>7, PushIsInPass
<1>8. CASE \/ t \in Threads /\ Log(t)
           \/ t \in ForeignThreads /\ LogLocked(t)
           \/ LearnPops(t) \/ PushRefused(t)
    <2>1. PICK p \in Producers : p = producer_of(t)
        <3>1. CASE t \in ForeignThreads
            BY <3>1, ProducerTypes DEF producer_of
        <3>2. CASE t \notin ForeignThreads
            <4>1. thread_at[t] \in HandleStates
                BY <1>8, <3>2 DEF Log, LearnPops, PushRefused, HandleStates
            <4>2. QED BY <4>1, OneCaller
        <3>3. QED BY <3>1, <3>2
    <2>2. /\ UNCHANGED <<d_slots, heap, d_phase>>
          /\ \E ring : d_ring' = [d_ring EXCEPT ![p] = ring]
          /\ \/ d_ring' = [d_ring EXCEPT ![p] = Offered(@, logged'[p])]
             \/ \E unseen : d_ring' = [d_ring EXCEPT ![p].unseen = unseen]
             \/ d_ring' = [d_ring EXCEPT ![p] = Refused(@, d_ring[p].unseen)]
        <3>1. CASE (t \in Threads /\ Log(t)) \/ (t \in ForeignThreads /\ LogLocked(t))
            BY <2>1, <3>1 DEF Log, LogLocked, Offer
        <3>2. CASE PushRefused(t)
            BY <2>1, <3>2 DEF PushRefused
        <3>3. CASE LearnPops(t)
            <4>1. /\ UNCHANGED <<d_slots, heap, d_phase>>
                  /\ \E unseen : d_ring' = [d_ring EXCEPT ![p].unseen = unseen]
                BY <2>1, <3>3 DEF LearnPops
            <4>2. PICK unseen : d_ring' = [d_ring EXCEPT ![p].unseen = unseen]
                BY <4>1
            <4>3. d_ring' = [d_ring EXCEPT ![p] = [d_ring[p] EXCEPT !.unseen = unseen]]
                BY <4>2
            <4>4. QED BY <4>1, <4>3
        <3>4. QED BY <1>8, <3>1, <3>2, <3>3
    <2>3. d_ring[p] \in RingStates /\ d_ring \in [Producers -> RingStates]
        BY RingFields DEF RingInvariant, RingTypes
    <2>4. d_ring'[p].queue = d_ring[p].queue /\ d_ring'[p].known = d_ring[p].known
        <3>1. \/ d_ring'[p] = Offered(d_ring[p], logged'[p])
              \/ \E unseen : d_ring'[p] = [d_ring[p] EXCEPT !.unseen = unseen]
              \/ d_ring'[p] = Refused(d_ring[p], d_ring[p].unseen)
            BY <2>2, <2>3
        <3>2. QED BY <2>3, <3>1 DEF Offered, Refused, RingStates
    <2>5. \A q \in Producers \ {p} : d_ring'[q] = d_ring[q]
        BY <2>2, <2>3
    <2>6. QED BY <1>2, <2>2, <2>4, <2>5, PlaceStays, ViewsStay
<1>9. CASE (t \in Threads /\ RefusalReturns(t)) \/ LoadDropped(t) \/ StoreDropped(t)
    <2>1. UNCHANGED <<d_slots, heap, d_phase, d_ring>>
        BY <1>9 DEF RefusalReturns, LoadDropped, StoreDropped
    <2>2. QED BY <1>2, <2>1, PlaceStays, ViewsStay
<1>10. QED BY <1>3, <1>4, <1>5, <1>6, <1>7, <1>8, <1>9 DEF ThreadStep

\* A ring that was live when it was looked at gives no more than a whole pass's worth.
PassIsBounded == logger_at = "popping" /\ phase = "live" => count <= k_RING_CAPACITY

LEMMA NextKeepsBound ==
    ASSUME OwnerInvariant, RingInvariant, AccountInvariant, RestTypes, PassIsBounded, [Next]_vars
    PROVE  PassIsBounded'
<1>1. count \in Nat /\ k_RING_CAPACITY \in Nat
    <2>1. count \in Nat
        BY DEF RestTypes
    <2>2. QED BY <2>1, BoundTypes
<1>2. CASE ReadPhase
    <2>1. count' = 0
        BY <1>2 DEF ReadPhase
    <2>2. QED BY <1>1, <2>1 DEF PassIsBounded
<1>3. CASE PopRecord
    <2>1. /\ logger_at = "popping" /\ ~(phase = "live" /\ count = k_RING_CAPACITY)
          /\ phase' = phase /\ count' = count + 1
        BY <1>3 DEF PopRecord, WholePass
    <2>2. QED BY <1>1, <2>1 DEF PassIsBounded
<1>4. CASE ~ReadPhase /\ ~PopRecord /\ (LoggerStep \/ LearnPushes)
    BY <1>4
    DEF LoggerStep, CheckStop, LoadSlot, PopsEnd, TakeDropped, FreeProducer, ClearSlot, Rest,
        LearnPushes, RingDone, PassIsBounded
<1>5. CASE RequestStop \/ Join \/ UNCHANGED vars
    BY <1>5 DEF RequestStop, Join, vars, logger_vars, PassIsBounded
<1>6. ASSUME UNCHANGED logger_vars PROVE PassIsBounded'
    BY <1>6 DEF logger_vars, PassIsBounded
<1>7. CASE \E t \in Threads : RegisterBegin(t) \/ Close(t) \/ Log(t)
    BY <1>6, <1>7, ThreadLeaves, ProducerOf
<1>8. CASE \E t \in ForeignThreads : LogLocked(t)
    BY <1>6, <1>8, ThreadLeaves DEF Loggers
<1>9. CASE \E t \in Loggers : ThreadStep(t)
    BY <1>6, <1>9, ThreadLeaves
<1>10. QED BY <1>2, <1>3, <1>4, <1>5, <1>7, <1>8, <1>9 DEF Next, Terminated

LEMMA CountTypesInPass ==
    ASSUME RestTypes, PassIsBounded
    PROVE  /\ count \in Nat /\ Count \in Nat /\ k_RING_CAPACITY \in Nat \ {0}
           /\ logger_at = "popping" => (Pass!WholePass <=> WholePass)
           /\ count' = 0 => Count' = 0
           /\ count' = count + 1 =>
                  Count' = IF Count < k_RING_CAPACITY THEN Count + 1 ELSE Count
<1>1. count \in Nat /\ k_RING_CAPACITY \in Nat \ {0}
    <2>1. count \in Nat
        BY DEF RestTypes
    <2>2. QED BY <2>1, BoundTypes
<1>2. Count \in Nat
    BY <1>1 DEF Count
<1>3. Pass!WholePass <=> phase = "live" /\ Count = k_RING_CAPACITY
    BY DEF Pass!WholePass, Count
<1>4. logger_at = "popping" => (Pass!WholePass <=> WholePass)
    <2>1. logger_at = "popping" /\ phase = "live" => count <= k_RING_CAPACITY
        BY DEF PassIsBounded
    <2>2. count <= k_RING_CAPACITY => (Count = k_RING_CAPACITY <=> count = k_RING_CAPACITY)
        BY <1>1 DEF Count
    <2>3. QED BY <1>3, <2>1, <2>2 DEF WholePass
<1>5. count' = 0 => Count' = 0
    BY <1>1 DEF Count
<1>6. count' = count + 1 => Count' = IF Count < k_RING_CAPACITY THEN Count + 1 ELSE Count
    BY <1>1 DEF Count
<1>7. QED BY <1>1, <1>2, <1>4, <1>5, <1>6

\* What a pass does with the ring it is at.
LEMMA DrainedRingInPass ==
    ASSUME OwnerInvariant, logger_at \in DrainStates
    PROVE  /\ slot \in Rings /\ RingOf(slot) = producer /\ producer \in Producers
           /\ logger_at # "clearing" => producer \in heap
<1>1. slot \in Rings
    BY DEF OwnerInvariant, OwnerTypes, Rings
<1>2. producer \in Producers
    BY DrainedRing
<1>3. QED BY <1>1, <1>2 DEF OwnerInvariant, SlotsOwn, DrainerHolds, RingOf

LEMMA DrainedViewChanges ==
    ASSUME OwnerInvariant, logger_at \in DrainStates, UNCHANGED d_slots,
           NEW p \in Producers, p = producer,
           \A q \in Producers \ {p} : d_ring'[q] = d_ring[q]
    PROVE  /\ Waiting[slot] = Len(d_ring[p].queue) /\ Known[slot] = d_ring[p].known
           /\ Waiting' = [Waiting EXCEPT ![slot] = Len(d_ring'[p].queue)]
           /\ Known' = [Known EXCEPT ![slot] = d_ring'[p].known]
<1>1. PICK r \in Rings : r = slot
    BY DrainedRingInPass
<1>2. RingOf(r) = p
    BY <1>1, DrainedRingInPass
<1>3. \A q \in Producers \ {p} : /\ Len(d_ring'[q].queue) = Len(d_ring[q].queue)
                                 /\ d_ring'[q].known = d_ring[q].known
    OBVIOUS
<1>4. /\ Waiting[r] = Len(d_ring[p].queue) /\ Known[r] = d_ring[p].known
      /\ Waiting' = [Waiting EXCEPT ![r] = Len(d_ring'[p].queue)]
      /\ Known' = [Known EXCEPT ![r] = d_ring'[p].known]
    BY <1>2, <1>3, ViewChanges
<1>5. QED BY <1>1, <1>4

LEMMA ReadPhaseIsInPass ==
    ASSUME OwnerInvariant, RingInvariant, RestTypes, PassIsBounded, ReadPhase
    PROVE  Pass!ReadPhase
<1>1. /\ logger_at = "reading phase" /\ logger_at' = "popping"
      /\ phase' = d_phase[producer] /\ count' = 0
      /\ d_ring' = IF phase' = "closed"
                   THEN [d_ring EXCEPT ![producer] = Synchronized(@)] ELSE d_ring
      /\ UNCHANGED <<d_slots, heap, d_phase, drainer, slot, behind, stop_requested>>
    BY DEF ReadPhase, DrainUnchanged
<1>2. PICK p \in Producers : p = producer /\ slot \in Rings /\ RingOf(slot) = p /\ p \in heap
    BY <1>1, DrainedRingInPass DEF DrainStates
<1>3. phase' = IF slot \in Slots THEN Place[slot] ELSE "live"
    BY <1>1, <1>2, ProducerTypes DEF Place, RingOf, OwnerInvariant, DrainerHolds
<1>4. RingTypes
    BY DEF RingInvariant
<1>5. /\ d_ring'[p].queue = d_ring[p].queue
      /\ d_ring'[p].known = IF phase' = "closed" THEN Len(d_ring[p].queue) ELSE d_ring[p].known
      /\ \A q \in Producers \ {p} : d_ring'[q] = d_ring[q]
    <2>1. CASE phase' = "closed"
        <3>1. /\ d_ring'[p] = Synchronized(d_ring[p])
              /\ \A q \in Producers \ {p} : d_ring'[q] = d_ring[q]
            BY <1>1, <1>2, <1>4, <2>1 DEF RingTypes
        <3>2. QED BY <1>4, <2>1, <3>1, SynchronizedFields
    <2>2. CASE phase' # "closed"
        BY <1>1, <2>2
    <2>3. QED BY <2>1, <2>2
<1>6. /\ Waiting[slot] = Len(d_ring[p].queue) /\ Known[slot] = d_ring[p].known
      /\ Waiting' = [Waiting EXCEPT ![slot] = Len(d_ring'[p].queue)]
      /\ Known' = [Known EXCEPT ![slot] = d_ring'[p].known]
    <2>1. UNCHANGED d_slots /\ logger_at \in DrainStates
        BY <1>1 DEF DrainStates
    <2>2. QED BY <1>2, <1>5, <2>1, DrainedViewChanges
<1>7. Waiting = [q \in Rings |-> Waiting[q]] /\ Known = [q \in Rings |-> Known[q]]
    BY DEF Waiting, Known, OfRings, Rings
<1>8. Waiting' = Waiting
    BY <1>5, <1>6, <1>7
<1>9. Known' = IF phase' = "closed" THEN [Known EXCEPT ![slot] = Waiting[slot]] ELSE Known
    BY <1>5, <1>6, <1>7
<1>10. Place' = Place /\ Count' = 0
    BY <1>1, PlaceStays, CountTypesInPass
<1>11. QED
    BY <1>1, <1>3, <1>8, <1>9, <1>10, SameRings
    DEF Pass!ReadPhase, Place, Waiting, Known, Count

LEMMA LearnPushesIsInPass ==
    ASSUME OwnerInvariant, RingInvariant, RestTypes, PassIsBounded, LearnPushes
    PROVE  Pass!LearnPushes(slot)
<1>1. /\ logger_at = "popping" /\ ~WholePass /\ d_ring[producer].known = 0
      /\ \E known \in 1..Len(d_ring[producer].queue) :
            d_ring' = [d_ring EXCEPT ![producer].known = known]
      /\ UNCHANGED <<d_slots, heap, d_phase, logger_at, drainer, slot, phase, count, behind,
                     stop_requested>>
    BY DEF LearnPushes, DrainUnchanged
<1>2. PICK p \in Producers : p = producer
    BY <1>1, DrainedRingInPass DEF DrainStates
<1>3. PICK known \in 1..Len(d_ring[p].queue) : d_ring' = [d_ring EXCEPT ![p].known = known]
    BY <1>1, <1>2
<1>4. d_ring \in [Producers -> RingStates] /\ d_ring[p] \in RingStates
    BY DEF RingInvariant, RingTypes
<1>5. /\ d_ring'[p] = [d_ring[p] EXCEPT !.known = known]
      /\ \A q \in Producers \ {p} : d_ring'[q] = d_ring[q]
    BY <1>3, <1>4
<1>6. d_ring'[p].queue = d_ring[p].queue /\ d_ring'[p].known = known
    BY <1>4, <1>5 DEF RingStates
<1>7. /\ Waiting[slot] = Len(d_ring[p].queue) /\ Known[slot] = d_ring[p].known
      /\ Waiting' = [Waiting EXCEPT ![slot] = Len(d_ring'[p].queue)]
      /\ Known' = [Known EXCEPT ![slot] = d_ring'[p].known]
    <2>1. UNCHANGED d_slots /\ logger_at \in DrainStates
        BY <1>1 DEF DrainStates
    <2>2. QED BY <1>2, <1>5, <2>1, DrainedViewChanges
<1>8. Waiting = [q \in Rings |-> Waiting[q]]
    BY DEF Waiting, OfRings, Rings
<1>9. /\ Known[slot] = 0 /\ Waiting' = Waiting
      /\ \E n \in 1..Waiting[slot] : Known' = [Known EXCEPT ![slot] = n]
    BY <1>1, <1>2, <1>6, <1>7, <1>8
<1>10. ~Pass!WholePass
    BY <1>1, CountTypesInPass
<1>11. Place' = Place /\ Count' = Count
    BY <1>1, PlaceStays DEF Count
<1>12. QED
    BY <1>1, <1>9, <1>10, <1>11
    DEF Pass!LearnPushes, Pass!logger_vars, Place, Waiting, Known, Count

LEMMA PopRecordIsInPass ==
    ASSUME OwnerInvariant, RingInvariant, RestTypes, PassIsBounded, PopRecord
    PROVE  Pass!PopRecord
<1>1. /\ logger_at = "popping" /\ ~WholePass /\ count' = count + 1
      /\ UNCHANGED <<d_slots, heap, d_phase, logger_at, drainer, slot, phase, behind,
                     stop_requested>>
    BY DEF PopRecord, DrainUnchanged
<1>2. PICK p \in Producers : p = producer
    BY <1>1, DrainedRingInPass DEF DrainStates
<1>3. /\ d_ring[p].known \in Nat \ {0}
      /\ d_ring'[p].known = d_ring[p].known - 1
      /\ Len(d_ring'[p].queue) = Len(d_ring[p].queue) - 1
      /\ \A q \in Producers \ {p} : d_ring'[q] = d_ring[q]
    BY <1>2, PoppedLengths
<1>4. /\ Waiting[slot] = Len(d_ring[p].queue) /\ Known[slot] = d_ring[p].known
      /\ Waiting' = [Waiting EXCEPT ![slot] = Len(d_ring'[p].queue)]
      /\ Known' = [Known EXCEPT ![slot] = d_ring'[p].known]
    <2>1. UNCHANGED d_slots /\ logger_at \in DrainStates
        BY <1>1 DEF DrainStates
    <2>2. QED BY <1>2, <1>3, <2>1, DrainedViewChanges
<1>5. /\ Known[slot] > 0 /\ Known' = [Known EXCEPT ![slot] = @ - 1]
      /\ Waiting' = [Waiting EXCEPT ![slot] = @ - 1]
    BY <1>3, <1>4
<1>6. ~Pass!WholePass /\ Count' = IF Count < k_RING_CAPACITY THEN Count + 1 ELSE Count
    BY <1>1, CountTypesInPass
<1>7. Place' = Place
    BY <1>1, PlaceStays
<1>8. QED
    BY <1>1, <1>5, <1>6, <1>7 DEF Pass!PopRecord, Place, Waiting, Known, Count

LEMMA PopsEndIsInPass ==
    ASSUME OwnerInvariant, RingInvariant, RestTypes, PassIsBounded, PopsEnd
    PROVE  Pass!PopsEnd
<1>1. /\ logger_at = "popping" /\ logger_at' = "taking drops"
      /\ UNCHANGED <<d_slots, heap, d_phase, drainer, slot, phase, count, stop_requested>>
      /\ \/ WholePass /\ behind' = TRUE /\ d_ring' = d_ring
         \/ /\ ~WholePass /\ d_ring[producer].known = 0 /\ behind' = behind
            /\ d_ring' = [d_ring EXCEPT ![producer].pop_answer = <<>>]
    BY DEF PopsEnd, DrainUnchanged
<1>2. slot \in Rings /\ RingOf(slot) = producer /\ producer \in Producers
    BY <1>1, DrainedRingInPass DEF DrainStates
<1>3. \A p \in Producers : /\ Len(d_ring'[p].queue) = Len(d_ring[p].queue)
                           /\ d_ring'[p].known = d_ring[p].known
    <2> SUFFICES ASSUME NEW p \in Producers
                 PROVE  /\ d_ring'[p].queue = d_ring[p].queue
                        /\ d_ring'[p].known = d_ring[p].known
        OBVIOUS
    <2>1. d_ring \in [Producers -> RingStates] /\ d_ring[p] \in RingStates
        BY DEF RingInvariant, RingTypes
    <2>2. d_ring'[p] = d_ring[p] \/ d_ring'[p] = [d_ring[p] EXCEPT !.pop_answer = <<>>]
        BY <1>1, <2>1
    <2>3. QED BY <2>1, <2>2 DEF RingStates
<1>4. Waiting' = Waiting /\ Known' = Known
    BY <1>1, <1>3, ViewsStay
<1>5. Known[slot] = d_ring[producer].known
    BY <1>2, RingViews, ProducerTypes
<1>6. /\ Place' = Place /\ Count' = Count
      /\ Pass!WholePass <=> WholePass
    BY <1>1, PlaceStays, CountTypesInPass DEF Count
<1>7. QED
    BY <1>1, <1>4, <1>5, <1>6 DEF Pass!PopsEnd, Place, Waiting, Known, Count

LEMMA FreeProducerIsInPass ==
    ASSUME OwnerInvariant, FreeProducer
    PROVE  Pass!FreeProducer
<1>1. /\ logger_at = "freeing" /\ logger_at' = "clearing" /\ heap' = heap \ {producer}
      /\ UNCHANGED <<d_slots, d_phase, d_ring, drainer, slot, phase, count, behind,
                     stop_requested>>
    BY DEF FreeProducer, DrainUnchanged
<1>2. slot \in Slots /\ producer = d_slots[slot] /\ producer # Null
    BY <1>1 DEF OwnerInvariant, DrainerHolds, DrainStates
<1>3. PICK s \in Slots : s = slot
    BY <1>2
<1>4. \A r \in Slots \ {s} : d_slots[r] # producer
    BY <1>2, <1>3 DEF OwnerInvariant, SlotsOwn
<1>5. Place'[s] = "freed" /\ \A r \in Slots \ {s} : Place'[r] = Place[r]
    BY <1>1, <1>2, <1>3, <1>4 DEF Place
<1>6. Place' = [Place EXCEPT ![slot] = "freed"]
    BY <1>3, <1>5, PlaceChanges
<1>7. Waiting' = Waiting /\ Known' = Known /\ Count' = Count
    BY <1>1, ViewsStay DEF Count
<1>8. QED
    BY <1>1, <1>6, <1>7 DEF Pass!FreeProducer, Place, Waiting, Known, Count

LEMMA ClearSlotIsInPass ==
    ASSUME OwnerInvariant, RingInvariant, RestTypes, FreedIsEmpty, PassIsBounded, ClearSlot
    PROVE  Pass!ClearSlot
<1>1. /\ logger_at = "clearing" /\ d_slots' = [d_slots EXCEPT ![slot] = Null] /\ RingDone
      /\ UNCHANGED <<heap, d_phase, d_ring, drainer, behind, stop_requested>>
    BY DEF ClearSlot, DrainUnchanged
<1>2. slot \in Slots /\ producer = d_slots[slot] /\ producer # Null /\ phase = "closed"
    BY <1>1 DEF OwnerInvariant, DrainerHolds, DrainStates
<1>3. PICK s \in Slots, p \in Producers : s = slot /\ p = producer
    BY <1>1, <1>2, DrainedRing DEF DrainStates
<1>4. d_slots'[s] = Null /\ \A r \in Slots \ {s} : d_slots'[r] = d_slots[r]
    BY <1>1, <1>3 DEF OwnerInvariant, OwnerTypes
<1>5. Place' = [Place EXCEPT ![slot] = "free"]
    <2>1. Place'[s] = "free" /\ \A r \in Slots \ {s} : Place'[r] = Place[r]
        BY <1>1, <1>4 DEF Place
    <2>2. QED BY <1>3, <2>1, PlaceChanges
<1>6. Len(d_ring[p].queue) = 0 /\ d_ring[p].known = 0
    <2>1. d_ring[p].queue = <<>> /\ d_ring[p].known = Len(d_ring[p].queue)
        BY <1>1, <1>2, <1>3 DEF FreedIsEmpty
    <2>2. QED BY <2>1
<1>7. Waiting' = Waiting /\ Known' = Known
    <2> DEFINE lens == [q \in Producers |-> Len(d_ring[q].queue)]
               knowns == [q \in Producers |-> d_ring[q].known]
    <2>1. /\ Waiting = OfRings(lens) /\ Known = OfRings(knowns)
          /\ Waiting' = OfRings(lens)' /\ Known' = OfRings(knowns)'
        BY DEF Waiting, Known
    <2>2. lens[p] = 0 /\ knowns[p] = 0 /\ UNCHANGED <<lens, knowns>>
        BY <1>1, <1>6
    <2> HIDE DEF lens, knowns
    <2>3. d_slots[s] = p /\ d_slots'[s] = Null
        BY <1>2, <1>3, <1>4
    <2>4. OfRings(lens)' = OfRings(lens) /\ OfRings(knowns)' = OfRings(knowns)
        BY <1>4, <2>2, <2>3 DEF OfRings
    <2>5. QED BY <2>1, <2>4
<1>8. Pass!RingDone
    <2>1. count' = 0 => Count' = 0
        BY CountTypesInPass
    <2>2. QED BY <1>1, <2>1, SameRings DEF RingDone, Pass!RingDone, Count
<1>9. QED
    BY <1>1, <1>5, <1>7, <1>8 DEF Pass!ClearSlot, Place, Waiting, Known

\* The steps that leave slots, producers and rings alone.
LEMMA LookIsInPass ==
    ASSUME OwnerInvariant, RestTypes, PassIsBounded,
           CheckStop \/ LoadSlot \/ TakeDropped \/ Rest
    PROVE  Pass!LoggerStep
<1>1. /\ UNCHANGED <<d_slots, heap, d_phase, d_ring, drainer, stop_requested>>
    BY DEF CheckStop, LoadSlot, TakeDropped, Rest, DrainUnchanged
<1>2. Place' = Place /\ Waiting' = Waiting /\ Known' = Known
    BY <1>1, PlaceStays, ViewsStay
<1>3. CASE CheckStop
    <2>1. Count' = Count
        BY <1>3 DEF CheckStop, Count
    <2>2. Pass!CheckStop
        BY <1>1, <1>2, <1>3, <2>1
        DEF CheckStop, Pass!CheckStop, Place, Waiting, Known, Count
    <2>3. QED BY <2>2 DEF Pass!LoggerStep
<1>4. CASE LoadSlot
    <2>1. Count' = Count
        BY <1>4 DEF LoadSlot, Count
    <2>2. slot \in Slots => (Place[slot] = "free" <=> d_slots[slot] = Null)
        BY DEF Place, OwnerInvariant, OwnerTypes, Registered
    <2>3. Pass!LoadSlot
        BY <1>1, <1>2, <1>4, <2>1, <2>2, SameRings
        DEF LoadSlot, Pass!LoadSlot, Place, Waiting, Known, Count
    <2>4. QED BY <2>3 DEF Pass!LoggerStep
<1>5. CASE TakeDropped
    <2>1. /\ logger_at = "taking drops"
          /\ IF phase = "closed"
             THEN logger_at' = "freeing" /\ UNCHANGED <<slot, producer, phase, count>>
             ELSE RingDone
          /\ UNCHANGED behind
        BY <1>5 DEF TakeDropped
    <2>2. CASE phase = "closed"
        <3>1. Count' = Count
            BY <2>1, <2>2 DEF Count
        <3>2. Pass!TakeDropped
            BY <1>1, <1>2, <2>1, <2>2, <3>1
            DEF Pass!TakeDropped, Place, Waiting, Known, Count
        <3>3. QED BY <3>2 DEF Pass!LoggerStep
    <2>3. CASE phase # "closed"
        <3>1. count' = 0 => Count' = 0
            BY CountTypesInPass
        <3>2. Pass!RingDone
            BY <2>1, <2>3, <3>1, SameRings DEF RingDone, Pass!RingDone, Count
        <3>3. Pass!TakeDropped
            BY <1>1, <1>2, <2>1, <2>3, <3>2 DEF Pass!TakeDropped, Place, Waiting, Known
        <3>4. QED BY <3>3 DEF Pass!LoggerStep
    <2>4. QED BY <2>2, <2>3
<1>6. CASE Rest
    <2>1. Count' = Count
        BY <1>6 DEF Rest, Count
    <2>2. Pass!Rest
        BY <1>1, <1>2, <1>6, <2>1 DEF Rest, Pass!Rest, Place, Waiting, Known, Count
    <2>3. QED BY <2>2 DEF Pass!LoggerStep
<1>7. QED BY <1>3, <1>4, <1>5, <1>6

\* The destructor's steps.
LEMMA DestructorIsInPass ==
    ASSUME OwnerInvariant, RingInvariant, LiveHasItsThread, RequestStop \/ Join
    PROVE  Pass!RequestStop \/ Pass!Join
<1>1. Place' = Place
    BY PlaceStays DEF RequestStop, Join
<1>2. CASE RequestStop
    <2>1. /\ ~stop_requested /\ stop_requested' = TRUE
          /\ \A t \in Loggers : thread_at[t] = "outside"
          /\ UNCHANGED <<d_slots, d_ring, logger_at, drainer, slot, phase, count, behind>>
        BY <1>2 DEF RequestStop, logger_vars
    <2>2. \A s \in Slots : Place[s] # "live"
        <3> SUFFICES ASSUME NEW s \in Slots, Place[s] = "live" PROVE FALSE
            OBVIOUS
        <3>1. d_slots[s] # Null /\ d_slots[s] \in heap /\ d_phase[d_slots[s]] = "live"
            BY DEF Place
        <3>2. PICK t \in Threads, n \in 1..MaxRegistrations : d_slots[s] = <<t, n>>
            BY <3>1, ProducerTypes DEF OwnerInvariant, OwnerTypes
        <3>3. thread_at[t] \notin {"outside", "refused"}
            BY <3>1, <3>2 DEF LiveHasItsThread
        <3>4. QED BY <2>1, <3>3, ProducerOf
    <2>3. Waiting' = Waiting /\ Known' = Known /\ Count' = Count
        BY <2>1, ViewsStay DEF Count
    <2>4. Pass!RequestStop
        BY <1>1, <2>1, <2>2, <2>3, SameRings
        DEF Pass!RequestStop, Pass!logger_vars, Place, Waiting, Known, Count
    <2>5. QED BY <2>4
<1>3. CASE Join
    <2>1. /\ logger_at = "exited" /\ drainer' = "destructor" /\ logger_at' = "loading"
          /\ slot' = 1 /\ behind' = FALSE
          /\ d_ring' = [p \in Producers |-> Synchronized(d_ring[p])]
          /\ UNCHANGED <<d_slots, phase, count, stop_requested>>
        BY <1>3 DEF Join
    <2>2. \A p \in Producers : /\ d_ring'[p].queue = d_ring[p].queue
                               /\ d_ring'[p].known = Len(d_ring[p].queue)
        BY <2>1, SynchronizedFields DEF RingInvariant
    <2>3. /\ [p \in Producers |-> Len(d_ring'[p].queue)]
                 = [p \in Producers |-> Len(d_ring[p].queue)]
          /\ [p \in Producers |-> d_ring'[p].known] = [p \in Producers |-> Len(d_ring[p].queue)]
        BY <2>2
    <2>4. Waiting' = Waiting /\ Known' = Waiting /\ Count' = Count
        BY <2>1, <2>3 DEF Waiting, Known, OfRings, Count
    <2>5. Pass!Join
        BY <1>1, <2>1, <2>4 DEF Pass!Join, Place, Waiting, Known, Count
    <2>6. QED BY <2>5
<1>4. QED BY <1>2, <1>3

LEMMA InitIsInPass == Init => Pass!Init /\ PassIsBounded
<1> SUFFICES ASSUME Init PROVE Pass!Init /\ PassIsBounded
    OBVIOUS
<1>1. /\ d_slots = [s \in Slots |-> Null] /\ d_ring = [p \in Producers |-> EmptyRing]
      /\ logger_at = "checking" /\ drainer = "logger thread" /\ stop_requested = FALSE
      /\ slot = 1 /\ phase = "live" /\ count = 0 /\ behind = FALSE
    BY DEF Init
<1>2. Place = [s \in Slots |-> "free"]
    BY <1>1 DEF Place
<1>3. \A p \in Producers : Len(d_ring[p].queue) = 0 /\ d_ring[p].known = 0
    BY <1>1 DEF EmptyRing
<1>4. Waiting = [r \in Rings |-> 0] /\ Known = [r \in Rings |-> 0]
    <2> DEFINE lens == [p \in Producers |-> Len(d_ring[p].queue)]
               knowns == [p \in Producers |-> d_ring[p].known]
    <2>1. Waiting = OfRings(lens) /\ Known = OfRings(knowns)
        BY DEF Waiting, Known
    <2>2. lens[Shared] = 0 /\ knowns[Shared] = 0
        BY <1>3, ProducerTypes
    <2> HIDE DEF lens, knowns
    <2>3. \A s \in Slots : d_slots[s] = Null
        BY <1>1
    <2>4. OfRings(lens) = [r \in Rings |-> 0]
        BY <2>2, <2>3 DEF OfRings, Rings
    <2>5. OfRings(knowns) = [r \in Rings |-> 0]
        BY <2>2, <2>3 DEF OfRings, Rings
    <2>6. QED BY <2>1, <2>4, <2>5
<1>5. Count = 0
    BY <1>1, BoundTypes, LoggerAssumption DEF Count
<1>6. QED
    BY <1>1, <1>2, <1>4, <1>5, SameRings
    DEF Pass!Init, Place, Waiting, Known, Count, PassIsBounded

LEMMA NextIsInPass ==
    ASSUME OwnerInvariant, RingInvariant, AccountInvariant, EndInvariant, PassIsBounded,
           [Next]_vars
    PROVE  PassStep
<1>1. LiveHasItsThread /\ StopIsLast /\ FreedIsEmpty /\ RestTypes
    BY DEF EndInvariant
<1>2. CASE \E t \in Threads : RegisterBegin(t) \/ Close(t) \/ Log(t)
    BY <1>1, <1>2, ThreadIsInPass, ProducerOf
<1>3. CASE \E t \in ForeignThreads : LogLocked(t)
    BY <1>1, <1>3, ThreadIsInPass DEF Loggers
<1>4. CASE \E t \in Loggers : ThreadStep(t)
    BY <1>1, <1>4, ThreadIsInPass
<1>5. CASE LoggerStep
    <2>1. Pass!LoggerStep
        BY <1>1, <1>5, LookIsInPass, ReadPhaseIsInPass, PopRecordIsInPass, PopsEndIsInPass,
           FreeProducerIsInPass, ClearSlotIsInPass
        DEF LoggerStep, Pass!LoggerStep
    <2>2. QED BY <2>1 DEF PassStep, Pass!Next
<1>6. CASE LearnPushes
    <2>1. Pass!LearnPushes(slot) /\ slot \in Rings
        BY <1>1, <1>6, LearnPushesIsInPass, DrainedRingInPass DEF LearnPushes, DrainStates
    <2>2. QED BY <2>1, SameRings DEF PassStep, Pass!Next
<1>7. CASE RequestStop \/ Join
    BY <1>1, <1>7, DestructorIsInPass DEF PassStep, Pass!Next
<1>8. CASE UNCHANGED vars
    <2>1. Place' = Place /\ Waiting' = Waiting /\ Known' = Known
        BY <1>8, PlaceStays, ViewsStay DEF vars
    <2>2. QED BY <1>8, <2>1, PassStutters DEF vars, logger_vars, Count
<1>9. QED BY <1>2, <1>3, <1>4, <1>5, <1>6, <1>7, <1>8 DEF Next, Terminated

\* The logger thread and the destructor make the passes of LoggerPass, whatever the
\* threads do meanwhile, so that what is proved of those passes, where threads never
\* stop, is true of the Logger's (:591-640).
THEOREM LoggerImplementsPass == Spec => ImplementsPass
<1>1. OwnerInvariant /\ RingInvariant /\ AccountInvariant /\ EndInvariant /\ PassIsBounded
          /\ [Next]_vars => PassIsBounded' /\ [Pass!Next]_(Pass!vars)
    BY NextIsInPass, NextKeepsBound DEF PassStep, EndInvariant
<1>2. QED
    BY <1>1, InitIsInPass, EndsAreClean, AccountsAreKept, RingsAreInOrder, OwnersAgree, PTL
    DEF Spec, ImplementsPass, Pass!Spec
=============================================================================
