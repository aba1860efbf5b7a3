------------------------------ MODULE SpscRing ------------------------------
(***************************************************************************)
(* The single-producer, single-consumer ring of core_spsc_ring.h, one      *)
(* shared access per step.                                                 *)
(*                                                                         *)
(* Memory is modelled as C++ orders it.  A load of the other side's        *)
(* counter returns any value that was stored there and is not older than   *)
(* what this side read, or was told of, before.  An acquire load of a      *)
(* release store also makes everything the other side did before the store *)
(* happen before what this side does next: [pushes_known] and [pops_known] *)
(* are the counters up to which that is so.  Two accesses to a slot that   *)
(* nothing orders are a data race, which NoDataRace excludes.              *)
(*                                                                         *)
(* The counters count modulo Modulus, which is 2^64 in the program.        *)
(***************************************************************************)
EXTENDS Integers, Sequences

CONSTANTS
    Capacity,   \* t_CAPACITY
    Modulus,    \* the counters' number of values
    Values,     \* the values pushed
    Zero,       \* the content of a slot never written
    Batches     \* the sequences of values handed to try_push(span)

\* t_CAPACITY has a single bit, so it divides 2^64 and is below it: that is all
\* the code relies on.
ASSUME RingAssumption ==
    /\ Capacity \in Nat \ {0}
    /\ Modulus \in Nat /\ Modulus > Capacity /\ Modulus % Capacity = 0
    /\ Batches \subseteq Seq(Values)

VARIABLES
    d_head,          \* counts the values pushed, written by the producer
    d_cached_tail,   \* the producer's copy of d_tail
    d_tail,          \* counts the values popped, written by the consumer
    d_cached_head,   \* the consumer's copy of d_head
    d_slots,         \* the values, one slot per counter modulo Capacity
    \* What each side can still read of the other's counter.
    head_stores,     \* the values of d_head the consumer's next load may return
    tail_stores,     \* the values of d_tail the producer's next load may return
    pushes_known,    \* pushes before this counter happen before the consumer's next step
    pops_known,      \* pops before this counter happen before the producer's next step
    \* Where each thread is, and the locals it keeps between two steps.
    producer_at,     \* the producer's next step
    consumer_at,     \* the consumer's next step
    values,          \* the values being pushed, <<>> between two pushes
    copied,          \* number of them copied into their slots
    bytes,           \* the value copied out of its slot
    push_answer,     \* what the last push returned
    pop_answer       \* what the last pop returned: <<value>>, or <<>> for nullopt

producer_vars == <<d_head, d_cached_tail, d_slots, pops_known, producer_at,
                   values, copied, push_answer>>
consumer_vars == <<d_tail, d_cached_head, pushes_known, consumer_at, bytes,
                   pop_answer>>
vars == <<producer_vars, consumer_vars, head_stores, tail_stores>>

-----------------------------------------------------------------------------
(* Counters, slots and memory orders.                                      *)

Counters == 0..(Modulus - 1)
Slots == 0..(Capacity - 1)

\* Unsigned arithmetic: it wraps.
Plus(counter, count) == (counter + count) % Modulus
Minus(counter, other) == (counter - other) % Modulus

\* (An operator named X_Fault is X with a bug, for showing that a property
\* detects it; nothing else uses it.)

\* The low bits of a counter select its slot.
slot(counter) == counter % Capacity

PublishOrder == "release"          \* the stores of d_head
RefreshHeadOrder == "acquire"      \* the consumer's load of d_head
ReclaimOrder_Relaxed == "relaxed"
ReclaimOrder == "release"          \* the store of d_tail
RefreshTailOrder == "acquire"      \* the producer's load of d_tail

Synchronizes(store_order, load_order) ==
    store_order = "release" /\ load_order = "acquire"

\* Once [read] has been seen in [stores], whose latest is [latest], no older
\* store is.
NoOlder(stores, latest, read) ==
    {stored \in stores : Minus(latest, stored) <= Minus(latest, read)}

Full_OneTooLate(tail) == Minus(d_head, tail) > Capacity
Full(tail) == Minus(d_head, tail) = Capacity
TooLittleRoom_OneTooEarly(count, tail) ==
    count >= Minus(Capacity, Minus(d_head, tail))
TooLittleRoom(count, tail) == count > Minus(Capacity, Minus(d_head, tail))
Empty(head) == d_tail = head

Init ==
    /\ d_head = 0 /\ d_cached_tail = 0
    /\ d_tail = 0 /\ d_cached_head = 0
    /\ d_slots = [s \in Slots |-> Zero]
    /\ head_stores = {0} /\ pushes_known = 0
    /\ tail_stores = {0} /\ pops_known = 0
    /\ producer_at = "idle" /\ values = <<>> /\ copied = 0
    /\ consumer_at = "idle" /\ bytes = Zero
    /\ push_answer = FALSE /\ pop_answer = <<>>

-----------------------------------------------------------------------------
(* The producer.                                                           *)

\* The producer reads [read] from d_tail.
LoadTail(read) ==
    /\ d_cached_tail' = read
    /\ tail_stores' = NoOlder(tail_stores, d_tail, read)
    /\ pops_known' = IF Synchronizes(ReclaimOrder, RefreshTailOrder)
                     THEN read ELSE pops_known

\* The push returns.
PushReturns_KeepsIndex(answer) ==
    /\ producer_at' = "idle"
    /\ values' = <<>>
    /\ copied' = copied
    /\ push_answer' = answer
PushReturns(answer) ==
    /\ producer_at' = "idle"
    /\ values' = <<>>
    /\ copied' = 0
    /\ push_answer' = answer

\* try_push(value), up to its first access to memory the consumer writes.
TryPush_NoRefresh(value) ==
    /\ producer_at = "idle"
    /\ IF Full(d_cached_tail)
       THEN PushReturns(FALSE)
       ELSE /\ values' = <<value>> /\ producer_at' = "copying"
            /\ UNCHANGED <<copied, push_answer>>
    /\ UNCHANGED <<d_head, d_cached_tail, d_slots, pops_known>>
    /\ UNCHANGED <<consumer_vars, head_stores, tail_stores>>
TryPush(value) ==
    /\ producer_at = "idle"
    /\ values' = <<value>>
    /\ producer_at' = IF Full(d_cached_tail) THEN "refreshing" ELSE "copying"
    /\ UNCHANGED <<d_head, d_cached_tail, d_slots, pops_known, copied, push_answer>>
    /\ UNCHANGED <<consumer_vars, head_stores, tail_stores>>

\* try_push(span) when it returns without a look at the ring.
TryPushSpanAtOnce(batch) ==
    /\ producer_at = "idle"
    /\ batch = <<>> \/ Len(batch) > Capacity
    /\ PushReturns(batch = <<>>)
    /\ UNCHANGED <<d_head, d_cached_tail, d_slots, pops_known>>
    /\ UNCHANGED <<consumer_vars, head_stores, tail_stores>>

TryPushSpan(batch) ==
    /\ producer_at = "idle"
    /\ Len(batch) \in 1..Capacity
    /\ values' = batch
    /\ producer_at' = IF TooLittleRoom(Len(batch), d_cached_tail)
                      THEN "refreshing for span" ELSE "copying"
    /\ UNCHANGED <<d_head, d_cached_tail, d_slots, pops_known, copied, push_answer>>
    /\ UNCHANGED <<consumer_vars, head_stores, tail_stores>>

RefreshTail_Spins ==
    \E read \in tail_stores :
        /\ producer_at = "refreshing"
        /\ LoadTail(read)
        /\ producer_at' = IF Full(read) THEN "refreshing" ELSE "copying"
        /\ UNCHANGED <<values, copied, push_answer>>
        /\ UNCHANGED <<d_head, d_slots, consumer_vars, head_stores>>
RefreshTail ==
    \E read \in tail_stores :
        /\ producer_at = "refreshing"
        /\ LoadTail(read)
        /\ IF Full(read)
           THEN PushReturns(FALSE)
           ELSE producer_at' = "copying" /\ UNCHANGED <<values, copied, push_answer>>
        /\ UNCHANGED <<d_head, d_slots, consumer_vars, head_stores>>

RefreshTailForSpan ==
    \E read \in tail_stores :
        /\ producer_at = "refreshing for span"
        /\ LoadTail(read)
        /\ IF TooLittleRoom(Len(values), read)
           THEN PushReturns(FALSE)
           ELSE producer_at' = "copying" /\ UNCHANGED <<values, copied, push_answer>>
        /\ UNCHANGED <<d_head, d_slots, consumer_vars, head_stores>>

\* One memcpy into a slot.
CopyIn ==
    /\ producer_at = "copying"
    /\ copied < Len(values)
    /\ d_slots' = [d_slots EXCEPT ![slot(Plus(d_head, copied))] = values[copied + 1]]
    /\ copied' = copied + 1
    /\ UNCHANGED <<d_head, d_cached_tail, pops_known, producer_at, values, push_answer>>
    /\ UNCHANGED <<consumer_vars, head_stores, tail_stores>>

\* The one store of d_head that makes all the values of a push visible.
Publish_EachByItself ==
    /\ producer_at = "copying"
    /\ values # <<>>
    /\ d_head' = Plus(d_head, 1)
    /\ head_stores' = head_stores \union {d_head'}
    /\ IF copied = 1 /\ Len(values) = 1
       THEN PushReturns(TRUE)
       ELSE /\ copied = Len(values)
            /\ values' = Tail(values) /\ copied' = copied - 1
            /\ UNCHANGED <<producer_at, push_answer>>
    /\ UNCHANGED <<d_cached_tail, d_slots, pops_known, consumer_vars, tail_stores>>
Publish ==
    /\ producer_at = "copying"
    /\ copied = Len(values)
    /\ d_head' = Plus(d_head, Len(values))
    /\ head_stores' = head_stores \union {d_head'}
    /\ PushReturns(TRUE)
    /\ UNCHANGED <<d_cached_tail, d_slots, pops_known, consumer_vars, tail_stores>>

\* Between two calls the producer may synchronize with the consumer by other
\* means: a mutex, a join, the phase of a logger's producer.
ProducerSynchronizes ==
    /\ producer_at = "idle"
    /\ \E told \in tail_stores :
        /\ pops_known' = told
        /\ tail_stores' = NoOlder(tail_stores, d_tail, told)
    /\ UNCHANGED <<d_head, d_cached_tail, d_slots, producer_at, values, copied,
                   push_answer, consumer_vars, head_stores>>

ProducerStep == RefreshTail \/ RefreshTailForSpan \/ CopyIn \/ Publish

-----------------------------------------------------------------------------
(* The consumer.                                                           *)

\* The consumer reads [read] from d_head.
LoadHead(read) ==
    /\ d_cached_head' = read
    /\ head_stores' = NoOlder(head_stores, d_head, read)
    /\ pushes_known' = IF Synchronizes(PublishOrder, RefreshHeadOrder)
                       THEN read ELSE pushes_known

TryPop_NoRefresh ==
    /\ consumer_at = "idle"
    /\ consumer_at' = IF Empty(d_cached_head) THEN "idle" ELSE "reading"
    /\ pop_answer' = IF Empty(d_cached_head) THEN <<>> ELSE pop_answer
    /\ UNCHANGED <<d_tail, d_cached_head, pushes_known, bytes>>
    /\ UNCHANGED <<producer_vars, head_stores, tail_stores>>
TryPop ==
    /\ consumer_at = "idle"
    /\ consumer_at' = IF Empty(d_cached_head) THEN "refreshing" ELSE "reading"
    /\ UNCHANGED <<d_tail, d_cached_head, pushes_known, bytes, pop_answer>>
    /\ UNCHANGED <<producer_vars, head_stores, tail_stores>>

RefreshHead ==
    \E read \in head_stores :
        /\ consumer_at = "refreshing"
        /\ LoadHead(read)
        /\ IF Empty(read)
           THEN consumer_at' = "idle" /\ pop_answer' = <<>>
           ELSE consumer_at' = "reading" /\ UNCHANGED pop_answer
        /\ UNCHANGED <<d_tail, bytes, producer_vars, tail_stores>>

\* The memcpy out of the slot.
CopyOut ==
    /\ consumer_at = "reading"
    /\ bytes' = d_slots[slot(d_tail)]
    /\ consumer_at' = "reclaiming"
    /\ UNCHANGED <<d_tail, d_cached_head, pushes_known, pop_answer>>
    /\ UNCHANGED <<producer_vars, head_stores, tail_stores>>

\* The store of d_tail that hands the slot back, and the return.
Reclaim ==
    /\ consumer_at = "reclaiming"
    /\ d_tail' = Plus(d_tail, 1)
    /\ tail_stores' = tail_stores \union {d_tail'}
    /\ consumer_at' = "idle"
    /\ pop_answer' = <<bytes>>
    /\ UNCHANGED <<d_cached_head, pushes_known, bytes, producer_vars, head_stores>>

ConsumerSynchronizes ==
    /\ consumer_at = "idle"
    /\ \E told \in head_stores :
        /\ pushes_known' = told
        /\ head_stores' = NoOlder(head_stores, d_head, told)
    /\ UNCHANGED <<d_tail, d_cached_head, consumer_at, bytes, pop_answer,
                   producer_vars, tail_stores>>

ConsumerStep == RefreshHead \/ CopyOut \/ Reclaim

-----------------------------------------------------------------------------
Push ==
    \/ \E value \in Values : TryPush(value)
    \/ \E batch \in Batches : TryPushSpanAtOnce(batch) \/ TryPushSpan(batch)

Next ==
    \/ Push \/ ProducerStep \/ ProducerSynchronizes
    \/ TryPop \/ ConsumerStep \/ ConsumerSynchronizes

Spec == Init /\ [][Next]_vars

-----------------------------------------------------------------------------
(* Safety.                                                                 *)

TypeOK ==
    /\ {d_head, d_cached_tail, d_tail, d_cached_head, pushes_known, pops_known}
           \subseteq Counters
    /\ head_stores \subseteq Counters /\ tail_stores \subseteq Counters
    /\ d_slots \in [Slots -> Values \union {Zero}]
    /\ producer_at \in {"idle", "refreshing", "refreshing for span", "copying"}
    /\ consumer_at \in {"idle", "refreshing", "reading", "reclaiming"}
    /\ values \in Seq(Values) /\ copied \in 0..Len(values)
    /\ bytes \in Values \union {Zero}
    /\ push_answer \in BOOLEAN
    /\ pop_answer \in Seq(Values \union {Zero})

\* The copies of slots are plain memcpys, so they must never race (:34-46):
\* whenever the producer writes a slot, the read of the value the slot held
\* before happens before it, and whenever the consumer reads one, the write of
\* the value it expects there does.
NoDataRace ==
    /\ producer_at = "copying" /\ copied < Len(values)
           => Minus(Plus(d_head, copied), pops_known) < Capacity
    /\ consumer_at = "reading"
           => Minus(d_tail, pushes_known) # 0
              /\ Minus(pushes_known, d_tail) <= Capacity

\* No copy is ahead of the counter it copies, and none lags by more than the
\* ring holds (:48-51: a stale copy is always too small).  The order is that of
\* the distances to d_head, so that wrapping does not disturb it.
Behind(counter) == Minus(d_head, counter)

CountersInOrder ==
    /\ Behind(pushes_known) <= Behind(d_cached_head)
    /\ Behind(d_cached_head) <= Behind(d_tail)
    /\ Behind(d_tail) <= Behind(pops_known)
    /\ Behind(pops_known) <= Behind(d_cached_tail)
    /\ Behind(d_cached_tail) <= Capacity

StoresInOrder ==
    /\ d_head \in head_stores /\ d_tail \in tail_stores
    /\ \A stored \in head_stores : Behind(stored) <= Behind(pushes_known)
    /\ \A stored \in tail_stores :
          Behind(d_tail) <= Behind(stored) /\ Behind(stored) <= Behind(pops_known)

\* What a push relies on between its look at the room and its publication, and
\* a pop between its look at the head and the hand-back of the slot.
PushInOrder ==
    /\ producer_at = "idle" => values = <<>>
    /\ producer_at # "idle" => Len(values) \in 1..Capacity
    /\ producer_at = "refreshing" => Len(values) = 1
    /\ producer_at = "copying" => Behind(d_cached_tail) + Len(values) <= Capacity
    /\ producer_at # "copying" => copied = 0
    /\ \A i \in 1..copied : d_slots[slot(Plus(d_head, i - 1))] = values[i]

PopInOrder ==
    /\ consumer_at \in {"reading", "reclaiming"} =>
          Behind(d_cached_head) < Behind(d_tail)
    /\ consumer_at = "reclaiming" => bytes = d_slots[slot(d_tail)]

\* The inductive invariant the theorems of SpscRingProofs rest on: whatever the
\* interleaving, each side's copies and knowledge trail the real counters, the
\* room a push found stays there until it publishes, and the value a pop
\* copied is still the one in the slot when it hands the slot back.
RingInvariant == TypeOK /\ CountersInOrder /\ StoresInOrder /\ PushInOrder /\ PopInOrder

\* The refinement mapping: the ring holds the values from d_tail to d_head, and
\* each end trails by what it has not been told of.  A pop takes effect, and a
\* push becomes visible, at the one store of a counter.
Queue == [i \in 1..Minus(d_head, d_tail) |-> d_slots[slot(Plus(d_tail, i - 1))]]
Views == {Minus(stored, d_tail) : stored \in head_stores}
UnseenPops == Minus(d_tail, pops_known)

Fifo == INSTANCE SpscFifo WITH
    Batches <- Batches \union {<<value>> : value \in Values},
    queue <- Queue,
    views <- Views,
    unseen_pops <- UnseenPops,
    offered <- values

\* The ring is the bounded queue it says it is (:14-51, :245-268): values come
\* out in order, once each and unchanged, a batch goes in whole or not at all,
\* a push is refused and a pop is empty only when, for all this side knows, the
\* ring is full or empty, and no side forgets what it learnt.
ImplementsFifo == Fifo!Spec

-----------------------------------------------------------------------------
(* Liveness.  A load returns the latest store in a finite time, as C++     *)
(* asks of atomics, when it is tried again and again.                      *)

\* A side runs its own calls to their end.
ProducerFairness == WF_vars(ProducerStep)
ConsumerFairness == WF_vars(ConsumerStep)

TailArrives == (RefreshTail \/ RefreshTailForSpan) /\ d_cached_tail' = d_tail
HeadArrives == RefreshHead /\ d_cached_head' = d_head

\* Both sides also keep calling: the producer tries single values.
BothKeepCalling ==
    /\ ProducerFairness /\ ConsumerFairness
    /\ SF_vars(TailArrives) /\ SF_vars(HeadArrives)
    /\ SF_vars(\E value \in Values : TryPush(value))
    /\ WF_vars(TryPop)

\* Every call is wait-free (:15-20): it returns in a bounded number of its own
\* steps, whatever the other thread does or stops doing.
CallsReturn ==
    /\ ProducerFairness => (producer_at # "idle" ~> producer_at = "idle")
    /\ ConsumerFairness => (consumer_at # "idle" ~> consumer_at = "idle")

\* What was pushed is popped, however far behind the consumer's copies are.
PushedIsPopped ==
    BothKeepCalling => \A head \in Counters : d_head = head ~> d_tail = head

\* A full ring does not stay full for a producer that keeps trying while the
\* consumer keeps popping: a stale copy delays a push, and never for ever.
PushesGoOn ==
    BothKeepCalling => \A head \in Counters : d_head = head ~> d_head # head
=============================================================================
