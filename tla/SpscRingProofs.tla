--------------------------- MODULE SpscRingProofs ---------------------------
(***************************************************************************)
(* Theorems about SpscRing, for every capacity and every width of the      *)
(* counters, wrapping included.                                            *)
(***************************************************************************)
EXTENDS SpscRing, SequenceTheorems, TLAPS

-----------------------------------------------------------------------------
(* Modular arithmetic.                                                     *)

LEMMA Widths ==
    Capacity \in Nat /\ 1 <= Capacity /\ Modulus \in Nat /\ Capacity < Modulus
BY RingAssumption

\* Unsigned subtraction, without the remainder: a counter's distance ahead of
\* another.
LEMMA MinusValue ==
    ASSUME NEW a \in Counters, NEW b \in Counters
    PROVE  Minus(a, b) = IF b <= a THEN a - b ELSE a - b + Modulus
BY RingAssumption DEF Counters, Minus

LEMMA PlusValue ==
    ASSUME NEW a \in Counters, NEW n \in 0..Capacity
    PROVE  Plus(a, n) = IF a + n < Modulus THEN a + n ELSE a + n - Modulus
BY RingAssumption DEF Counters, Plus

LEMMA MinusType ==
    ASSUME NEW a \in Counters, NEW b \in Counters
    PROVE  Minus(a, b) \in Counters
BY MinusValue, Widths DEF Counters

LEMMA PlusType ==
    ASSUME NEW a \in Counters, NEW n \in 0..Capacity
    PROVE  Plus(a, n) \in Counters
BY PlusValue, Widths DEF Counters

\* The distance to a counter grows by what is added to the other, as long as
\* it stays below a whole turn.
LEMMA DistanceGrows ==
    ASSUME NEW a \in Counters, NEW b \in Counters, NEW n \in 0..Capacity,
           Minus(a, b) + n < Modulus
    PROVE  Minus(Plus(a, n), b) = Minus(a, b) + n
<1> DEFINE c == Plus(a, n)
<1>1. c \in Counters /\ c = IF a + n < Modulus THEN a + n ELSE a + n - Modulus
    BY PlusValue, PlusType
<1>2. Minus(c, b) = IF b <= c THEN c - b ELSE c - b + Modulus
    BY <1>1, MinusValue
<1>3. Minus(a, b) = IF b <= a THEN a - b ELSE a - b + Modulus
    BY MinusValue
<1> HIDE DEF c
<1>4. Minus(c, b) = Minus(a, b) + n
    BY <1>1, <1>2, <1>3, Widths DEF Counters
<1>5. QED BY <1>4 DEF c

LEMMA DistanceShrinks ==
    ASSUME NEW a \in Counters, NEW b \in Counters, NEW n \in 0..Capacity,
           n <= Minus(a, b)
    PROVE  Minus(a, Plus(b, n)) = Minus(a, b) - n
<1> DEFINE c == Plus(b, n)
<1>1. c \in Counters /\ c = IF b + n < Modulus THEN b + n ELSE b + n - Modulus
    BY PlusValue, PlusType
<1>2. Minus(a, c) = IF c <= a THEN a - c ELSE a - c + Modulus
    BY <1>1, MinusValue
<1>3. Minus(a, b) = IF b <= a THEN a - b ELSE a - b + Modulus
    BY MinusValue
<1> HIDE DEF c
<1>4. Minus(a, c) = Minus(a, b) - n
    BY <1>1, <1>2, <1>3, Widths DEF Counters
<1>5. QED BY <1>4 DEF c

\* Distances along one arc add up.
LEMMA DistancesAdd ==
    ASSUME NEW a \in Counters, NEW b \in Counters, NEW c \in Counters,
           Minus(a, b) <= Minus(a, c)
    PROVE  Minus(b, c) = Minus(a, c) - Minus(a, b)
BY MinusValue, Widths DEF Counters

LEMMA NoMultipleBetween ==
    ASSUME NEW C \in Nat, 1 <= C, NEW k \in Int, C * k \in 1..(C - 1)
    PROVE  FALSE
<1>1. CASE k <= 0
    <2>1. C * k <= 0
        BY <1>1
    <2>2. QED BY <2>1
<1>2. CASE k >= 1
    <2>1. C * k >= C
        BY <1>2
    <2>2. QED BY <2>1
<1>3. QED BY <1>1, <1>2

\* Two counters less than a capacity apart have different slots, however the
\* counters wrapped.
LEMMA SlotsDiffer ==
    ASSUME NEW a \in Counters, NEW b \in Counters, Minus(a, b) \in 1..(Capacity - 1)
    PROVE  slot(a) # slot(b)
<1> DEFINE C == Capacity
           p == a \div C
           q == b \div C
           L == Modulus \div C
<1>1. a = C * p + slot(a) /\ slot(a) \in 0..(C - 1) /\ p \in Int
    BY Widths DEF Counters, slot
<1>2. b = C * q + slot(b) /\ slot(b) \in 0..(C - 1) /\ q \in Int
    BY Widths DEF Counters, slot
<1>3. Modulus = C * L /\ L \in Int
    BY RingAssumption
<1>4. a \in Int /\ b \in Int /\ C \in Nat /\ 1 <= C
    BY Widths DEF Counters
<1>5. Minus(a, b) = IF b <= a THEN a - b ELSE a - b + Modulus
    BY MinusValue
<1> HIDE DEF C, p, q, L
<1>6. SUFFICES ASSUME slot(a) = slot(b) PROVE FALSE
    OBVIOUS
<1>7. C * (p - q) = C * p - C * q
    BY <1>1, <1>2, <1>4
<1>8. C * ((p - q) + L) = C * (p - q) + C * L
    BY <1>1, <1>2, <1>3, <1>4
<1>9. a - b = C * (p - q)
    BY <1>1, <1>2, <1>4, <1>6, <1>7
<1>10. CASE b <= a
    <2>1. C * (p - q) \in 1..(C - 1)
        BY <1>5, <1>9, <1>10 DEF C
    <2>2. p - q \in Int
        BY <1>1, <1>2
    <2>3. QED BY <2>1, <2>2, <1>4, NoMultipleBetween
<1>11. CASE ~(b <= a)
    <2>1. C * ((p - q) + L) \in 1..(C - 1)
        BY <1>3, <1>5, <1>8, <1>9, <1>11 DEF C
    <2>2. (p - q) + L \in Int
        BY <1>1, <1>2, <1>3
    <2>3. QED BY <2>1, <2>2, <1>4, NoMultipleBetween
<1>12. QED BY <1>10, <1>11

LEMMA SlotType ==
    ASSUME NEW a \in Counters
    PROVE  slot(a) \in Slots
BY RingAssumption DEF Counters, Slots, slot

-----------------------------------------------------------------------------
(* The invariant, one lemma per action.                                    *)

LEMMA NoValues == <<>> \in Seq(Values) /\ 0 \in 0..Len(<<>>)
OBVIOUS

LEMMA NoAnswer == <<>> \in Seq(Values \union {Zero})
OBVIOUS

LEMMA OneAnswer == ASSUME NEW S, NEW x \in S PROVE <<x>> \in Seq(S)
OBVIOUS

LEMMA BehindType ==
    ASSUME TypeOK, NEW a \in Counters
    PROVE  Behind(a) \in Counters
BY MinusType DEF TypeOK, Behind

LEMMA Distances ==
    ASSUME RingInvariant
    PROVE  /\ d_head \in Counters /\ d_tail \in Counters
           /\ d_cached_head \in Counters /\ d_cached_tail \in Counters
           /\ pushes_known \in Counters /\ pops_known \in Counters
           /\ Behind(d_tail) \in 0..Capacity
           /\ Behind(d_cached_head) \in 0..Capacity
           /\ Behind(d_cached_tail) \in 0..Capacity
           /\ Behind(pushes_known) \in 0..Capacity
           /\ Behind(pops_known) \in 0..Capacity
<1>1. /\ d_head \in Counters /\ d_tail \in Counters
      /\ d_cached_head \in Counters /\ d_cached_tail \in Counters
      /\ pushes_known \in Counters /\ pops_known \in Counters
    BY DEF RingInvariant, TypeOK
<1>2. /\ Behind(d_tail) \in Counters
      /\ Behind(d_cached_head) \in Counters
      /\ Behind(d_cached_tail) \in Counters
      /\ Behind(pushes_known) \in Counters
      /\ Behind(pops_known) \in Counters
    BY <1>1, BehindType DEF RingInvariant
<1>3. CountersInOrder
    BY DEF RingInvariant
<1>4. QED BY <1>1, <1>2, <1>3, Widths DEF CountersInOrder, Counters

LEMMA NoDistance ==
    ASSUME NEW a \in Counters
    PROVE  Minus(a, a) = 0
<1>1. Minus(a, a) = IF a <= a THEN a - a ELSE a - a + Modulus
    BY MinusValue
<1>2. QED BY <1>1, Widths DEF Counters

\* Different counters are at different distances.
LEMMA AheadUnlessEqual ==
    ASSUME NEW a \in Counters, NEW b \in Counters, d_head \in Counters,
           Behind(a) <= Behind(b), a # b
    PROVE  Behind(a) < Behind(b)
<1>1. Minus(d_head, a) = IF a <= d_head THEN d_head - a ELSE d_head - a + Modulus
    BY MinusValue
<1>2. Minus(d_head, b) = IF b <= d_head THEN d_head - b ELSE d_head - b + Modulus
    BY MinusValue
<1>3. QED BY <1>1, <1>2, Widths DEF Counters, Behind

\* The room computed from a copy that is no more than a capacity behind does not
\* wrap.
LEMMA RoomLeft ==
    ASSUME TypeOK, NEW tail \in Counters, Behind(tail) <= Capacity,
           NEW count \in Nat, ~TooLittleRoom(count, tail)
    PROVE  Behind(tail) + count <= Capacity
<1>1. Behind(tail) \in Counters /\ Capacity \in Counters
    BY BehindType, Widths DEF Counters
<1>2. Minus(Capacity, Behind(tail)) = Capacity - Behind(tail)
    BY <1>1, MinusValue
<1>3. QED BY <1>1, <1>2, Widths DEF TooLittleRoom, Behind, Counters

\* What the producer may read of d_tail is between what it knows and d_tail, and
\* reading it leaves no older store to read.
LEMMA TailRead ==
    ASSUME RingInvariant, NEW read \in tail_stores
    PROVE  /\ read \in Counters
           /\ Behind(d_tail) <= Behind(read) /\ Behind(read) <= Behind(pops_known)
           /\ d_tail \in NoOlder(tail_stores, d_tail, read)
           /\ \A stored \in NoOlder(tail_stores, d_tail, read) :
                 /\ stored \in tail_stores
                 /\ Behind(stored) <= Behind(read)
<1> USE DEF RingInvariant
<1>1. read \in Counters /\ d_tail \in Counters /\ d_head \in Counters
    BY DEF TypeOK
<1>2. Behind(d_tail) <= Behind(read) /\ Behind(read) <= Behind(pops_known)
    BY DEF StoresInOrder
<1>3. Minus(d_tail, read) = Behind(read) - Behind(d_tail)
    BY <1>1, <1>2, DistancesAdd DEF Behind
<1>4. \A stored \in tail_stores :
          /\ stored \in Counters
          /\ Behind(stored) \in Counters
          /\ Minus(d_tail, stored) = Behind(stored) - Behind(d_tail)
    BY <1>1, DistancesAdd, MinusType DEF Behind, StoresInOrder, TypeOK
<1>5. Behind(read) \in Int /\ Behind(d_tail) \in Int
    BY <1>1, MinusType DEF Behind, Counters
<1>6. d_tail \in NoOlder(tail_stores, d_tail, read)
    BY <1>2, <1>3, <1>4, <1>5 DEF NoOlder, StoresInOrder
<1>7. \A stored \in NoOlder(tail_stores, d_tail, read) :
          stored \in tail_stores /\ Behind(stored) <= Behind(read)
    BY <1>3, <1>4, <1>5 DEF NoOlder, Counters
<1>8. QED BY <1>1, <1>2, <1>6, <1>7

LEMMA HeadRead ==
    ASSUME RingInvariant, NEW read \in head_stores
    PROVE  /\ read \in Counters
           /\ Behind(read) <= Behind(pushes_known)
           /\ d_head \in NoOlder(head_stores, d_head, read)
           /\ \A stored \in NoOlder(head_stores, d_head, read) :
                 /\ stored \in head_stores
                 /\ Behind(stored) <= Behind(read)
<1>1. read \in Counters /\ d_head \in Counters
    BY DEF RingInvariant, TypeOK
<1>2. Behind(d_head) = 0 /\ Behind(read) \in Counters
    BY <1>1, NoDistance, MinusType DEF Behind
<1>3. d_head \in NoOlder(head_stores, d_head, read)
    BY <1>2, Widths DEF NoOlder, Behind, RingInvariant, StoresInOrder, Counters
<1>4. QED BY <1>1, <1>3 DEF NoOlder, Behind, RingInvariant, StoresInOrder

LEMMA InitKeeps == Init => RingInvariant
<1> SUFFICES ASSUME Init PROVE RingInvariant
    OBVIOUS
<1>1. 0 \in Counters /\ Minus(0, 0) = 0
    BY MinusValue, Widths DEF Counters
<1>2. TypeOK
    <2>1. values = <<>> /\ values \in Seq(Values) /\ copied \in 0..Len(values)
        BY DEF Init
    <2>2. d_slots \in [Slots -> Values \union {Zero}]
        BY DEF Init
    <2>3. pop_answer \in Seq(Values \union {Zero})
        BY DEF Init
    <2>4. QED BY <1>1, <2>1, <2>2, <2>3 DEF Init, TypeOK
<1>3. CountersInOrder /\ StoresInOrder
    BY <1>1, Widths DEF Init, CountersInOrder, StoresInOrder, Behind
<1>4. PushInOrder /\ PopInOrder
    BY DEF Init, PushInOrder, PopInOrder
<1>5. QED BY <1>2, <1>3, <1>4 DEF RingInvariant

\* A call that begins, or returns at once, leaves every counter and slot alone.
LEMMA TryPushKeeps ==
    ASSUME RingInvariant, NEW value \in Values, TryPush(value)
    PROVE  RingInvariant'
<1> USE DEF RingInvariant, TryPush, consumer_vars
<1>1. Len(values') = 1 /\ values' \in Seq(Values) /\ copied' = 0
    BY DEF PushInOrder
<1>2. TypeOK'
    BY <1>1 DEF TypeOK
<1>3. CountersInOrder' /\ StoresInOrder'
    BY DEF CountersInOrder, StoresInOrder, Behind
<1>4. producer_at' = "copying" => Behind(d_cached_tail)' + Len(values') <= Capacity
    <2> SUFFICES ASSUME ~Full(d_cached_tail) PROVE Behind(d_cached_tail) + 1 <= Capacity
        BY <1>1 DEF Behind
    <2>1. Behind(d_cached_tail) \in Counters
        BY BehindType DEF TypeOK
    <2>2. Behind(d_cached_tail) <= Capacity /\ Behind(d_cached_tail) # Capacity
        BY BehindType, Widths DEF TypeOK, CountersInOrder, Behind, Full, Counters
    <2>3. QED BY <2>1, <2>2, Widths DEF Counters
<1>5. PushInOrder' /\ PopInOrder'
    BY <1>1, <1>4, Widths DEF PushInOrder, PopInOrder, Behind
<1>6. QED BY <1>2, <1>3, <1>5

LEMMA TryPushSpanAtOnceKeeps ==
    ASSUME RingInvariant, NEW batch \in Batches, TryPushSpanAtOnce(batch)
    PROVE  RingInvariant'
<1> USE DEF RingInvariant, TryPushSpanAtOnce, PushReturns, consumer_vars
<1>1. TypeOK'
    BY DEF TypeOK
<1>2. CountersInOrder' /\ StoresInOrder'
    BY DEF CountersInOrder, StoresInOrder, Behind
<1>3. PushInOrder' /\ PopInOrder'
    BY DEF PushInOrder, PopInOrder, Behind
<1>4. QED BY <1>1, <1>2, <1>3

LEMMA TryPushSpanKeeps ==
    ASSUME RingInvariant, NEW batch \in Batches, TryPushSpan(batch)
    PROVE  RingInvariant'
<1> USE DEF RingInvariant
<1>1. /\ values' = batch /\ batch \in Seq(Values)
      /\ Len(batch) \in 1..Capacity
      /\ producer_at = "idle" /\ copied = 0
    BY RingAssumption DEF TryPushSpan, PushInOrder
<1>2. \/ producer_at' = "refreshing for span"
      \/ producer_at' = "copying" /\ ~TooLittleRoom(Len(batch), d_cached_tail)
    BY DEF TryPushSpan
<1>3. UNCHANGED <<d_head, d_cached_tail, d_tail, d_cached_head, d_slots, head_stores,
                  tail_stores, pushes_known, pops_known, consumer_at, copied, bytes,
                  push_answer, pop_answer>>
    BY DEF TryPushSpan, consumer_vars
<1>4. TypeOK'
    <2>1. copied' \in 0..Len(values')
        BY <1>1, <1>3, Widths
    <2>2. producer_at' \in {"idle", "refreshing", "refreshing for span", "copying"}
        BY <1>2
    <2>3. QED BY <1>1, <1>3, <2>1, <2>2 DEF TypeOK
<1>5. CountersInOrder' /\ StoresInOrder'
    BY <1>3 DEF CountersInOrder, StoresInOrder, Behind
<1>6. producer_at' = "copying" => Behind(d_cached_tail)' + Len(values') <= Capacity
    <2> SUFFICES ASSUME ~TooLittleRoom(Len(batch), d_cached_tail)
                 PROVE  Behind(d_cached_tail) + Len(batch) <= Capacity
        BY <1>1, <1>2, <1>3 DEF Behind
    <2>1. d_cached_tail \in Counters /\ Behind(d_cached_tail) <= Capacity
        BY Distances, Widths
    <2>2. Len(batch) \in Nat
        BY <1>1
    <2>3. QED BY <2>1, <2>2, RoomLeft
<1>7. PushInOrder'
    <2>1. copied' = 0 /\ Len(values') \in 1..Capacity
        BY <1>1, <1>3
    <2>2. \A i \in 1..copied' : d_slots'[slot(Plus(d_head', i - 1))] = values'[i]
        BY <2>1
    <2>3. QED BY <1>2, <1>6, <2>1, <2>2 DEF PushInOrder
<1>8. PopInOrder'
    BY <1>3 DEF PopInOrder, Behind
<1>9. QED BY <1>4, <1>5, <1>7, <1>8

LEMMA RefreshTailKeeps ==
    ASSUME RingInvariant, RefreshTail \/ RefreshTailForSpan
    PROVE  RingInvariant'
<1>1. PICK read \in tail_stores :
          /\ LoadTail(read)
          /\ \/ PushReturns(FALSE)
             \/ /\ \/ producer_at = "refreshing" /\ ~Full(read)
                   \/ producer_at = "refreshing for span" /\ ~TooLittleRoom(Len(values), read)
                /\ producer_at' = "copying" /\ UNCHANGED <<values, copied, push_answer>>
          /\ UNCHANGED <<d_head, d_slots, consumer_vars, head_stores>>
    BY DEF RefreshTail, RefreshTailForSpan
<1>2. d_cached_tail' = read /\ pops_known' = read
      /\ tail_stores' = NoOlder(tail_stores, d_tail, read)
    BY <1>1 DEF LoadTail, Synchronizes, ReclaimOrder, RefreshTailOrder
<1>3. UNCHANGED <<d_head, d_tail, d_cached_head, d_slots, head_stores, pushes_known,
                  consumer_at, bytes, pop_answer>>
    BY <1>1 DEF consumer_vars
<1>4. /\ producer_at # "copying" /\ producer_at # "idle"
      /\ copied = 0 /\ Len(values) \in 1..Capacity /\ values \in Seq(Values)
      /\ producer_at = "refreshing" => Len(values) = 1
      /\ push_answer \in BOOLEAN
    BY DEF RingInvariant, TypeOK, PushInOrder, RefreshTail, RefreshTailForSpan
<1>5. \/ values' = <<>> /\ copied' = 0 /\ producer_at' = "idle" /\ push_answer' = FALSE
      \/ /\ values' = values /\ copied' = 0 /\ producer_at' = "copying"
         /\ push_answer' = push_answer
    BY <1>1, <1>4 DEF PushReturns
<1>6. TypeOK'
    <2>1. values' \in Seq(Values) /\ copied' \in 0..Len(values') /\ push_answer' \in BOOLEAN
          /\ producer_at' \in {"idle", "copying"}
        <3>1. CASE values' = <<>> /\ copied' = 0 /\ producer_at' = "idle"
                   /\ push_answer' = FALSE
            BY <3>1, NoValues
        <3>2. CASE values' = values /\ copied' = 0 /\ producer_at' = "copying"
                   /\ push_answer' = push_answer
            BY <1>4, <3>2, Widths
        <3>3. QED BY <1>5, <3>1, <3>2
    <2>2. tail_stores' \subseteq Counters /\ read \in Counters
        BY <1>2, TailRead DEF RingInvariant, TypeOK
    <2>3. QED BY <1>2, <1>3, <2>1, <2>2 DEF RingInvariant, TypeOK
<1>7. read \in Counters /\ Behind(read) \in 0..Capacity
    <2>1. Behind(read) \in Counters /\ Behind(read) <= Behind(pops_known)
        BY TailRead, BehindType DEF RingInvariant
    <2>2. QED BY <2>1, TailRead, Distances, Widths DEF Counters
<1>8. CountersInOrder' /\ StoresInOrder'
    BY <1>2, <1>3, <1>7, TailRead DEF RingInvariant, CountersInOrder, StoresInOrder, Behind
<1>9. producer_at' = "copying" => Behind(read) + Len(values) <= Capacity
    <2>1. CASE producer_at = "refreshing" /\ ~Full(read)
        <3>1. Len(values) = 1 /\ Behind(read) # Capacity
            BY <1>4, <2>1 DEF Full, Behind
        <3>2. QED BY <1>7, <3>1, Widths
    <2>2. CASE producer_at = "refreshing for span" /\ ~TooLittleRoom(Len(values), read)
        <3>1. Len(values) \in Nat /\ Behind(read) <= Capacity
            BY <1>4, <1>7, Widths
        <3>2. QED BY <1>7, <2>2, <3>1, RoomLeft DEF RingInvariant
    <2>3. CASE PushReturns(FALSE)
        BY <2>3 DEF PushReturns
    <2>4. QED BY <1>1, <2>1, <2>2, <2>3
<1>10. PushInOrder'
    <2>1. copied' = 0
        BY <1>5
    <2>2. \A i \in 1..copied' : d_slots'[slot(Plus(d_head', i - 1))] = values'[i]
        BY <2>1
    <2>3. \/ producer_at' = "idle" /\ values' = <<>>
          \/ producer_at' = "copying" /\ values' = values
        BY <1>5
    <2>4. QED BY <1>2, <1>3, <1>4, <1>9, <2>1, <2>2, <2>3 DEF PushInOrder, Behind
<1>11. PopInOrder'
    BY <1>2, <1>3 DEF RingInvariant, PopInOrder, Behind
<1>12. QED BY <1>6, <1>8, <1>10, <1>11 DEF RingInvariant

LEMMA ProducerSynchronizesKeeps ==
    ASSUME RingInvariant, ProducerSynchronizes
    PROVE  RingInvariant'
<1> USE DEF RingInvariant
<1>1. PICK told \in tail_stores :
          pops_known' = told /\ tail_stores' = NoOlder(tail_stores, d_tail, told)
    BY DEF ProducerSynchronizes
<1>2. UNCHANGED <<d_head, d_cached_tail, d_tail, d_cached_head, d_slots, head_stores,
                  pushes_known, producer_at, consumer_at, values, copied, bytes,
                  push_answer, pop_answer>>
    BY DEF ProducerSynchronizes, consumer_vars
<1>3. TypeOK'
    BY <1>1, <1>2, TailRead DEF TypeOK
<1>4. Behind(told) \in Counters /\ Behind(pops_known) \in Counters
      /\ Behind(d_cached_tail) \in Counters
    BY TailRead, BehindType DEF TypeOK
<1>5. CountersInOrder' /\ StoresInOrder'
    BY <1>1, <1>2, <1>4, TailRead DEF CountersInOrder, StoresInOrder, Behind, Counters
<1>6. PushInOrder' /\ PopInOrder'
    BY <1>2 DEF PushInOrder, PopInOrder, Behind
<1>7. QED BY <1>3, <1>5, <1>6

\* A value enters the slot of a counter between d_head and a capacity past what
\* the producer knows: no slot the consumer is reading, nor one just filled.
LEMMA CopyInKeeps ==
    ASSUME RingInvariant, CopyIn
    PROVE  RingInvariant'
<1> USE DEF RingInvariant
<1> DEFINE at == Plus(d_head, copied)
<1>1. UNCHANGED <<d_head, d_cached_tail, d_tail, d_cached_head, head_stores, tail_stores,
                  pushes_known, pops_known, producer_at, consumer_at, values, bytes,
                  push_answer, pop_answer>>
    BY DEF CopyIn, consumer_vars
<1>2. copied \in Nat /\ copied < Len(values) /\ copied' = copied + 1
      /\ producer_at = "copying" /\ Len(values) \in 1..Capacity
      /\ values \in Seq(Values)
      /\ d_slots' = [d_slots EXCEPT ![slot(at)] = values[copied + 1]]
    BY DEF CopyIn, TypeOK, PushInOrder
<1>3. Behind(d_tail) \in 0..Capacity /\ Behind(d_tail) + Len(values) <= Capacity
    BY <1>2, Distances, Widths DEF CountersInOrder, PushInOrder
<1>4. at \in Counters /\ slot(at) \in Slots
    BY <1>2, PlusType, SlotType, Widths DEF TypeOK
<1>5. TypeOK'
    BY <1>1, <1>2, <1>4 DEF TypeOK
<1>6. CountersInOrder' /\ StoresInOrder'
    BY <1>1 DEF CountersInOrder, StoresInOrder, Behind
<1>7. \A i \in 1..copied : slot(Plus(d_head, i - 1)) # slot(at)
    <2> SUFFICES ASSUME NEW i \in 1..copied PROVE slot(Plus(d_head, i - 1)) # slot(at)
        OBVIOUS
    <2>1. Plus(d_head, i - 1) \in Counters
        BY <1>2, PlusType, Distances, Widths
    <2>2. Minus(at, Plus(d_head, i - 1)) = copied - (i - 1)
        <3>1. d_head \in Counters /\ Minus(d_head, d_head) = 0
            BY Distances, NoDistance
        <3>2. Minus(at, d_head) = copied
            BY <1>2, <3>1, DistanceGrows, Widths
        <3>3. QED BY <1>2, <1>4, <3>1, <3>2, DistanceShrinks, Widths
    <2>3. Minus(at, Plus(d_head, i - 1)) \in 1..(Capacity - 1)
        BY <1>2, <2>2, Widths
    <2>4. QED BY <1>4, <2>1, <2>3, SlotsDiffer
<1>8. PushInOrder'
    BY <1>1, <1>2, <1>4, <1>7 DEF PushInOrder, Behind, TypeOK
<1>9. consumer_at = "reclaiming" => slot(d_tail) # slot(at)
    <2> SUFFICES ASSUME consumer_at = "reclaiming" PROVE slot(d_tail) # slot(at)
        OBVIOUS
    <2>1. d_tail \in Counters /\ d_head \in Counters /\ Behind(d_tail) >= 1
        BY Distances DEF PopInOrder
    <2>2. Minus(at, d_tail) = Behind(d_tail) + copied
        BY <1>2, <1>3, <2>1, DistanceGrows, Widths DEF Behind
    <2>3. Minus(at, d_tail) \in 1..(Capacity - 1)
        BY <1>2, <1>3, <2>1, <2>2, Widths
    <2>4. QED BY <1>4, <2>1, <2>3, SlotsDiffer
<1>10. PopInOrder'
    BY <1>1, <1>2, <1>4, <1>9, SlotType DEF PopInOrder, Behind, TypeOK
<1>11. QED BY <1>5, <1>6, <1>8, <1>10

\* The values of a push are all in their slots: every distance to d_head grows by
\* their number, and the room found before keeps it within a capacity.
LEMMA PublishKeeps ==
    ASSUME RingInvariant, Publish
    PROVE  RingInvariant'
<1> DEFINE n == Len(values)
<1>1. /\ d_head' = Plus(d_head, n)
      /\ head_stores' = head_stores \union {d_head'}
      /\ producer_at = "copying" /\ n \in 1..Capacity
      /\ Behind(d_cached_tail) + n <= Capacity
    BY DEF RingInvariant, PushInOrder, Publish
<1>2. /\ producer_at' = "idle" /\ values' = <<>> /\ copied' = 0 /\ push_answer' = TRUE
      /\ UNCHANGED <<d_cached_tail, d_tail, d_cached_head, d_slots, tail_stores,
                     pushes_known, pops_known, consumer_at, bytes, pop_answer>>
    BY DEF Publish, PushReturns, consumer_vars
<1>3. d_head \in Counters /\ d_head' \in Counters
    BY <1>1, Distances, PlusType, Widths
<1>4. TypeOK'
    <2>1. values' \in Seq(Values) /\ copied' \in 0..Len(values')
        BY <1>2, NoValues
    <2>2. head_stores' \subseteq Counters
        BY <1>1, <1>3 DEF RingInvariant, TypeOK
    <2>3. QED BY <1>2, <1>3, <2>1, <2>2 DEF RingInvariant, TypeOK
<1>5. ASSUME NEW c \in Counters, Behind(c) <= Behind(d_cached_tail)
      PROVE  Minus(d_head', c) = Behind(c) + n
    <2>1. Behind(c) \in Counters
        BY BehindType DEF RingInvariant
    <2>2. Minus(d_head, c) + n < Modulus
        BY SMTT(30), <1>1, <1>5, <2>1, Distances, Widths DEF Counters, Behind
    <2>3. n \in 0..Capacity
        BY <1>1, Widths
    <2>4. QED BY <1>1, <1>3, <2>2, <2>3, DistanceGrows DEF Behind
<1>6. /\ Minus(d_head', pushes_known) = Behind(pushes_known) + n
      /\ Minus(d_head', d_cached_head) = Behind(d_cached_head) + n
      /\ Minus(d_head', d_tail) = Behind(d_tail) + n
      /\ Minus(d_head', pops_known) = Behind(pops_known) + n
      /\ Minus(d_head', d_cached_tail) = Behind(d_cached_tail) + n
    BY <1>5, Distances, Widths DEF RingInvariant, CountersInOrder
<1>7. CountersInOrder'
    BY <1>1, <1>2, <1>6, Distances, Widths DEF RingInvariant, CountersInOrder, Behind
<1>8. \A stored \in head_stores :
          Minus(d_head', stored) <= Minus(d_head', pushes_known)
    <2> SUFFICES ASSUME NEW stored \in head_stores
                 PROVE  Minus(d_head', stored) <= Minus(d_head', pushes_known)
        OBVIOUS
    <2>1. /\ stored \in Counters /\ Behind(stored) \in Counters
          /\ Behind(stored) <= Behind(pushes_known)
        BY BehindType DEF RingInvariant, TypeOK, StoresInOrder
    <2>2. Behind(pushes_known) <= Behind(d_cached_tail)
        BY Distances, Widths DEF RingInvariant, CountersInOrder
    <2>3. Minus(d_head', stored) = Behind(stored) + n
        BY <1>5, <2>1, <2>2, Distances, Widths DEF Counters
    <2>4. QED BY SMTT(30), <1>1, <1>6, <2>1, <2>3, Distances, Widths DEF Counters
<1>9. Minus(d_head', d_head') <= Minus(d_head', pushes_known)
    BY <1>1, <1>3, <1>6, NoDistance, Distances, Widths
<1>10. \A stored \in tail_stores :
          /\ Minus(d_head', d_tail) <= Minus(d_head', stored)
          /\ Minus(d_head', stored) <= Minus(d_head', pops_known)
    <2> SUFFICES ASSUME NEW stored \in tail_stores
                 PROVE  /\ Minus(d_head', d_tail) <= Minus(d_head', stored)
                        /\ Minus(d_head', stored) <= Minus(d_head', pops_known)
        OBVIOUS
    <2>1. /\ stored \in Counters /\ Behind(stored) \in Counters
          /\ Behind(d_tail) <= Behind(stored) /\ Behind(stored) <= Behind(pops_known)
        BY BehindType DEF RingInvariant, TypeOK, StoresInOrder
    <2>2. Behind(pops_known) <= Behind(d_cached_tail)
        BY DEF RingInvariant, CountersInOrder
    <2>3. Minus(d_head', stored) = Behind(stored) + n
        BY <1>5, <2>1, <2>2, Distances, Widths DEF Counters
    <2>4. /\ n \in Nat /\ Behind(stored) \in Nat
          /\ Behind(d_tail) \in Nat /\ Behind(pops_known) \in Nat
        BY <1>1, <2>1, Distances, Widths DEF Counters
    <2> HIDE DEF n
    <2>5. QED BY <1>6, <2>1, <2>3, <2>4
<1>11. StoresInOrder'
    BY <1>1, <1>2, <1>8, <1>9, <1>10 DEF RingInvariant, StoresInOrder, Behind
<1>12. PushInOrder'
    BY <1>2 DEF PushInOrder
<1>13. PopInOrder'
    BY <1>1, <1>2, <1>6, Distances, Widths DEF RingInvariant, PopInOrder, Behind
<1>14. QED BY <1>4, <1>7, <1>11, <1>12, <1>13 DEF RingInvariant

LEMMA TryPopKeeps ==
    ASSUME RingInvariant, TryPop
    PROVE  RingInvariant'
<1>1. /\ consumer_at = "idle"
      /\ \/ consumer_at' = "refreshing"
         \/ consumer_at' = "reading" /\ d_tail # d_cached_head
      /\ UNCHANGED <<d_head, d_cached_tail, d_tail, d_cached_head, d_slots, head_stores,
                     tail_stores, pushes_known, pops_known, producer_at, values, copied,
                     bytes, push_answer, pop_answer>>
    BY DEF TryPop, Empty, producer_vars
<1>2. TypeOK'
    BY <1>1 DEF RingInvariant, TypeOK
<1>3. CountersInOrder' /\ StoresInOrder' /\ PushInOrder'
    BY <1>1 DEF RingInvariant, CountersInOrder, StoresInOrder, PushInOrder, Behind
<1>4. d_tail # d_cached_head => Behind(d_cached_head) < Behind(d_tail)
    BY Distances, AheadUnlessEqual DEF RingInvariant, CountersInOrder
<1>5. PopInOrder'
    BY <1>1, <1>4 DEF PopInOrder, Behind
<1>6. QED BY <1>2, <1>3, <1>5 DEF RingInvariant

LEMMA RefreshHeadKeeps ==
    ASSUME RingInvariant, RefreshHead
    PROVE  RingInvariant'
<1>1. PICK read \in head_stores :
          /\ LoadHead(read)
          /\ consumer_at = "refreshing"
          /\ \/ consumer_at' = "idle" /\ pop_answer' = <<>>
             \/ consumer_at' = "reading" /\ pop_answer' = pop_answer /\ d_tail # read
          /\ UNCHANGED <<d_tail, bytes, producer_vars, tail_stores>>
    BY DEF RefreshHead, Empty
<1>2. d_cached_head' = read /\ pushes_known' = read
      /\ head_stores' = NoOlder(head_stores, d_head, read)
    BY <1>1 DEF LoadHead, Synchronizes, PublishOrder, RefreshHeadOrder
<1>3. UNCHANGED <<d_head, d_tail, d_cached_tail, d_slots, tail_stores, pops_known,
                  producer_at, values, copied, push_answer, bytes>>
    BY <1>1 DEF producer_vars
<1>4. /\ read \in Counters /\ Behind(read) \in 0..Capacity
      /\ Behind(read) <= Behind(d_tail)
    <2>1. Behind(read) \in Counters /\ Behind(read) <= Behind(pushes_known)
        BY HeadRead, BehindType DEF RingInvariant
    <2>2. QED BY <2>1, HeadRead, Distances, Widths
          DEF RingInvariant, CountersInOrder, Counters
<1>5. TypeOK'
    <2>1. pop_answer' \in Seq(Values \union {Zero})
        BY <1>1, NoAnswer DEF RingInvariant, TypeOK
    <2>2. head_stores' \subseteq Counters
        BY <1>2, HeadRead DEF RingInvariant, TypeOK
    <2>3. QED BY <1>1, <1>2, <1>3, <1>4, <2>1, <2>2 DEF RingInvariant, TypeOK
<1>6. CountersInOrder' /\ StoresInOrder'
    BY <1>2, <1>3, <1>4, HeadRead, Distances, Widths
    DEF RingInvariant, CountersInOrder, StoresInOrder, Behind
<1>7. PushInOrder'
    BY <1>2, <1>3 DEF RingInvariant, PushInOrder, Behind
<1>8. d_tail # read => Behind(read) < Behind(d_tail)
    BY <1>4, Distances, AheadUnlessEqual
<1>9. PopInOrder'
    BY <1>1, <1>2, <1>3, <1>8 DEF PopInOrder, Behind
<1>10. QED BY <1>5, <1>6, <1>7, <1>9 DEF RingInvariant

LEMMA ConsumerSynchronizesKeeps ==
    ASSUME RingInvariant, ConsumerSynchronizes
    PROVE  RingInvariant'
<1>1. PICK told \in head_stores :
          pushes_known' = told /\ head_stores' = NoOlder(head_stores, d_head, told)
    BY DEF ConsumerSynchronizes
<1>2. UNCHANGED <<d_head, d_cached_tail, d_tail, d_cached_head, d_slots, tail_stores,
                  pops_known, producer_at, consumer_at, values, copied, bytes,
                  push_answer, pop_answer>>
    BY DEF ConsumerSynchronizes, producer_vars
<1>3. TypeOK'
    BY <1>1, <1>2, HeadRead DEF RingInvariant, TypeOK
<1>4. /\ Behind(told) \in 0..Capacity
      /\ Behind(told) <= Behind(d_cached_head)
    <2>1. Behind(told) \in Counters /\ Behind(told) <= Behind(pushes_known)
        BY HeadRead, BehindType DEF RingInvariant
    <2>2. QED BY <2>1, Distances, Widths DEF RingInvariant, CountersInOrder, Counters
<1>5. CountersInOrder' /\ StoresInOrder'
    BY <1>1, <1>2, <1>4, HeadRead
    DEF RingInvariant, CountersInOrder, StoresInOrder, Behind
<1>6. PushInOrder' /\ PopInOrder'
    BY <1>2 DEF RingInvariant, PushInOrder, PopInOrder, Behind
<1>7. QED BY <1>3, <1>5, <1>6 DEF RingInvariant

LEMMA CopyOutKeeps ==
    ASSUME RingInvariant, CopyOut
    PROVE  RingInvariant'
<1>1. /\ consumer_at = "reading" /\ consumer_at' = "reclaiming"
      /\ bytes' = d_slots[slot(d_tail)]
      /\ UNCHANGED <<d_head, d_cached_tail, d_tail, d_cached_head, d_slots, head_stores,
                     tail_stores, pushes_known, pops_known, producer_at, values, copied,
                     push_answer, pop_answer>>
    BY DEF CopyOut, producer_vars
<1>2. bytes' \in Values \union {Zero}
    <2>1. slot(d_tail) \in Slots
        BY Distances, SlotType
    <2>2. QED BY <1>1, <2>1 DEF RingInvariant, TypeOK
<1>3. TypeOK'
    BY <1>1, <1>2 DEF RingInvariant, TypeOK
<1>4. CountersInOrder' /\ StoresInOrder' /\ PushInOrder'
    BY <1>1 DEF RingInvariant, CountersInOrder, StoresInOrder, PushInOrder, Behind
<1>5. PopInOrder'
    BY <1>1 DEF RingInvariant, PopInOrder, Behind
<1>6. QED BY <1>3, <1>4, <1>5 DEF RingInvariant

\* The slot handed back was filled: d_tail stays behind what the consumer read of
\* d_head.
LEMMA ReclaimKeeps ==
    ASSUME RingInvariant, Reclaim
    PROVE  RingInvariant'
<1>1. /\ consumer_at = "reclaiming" /\ consumer_at' = "idle"
      /\ d_tail' = Plus(d_tail, 1)
      /\ tail_stores' = tail_stores \union {d_tail'}
      /\ pop_answer' = <<bytes>>
      /\ UNCHANGED <<d_head, d_cached_tail, d_cached_head, d_slots, head_stores,
                     pushes_known, pops_known, producer_at, values, copied, bytes,
                     push_answer>>
    BY DEF Reclaim, producer_vars
<1>2. /\ d_tail \in Counters /\ d_tail' \in Counters
      /\ Behind(d_cached_head) < Behind(d_tail)
    BY <1>1, Distances, PlusType, Widths DEF RingInvariant, PopInOrder
<1>3. Minus(d_head, d_tail') = Behind(d_tail) - 1
    <2>1. 1 \in 0..Capacity /\ 1 <= Minus(d_head, d_tail)
        BY <1>2, Distances, Widths DEF Behind
    <2>2. QED BY <1>1, <1>2, <2>1, Distances, DistanceShrinks DEF Behind
<1>4. TypeOK'
    <2>1. tail_stores' \subseteq Counters
        BY <1>1, <1>2 DEF RingInvariant, TypeOK
    <2>2. pop_answer' \in Seq(Values \union {Zero})
        BY <1>1, OneAnswer DEF RingInvariant, TypeOK
    <2>3. QED BY <1>1, <1>2, <2>1, <2>2 DEF RingInvariant, TypeOK
<1>5. CountersInOrder'
    BY <1>1, <1>2, <1>3, Distances, Widths DEF RingInvariant, CountersInOrder, Behind
<1>6. StoresInOrder'
    <2>1. \A stored \in tail_stores' :
              /\ Minus(d_head, d_tail') <= Minus(d_head, stored)
              /\ Minus(d_head, stored) <= Minus(d_head, pops_known)
        <3> SUFFICES ASSUME NEW stored \in tail_stores'
                     PROVE  /\ Minus(d_head, d_tail') <= Minus(d_head, stored)
                            /\ Minus(d_head, stored) <= Minus(d_head, pops_known)
            OBVIOUS
        <3>1. CASE stored = d_tail'
            BY <1>3, <3>1, Distances, Widths DEF RingInvariant, CountersInOrder, Behind
        <3>2. CASE stored \in tail_stores
            <4>1. /\ stored \in Counters /\ Behind(stored) \in Counters
                  /\ Behind(d_tail) <= Behind(stored)
                  /\ Behind(stored) <= Behind(pops_known)
                BY <3>2, BehindType DEF RingInvariant, TypeOK, StoresInOrder
            <4>2. QED BY <1>3, <4>1, Distances, Widths DEF Behind, Counters
        <3>3. QED BY <1>1, <3>1, <3>2
    <2>2. QED BY <1>1, <2>1 DEF RingInvariant, StoresInOrder, Behind
<1>7. PushInOrder' /\ PopInOrder'
    BY <1>1 DEF RingInvariant, PushInOrder, PopInOrder, Behind
<1>8. QED BY <1>4, <1>5, <1>6, <1>7 DEF RingInvariant

LEMMA StutterKeeps ==
    ASSUME RingInvariant, UNCHANGED vars
    PROVE  RingInvariant'
BY DEF RingInvariant, TypeOK, CountersInOrder, StoresInOrder, PushInOrder, PopInOrder,
       Behind, vars, producer_vars, consumer_vars

LEMMA NextKeeps ==
    ASSUME RingInvariant, [Next]_vars
    PROVE  RingInvariant'
<1>1. CASE Push
    BY <1>1, TryPushKeeps, TryPushSpanAtOnceKeeps, TryPushSpanKeeps DEF Push
<1>2. CASE ProducerStep
    BY <1>2, RefreshTailKeeps, CopyInKeeps, PublishKeeps DEF ProducerStep
<1>3. CASE ProducerSynchronizes
    BY <1>3, ProducerSynchronizesKeeps
<1>4. CASE TryPop
    BY <1>4, TryPopKeeps
<1>5. CASE ConsumerStep
    BY <1>5, RefreshHeadKeeps, CopyOutKeeps, ReclaimKeeps DEF ConsumerStep
<1>6. CASE ConsumerSynchronizes
    BY <1>6, ConsumerSynchronizesKeeps
<1>7. CASE UNCHANGED vars
    BY <1>7, StutterKeeps
<1>8. QED BY <1>1, <1>2, <1>3, <1>4, <1>5, <1>6, <1>7 DEF Next

-----------------------------------------------------------------------------
(* The theorems.                                                           *)

\* However the calls of the two threads interleave, and whatever stale values
\* their loads return, the copies stay behind, the room found stays, and what is
\* read is what was written (core_spsc_ring.h:22-51).
THEOREM RingIsInOrder == Spec => []RingInvariant
<1>1. RingInvariant /\ [Next]_vars => RingInvariant'
    BY NextKeeps
<1>2. QED BY InitKeeps, <1>1, PTL DEF Spec

\* Every variable keeps its type: no counter leaves its range by wrapping.
THEOREM RingTypes == Spec => []TypeOK
<1>1. RingInvariant => TypeOK
    BY DEF RingInvariant
<1>2. QED BY RingIsInOrder, <1>1, PTL

\* No two copies of one slot race, though the slots are plain memory
\* (core_spsc_ring.h:22-51): every copy into a slot happens after the copy out of
\* it a turn before, and every copy out after the copy in.
THEOREM RingIsRaceFree == Spec => []NoDataRace
<1>1. ASSUME RingInvariant PROVE NoDataRace
    <2>1. ASSUME producer_at = "copying", copied < Len(values)
          PROVE  Minus(Plus(d_head, copied), pops_known) < Capacity
        <3>1. /\ copied \in Nat /\ Len(values) \in 1..Capacity
              /\ Behind(pops_known) + Len(values) <= Capacity
            BY <1>1, <2>1, Distances, Widths
            DEF RingInvariant, TypeOK, CountersInOrder, PushInOrder
        <3>2. Minus(Plus(d_head, copied), pops_known) = Behind(pops_known) + copied
            BY <1>1, <2>1, <3>1, Distances, DistanceGrows, Widths DEF Behind
        <3>3. QED BY <1>1, <2>1, <3>1, <3>2, Distances, Widths
    <2>2. ASSUME consumer_at = "reading"
          PROVE  /\ Minus(d_tail, pushes_known) # 0
                 /\ Minus(pushes_known, d_tail) <= Capacity
        <3>1. Behind(pushes_known) < Behind(d_tail)
            BY <1>1, <2>2, Distances, Widths DEF RingInvariant, CountersInOrder, PopInOrder
        <3>2. Minus(pushes_known, d_tail) = Behind(d_tail) - Behind(pushes_known)
            BY <1>1, <3>1, Distances, DistancesAdd, Widths DEF Behind
        <3>3. Minus(d_tail, pushes_known) # 0
            <4>1. d_tail # pushes_known
                BY <1>1, <3>1, Distances, Widths
            <4>2. d_tail \in Counters /\ pushes_known \in Counters
                BY <1>1, Distances
            <4>3. Minus(d_tail, pushes_known) =
                      IF pushes_known <= d_tail THEN d_tail - pushes_known
                      ELSE d_tail - pushes_known + Modulus
                BY <4>2, MinusValue
            <4>4. QED BY <4>1, <4>2, <4>3, Widths DEF Counters
        <3>4. QED BY <1>1, <3>1, <3>2, <3>3, Distances, Widths
    <2>3. QED BY <2>1, <2>2 DEF NoDataRace
<1>2. QED BY RingIsInOrder, <1>1, PTL

-----------------------------------------------------------------------------
(* The ring implements SpscFifo: each step of SpscRing is a step of the    *)
(* queue or changes nothing the queue speaks of.  The mapping is in terms  *)
(* of the distances to d_head that RingInvariant orders.                   *)

Contents == Values \union {Zero}

\* Where the i-th value of the queue is.
LEMMA PlaceInQueue ==
    ASSUME RingInvariant, NEW i \in 1..Behind(d_tail)
    PROVE  /\ Plus(d_tail, i - 1) \in Counters
           /\ slot(Plus(d_tail, i - 1)) \in Slots
           /\ Behind(Plus(d_tail, i - 1)) = Behind(d_tail) - (i - 1)
<1>1. i - 1 \in 0..Capacity /\ i - 1 <= Behind(d_tail)
    BY Distances, Widths
<1>2. d_head \in Counters /\ d_tail \in Counters
    BY Distances
<1>3. QED BY <1>1, <1>2, PlusType, SlotType, DistanceShrinks DEF Behind

QueueIsInSlots ==
    /\ Queue \in Seq(Contents)
    /\ Len(Queue) = Behind(d_tail)
    /\ \A i \in 1..Behind(d_tail) : Queue[i] = d_slots[slot(Plus(d_tail, i - 1))]

LEMMA QueueType == RingInvariant => QueueIsInSlots
<1> SUFFICES ASSUME RingInvariant PROVE QueueIsInSlots
    OBVIOUS
<1>1. Behind(d_tail) \in Nat
    BY Distances, Widths
<1>2. d_slots \in [Slots -> Contents]
    BY DEF RingInvariant, TypeOK, Contents
<1>3. \A i \in 1..Behind(d_tail) : d_slots[slot(Plus(d_tail, i - 1))] \in Contents
    BY <1>2, PlaceInQueue
<1>4. Queue = [i \in 1..Behind(d_tail) |-> d_slots[slot(Plus(d_tail, i - 1))]]
    BY DEF Queue, Behind
<1>5. Queue \in [1..Behind(d_tail) -> Contents]
    BY <1>3, <1>4
<1>6. Queue \in Seq(Contents) /\ Len(Queue) = Behind(d_tail)
    BY <1>1, <1>5
<1>7. QED BY <1>4, <1>6 DEF QueueIsInSlots

LEMMA UnseenPopsValue ==
    ASSUME RingInvariant
    PROVE  /\ UnseenPops = Behind(pops_known) - Behind(d_tail)
           /\ UnseenPops \in 0..Capacity
<1>1. Behind(d_tail) <= Behind(pops_known)
    BY DEF RingInvariant, CountersInOrder
<1>2. QED BY <1>1, Distances, DistancesAdd, Widths DEF UnseenPops, Behind

\* What the consumer may see, counted from d_tail.
LEMMA ViewValue ==
    ASSUME RingInvariant, NEW stored \in head_stores
    PROVE  /\ stored \in Counters
           /\ Behind(stored) \in 0..Capacity
           /\ Behind(stored) <= Behind(pushes_known)
           /\ Minus(stored, d_tail) = Behind(d_tail) - Behind(stored)
           /\ Minus(stored, d_tail) \in 0..Capacity
<1>1. stored \in Counters /\ Behind(stored) <= Behind(pushes_known)
    BY DEF RingInvariant, TypeOK, StoresInOrder
<1>2. Behind(stored) \in Nat
    BY <1>1, BehindType DEF RingInvariant, Counters
<1>3. Behind(pushes_known) <= Behind(d_tail)
    BY Distances, Widths DEF RingInvariant, CountersInOrder
<1>4. Behind(stored) <= Behind(d_tail)
    BY <1>1, <1>2, <1>3, Distances, Widths
<1>5. Minus(stored, d_tail) = Behind(d_tail) - Behind(stored)
    BY <1>1, <1>4, Distances, DistancesAdd DEF Behind
<1>6. QED BY <1>1, <1>2, <1>4, <1>5, Distances, Widths

\* What only the producer's side changes leaves the queue as it is.
LEMMA QueueUnchanged ==
    ASSUME UNCHANGED <<d_head, d_tail, d_slots>>
    PROVE  Queue' = Queue
BY DEF Queue

LEMMA ViewsUnchanged ==
    ASSUME UNCHANGED <<d_tail, head_stores>>
    PROVE  Views' = Views
BY DEF Views

LEMMA UnseenPopsUnchanged ==
    ASSUME UNCHANGED <<d_tail, pops_known>>
    PROVE  UnseenPops' = UnseenPops
BY DEF UnseenPops

-----------------------------------------------------------------------------
(* The producer's steps.                                                   *)

LEMMA InitRefines == Init => Fifo!Init
<1> SUFFICES ASSUME Init PROVE Fifo!Init
    OBVIOUS
<1>1. 0 \in Counters /\ Minus(0, 0) = 0
    BY NoDistance, Widths DEF Counters
<1>2. Queue = <<>>
    BY <1>1, InitKeeps, QueueType DEF Init, Behind, QueueIsInSlots
<1>3. Views = {0}
    BY <1>1 DEF Init, Views
<1>4. UnseenPops = 0
    BY <1>1 DEF Init, UnseenPops
<1>5. QED BY <1>2, <1>3, <1>4 DEF Init, Fifo!Init

LEMMA TryPushRefines ==
    ASSUME RingInvariant, NEW value \in Values, TryPush(value)
    PROVE  Fifo!Offer(<<value>>)
<1>1. values = <<>> /\ values' = <<value>> /\ Len(<<value>>) \in 1..Capacity
    BY Widths DEF RingInvariant, PushInOrder, TryPush
<1>2. UNCHANGED <<d_head, d_tail, d_slots, head_stores, pops_known, push_answer, pop_answer>>
    BY DEF TryPush, consumer_vars
<1>3. QED
    BY <1>1, <1>2, QueueUnchanged, ViewsUnchanged, UnseenPopsUnchanged DEF Fifo!Offer

LEMMA TryPushSpanRefines ==
    ASSUME RingInvariant, NEW batch \in Batches, TryPushSpan(batch)
    PROVE  Fifo!Offer(batch)
<1>1. values = <<>> /\ values' = batch /\ Len(batch) \in 1..Capacity
    BY DEF RingInvariant, PushInOrder, TryPushSpan
<1>2. UNCHANGED <<d_head, d_tail, d_slots, head_stores, pops_known, push_answer, pop_answer>>
    BY DEF TryPushSpan, consumer_vars
<1>3. QED
    BY <1>1, <1>2, QueueUnchanged, ViewsUnchanged, UnseenPopsUnchanged DEF Fifo!Offer

LEMMA TryPushSpanAtOnceRefines ==
    ASSUME RingInvariant, NEW batch \in Batches, TryPushSpanAtOnce(batch)
    PROVE  Fifo!OfferNeedsNoRoom(batch)
<1>1. /\ values = <<>> /\ values' = <<>> /\ push_answer' = (batch = <<>>)
      /\ Len(batch) \notin 1..Capacity
    BY Widths, EmptySeq DEF RingInvariant, PushInOrder, TryPushSpanAtOnce, PushReturns
<1>2. UNCHANGED <<d_head, d_tail, d_slots, head_stores, pops_known, pop_answer>>
    BY DEF TryPushSpanAtOnce, consumer_vars
<1>3. QED
    BY <1>1, <1>2, QueueUnchanged, ViewsUnchanged, UnseenPopsUnchanged
    DEF Fifo!OfferNeedsNoRoom

\* A load of d_tail, and what it leaves unseen.
LEMMA TailReadRefines ==
    ASSUME RingInvariant, NEW read \in tail_stores, pops_known' = read,
           UNCHANGED <<d_head, d_tail>>
    PROVE  /\ UnseenPops' = Behind(read) - Behind(d_tail)
           /\ UnseenPops' \in 0..UnseenPops
           /\ Behind(read) \in 0..Capacity
<1>1. /\ read \in Counters /\ Behind(d_tail) <= Behind(read)
      /\ Behind(read) <= Behind(pops_known)
    BY TailRead
<1>2. Behind(read) \in Nat
    BY <1>1, BehindType DEF RingInvariant, Counters
<1>3. UnseenPops' = Minus(d_tail, read)
    BY DEF UnseenPops
<1>4. Minus(d_tail, read) = Behind(read) - Behind(d_tail)
    BY <1>1, Distances, DistancesAdd DEF Behind
<1>5. QED BY <1>1, <1>2, <1>3, <1>4, UnseenPopsValue, Distances, Widths

\* A refused push has found, with all the pops it has just learnt of, too little
\* room.
LEMMA RefreshTailRefines ==
    ASSUME RingInvariant, RefreshTail \/ RefreshTailForSpan
    PROVE  Fifo!Refuse \/ Fifo!LearnPops
<1> DEFINE NoRoom(read) ==
              \/ producer_at = "refreshing" /\ Full(read)
              \/ producer_at = "refreshing for span" /\ TooLittleRoom(Len(values), read)
<1>1. PICK read \in tail_stores :
          /\ producer_at \in {"refreshing", "refreshing for span"}
          /\ pops_known' = read
          /\ UNCHANGED <<d_head, d_tail, d_slots, head_stores, pop_answer>>
          /\ \/ NoRoom(read) /\ PushReturns(FALSE)
             \/ UNCHANGED <<values, push_answer>>
    BY DEF RefreshTail, RefreshTailForSpan, LoadTail, Synchronizes, ReclaimOrder,
           RefreshTailOrder, consumer_vars
<1>2. /\ UnseenPops' = Behind(read) - Behind(d_tail)
      /\ UnseenPops' \in 0..UnseenPops /\ Behind(read) \in 0..Capacity
    BY <1>1, TailReadRefines
<1>3. Queue' = Queue /\ Views' = Views
    BY <1>1, QueueUnchanged, ViewsUnchanged
<1>4. CASE UNCHANGED <<values, push_answer>>
    BY <1>1, <1>2, <1>3, <1>4 DEF Fifo!LearnPops
<1>5. ASSUME NoRoom(read), PushReturns(FALSE)
      PROVE  Fifo!Refuse
    <2>1. values # <<>> /\ Len(values) \in 1..Capacity
        <3>1. producer_at # "idle"
            BY <1>1
        <3>2. Len(values) \in 1..Capacity
            BY <3>1 DEF RingInvariant, PushInOrder
        <3>3. values # <<>>
            BY <3>2
        <3>4. QED BY <3>2, <3>3
    <2>2. Behind(read) + Len(values) > Capacity
        <3>1. CASE producer_at = "refreshing" /\ Full(read)
            BY <1>2, <2>1, <3>1, Widths DEF Full, Behind
        <3>2. CASE producer_at = "refreshing for span" /\ TooLittleRoom(Len(values), read)
            <4>1. Capacity \in Counters /\ Behind(read) \in Counters
                BY <1>2, Widths DEF Counters
            <4>2. Minus(Capacity, Behind(read)) = Capacity - Behind(read)
                BY <1>2, <4>1, MinusValue
            <4>3. Len(values) > Capacity - Behind(read)
                BY <3>2, <4>2 DEF TooLittleRoom, Behind
            <4>4. QED BY <1>2, <2>1, <4>3, Widths
        <3>3. QED BY <1>5, <3>1, <3>2
    <2>3. Len(Queue) + UnseenPops' + Len(values) > Capacity
        BY SMTT(30), <1>2, <2>1, <2>2, QueueType, Distances, Widths DEF QueueIsInSlots
    <2>4. values' = <<>> /\ push_answer' = FALSE
        BY <1>5 DEF PushReturns
    <2>5. QED BY <1>1, <1>2, <1>3, <2>1, <2>3, <2>4 DEF Fifo!Refuse
<1>6. QED BY <1>1, <1>4, <1>5

LEMMA ProducerSynchronizesRefines ==
    ASSUME RingInvariant, ProducerSynchronizes
    PROVE  Fifo!LearnPops
<1>1. PICK told \in tail_stores :
          /\ pops_known' = told
          /\ UNCHANGED <<d_head, d_tail, d_slots, head_stores, values, push_answer, pop_answer>>
    BY DEF ProducerSynchronizes, consumer_vars
<1>2. UnseenPops' \in 0..UnseenPops
    BY <1>1, TailReadRefines
<1>3. QED BY <1>1, <1>2, QueueUnchanged, ViewsUnchanged DEF Fifo!LearnPops

\* A value enters a slot that holds none of the queue.
LEMMA CopyInRefines ==
    ASSUME RingInvariant, CopyIn
    PROVE  UNCHANGED Fifo!fifo_vars
<1> DEFINE at == Plus(d_head, copied)
<1>1. /\ d_slots' = [d_slots EXCEPT ![slot(at)] = values[copied + 1]]
      /\ UNCHANGED <<d_head, d_tail, head_stores, pops_known, values, push_answer, pop_answer>>
    BY DEF CopyIn, consumer_vars
<1>2. copied \in 0..Capacity /\ Behind(d_tail) + copied < Capacity
    BY Distances, Widths DEF RingInvariant, TypeOK, CountersInOrder, PushInOrder, CopyIn
<1>3. at \in Counters /\ d_head \in Counters
    BY <1>2, PlusType, Distances
<1>4. \A i \in 1..Behind(d_tail) : slot(Plus(d_tail, i - 1)) # slot(at)
    <2> SUFFICES ASSUME NEW i \in 1..Behind(d_tail)
                 PROVE  slot(Plus(d_tail, i - 1)) # slot(at)
        OBVIOUS
    <2> DEFINE place == Plus(d_tail, i - 1)
    <2>1. place \in Counters /\ Minus(d_head, place) = Behind(d_tail) - (i - 1)
        BY PlaceInQueue DEF Behind
    <2>2. i \in Nat /\ 1 <= i /\ i <= Behind(d_tail) /\ Behind(d_tail) \in Nat
        BY Distances, Widths
    <2> HIDE DEF place, at
    <2>3. Minus(Plus(d_head, copied), place) = Minus(d_head, place) + copied
        BY <1>2, <1>3, <2>1, <2>2, DistanceGrows, Widths
    <2>4. Minus(at, place) \in 1..(Capacity - 1)
        BY <1>2, <2>1, <2>2, <2>3, Widths DEF at
    <2>5. slot(at) # slot(place)
        BY <1>3, <2>1, <2>4, SlotsDiffer
    <2>6. QED BY <2>5 DEF place
<1>5. Minus(d_head, d_tail) = Behind(d_tail)
    BY DEF Behind
<1>6. \A i \in 1..Behind(d_tail) :
          d_slots'[slot(Plus(d_tail, i - 1))] = d_slots[slot(Plus(d_tail, i - 1))]
    BY <1>1, <1>4, PlaceInQueue DEF RingInvariant, TypeOK
<1>7. Queue' = Queue
    BY <1>1, <1>5, <1>6 DEF Queue
<1>8. QED
    BY <1>1, <1>7, ViewsUnchanged, UnseenPopsUnchanged DEF Fifo!fifo_vars

\* The values of a push follow those of the queue, in their order.
LEMMA CounterAfterQueue ==
    ASSUME RingInvariant, NEW n \in Nat, Behind(d_tail) + n <= Capacity
    PROVE  Plus(d_tail, Behind(d_tail) + n) = Plus(d_head, n)
<1> DEFINE b == Behind(d_tail)
<1>1. d_head \in Counters /\ d_tail \in Counters /\ b \in 0..Capacity
    BY Distances
<1>2. b = IF d_tail <= d_head THEN d_head - d_tail ELSE d_head - d_tail + Modulus
    BY <1>1, MinusValue DEF Behind
<1> HIDE DEF b
<1>3. b + n \in 0..Capacity /\ n \in 0..Capacity
    BY <1>1, Widths DEF b
<1>4. Plus(d_tail, b + n) =
          IF d_tail + (b + n) < Modulus THEN d_tail + (b + n) ELSE d_tail + (b + n) - Modulus
    BY <1>1, <1>3, PlusValue
<1>5. Plus(d_head, n) = IF d_head + n < Modulus THEN d_head + n ELSE d_head + n - Modulus
    BY <1>1, <1>3, PlusValue
<1>6. Plus(d_tail, b + n) = Plus(d_head, n)
    BY <1>1, <1>2, <1>3, <1>4, <1>5, Widths DEF Counters
<1>7. QED BY <1>6 DEF b

LEMMA PublishRefines ==
    ASSUME RingInvariant, Publish
    PROVE  Fifo!Accept
<1> DEFINE n == Len(values)
           b == Behind(d_tail)
<1>1. /\ d_head' = Plus(d_head, n) /\ head_stores' = head_stores \union {d_head'}
      /\ values' = <<>> /\ push_answer' = TRUE
      /\ UNCHANGED <<d_tail, d_slots, pops_known, pop_answer>>
    BY DEF Publish, PushReturns, consumer_vars
<1>2. /\ values \in Seq(Contents) /\ n \in 1..Capacity
      /\ \A i \in 1..n : d_slots[slot(Plus(d_head, i - 1))] = values[i]
    <2>1. producer_at = "copying" /\ copied = n
        BY DEF Publish
    <2>2. values \in Seq(Values) /\ Values \subseteq Contents
        BY DEF RingInvariant, TypeOK, Contents
    <2>3. QED BY <2>1, <2>2, SeqMonotonic DEF RingInvariant, PushInOrder
<1>3. /\ b \in Nat /\ Behind(pops_known) + n <= Capacity /\ b + n <= Capacity
    BY <1>2, Distances, Widths DEF RingInvariant, CountersInOrder, PushInOrder, Publish
<1> HIDE DEF n, b
<1>4. Minus(d_head', d_tail') = b + n
    <2>1. n \in 0..Capacity /\ b = Minus(d_head, d_tail) /\ Minus(d_head, d_tail) + n < Modulus
        BY <1>2, <1>3, Widths DEF b, Behind
    <2>2. d_head \in Counters /\ d_tail \in Counters
        BY Distances
    <2>3. QED BY <1>1, <2>1, <2>2, DistanceGrows
<1>5. Queue' = Queue \o values
    <2>1. /\ Queue \in Seq(Contents) /\ Len(Queue) = b
          /\ \A i \in 1..b : Queue[i] = d_slots[slot(Plus(d_tail, i - 1))]
        BY QueueType DEF b, QueueIsInSlots
    <2>2. /\ Queue \o values \in Seq(Contents) /\ Len(Queue \o values) = b + n
          /\ \A i \in 1..(b + n) :
                (Queue \o values)[i] = IF i <= b THEN Queue[i] ELSE values[i - b]
        BY <1>2, <2>1, ConcatProperties DEF n
    <2>3. RingInvariant'
        BY PublishKeeps
    <2>4. /\ Queue' \in Seq(Contents) /\ Len(Queue') = b + n
          /\ \A i \in 1..(b + n) : Queue'[i] = d_slots[slot(Plus(d_tail, i - 1))]
        <3>1. Behind(d_tail)' = b + n
            BY <1>4 DEF Behind
        <3>2. QueueIsInSlots'
            BY <2>3, QueueType, PTL
        <3>3. QED BY <1>1, <3>1, <3>2 DEF QueueIsInSlots
    <2>5. ASSUME NEW i \in 1..(b + n) PROVE Queue'[i] = (Queue \o values)[i]
        <3>1. CASE i <= b
            <4>1. i \in 1..b
                BY <1>2, <1>3, <3>1
            <4>2. Queue'[i] = d_slots[slot(Plus(d_tail, i - 1))]
                BY <2>4
            <4>3. (Queue \o values)[i] = Queue[i]
                BY <2>2, <3>1
            <4>4. QED BY <2>1, <4>1, <4>2, <4>3
        <3>2. CASE i > b
            <4>1. i - b - 1 \in Nat /\ b + (i - b - 1) <= Capacity /\ i - b \in 1..n
                  /\ b + (i - b - 1) = i - 1 /\ (i - b) - 1 = i - b - 1
                BY <1>2, <1>3, <3>2, Widths
            <4>2. Plus(d_tail, i - 1) = Plus(d_head, (i - b) - 1)
                BY <4>1, CounterAfterQueue DEF b
            <4>3. d_slots[slot(Plus(d_tail, i - 1))] = values[i - b]
                BY <1>2, <4>1, <4>2
            <4>4. Queue'[i] = d_slots[slot(Plus(d_tail, i - 1))]
                BY <2>4
            <4>5. ~(i <= b)
                BY <1>2, <1>3, <3>2
            <4>6. (Queue \o values)[i] = values[i - b]
                BY <2>2, <4>5
            <4>7. QED BY <4>3, <4>4, <4>6
        <3>3. i <= b \/ i > b
            BY <1>2, <1>3
        <3>4. QED BY <3>1, <3>2, <3>3
    <2>6. QED BY <2>2, <2>4, <2>5, SeqEqual
<1>6. Views' = Views \union {b + n}
    BY <1>1, <1>4 DEF Views
<1>7. UnseenPops' = UnseenPops
    BY <1>1, UnseenPopsUnchanged
<1>8. Len(Queue) = b /\ b + UnseenPops + n <= Capacity
    <2>1. Behind(pops_known) \in Nat /\ UnseenPops = Behind(pops_known) - b
        BY UnseenPopsValue, Distances, Widths DEF b
    <2>2. QED BY <1>2, <1>3, <2>1, QueueType, Widths DEF b, QueueIsInSlots
<1>9. values # <<>>
    BY <1>2 DEF n
<1>10. QED BY <1>1, <1>5, <1>6, <1>7, <1>8, <1>9 DEF Fifo!Accept, n

-----------------------------------------------------------------------------
(* The consumer's steps.                                                   *)

LEMMA TryPopRefines ==
    ASSUME TryPop
    PROVE  UNCHANGED Fifo!fifo_vars
BY QueueUnchanged, ViewsUnchanged, UnseenPopsUnchanged
DEF TryPop, producer_vars, Fifo!fifo_vars

LEMMA CopyOutRefines ==
    ASSUME CopyOut
    PROVE  UNCHANGED Fifo!fifo_vars
BY QueueUnchanged, ViewsUnchanged, UnseenPopsUnchanged
DEF CopyOut, producer_vars, Fifo!fifo_vars

\* A load of d_head, and what it lets the consumer see.
LEMMA HeadReadRefines ==
    ASSUME RingInvariant, NEW read \in head_stores,
           head_stores' = NoOlder(head_stores, d_head, read), UNCHANGED d_tail
    PROVE  /\ Minus(read, d_tail) \in Views
           /\ Views' = {length \in Views : length >= Minus(read, d_tail)}
<1>1. Minus(read, d_tail) \in Views
    BY DEF Views
<1>2. Views' = {Minus(stored, d_tail) : stored \in NoOlder(head_stores, d_head, read)}
    BY DEF Views
<1>3. \A stored \in head_stores :
          stored \in NoOlder(head_stores, d_head, read)
              <=> Minus(stored, d_tail) >= Minus(read, d_tail)
    <2> SUFFICES ASSUME NEW stored \in head_stores
                 PROVE  Behind(stored) <= Behind(read)
                            <=> Minus(stored, d_tail) >= Minus(read, d_tail)
        BY DEF NoOlder, Behind
    <2>1. /\ Behind(stored) \in 0..Capacity
          /\ Minus(stored, d_tail) = Behind(d_tail) - Behind(stored)
        BY ViewValue
    <2>2. /\ Behind(read) \in 0..Capacity
          /\ Minus(read, d_tail) = Behind(d_tail) - Behind(read)
        BY ViewValue
    <2>3. QED BY <2>1, <2>2, Distances, Widths
<1>4. QED BY <1>1, <1>2, <1>3 DEF Views, NoOlder

\* A pop that finds nothing has looked at the latest value of d_head it may see.
LEMMA RefreshHeadRefines ==
    ASSUME RingInvariant, RefreshHead
    PROVE  Fifo!PopNothing \/ Fifo!LearnPushes
<1>1. PICK read \in head_stores :
          /\ head_stores' = NoOlder(head_stores, d_head, read)
          /\ IF Empty(read) THEN pop_answer' = <<>> ELSE UNCHANGED pop_answer
          /\ UNCHANGED <<d_head, d_tail, d_slots, pops_known, values, push_answer>>
    BY DEF RefreshHead, LoadHead, producer_vars
<1>2. /\ Minus(read, d_tail) \in Views
      /\ Views' = {length \in Views : length >= Minus(read, d_tail)}
    BY <1>1, HeadReadRefines
<1>3. Queue' = Queue /\ UnseenPops' = UnseenPops
    BY <1>1, QueueUnchanged, UnseenPopsUnchanged
<1>4. CASE Empty(read)
    <2>1. Minus(read, d_tail) = 0
        BY <1>4, Distances, NoDistance DEF Empty
    <2>2. \A length \in Views : length >= 0
        BY ViewValue, Widths DEF Views
    <2>3. Views' = Views /\ 0 \in Views
        BY <1>2, <2>1, <2>2
    <2>4. QED BY <1>1, <1>3, <1>4, <2>3 DEF Fifo!PopNothing
<1>5. CASE ~Empty(read)
    BY <1>1, <1>2, <1>3, <1>5 DEF Fifo!LearnPushes
<1>6. QED BY <1>4, <1>5

LEMMA ConsumerSynchronizesRefines ==
    ASSUME RingInvariant, ConsumerSynchronizes
    PROVE  Fifo!LearnPushes
<1>1. PICK told \in head_stores :
          /\ head_stores' = NoOlder(head_stores, d_head, told)
          /\ UNCHANGED <<d_head, d_tail, d_slots, pops_known, values, push_answer, pop_answer>>
    BY DEF ConsumerSynchronizes, producer_vars
<1>2. /\ Minus(told, d_tail) \in Views
      /\ Views' = {length \in Views : length >= Minus(told, d_tail)}
    BY <1>1, HeadReadRefines
<1>3. QED
    BY <1>1, <1>2, QueueUnchanged, UnseenPopsUnchanged DEF Fifo!LearnPushes

\* The value in the slot handed back is the oldest of the queue.
LEMMA ReclaimRefines ==
    ASSUME RingInvariant, Reclaim
    PROVE  Fifo!Pop
<1> DEFINE b == Behind(d_tail)
<1>1. /\ d_tail' = Plus(d_tail, 1) /\ pop_answer' = <<bytes>>
      /\ UNCHANGED <<d_head, d_slots, head_stores, pops_known, values, push_answer>>
    BY DEF Reclaim, producer_vars
<1>2. bytes = d_slots[slot(d_tail)] /\ Behind(d_cached_head) < b
    BY DEF Reclaim, RingInvariant, PopInOrder
<1>3. b \in 1..Capacity /\ d_tail \in Counters /\ d_head \in Counters
    BY <1>2, Distances, Widths
<1>4. Behind(pushes_known) < b
    BY <1>2, Distances, Widths DEF RingInvariant, CountersInOrder
<1>5. 1 \in 0..Capacity
    BY Widths
<1> HIDE DEF b
<1>6. Minus(d_head', d_tail') = b - 1
    BY <1>1, <1>3, <1>5, DistanceShrinks DEF b, Behind
<1>7. /\ Queue \in Seq(Contents) /\ Len(Queue) = b
      /\ \A i \in 1..b : Queue[i] = d_slots[slot(Plus(d_tail, i - 1))]
    BY QueueType DEF b, QueueIsInSlots
<1>8. Queue # <<>> /\ bytes = Head(Queue)
    <2>1. Plus(d_tail, 0) = d_tail
        BY <1>3, PlusValue, Widths DEF Counters
    <2>2. Queue[1] = d_slots[slot(Plus(d_tail, 1 - 1))] /\ 1 - 1 = 0
        BY <1>3, <1>7
    <2>3. Queue # <<>> /\ Head(Queue) = Queue[1]
        BY <1>3, <1>7
    <2>4. QED BY <1>2, <2>1, <2>2, <2>3
<1>9. Queue' = Tail(Queue)
    <2>1. /\ Tail(Queue) \in Seq(Contents) /\ Len(Tail(Queue)) = b - 1
          /\ \A i \in 1..(b - 1) : Tail(Queue)[i] = Queue[i + 1]
        BY <1>7, <1>8, HeadTailProperties
    <2>2. RingInvariant'
        BY ReclaimKeeps
    <2>3. QueueIsInSlots'
        BY <2>2, QueueType, PTL
    <2>4. Behind(d_tail)' = b - 1
        BY <1>6 DEF Behind
    <2>5. /\ Queue' \in Seq(Contents) /\ Len(Queue') = b - 1
          /\ \A i \in 1..(b - 1) : Queue'[i] = d_slots[slot(Plus(d_tail', i - 1))]
        BY <1>1, <2>3, <2>4 DEF QueueIsInSlots
    <2>6. ASSUME NEW i \in 1..(b - 1) PROVE Queue'[i] = Tail(Queue)[i]
        <3>1. i + 1 \in 1..b /\ (i + 1) - 1 = i /\ i - 1 \in Nat /\ i \in 0..Capacity
              /\ i - 1 \in 0..Capacity
            BY <1>3, Widths
        <3>2. Plus(Plus(d_tail, 1), i - 1) = Plus(d_tail, i)
            <4>1. /\ Plus(d_tail, 1) \in Counters
                  /\ Plus(d_tail, 1) =
                         IF d_tail + 1 < Modulus THEN d_tail + 1 ELSE d_tail + 1 - Modulus
                BY <1>3, <1>5, PlusType, PlusValue
            <4>2. Plus(Plus(d_tail, 1), i - 1) =
                      IF Plus(d_tail, 1) + (i - 1) < Modulus
                      THEN Plus(d_tail, 1) + (i - 1)
                      ELSE Plus(d_tail, 1) + (i - 1) - Modulus
                BY <3>1, <4>1, PlusValue
            <4>3. Plus(d_tail, i) = IF d_tail + i < Modulus THEN d_tail + i
                                    ELSE d_tail + i - Modulus
                BY <1>3, <3>1, PlusValue
            <4>4. QED BY <1>3, <3>1, <4>1, <4>2, <4>3, Widths DEF Counters
        <3>3. Queue'[i] = d_slots[slot(Plus(d_tail', i - 1))]
            BY <2>5
        <3>4. Tail(Queue)[i] = d_slots[slot(Plus(d_tail, i))]
            BY <1>7, <2>1, <3>1
        <3>5. QED BY <1>1, <3>2, <3>3, <3>4
    <2>7. QED BY <2>1, <2>5, <2>6, SeqEqual
<1>10. \A stored \in head_stores :
          /\ Minus(stored, d_tail) \in Nat \ {0}
          /\ Minus(stored, d_tail') = Minus(stored, d_tail) - 1
    <2> SUFFICES ASSUME NEW stored \in head_stores
                 PROVE  /\ Minus(stored, d_tail) \in Nat \ {0}
                        /\ Minus(stored, d_tail') = Minus(stored, d_tail) - 1
        OBVIOUS
    <2>1. /\ stored \in Counters /\ Behind(stored) \in 0..Capacity
          /\ Behind(stored) <= Behind(pushes_known)
          /\ Minus(stored, d_tail) = b - Behind(stored)
        BY ViewValue DEF b
    <2>2. Minus(stored, d_tail) \in Nat /\ 1 <= Minus(stored, d_tail)
        BY <1>3, <1>4, <2>1, Distances, Widths
    <2>3. Minus(stored, d_tail') = Minus(stored, d_tail) - 1
        BY <1>1, <1>3, <1>5, <2>1, <2>2, DistanceShrinks
    <2>4. QED BY <2>2, <2>3
<1>11. 0 \notin Views /\ Views' = {length - 1 : length \in Views}
    <2>1. 0 \notin Views
        BY <1>10 DEF Views
    <2>2. Views' = {Minus(stored, d_tail') : stored \in head_stores}
        BY <1>1 DEF Views
    <2>3. QED BY <1>10, <2>1, <2>2 DEF Views
<1>12. UnseenPops' = UnseenPops + 1
    <2>1. UnseenPops = Behind(pops_known) - b /\ UnseenPops \in 0..Capacity
          /\ pops_known \in Counters /\ Behind(pops_known) \in 0..Capacity
        BY UnseenPopsValue, Distances DEF b
    <2>2. Minus(d_tail, pops_known) + 1 < Modulus
        BY <1>3, <2>1, Widths DEF UnseenPops
    <2>3. QED BY <1>1, <1>3, <1>5, <2>1, <2>2, DistanceGrows DEF UnseenPops
<1>13. QED BY <1>1, <1>8, <1>9, <1>11, <1>12 DEF Fifo!Pop

-----------------------------------------------------------------------------
(* The theorem.                                                            *)

LEMMA NextRefines ==
    ASSUME RingInvariant, [Next]_vars
    PROVE  [Fifo!Next]_(Fifo!fifo_vars)
<1>1. CASE Push
    <2>1. \A value \in Values : TryPush(value) => Fifo!Next
        BY TryPushRefines DEF Fifo!Next
    <2>2. \A batch \in Batches : TryPushSpanAtOnce(batch) \/ TryPushSpan(batch) => Fifo!Next
        BY TryPushSpanAtOnceRefines, TryPushSpanRefines DEF Fifo!Next
    <2>3. QED BY <1>1, <2>1, <2>2 DEF Push
<1>2. CASE ProducerStep
    BY <1>2, RefreshTailRefines, CopyInRefines, PublishRefines DEF ProducerStep, Fifo!Next
<1>3. CASE ProducerSynchronizes
    BY <1>3, ProducerSynchronizesRefines DEF Fifo!Next
<1>4. CASE TryPop
    BY <1>4, TryPopRefines
<1>5. CASE ConsumerStep
    BY <1>5, RefreshHeadRefines, CopyOutRefines, ReclaimRefines DEF ConsumerStep, Fifo!Next
<1>6. CASE ConsumerSynchronizes
    BY <1>6, ConsumerSynchronizesRefines DEF Fifo!Next
<1>7. CASE UNCHANGED vars
    BY <1>7, QueueUnchanged, ViewsUnchanged, UnseenPopsUnchanged
    DEF vars, producer_vars, consumer_vars, Fifo!fifo_vars
<1>8. QED BY <1>1, <1>2, <1>3, <1>4, <1>5, <1>6, <1>7 DEF Next

\* The ring is the bounded first-in first-out queue it says it is, whatever its
\* capacity, the width of its counters and the values and batches pushed
\* (core_spsc_ring.h:14-51): between two threads nothing is lost, repeated,
\* reordered or torn, and no end is ever ahead of what happened at the other.
THEOREM RingImplementsFifo == Spec => ImplementsFifo
<1>1. Init => Fifo!Init
    BY InitRefines
<1>2. RingInvariant /\ [Next]_vars => [Fifo!Next]_(Fifo!fifo_vars)
    BY NextRefines
<1>3. QED BY RingIsInOrder, <1>1, <1>2, PTL DEF Spec, ImplementsFifo, Fifo!Spec
=============================================================================
