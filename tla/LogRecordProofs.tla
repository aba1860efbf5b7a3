-------------------------- MODULE LogRecordProofs ---------------------------
(***************************************************************************)
(* Theorems about LogRecord, for every tick, context, reason, argument and *)
(* every width of the tick that leaves room for the other fields.          *)
(***************************************************************************)
EXTENDS LogRecord, TLAPS

-----------------------------------------------------------------------------
(* Shifts, a bit at a time.                                                *)

LEMMA LeftBit ==
    ASSUME NEW w \in SUBSET Int, NEW by \in Nat, NEW x \in Int
    PROVE  x \in ShiftedLeft(w, by, 64) <=> x \in 0..63 /\ x - by \in w
<1>1. ASSUME x \in ShiftedLeft(w, by, 64) PROVE x \in 0..63 /\ x - by \in w
    BY <1>1 DEF ShiftedLeft, Ones
<1>2. ASSUME x \in 0..63, x - by \in w PROVE x \in ShiftedLeft(w, by, 64)
    <2>1. x = (x - by) + by
        OBVIOUS
    <2>2. QED BY <1>2, <2>1 DEF ShiftedLeft, Ones
<1>3. QED BY <1>1, <1>2

LEMMA RightBit ==
    ASSUME NEW w \in SUBSET Int, NEW by \in Nat, NEW x \in Int
    PROVE  x \in ShiftedRight(w, by) <=> x >= 0 /\ x + by \in w
<1>1. ASSUME x \in ShiftedRight(w, by) PROVE x >= 0 /\ x + by \in w
    BY <1>1 DEF ShiftedRight
<1>2. ASSUME x >= 0, x + by \in w PROVE x \in ShiftedRight(w, by)
    <2>1. x = (x + by) - by /\ x + by >= by
        BY <1>2
    <2>2. QED BY <1>2, <2>1 DEF ShiftedRight
<1>3. QED BY <1>1, <1>2

LEMMA SameWord ==
    ASSUME NEW v \in SUBSET Int, NEW w \in SUBSET Int, \A x \in Int : x \in v <=> x \in w
    PROVE  v = w
OBVIOUS

LEMMA CutType ==
    ASSUME NEW w \in SUBSET Int, NEW v
    PROVE  w \intersect v \in SUBSET Int
BY Zenon

LEMMA JoinType ==
    ASSUME NEW w \in SUBSET Int, NEW v \in SUBSET Int
    PROVE  w \union v \in SUBSET Int
BY Zenon

LEMMA RightType ==
    ASSUME NEW w \in SUBSET Int, NEW by \in Nat
    PROVE  ShiftedRight(w, by) \subseteq Int
BY DEF ShiftedRight

LEMMA LeftType ==
    ASSUME NEW w \in SUBSET Int, NEW by \in Nat
    PROVE  ShiftedLeft(w, by, 64) \subseteq Int
BY DEF ShiftedLeft, Ones

LEMMA InputTypes ==
    /\ Kinds \subseteq SUBSET (0..7)
    /\ Reasons \subseteq SUBSET (0..15)
    /\ Contexts \subseteq SUBSET (0..31)
    /\ Ticks \subseteq SUBSET (0..63)
<1>1. /\ Word(8) = SUBSET (0..7) /\ Word(16) = SUBSET (0..15)
      /\ Word(32) = SUBSET (0..31) /\ Word(64) = SUBSET (0..63)
    <2>1. 8 - 1 = 7 /\ 16 - 1 = 15 /\ 32 - 1 = 31 /\ 64 - 1 = 63
        OBVIOUS
    <2>2. QED BY <2>1, Zenon DEF Word
<1>2. QED BY <1>1, LogRecordAssumption, Zenon

LEMMA ByteType == ASSUME NEW n PROVE Byte(n) \subseteq 0..7
BY DEF Byte, WordOf, Ones

LEMMA NumberType == ASSUME NEW n PROVE WordOf(n, 16) \subseteq 0..15
BY DEF WordOf, Ones

-----------------------------------------------------------------------------
(* Payloads: four fields side by side in a word.                           *)

\* What ErrorOf and pack have in common, a message having no kind.
Packed(d, k, r, c) ==
    d \union ShiftedLeft(k, 8, 64) \union ShiftedLeft(r, 16, 64)
      \union ShiftedLeft(c, 32, 64)

LEMMA PackedBit ==
    ASSUME NEW d \in SUBSET (0..7), NEW k \in SUBSET (0..7),
           NEW r \in SUBSET (0..15), NEW c \in SUBSET (0..31), NEW x \in Int
    PROVE  x \in Packed(d, k, r, c) <=>
                x \in d \/ x - 8 \in k \/ x - 16 \in r \/ x - 32 \in c
<1>1. /\ x \in ShiftedLeft(k, 8, 64) <=> x \in 0..63 /\ x - 8 \in k
      /\ x \in ShiftedLeft(r, 16, 64) <=> x \in 0..63 /\ x - 16 \in r
      /\ x \in ShiftedLeft(c, 32, 64) <=> x \in 0..63 /\ x - 32 \in c
    BY LeftBit
<1>2. QED BY <1>1 DEF Packed

\* Each field is read back whole, and none runs into another.
THEOREM FieldsReadBack ==
    ASSUME NEW d \in SUBSET (0..7), NEW k \in SUBSET (0..7),
           NEW r \in SUBSET (0..15), NEW c \in SUBSET (0..31)
    PROVE  LET raw == Packed(d, k, r, c) IN
           domain(raw) = d /\ kind(raw) = k /\ reason(raw) = r /\ context(raw) = c
<1> DEFINE raw == Packed(d, k, r, c)
<1>0. d \in SUBSET Int /\ k \in SUBSET Int /\ r \in SUBSET Int /\ c \in SUBSET Int
    OBVIOUS
<1>1. raw \in SUBSET Int
    <2>1. /\ ShiftedLeft(k, 8, 64) \in SUBSET Int
          /\ ShiftedLeft(r, 16, 64) \in SUBSET Int
          /\ ShiftedLeft(c, 32, 64) \in SUBSET Int
        BY <1>0, LeftType
    <2>2. QED BY <1>0, <2>1, JoinType DEF Packed
<1>2. ASSUME NEW x \in Int
      PROVE  x \in raw <=> x \in d \/ x - 8 \in k \/ x - 16 \in r \/ x - 32 \in c
    BY PackedBit
<1> HIDE DEF raw
<1>3. domain(raw) = d
    <2>1. \A x \in Int : x \in raw \intersect Ones(8) <=> x \in d
        BY <1>2 DEF Ones
    <2>2. raw \intersect Ones(8) \in SUBSET Int /\ d \in SUBSET Int
        BY <1>1, <1>0, CutType
    <2>3. QED BY <2>1, <2>2, SameWord DEF domain
<1>4. kind(raw) = k
    <2>1. \A x \in Int : x \in ShiftedRight(raw, 8) <=> x >= 0 /\ x + 8 \in raw
        BY <1>1, RightBit
    <2>2. \A x \in Int : x \in ShiftedRight(raw, 8) \intersect Ones(8) <=> x \in k
        BY <1>2, <2>1 DEF Ones
    <2>3. ShiftedRight(raw, 8) \intersect Ones(8) \in SUBSET Int /\ k \in SUBSET Int
        BY <1>1, RightType
    <2>4. QED BY <2>2, <2>3, SameWord DEF kind
<1>5. reason(raw) = r
    <2>1. \A x \in Int : x \in ShiftedRight(raw, 16) <=> x >= 0 /\ x + 16 \in raw
        BY <1>1, RightBit
    <2>2. \A x \in Int : x \in ShiftedRight(raw, 16) \intersect Ones(16) <=> x \in r
        BY <1>2, <2>1 DEF Ones
    <2>3. ShiftedRight(raw, 16) \intersect Ones(16) \in SUBSET Int /\ r \in SUBSET Int
        BY <1>1, RightType
    <2>4. QED BY <2>2, <2>3, SameWord DEF reason
<1>6. context(raw) = c
    <2>1. \A x \in Int : x \in ShiftedRight(raw, 32) <=> x >= 0 /\ x + 32 \in raw
        BY <1>1, RightBit
    <2>2. \A x \in Int : x \in ShiftedRight(raw, 32) <=> x \in c
        BY <1>2, <2>1
    <2>3. ShiftedRight(raw, 32) \in SUBSET Int /\ c \in SUBSET Int
        BY <1>1, RightType
    <2>4. QED BY <2>2, <2>3, SameWord DEF context
<1>7. QED BY <1>3, <1>4, <1>5, <1>6 DEF raw

-----------------------------------------------------------------------------
(* Headers: a tick cut to its low bits, and two fields above it.           *)

LEMMA Widths == k_TICK_BITS \in Nat /\ k_TICK_BITS + 5 <= 64
BY LogRecordAssumption

\* The three fields of a header are read back whole, the tick less its high bits.
THEOREM HeaderFields ==
    ASSUME NEW t, NEW s, NEW ticks \in SUBSET (0..63),
           Byte(t) \subseteq Ones(2), Byte(s) \subseteq Ones(3)
    PROVE  LET header == Header(t, s, ticks) IN
           /\ type_of(header) = Byte(t)
           /\ severity_of(header) = Byte(s)
           /\ ticks_of(header) = {b \in ticks : b < k_TICK_BITS}
<1> DEFINE T == Byte(t)
           S == Byte(s)
           K == k_TICK_BITS
           header == Header(t, s, ticks)
<1>1. K \in Nat /\ K + 3 \in Nat /\ K + 5 <= 64
    BY Widths
<1>2. T \subseteq 0..1 /\ S \subseteq 0..2 /\ T \in SUBSET Int /\ S \in SUBSET Int
    BY DEF Ones
<1>3. header = ShiftedLeft(T, K + 3, 64) \union ShiftedLeft(S, K, 64)
                 \union (ticks \intersect Ones(K))
    BY DEF Header
<1> HIDE DEF T, S, K, header
<1>4. header \in SUBSET Int
    <2>1. /\ ShiftedLeft(T, K + 3, 64) \subseteq Int
          /\ ShiftedLeft(S, K, 64) \subseteq Int
        BY <1>1, <1>2, LeftType
    <2>2. ticks \intersect Ones(K) \in SUBSET Int
        <3>1. ticks \in SUBSET Int
            OBVIOUS
        <3>2. QED BY <3>1, CutType
    <2>3. QED BY <1>3, <2>1, <2>2, JoinType
<1>5. ASSUME NEW x \in Int
      PROVE  x \in header <=> x - (K + 3) \in T \/ x - K \in S \/ (x \in ticks /\ x < K)
    <2>1. /\ x \in ShiftedLeft(T, K + 3, 64) <=> x \in 0..63 /\ x - (K + 3) \in T
          /\ x \in ShiftedLeft(S, K, 64) <=> x \in 0..63 /\ x - K \in S
        BY <1>1, <1>2, LeftBit
    <2>2. x - (K + 3) \in T => x \in 0..63
        BY <1>1, <1>2
    <2>3. x - K \in S => x \in 0..63
        BY <1>1, <1>2
    <2>4. x \in ticks \intersect Ones(K) <=> x \in ticks /\ x < K
        BY <1>1 DEF Ones
    <2>5. QED BY <1>3, <2>1, <2>2, <2>3, <2>4
<1>6. type_of(header) = T
    <2>1. \A x \in Int : x \in ShiftedRight(header, K + 3) <=> x >= 0 /\ x + (K + 3) \in header
        BY <1>1, <1>4, RightBit
    <2>2. ASSUME NEW x \in Int
          PROVE  x \in ShiftedRight(header, K + 3) <=> x \in T
        <3> DEFINE y == x + (K + 3)
        <3>1. y \in Int /\ y - (K + 3) = x /\ y - K = x + 3
            BY <1>1
        <3>2. y \in header <=> x \in T \/ x + 3 \in S \/ (y \in ticks /\ y < K)
            BY <1>5, <3>1
        <3>3. x >= 0 => ~(x + 3 \in S) /\ ~(y < K)
            BY <1>1, <1>2
        <3>4. x \in T => x >= 0
            BY <1>2
        <3>5. QED BY <2>1, <3>2, <3>3, <3>4
    <2>3. ShiftedRight(header, K + 3) \in SUBSET Int
        BY <1>1, <1>4, RightType
    <2>4. ShiftedRight(header, K + 3) = T
        BY <1>2, <2>2, <2>3, SameWord
    <2>5. QED BY <2>4 DEF type_of, K
<1>7. severity_of(header) = S
    <2>1. \A x \in Int : x \in ShiftedRight(header, K) <=> x >= 0 /\ x + K \in header
        BY <1>1, <1>4, RightBit
    <2>2. ASSUME NEW x \in Int
          PROVE  x \in ShiftedRight(header, K) \intersect Ones(3) <=> x \in S
        <3> DEFINE y == x + K
        <3>1. y \in Int /\ y - (K + 3) = x - 3 /\ y - K = x
            BY <1>1
        <3>2. y \in header <=> x - 3 \in T \/ x \in S \/ (y \in ticks /\ y < K)
            BY <1>5, <3>1
        <3>3. x \in Ones(3) => ~(x - 3 \in T) /\ ~(y < K) /\ x >= 0
            BY <1>1, <1>2 DEF Ones
        <3>4. x \in S => x \in Ones(3)
            BY <1>2 DEF Ones
        <3>5. QED BY <2>1, <3>2, <3>3, <3>4
    <2>3. ShiftedRight(header, K) \intersect Ones(3) \in SUBSET Int
        BY <1>1, <1>4, RightType
    <2>4. ShiftedRight(header, K) \intersect Ones(3) = S
        BY <1>2, <2>2, <2>3, SameWord
    <2>5. QED BY <2>4 DEF severity_of, K
<1>8. ticks_of(header) = {b \in ticks : b < K}
    <2>1. ASSUME NEW x \in Int
          PROVE  x \in header \intersect Ones(K) <=> x \in ticks /\ x < K
        <3>1. x < K => ~(x - (K + 3) \in T) /\ ~(x - K \in S)
            BY <1>1, <1>2
        <3>2. x \in Ones(K) <=> 0 <= x /\ x < K
            BY <1>1 DEF Ones
        <3>3. x \in ticks => 0 <= x
            OBVIOUS
        <3>4. QED BY <1>5, <3>1, <3>2, <3>3
    <2>2. /\ header \intersect Ones(K) \in SUBSET Int
          /\ {b \in ticks : b < K} \in SUBSET Int
        <3>1. \A b \in {c \in ticks : c < K} : b \in ticks
            OBVIOUS
        <3>2. \A b \in ticks : b \in Int
            OBVIOUS
        <3>3. {b \in ticks : b < K} \in SUBSET Int
            BY <3>1, <3>2, Zenon
        <3>4. QED BY <1>4, <3>3, CutType
    <2>3. header \intersect Ones(K) = {b \in ticks : b < K}
        BY <2>1, <2>2, SameWord
    <2>4. QED BY <2>3 DEF ticks_of, K
<1>9. QED BY <1>6, <1>7, <1>8 DEF header, T, S, K

-----------------------------------------------------------------------------
(* Records.                                                                *)

ReadsBack == HeaderReadsBack /\ PayloadReadsBack

LEMMA MakeHeader ==
    ASSUME NEW type \in {"e_ERROR", "e_MESSAGE"}, NEW severity \in Severities,
           NEW ticks \in Ticks, NEW payload, NEW parts,
           Make(type, severity, ticks, payload, parts)
    PROVE  HeaderReadsBack'
<1>1. ticks \in SUBSET (0..63)
    BY InputTypes
<1>2. Byte(LogRecordType[type]) \subseteq Ones(2) /\ Byte(severity) \subseteq Ones(3)
    BY LogRecordAssumption DEF LogRecordType
<1> DEFINE header == Header(LogRecordType[type], severity, ticks)
<1>3. /\ type_of(header) = Byte(LogRecordType[type])
      /\ severity_of(header) = Byte(severity)
      /\ ticks_of(header) = {b \in ticks : b < k_TICK_BITS}
    BY <1>1, <1>2, HeaderFields
<1>4. /\ d_header' = header
      /\ given'.type = type /\ given'.severity = severity /\ given'.ticks = ticks
    BY DEF Make
<1> HIDE DEF header
<1>5. QED BY <1>3, <1>4 DEF HeaderReadsBack

LEMMA ErrorReadsBack ==
    ASSUME NEW severity \in Severities, NEW ticks \in Ticks, MakeError(severity, ticks)
    PROVE  ReadsBack'
<1>1. PICK of \in Subsystems, k \in Kinds, r \in Reasons, c \in Contexts :
        Make("e_ERROR", severity, ticks, ErrorOf(Domain[of], k, r, c),
             [domain |-> of, kind |-> k, reason |-> r, context |-> c])
    BY DEF MakeError
<1> DEFINE d == Byte(Domain[of])
           raw == ErrorOf(Domain[of], k, r, c)
           parts == [domain |-> of, kind |-> k, reason |-> r, context |-> c]
<1>2. HeaderReadsBack'
    BY <1>1, MakeHeader
<1>3. /\ d \in SUBSET (0..7) /\ k \in SUBSET (0..7)
      /\ r \in SUBSET (0..15) /\ c \in SUBSET (0..31)
    BY ByteType, InputTypes
<1>4. raw = Packed(d, k, r, c)
    BY DEF ErrorOf, Packed
<1>5. domain(raw) = d /\ kind(raw) = k /\ reason(raw) = r /\ context(raw) = c
    BY <1>3, <1>4, FieldsReadBack
<1>6. d_payload' = raw /\ given'.parts = parts
    BY <1>1 DEF Make
<1>7. /\ "kind" \in DOMAIN parts /\ ~("id" \in DOMAIN parts)
      /\ parts.domain = of /\ parts.kind = k /\ parts.reason = r /\ parts.context = c
    OBVIOUS
<1> HIDE DEF raw, parts
<1>8. PayloadReadsBack'
    BY <1>5, <1>6, <1>7 DEF PayloadReadsBack, d
<1>9. QED BY <1>2, <1>8 DEF ReadsBack

LEMMA MessageReadsBack ==
    ASSUME NEW severity \in Severities, NEW ticks \in Ticks, MakeMessage(severity, ticks)
    PROVE  ReadsBack'
<1>0. PICK of \in Subsystems, type \in {"void", "uint32", "int32", "float"},
           a \in Contexts :
        \E id \in 0..Len(arguments[of]) :
            Make("e_MESSAGE", severity, ticks, pack(Domain[of], id, a),
                 [domain |-> of, id |-> id, type |-> type, argument |-> a])
    BY DEF MakeMessage
<1>1. PICK id \in 0..Len(arguments[of]) :
        Make("e_MESSAGE", severity, ticks, pack(Domain[of], id, a),
             [domain |-> of, id |-> id, type |-> type, argument |-> a])
    BY <1>0
<1> DEFINE d == Byte(Domain[of])
           i == WordOf(id, 16)
           raw == pack(Domain[of], id, a)
           parts == [domain |-> of, id |-> id, type |-> type, argument |-> a]
<1>2. HeaderReadsBack'
    BY <1>1, MakeHeader
<1>3. /\ d \in SUBSET (0..7) /\ {} \in SUBSET (0..7)
      /\ i \in SUBSET (0..15) /\ a \in SUBSET (0..31)
    BY ByteType, NumberType, InputTypes
<1>4. raw = Packed(d, {}, i, a)
    <2>1. ShiftedLeft({}, 8, 64) = {}
        BY DEF ShiftedLeft
    <2>2. QED BY <2>1 DEF pack, Packed
<1>5. domain(raw) = d /\ kind(raw) = {} /\ reason(raw) = i /\ context(raw) = a
    BY SMTT(30), <1>3, <1>4, FieldsReadBack
<1>6. id_of(raw) = i /\ argument_of(raw) = a
    BY <1>5 DEF id_of, argument_of, reason, context
<1>7. d_payload' = raw /\ given'.parts = parts
    BY <1>1 DEF Make
<1>8. /\ ~("kind" \in DOMAIN parts) /\ "id" \in DOMAIN parts
      /\ parts.domain = of /\ parts.id = id /\ parts.argument = a
    OBVIOUS
<1> HIDE DEF raw, parts
<1>9. PayloadReadsBack'
    BY <1>5, <1>6, <1>7, <1>8 DEF PayloadReadsBack, d, i
<1>10. QED BY <1>2, <1>9 DEF ReadsBack

LEMMA RawReadsBack ==
    ASSUME NEW severity \in Severities, NEW ticks \in Ticks, MakeFromRaw(severity, ticks)
    PROVE  ReadsBack'
<1>1. PICK type \in {"e_ERROR", "e_MESSAGE"}, raw \in Corrupt :
        Make(type, severity, ticks, raw, [raw |-> raw])
    BY DEF MakeFromRaw
<1> DEFINE parts == [raw |-> raw]
<1>2. HeaderReadsBack'
    BY <1>1, MakeHeader
<1>3. d_payload' = raw /\ given'.parts = parts
    BY <1>1 DEF Make
<1>4. ~("kind" \in DOMAIN parts) /\ ~("id" \in DOMAIN parts) /\ parts.raw = raw
    OBVIOUS
<1> HIDE DEF parts
<1>5. PayloadReadsBack'
    BY <1>3, <1>4 DEF PayloadReadsBack
<1>6. QED BY <1>2, <1>5 DEF ReadsBack

LEMMA RecordsReadBack == Spec => []ReadsBack
<1>1. Init => ReadsBack
    BY DEF Init, ReadsBack, HeaderReadsBack, PayloadReadsBack
<1>2. ReadsBack /\ [Next]_vars => ReadsBack'
    <2> SUFFICES ASSUME ReadsBack, [Next]_vars PROVE ReadsBack'
        OBVIOUS
    <2>1. ASSUME NEW severity \in Severities, NEW ticks \in Ticks,
                 MakeError(severity, ticks) \/ MakeMessage(severity, ticks)
                 \/ MakeFromRaw(severity, ticks)
          PROVE  ReadsBack'
        BY <2>1, ErrorReadsBack, MessageReadsBack, RawReadsBack
    <2>2. CASE Popped
        BY <2>2 DEF Popped, ReadsBack, HeaderReadsBack, PayloadReadsBack
    <2>3. CASE UNCHANGED vars
        BY <2>3 DEF vars, ReadsBack, HeaderReadsBack, PayloadReadsBack
    <2>4. QED BY <2>1, <2>2, <2>3 DEF Next
<1>3. QED BY <1>1, <1>2, PTL DEF Spec

\* A record gives back the type, the severity and the low bits of the tick it
\* was made with, whatever they are: make_raw and the accessors of
\* core_log_record.h:237-292.
THEOREM HeadersReadBack == Spec => []HeaderReadsBack
<1>1. ReadsBack => HeaderReadsBack
    BY DEF ReadsBack
<1>2. QED BY <1>1, RecordsReadBack, PTL

\* And the error or the message it carries gives back each of its parts:
\* Error::make, LogMessage::pack and the accessors (core_error.h:299-370,
\* core_log_message.h:473-565).
THEOREM PayloadsReadBack == Spec => []PayloadReadsBack
<1>1. ReadsBack => PayloadReadsBack
    BY DEF ReadsBack
<1>2. QED BY <1>1, RecordsReadBack, PTL

=============================================================================
