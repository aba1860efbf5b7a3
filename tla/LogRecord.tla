----------------------------- MODULE LogRecord ------------------------------
(***************************************************************************)
(* What a record carries through a ring, packed into two words: the        *)
(* LogRecord of core_log_record.h, around an Error of core_error.h or a    *)
(* LogMessage of core_log_message.h.                                       *)
(*                                                                         *)
(* The state is one slot of a ring, and what its record was made from.     *)
(***************************************************************************)
EXTENDS Words, Enumerations

CONSTANTS
    k_TICK_BITS,        \* 59 in the code, which leaves 3 bits of severity, 2 of type
    Ticks,              \* what Clock::now() may return: words of 64 bits
    Contexts,           \* contexts of errors, arguments of messages: of 32
    Kinds,              \* kinds of errors: of 8
    Reasons,            \* values of a reason or message enumeration: of 16
    Declarations,       \* what the messages of each domain may declare to take
    Leftovers,          \* what a slot may hold before it is written
    Corrupt             \* words of 64 bits that from_raw is given

Byte(n) == WordOf(n, 8)

ASSUME LogRecordAssumption ==
    /\ k_TICK_BITS \in Nat /\ k_TICK_BITS + 5 <= 64
    \* A severity fits in its 3 bits and a type in its 2: asserted as the
    \* record compiles.
    /\ \A severity \in Severities : Byte(severity) \subseteq Ones(3)
    /\ \A type \in DOMAIN LogRecordType : Byte(LogRecordType[type]) \subseteq Ones(2)
    /\ Ticks \union Leftovers \union Corrupt \subseteq Word(64)
    /\ Contexts \subseteq Word(32) /\ Reasons \subseteq Word(16)
    /\ Kinds \subseteq Word(8)
    /\ Declarations \subseteq [Subsystems -> Seq(Argument)]

VARIABLES
    arguments,      \* what the messages declare, as the program was compiled
    d_header,
    d_payload,
    given           \* history: what the record was made from

vars == <<arguments, d_header, d_payload, given>>

-----------------------------------------------------------------------------
(* Error.  (An operator named X_Fault is X with a bug, for showing that a  *)
(* property detects it; nothing else uses it.)                             *)

ErrorOf_ContextOverReason(domain, kind, reason, context) ==
    Byte(domain) \union ShiftedLeft(kind, 8, 64)
        \union ShiftedLeft(reason, 16, 64) \union ShiftedLeft(context, 31, 64)
ErrorOf(domain, kind, reason, context) ==
    Byte(domain) \union ShiftedLeft(kind, 8, 64)
        \union ShiftedLeft(reason, 16, 64) \union ShiftedLeft(context, 32, 64)

domain(raw) == raw \intersect Ones(8)
kind(raw) == ShiftedRight(raw, 8) \intersect Ones(8)
reason(raw) == ShiftedRight(raw, 16) \intersect Ones(16)
context(raw) == ShiftedRight(raw, 32)

-----------------------------------------------------------------------------
(* LogMessage.  An id is checked, when a call is compiled, against what    *)
(* its message declares: the type of the argument has to be accepted.      *)

accepts_AnyInteger(type, argument) ==
    CASE type = "void"   -> argument = "e_NONE"
      [] type = "uint32" -> argument \in {"e_UNSIGNED", "e_HEX", "e_SIGNED"}
      [] type = "int32"  -> argument = "e_SIGNED"
      [] type = "float"  -> argument = "e_FLOAT"
accepts(type, argument) ==
    CASE type = "void"   -> argument = "e_NONE"
      [] type = "uint32" -> argument \in {"e_UNSIGNED", "e_HEX"}
      [] type = "int32"  -> argument = "e_SIGNED"
      [] type = "float"  -> argument = "e_FLOAT"

Compiles(type, of, id) ==
    /\ id < Len(arguments[of])
    /\ accepts(type, arguments[of][id + 1])

\* bit_cast keeps the bits of an argument, whatever its type; void has none.
pack(number, id, argument) ==
    Byte(number) \union ShiftedLeft(WordOf(id, 16), 16, 64)
        \union ShiftedLeft(argument, 32, 64)

id_of(raw) == ShiftedRight(raw, 16) \intersect Ones(16)
argument_of(raw) == ShiftedRight(raw, 32)

-----------------------------------------------------------------------------
(* LogRecord.                                                              *)

Header_TicksUncut(type, severity, ticks) ==
    ShiftedLeft(Byte(type), k_TICK_BITS + 3, 64)
        \union ShiftedLeft(Byte(severity), k_TICK_BITS, 64) \union ticks
Header(type, severity, ticks) ==
    ShiftedLeft(Byte(type), k_TICK_BITS + 3, 64)
        \union ShiftedLeft(Byte(severity), k_TICK_BITS, 64)
        \union (ticks \intersect Ones(k_TICK_BITS))

type_of(header) == ShiftedRight(header, k_TICK_BITS + 3)
severity_of(header) == ShiftedRight(header, k_TICK_BITS) \intersect Ones(3)
ticks_of(header) == header \intersect Ones(k_TICK_BITS)

Nothing == [type |-> "none"]

\* A slot is declared with an unspecified value.
Init ==
    /\ arguments \in Declarations
    /\ d_header \in Leftovers /\ d_payload \in Leftovers
    /\ given = Nothing

\* Once popped, a slot holds a value that no longer matters.
Popped ==
    /\ given # Nothing
    /\ d_header' \in Leftovers /\ d_payload' \in Leftovers
    /\ given' = Nothing
    /\ UNCHANGED arguments

\* LogRecord::make, then the copy into the slot.
Make(type, severity, ticks, payload, parts) ==
    /\ d_header' = Header(LogRecordType[type], severity, ticks)
    /\ d_payload' = payload
    /\ given' = [type |-> type, severity |-> severity, ticks |-> ticks,
                 payload |-> payload, parts |-> parts]
    /\ UNCHANGED arguments

\* A domain comes from the enumeration of the reason, so it is never e_UNKNOWN.
MakeError(severity, ticks) ==
    \E of \in Subsystems, k \in Kinds, r \in Reasons, c \in Contexts :
        Make("e_ERROR", severity, ticks, ErrorOf(Domain[of], k, r, c),
             [domain |-> of, kind |-> k, reason |-> r, context |-> c])

\* Any enumerator may be written in a call, e_COUNT included.
MakeMessage(severity, ticks) ==
    \E of \in Subsystems, type \in {"void", "uint32", "int32", "float"},
       a \in Contexts :
        \E id \in 0..Len(arguments[of]) :
            /\ Compiles(type, of, id)
            /\ type = "void" => a = {}
            /\ Make("e_MESSAGE", severity, ticks, pack(Domain[of], id, a),
                    [domain |-> of, id |-> id, type |-> type, argument |-> a])

\* from_raw accepts any 64 bits, a domain or a reason nothing names included.
MakeFromRaw(severity, ticks) ==
    \E type \in {"e_ERROR", "e_MESSAGE"}, raw \in Corrupt :
        Make(type, severity, ticks, raw, [raw |-> raw])

Next ==
    \/ /\ given = Nothing
       /\ \E severity \in Severities, ticks \in Ticks :
            \/ MakeError(severity, ticks)
            \/ MakeMessage(severity, ticks)
            \/ MakeFromRaw(severity, ticks)
    \/ Popped

Spec == Init /\ [][Next]_vars

-----------------------------------------------------------------------------
(* Properties.                                                             *)

\* The header gives back the type and the severity a record was made with,
\* and its tick less the bits above k_TICK_BITS: no field runs into another,
\* whatever the tick (core_log_record.h:113-115, :204-211).
HeaderReadsBack ==
    given # Nothing =>
        /\ type_of(d_header) = Byte(LogRecordType[given.type])
        /\ severity_of(d_header) = Byte(given.severity)
        /\ ticks_of(d_header) = {b \in given.ticks : b < k_TICK_BITS}

\* The payload gives back each part of the error or of the message, and
\* holds nothing else: records made from equal parts are equal
\* (core_error.h:26-36, :213-240, core_log_message.h:23-34, :240-265).
PayloadReadsBack ==
    given # Nothing =>
        LET parts == given.parts IN
        CASE "kind" \in DOMAIN parts ->
                /\ domain(d_payload) = Byte(Domain[parts.domain])
                /\ kind(d_payload) = parts.kind
                /\ reason(d_payload) = parts.reason
                /\ context(d_payload) = parts.context
          [] "id" \in DOMAIN parts ->
                /\ domain(d_payload) = Byte(Domain[parts.domain])
                /\ kind(d_payload) = {}
                /\ id_of(d_payload) = WordOf(parts.id, 16)
                /\ argument_of(d_payload) = parts.argument
          [] OTHER -> d_payload = parts.raw

=============================================================================
