------------------------------ MODULE LogLine -------------------------------
(***************************************************************************)
(* How a record becomes a line: the catalogs that name what its payload    *)
(* holds (core_error_catalog.h, core_log_message_catalog.h), the layouts   *)
(* around the names (core_error_format.h, core_log_message_format.h) and   *)
(* the columns before them (core_log_format.h).                            *)
(*                                                                         *)
(* A line is a sequence of pieces: what is written, its size, and how many *)
(* newlines it holds.  An argument is written as its bits, read as what    *)
(* its text says they are.                                                 *)
(***************************************************************************)
EXTENDS LogRecord, Tables

CONSTANTS
    Sources,        \* enumerations and tables that are given to the compiler
    SecondsSizes,   \* digits of the seconds since the start
    Threads,        \* names: their text, size, and where they hold newlines
    Counts          \* numbers of lost records

\* Characters that one of the names, or the words of one of the texts, take.
LongestName(names) == Max({Len(names[i]) : i \in DOMAIN names})
WordsSize(t) == MapThenSumSet(LAMBDA i : IF t[i] \in Braces THEN 0 ELSE Len(t[i]), DOMAIN t)
LongestText(texts) == Max({WordsSize(texts[i]) : i \in DOMAIN texts})

ASSUME LogLineAssumption ==
    /\ Builds(Repository)
    \* Names and texts take no more room than the formats leave them, which the
    \* compiler does not check.
    /\ \A s \in {r \in Sources : Builds(r)} : \A of \in Subsystems :
          /\ Len(s.domain_names[Domain[of] + 1]) + LongestName(s.kind_names)
               + LongestName(s.reason_names[of]) <= 206
          /\ Len(s.domain_names[Domain[of] + 1]) + LongestText(s.texts[of]) <= 211
    /\ Declarations = {s.arguments : s \in Sources}
    /\ SecondsSizes \subseteq Nat \ {0}
    /\ Threads \subseteq [text : STRING, size : Nat, newlines : SUBSET Nat]

VARIABLES
    tables,     \* the source the program was compiled from
    line,
    shown       \* history: what the line was asked to show

lineVars == <<vars, tables, line, shown>>

k_SEVERITY_WIDTH == 5
k_THREAD_WIDTH == 8
k_MAX_NAME_SIZE == 16
k_MAX_LINE_SIZE == [ErrorFormat |-> 256, LogMessageFormat |-> 256, LogFormat |-> 512]
k_SEPARATOR == " | "
k_UNNAMED == "?"

SeverityNames == <<"TRACE", "DEBUG", "INFO", "WARN", "ERROR", "FATAL">>
e_WARN == 3

-----------------------------------------------------------------------------
(* Catalogs.  (An operator named X_Fault is X with a bug, for showing that *)
(* a property detects it; nothing else uses it.)                           *)

lookup_Last(names, index) ==
    IF NumberOf(index) + 1 < Len(names) THEN names[NumberOf(index) + 1] ELSE k_UNNAMED
lookup(names, index) ==
    IF NumberOf(index) < Len(names) THEN names[NumberOf(index) + 1] ELSE k_UNNAMED

to_string_domain(byte) == lookup(tables.domain_names, byte)
to_string_kind(byte) == lookup(tables.kind_names, byte)
to_string_reason(of, index) == lookup(tables.reason_names[of], index)

\* The subsystem of a domain byte, or "?": e_UNKNOWN has neither reasons nor
\* messages, and from_raw may bring a byte that nothing names.
SubsystemOf(byte) ==
    IF \E of \in Subsystems : Byte(Domain[of]) = byte
    THEN CHOOSE of \in Subsystems : Byte(Domain[of]) = byte
    ELSE k_UNNAMED

to_string_reason_of(raw) ==
    LET of == SubsystemOf(domain(raw)) IN
    IF of = k_UNNAMED THEN k_UNNAMED ELSE to_string_reason(of, reason(raw))

ErrorDescriptor(raw) ==
    [domain |-> to_string_domain(domain(raw)), kind |-> to_string_kind(kind(raw)),
     reason |-> to_string_reason_of(raw)]

UnnamedText == [prefix |-> <<k_UNNAMED>>, suffix |-> <<>>, argument |-> "e_NONE"]

\* LogMessageText::table gives each text the argument its message declares.
text(of, index) ==
    LET i == NumberOf(index) + 1 IN
    IF i <= Len(tables.texts[of])
    THEN LET parts == Split(tables.texts[of][i])
         IN  [prefix |-> parts.prefix, suffix |-> parts.suffix,
              argument |-> tables.arguments[of][i]]
    ELSE UnnamedText

text_of(raw) ==
    LET of == SubsystemOf(domain(raw)) IN
    IF of = k_UNNAMED THEN UnnamedText ELSE text(of, id_of(raw))

-----------------------------------------------------------------------------
(* Layouts.                                                                *)

Piece(said) == [text |-> <<said>>, size |-> Len(said), newlines |-> 0]
Bits(reading, word, size) == [text |-> <<reading, word>>, size |-> size, newlines |-> 0]

append_descriptor(descriptor) ==
    <<Piece(descriptor.domain), Piece(k_SEPARATOR), Piece(descriptor.kind),
      Piece(k_SEPARATOR), Piece(descriptor.reason)>>

append_error_WideContext(raw, withRaw) ==
    append_descriptor(ErrorDescriptor(raw))
    \o <<Piece(k_SEPARATOR), Piece("ctx=0x"), Bits("hex", context(raw), 16)>>
    \o (IF withRaw THEN <<Piece(" <=> raw=0x"), Bits("hex", raw, 16)>> ELSE <<>>)
append_error(raw, withRaw) ==
    append_descriptor(ErrorDescriptor(raw))
    \o <<Piece(k_SEPARATOR), Piece("ctx=0x"), Bits("hex", context(raw), 8)>>
    \o (IF withRaw THEN <<Piece(" <=> raw=0x"), Bits("hex", raw, 16)>> ELSE <<>>)

\* Decimal digits and floats take the room they take: 11 characters at most
\* for an integer, 15 for a float.
append_argument_AsUnsigned(argument, word) ==
    CASE argument = "e_NONE"     -> <<>>
      [] argument = "e_UNSIGNED" -> <<Bits("unsigned", word, 10)>>
      [] argument = "e_SIGNED"   -> <<Bits("unsigned", word, 10)>>
      [] argument = "e_HEX"      -> <<Piece("0x"), Bits("hex", word, 8)>>
      [] argument = "e_FLOAT"    -> <<Bits("float", word, 15)>>
append_argument(argument, word) ==
    CASE argument = "e_NONE"     -> <<>>
      [] argument = "e_UNSIGNED" -> <<Bits("unsigned", word, 10)>>
      [] argument = "e_SIGNED"   -> <<Bits("signed", word, 11)>>
      [] argument = "e_HEX"      -> <<Piece("0x"), Bits("hex", word, 8)>>
      [] argument = "e_FLOAT"    -> <<Bits("float", word, 15)>>

append_text(t, word) ==
    LET pieces(part) == [i \in DOMAIN part |-> Piece(part[i])]
    IN  pieces(t.prefix) \o append_argument(t.argument, word) \o pieces(t.suffix)

append_message(raw, withRaw) ==
    <<Piece(to_string_domain(domain(raw))), Piece(k_SEPARATOR)>>
    \o append_text(text_of(raw), argument_of(raw))
    \o (IF withRaw THEN <<Piece(" <=> raw=0x"), Bits("hex", raw, 16)>> ELSE <<>>)

Larger(a, b) == IF a >= b THEN a ELSE b

\* Seconds take four characters, or more when they have more digits.
append_timestamp(digits, ticks) ==
    <<Piece("["), Bits("seconds", ticks, Larger(4, digits)), Piece("."),
      Bits("microseconds", ticks, 6), Piece("]")>>

append_padded(name, width) ==
    [Piece(name) EXCEPT !.size = Larger(Len(name), width)]

\* The first characters of a name, and the spaces that fill its column.
append_fitted_Padded(name, width) ==
    [text |-> <<name.text>>, size |-> Larger(name.size, width),
     newlines |-> Cardinality(name.newlines)]
append_fitted(name, width) ==
    [text |-> <<name.text>>, size |-> width,
     newlines |-> Cardinality({p \in name.newlines : p <= width})]

append_prefix(digits, ticks, severity, thread) ==
    append_timestamp(digits, ticks)
    \o <<Piece(" "), append_padded(lookup(SeverityNames, severity), k_SEVERITY_WIDTH),
         Piece(" "), append_fitted(thread, k_THREAD_WIDTH)>>

append_payload(type, raw) ==
    CASE NumberOf(type) = LogRecordType["e_ERROR"]   -> append_error(raw, FALSE)
      [] NumberOf(type) = LogRecordType["e_MESSAGE"] -> append_message(raw, FALSE)
      [] OTHER                                       -> <<Piece(k_UNNAMED)>>

Newline == [text |-> <<"newline">>, size |-> 1, newlines |-> 1]

append_record(digits, thread) ==
    append_prefix(digits, ticks_of(d_header), severity_of(d_header), thread)
    \o <<Piece(" ")>> \o append_payload(type_of(d_header), d_payload)
    \o <<Newline>>

\* A producer keeps the first characters of the name its thread gave.
Producer(name) ==
    [name EXCEPT !.size = IF @ <= k_MAX_NAME_SIZE THEN @ ELSE k_MAX_NAME_SIZE,
                 !.newlines = {p \in @ : p <= k_MAX_NAME_SIZE}]

LoggerName == [text |-> "logger", size |-> 6, newlines |-> {}]
LossText(thread, count) ==
    <<append_fitted(thread, thread.size), Piece(" lost "), Bits("unsigned", count, 20),
      Piece(" records")>>

\* The logger's own line about records that a thread lost.
write_loss(digits, ticks, thread, count) ==
    append_prefix(digits, ticks, Byte(e_WARN), LoggerName)
    \o <<Piece(" ")>> \o LossText(thread, count) \o <<Newline>>

-----------------------------------------------------------------------------
(* Format specifications: what stands between the colon and the brace.     *)

EmptySpecParses(spec) == spec = <<>>

is_alternate(spec) == spec # <<>> /\ Head(spec) = "#"
AlternateFlagParses_Prefix(spec) == spec = <<>> \/ is_alternate(spec)
AlternateFlagParses(spec) == (IF is_alternate(spec) THEN Tail(spec) ELSE spec) = <<>>

\* Bound: specifications of two characters, of which any stands for the others.
ShortSpecs == SeqOf({"#", "x"}, 2)

-----------------------------------------------------------------------------
NotShown == [as |-> "nothing"]

LineInit ==
    /\ Init
    /\ tables \in {s \in Sources : Builds(s) /\ s.arguments = arguments}
    /\ line = <<>> /\ shown = NotShown

\* The logger thread's line for the record it popped.
ShowRecord(digits, thread) ==
    /\ given # Nothing
    /\ line' = append_record(digits, Producer(thread))
    /\ shown' = [as |-> "record", digits |-> digits]

\* And its line for the drops it found, whatever the slot holds.
ShowLoss(digits, ticks, thread, count) ==
    /\ given = Nothing
    /\ line' = write_loss(digits, ticks, Producer(thread), count)
    /\ shown' = [as |-> "loss", digits |-> digits, thread |-> thread, count |-> count]

\* std::format of an error, of its names or of a message, where it compiles.
ShowError(spec) ==
    /\ given # Nothing /\ given.type = "e_ERROR"
    /\ AlternateFlagParses(spec)
    /\ line' = append_error(d_payload, is_alternate(spec))
    /\ shown' = [as |-> "error", spec |-> spec]

ShowDescriptor(spec) ==
    /\ given # Nothing /\ given.type = "e_ERROR"
    /\ EmptySpecParses(spec)
    /\ line' = append_descriptor(ErrorDescriptor(d_payload))
    /\ shown' = [as |-> "descriptor", spec |-> spec]

ShowMessage(spec) ==
    /\ given # Nothing /\ given.type = "e_MESSAGE"
    /\ AlternateFlagParses(spec)
    /\ line' = append_message(d_payload, is_alternate(spec))
    /\ shown' = [as |-> "message", spec |-> spec]

Show ==
    \/ \E digits \in SecondsSizes, thread \in Threads :
          \/ ShowRecord(digits, thread)
          \/ \E ticks \in Ticks, count \in Counts : ShowLoss(digits, ticks, thread, count)
    \/ \E spec \in ShortSpecs : ShowError(spec) \/ ShowDescriptor(spec) \/ ShowMessage(spec)

LineNext ==
    \/ Next /\ line' = <<>> /\ shown' = NotShown /\ UNCHANGED tables
    \/ Show /\ UNCHANGED <<vars, tables>>

LineSpec == LineInit /\ [][LineNext]_lineVars

-----------------------------------------------------------------------------
(* Properties.                                                             *)

SizeOf(pieces) == MapThenSumSet(LAMBDA i : pieces[i].size, 1..Len(pieces))

\* What a line says of an argument, by the type the call was compiled with.
Readings == [uint32 |-> {"unsigned", "hex"}, int32 |-> {"signed"}, float |-> {"float"}]

\* A text without the place of its argument.
PlainWords(t) == SelectSeq(t, LAMBDA c : c \notin Braces)

\* The names of the reasons, or the first words of the messages, of a domain.
Named(type, of) ==
    IF type = "e_ERROR" THEN tables.reason_names[of]
    ELSE [i \in DOMAIN tables.texts[of] |-> Head(PlainWords(tables.texts[of][i]))]

\* The texts of the tables are checked before anything is logged.  One pass that
\* counts braces and looks for {} accepts the well-formed texts and no other, and
\* what it accepts is split without loss: nothing is lost or shown twice, and no
\* brace is ever shown (core_log_message_catalog.h:102-105, :146-151, :184-213,
\* :249-255).
WellFormedAndWhole ==
    given = Nothing /\ shown = NotShown =>
        \A t \in ShortTexts, argument \in TextArguments :
            /\ is_valid(t, argument) <=> WellFormed(t, argument)
            /\ is_valid(t, argument) => PartsOf(Split(t), t, argument)

\* What was logged is what is shown, from every source that builds: each
\* enumerator of a domain, a kind, a reason or a message has its own entry of its
\* table shown, and never "?"; the context of an error is shown, and the argument
\* of a message is read as the type it was logged with.  What no enumerator names
\* is "?", and so is every text of an unknown domain.  The raw value ends what
\* was formatted with {:#}, and no specification but {} and {:#} compiles
\* (core_error_format.h:22-24, core_log_message_catalog.h:361-371,
\* core_log_message.h:36-44, core_format.h:200-262).
ShownAsLogged ==
    shown.as \in {"record", "error", "message", "descriptor"} =>
        LET parts == given.parts
            said == {line[i].text : i \in 1..Len(line)}
            named(names, enumerators, index) ==
                IF index < enumerators
                THEN index < Len(names) /\ <<names[index + 1]>> \in said
                ELSE <<k_UNNAMED>> \in said
            number(from, bits) ==
                NumberOf({b - from : b \in parts.raw \intersect from..(from + bits - 1)})
            domain_named(value) == named(tables.domain_names, 4, value)
        IN  /\ shown.as # "record" => shown.spec = <<>> \/ shown.spec = <<"#">>
            /\ <<" <=> raw=0x">> \in said <=> shown.as # "record" /\ shown.spec = <<"#">>
            /\ CASE "kind" \in DOMAIN parts ->
                    /\ domain_named(Domain[parts.domain])
                    /\ named(tables.kind_names, Len(tables.kinds), NumberOf(parts.kind))
                    /\ named(tables.reason_names[parts.domain],
                             Len(tables.reasons[parts.domain]), NumberOf(parts.reason))
                    /\ <<"hex", parts.context>> \in said \/ shown.as = "descriptor"
                 [] "id" \in DOMAIN parts ->
                    /\ domain_named(Domain[parts.domain])
                    /\ parts.id + 1 \in DOMAIN tables.texts[parts.domain]
                    /\ \A word \in ToSet(PlainWords(tables.texts[parts.domain][parts.id + 1])) :
                          <<word>> \in said
                    /\ parts.type = "void"
                       \/ \E r \in Readings[parts.type] : <<r, parts.argument>> \in said
                 [] OTHER ->
                    /\ domain_named(number(0, 8))
                    /\ IF number(0, 8) \in 1..3
                       THEN LET of == <<"e_CORE", "e_VULKAN", "e_METAL">>[number(0, 8)]
                                names == Named(given.type, of)
                            IN  named(names, Len(names), number(16, 16))
                       ELSE <<k_UNNAMED>> \in said

\* Every line of a record has its payload in column 29, while the seconds are
\* below 10000, so that columns line up whatever the severity and the name, and
\* so has every line about a loss (core_log_format.h:23-28, core_log.h:667-685).
PayloadColumn ==
    shown.as \in {"record", "loss"} /\ shown.digits <= 4 =>
        \E n \in 1..Len(line) :
            /\ SizeOf(SubSeq(line, 1, n)) = 28
            /\ line[n + 1].text = <<" ">>
            /\ SubSeq(line, n + 2, Len(line) - 1)
                 = IF shown.as = "record" THEN append_payload(type_of(d_header), d_payload)
                   ELSE LossText(Producer(shown.thread), shown.count)

\* While names and texts take no more room than the formats leave them, nothing
\* is longer than the buffers it is written into, so no line is cut: the fixed
\* parts of an error take 50 characters and those of a message 45, the widest
\* argument included (core_error_format.h:79-82, core_log_message_format.h:84-87,
\* core_log_format.h:76-78).
LinesFit ==
    /\ shown.as \in {"error", "descriptor"} => SizeOf(line) <= k_MAX_LINE_SIZE.ErrorFormat
    /\ shown.as = "message" => SizeOf(line) <= k_MAX_LINE_SIZE.LogMessageFormat
    /\ shown.as \in {"record", "loss"} => SizeOf(line) <= k_MAX_LINE_SIZE.LogFormat

\* A record is never more than one line, so a line that starts with a bracket
\* always begins a record (core_log_format.h:30-31).
OneLine ==
    shown.as = "record" => \A i \in 1..(Len(line) - 1) : line[i].newlines = 0

=============================================================================
