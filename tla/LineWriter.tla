----------------------------- MODULE LineWriter -----------------------------
(***************************************************************************)
(* The LineWriter of core_format.h: appends to a buffer it does not own,   *)
(* cuts what does not fit and remembers that it did.  Text that may hold   *)
(* control characters is searched for them a word at a time, with          *)
(* arithmetic on all the bytes of the word at once.                        *)
(*                                                                         *)
(* A character is its code, 0 to 255; a word is a number of k_WORD_SIZE    *)
(* bytes, the first character in the lowest one.  Numbers wrap as the      *)
(* unsigned words of that size do.                                         *)
(***************************************************************************)
EXTENDS Integers, Sequences, FiniteSets, SequencesExt

CONSTANTS
    k_WORD_SIZE,    \* bytes of a word: 8 in the code
    BufferSize,
    Texts,          \* what is appended
    Columns,        \* where a continued line starts
    Widths,         \* widths to pad or cut to
    Numbers,        \* what is appended in decimal
    Floats,         \* the shortest texts that read back as what is appended as a float
    MaxAppends      \* bound: appends to one buffer

ASSUME LineWriterAssumption ==
    /\ k_WORD_SIZE \in Nat \ {0} /\ {BufferSize, MaxAppends} \subseteq Nat
    /\ Texts \subseteq Seq(0..255)
    /\ Columns \union Widths \subseteq Nat
    /\ Numbers \subseteq Int
    /\ Floats \subseteq Seq(0..255)

VARIABLES
    writer,     \* the view so far, whether it was truncated, and how far the
                \* buffer was touched
    said,       \* history: everything appended, as if the buffer were endless
    appends     \* number of appends

vars == <<writer, said, appends>>

LF == 10
CR == 13
k_SPACE == 32
k_MINUS == 45
k_ZERO == 48
k_QUESTION == 63
k_DEL == 127

-----------------------------------------------------------------------------
(* Words.  (An operator named X_Fault is X with a bug, for showing that a  *)
(* property detects it; nothing else uses it.)                             *)

Positions == 0..(k_WORD_SIZE - 1)
WordSpace == 256 ^ k_WORD_SIZE

\* One byte value in every byte of a word.
Repeated(byte) == byte * ((WordSpace - 1) \div 255)

ByteOf(word, i) == (word \div 256 ^ i) % 256

\* The word that the characters of text after the position p make.
WordAt(text, p) == MapThenSumSet(LAMBDA i : text[p + i + 1] * 256 ^ i, Positions)

\* word ^ k_DELS: every bit but the top one of each byte is flipped.
FlippedToDel(word) ==
    MapThenSumSet(LAMBDA i : (256 ^ i) *
        (IF ByteOf(word, i) < 128 THEN 127 - ByteOf(word, i) ELSE 383 - ByteOf(word, i)),
        Positions)

\* The bytes of x that are flagged as being below the matching byte of limit: the
\* top bit shows in the difference, and not in x itself.
below_KeepsHigh(x, limit) == {i \in Positions : ByteOf((x - limit) % WordSpace, i) >= 128}
below(x, limit) ==
    {i \in Positions : ByteOf((x - limit) % WordSpace, i) >= 128 /\ ByteOf(x, i) < 128}

Flagged(word) ==
    below(word, Repeated(k_SPACE)) \union below(FlippedToDel(word), Repeated(1))

\* The byte whose flag is trusted.
Trusted_Highest(flagged) == Max(flagged)
Trusted(flagged) == Min(flagged)

IsControl(code) == code < k_SPACE \/ code = k_DEL

\* The position of the first control character of text, or its length, and how
\* many characters of the output were overwritten on the way.
copy_plain(text) ==
    LET scan[p \in 0..Len(text)] ==
            IF Len(text) - p >= k_WORD_SIZE
            THEN LET flagged == Flagged(WordAt(text, p)) IN
                 IF flagged # {}
                 THEN [position |-> p + Trusted(flagged), touched |-> p + k_WORD_SIZE]
                 ELSE scan[p + k_WORD_SIZE]
            ELSE IF p < Len(text) /\ ~IsControl(text[p + 1]) THEN scan[p + 1]
            ELSE [position |-> p, touched |-> p]
    IN  scan[0]

-----------------------------------------------------------------------------
(* Appends, as functions of the writer.                                    *)

Writer == [view : Seq(0..255), truncated : BOOLEAN, touched : Nat]
NewWriter == [view |-> <<>>, truncated |-> FALSE, touched |-> 0]

Room_OneMore(w) == BufferSize + 1 - Len(w.view)
Room(w) == BufferSize - Len(w.view)

First(n, text) == SubSeq(text, 1, Min({n, Len(text)}))
Copies(n, c) == [i \in 1..n |-> c]

\* The writer after it took the text, and the truncation if there was one.
Taken(w, text, cut) ==
    [view |-> w.view \o text,
     truncated |-> w.truncated \/ cut,
     touched |-> Max({w.touched, Len(w.view) + Len(text)})]

\* The part of a text that fits.
Fitting_All(w, text) == text
Fitting(w, text) == First(Room(w), text)

append(w, text) == Taken(w, Fitting(w, text), Len(text) > Room(w))

append_repeated(w, c, copies) ==
    Taken(w, Copies(Min({copies, Room(w)}), c), copies > Room(w))

append_char(w, c) == append_repeated(w, c, 1)

\* The text up to its first control character, and where that is: past the text
\* if there is none in what fits.
append_plain(w, text) ==
    LET fitting == Fitting(w, text)
        copied == copy_plain(fitting)
        stopped == copied.position < Len(fitting)
        taken == Taken(w, First(copied.position, text), ~stopped /\ Len(fitting) < Len(text))
    IN  [writer |-> [taken EXCEPT !.touched = Max({@, Len(w.view) + copied.touched})],
         position |-> IF stopped THEN copied.position ELSE Len(text)]

\* One trailing newline ends the text, not a line of it.
WithoutLastNewline(text) ==
    IF IsSuffix(<<CR, LF>>, text) THEN First(Len(text) - 2, text)
    ELSE IF IsSuffix(<<LF>>, text) THEN First(Len(text) - 1, text)
    ELSE text

\* In a CRLF the CR is dropped.
WithoutReturn(rest) == IF IsPrefix(<<CR, LF>>, rest) THEN Tail(rest) ELSE rest

append_continued(w, text, column) ==
    LET control_shown(v, c) ==
            IF c = LF THEN append_repeated(append_char(v, LF), k_SPACE, column)
            ELSE append_char(v, k_QUESTION)
        pass[v \in Writer, rest \in Seq(0..255)] ==
            LET plain == append_plain(v, rest)
                after == WithoutReturn(SubSeq(rest, plain.position + 1, Len(rest)))
            IN  IF plain.position = Len(rest) THEN plain.writer
                ELSE pass[control_shown(plain.writer, Head(after)), Tail(after)]
    IN  pass[w, WithoutLastNewline(text)]

append_padded(w, text, width) ==
    IF Len(text) < width
    THEN append_repeated(append(w, text), k_SPACE, width - Len(text))
    ELSE append(w, text)

append_fitted(w, text, width) == append_padded(w, First(width, text), width)

\* std::to_chars.
Digits(n) ==
    LET digits[m \in Nat] ==
            IF m < 10 THEN <<k_ZERO + m>> ELSE Append(digits[m \div 10], k_ZERO + (m % 10))
    IN  digits[n]
Decimal(value) == IF value < 0 THEN <<k_MINUS>> \o Digits(-value) ELSE Digits(value)

append_decimal_SignLast(w, value, width, fill) ==
    LET text == Decimal(value) IN
    append(append_repeated(w, fill, IF Len(text) < width THEN width - Len(text) ELSE 0), text)
append_decimal(w, value, width, fill) ==
    LET text == Decimal(value)
        sign_first == fill = k_ZERO /\ Head(text) = k_MINUS
    IN  IF Len(text) >= width THEN append(w, text)
        ELSE append(append_repeated(IF sign_first THEN append_char(w, k_MINUS) ELSE w,
                                    fill, width - Len(text)),
                    IF sign_first THEN Tail(text) ELSE text)

\* The low 4 * digits bits of value, filled in from the right.
append_hex(w, value, digits) ==
    LET fill[i \in 0..digits, rest \in Nat] ==
            IF i = 0 THEN <<>>
            ELSE Append(fill[i - 1, rest \div 16],
                        LET d == rest % 16 IN IF d < 10 THEN k_ZERO + d ELSE 87 + d)
    IN  append(w, fill[digits, value])

\* std::to_chars writes to a buffer of its own first, of this size.
k_MAX_SIZE == 15
append_float(w, shortest) == append(w, First(k_MAX_SIZE, shortest))

-----------------------------------------------------------------------------
(* What each append says, on a buffer without an end: what its comment in  *)
(* the class promises.                                                     *)

Padded(text, width) == text \o Copies(Max({width - Len(text), 0}), k_SPACE)

Continued(text, column) ==
    LET t == WithoutLastNewline(text)
        shown(i) ==
            IF t[i] = LF THEN <<LF>> \o Copies(column, k_SPACE)
            ELSE IF t[i] = CR /\ i < Len(t) /\ t[i + 1] = LF THEN <<>>
            ELSE IF IsControl(t[i]) THEN <<k_QUESTION>>
            ELSE <<t[i]>>
    IN  FlattenSeq([i \in 1..Len(t) |-> shown(i)])

RightAligned(value, width, fill) ==
    LET zeros == Copies(Max({width - Len(Decimal(value)), 0}), fill)
    IN  IF fill = k_ZERO /\ value < 0 THEN <<k_MINUS>> \o zeros \o Digits(-value)
        ELSE zeros \o Decimal(value)

Hex(value, digits) ==
    [i \in 1..digits |->
        LET d == (value \div 16 ^ (digits - i)) % 16
        IN  IF d < 10 THEN k_ZERO + d ELSE 87 + d]

-----------------------------------------------------------------------------

Init == writer = NewWriter /\ said = <<>> /\ appends = 0

Said(text) == appends' = appends + 1 /\ said' = said \o text

DoAppend(text) == writer' = append(writer, text) /\ Said(text)
DoAppendContinued(text, column) ==
    writer' = append_continued(writer, text, column) /\ Said(Continued(text, column))
DoAppendPadded(text, width) ==
    writer' = append_padded(writer, text, width) /\ Said(Padded(text, width))
DoAppendFitted(text, width) ==
    writer' = append_fitted(writer, text, width) /\ Said(First(width, Padded(text, width)))
DoAppendDecimal(value, width, fill) ==
    /\ writer' = append_decimal(writer, value, width, fill)
    /\ Said(RightAligned(value, width, fill))
DoAppendHex(value, digits) ==
    writer' = append_hex(writer, value, digits) /\ Said(Hex(value, digits))
DoAppendFloat(shortest) ==
    writer' = append_float(writer, shortest) /\ Said(shortest)

Next ==
    /\ appends < MaxAppends
    /\ \/ \E text \in Texts :
            \/ DoAppend(text)
            \/ \E column \in Columns : DoAppendContinued(text, column)
            \/ \E width \in Widths : DoAppendPadded(text, width) \/ DoAppendFitted(text, width)
       \/ \E value \in Numbers, width \in Widths, fill \in {k_SPACE, k_ZERO} :
            DoAppendDecimal(value, width, fill)
       \/ \E value \in Numbers \intersect Nat, digits \in Widths \ {0} :
            DoAppendHex(value, digits)
       \/ \E shortest \in Floats : DoAppendFloat(shortest)

Spec == Init /\ [][Next]_vars

-----------------------------------------------------------------------------
(* Properties.                                                             *)

\* The buffer holds as much of what was said as fits, whatever was appended in
\* whatever order, and the writer knows whether that is all of it (:74-76).
ViewIsWhatFits ==
    /\ writer.view = First(BufferSize, said)
    /\ writer.truncated <=> Len(said) > BufferSize

\* Words are copied before they are checked, and still nothing is written past the
\* end of the buffer; every variable has its type (:87-91, :323-326).
NothingPastTheBuffer ==
    /\ writer \in Writer /\ said \in Seq(0..255) /\ appends \in 0..MaxAppends
    /\ writer.touched \in Len(writer.view)..BufferSize
=============================================================================
