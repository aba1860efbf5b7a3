--------------------------- MODULE LogMessageText ---------------------------
(***************************************************************************)
(* The LogMessageText of core_log_message_catalog.h: a text of a message   *)
(* is checked while its table compiles, and split where the argument goes. *)
(* A text is a sequence of characters, or of runs of plain characters.     *)
(***************************************************************************)
EXTENDS Naturals, FiniteSets, SequencesExt

CONSTANT MaxText    \* bound: characters of a text that the properties are about

ASSUME LogMessageTextAssumption == MaxText \in Nat

\* A letter stands for what is printable, a newline for what is not.
Characters == {"a", " ", "{", "}", "newline"}
Braces == {"{", "}"}
k_PLACEHOLDER == <<"{", "}">>

\* What a table may give a text: the number of arguments is an enumerator too,
\* that no text may have.
TextArguments == {"e_NONE", "e_UNSIGNED", "e_SIGNED", "e_HEX", "e_FLOAT", "e_COUNT"}

-----------------------------------------------------------------------------
(* (An operator named X_Fault is X with a bug, for showing that a property *)
(* detects it; nothing else uses it.)                                      *)

PlaceholderAt(t, i) == i < Len(t) /\ <<t[i], t[i + 1]>> = k_PLACEHOLDER

is_valid_AnyBraces(t, arg) ==
    /\ t # <<>> /\ t[1] # " " /\ t[Len(t)] # " " /\ arg # "e_COUNT"
    /\ \A i \in 1..Len(t) : t[i] # "newline"
    /\ (\E i \in 1..Len(t) : PlaceholderAt(t, i)) = (arg # "e_NONE")
is_valid(t, arg) ==
    LET braces == Cardinality({i \in 1..Len(t) : t[i] \in Braces})
        has_placeholder == \E i \in 1..Len(t) : PlaceholderAt(t, i)
    IN  /\ t # <<>> /\ t[1] # " " /\ t[Len(t)] # " " /\ arg # "e_COUNT"
        /\ \A i \in 1..Len(t) : t[i] # "newline"
        /\ has_placeholder = (arg # "e_NONE")
        /\ braces = IF has_placeholder THEN 2 ELSE 0

\* The prefix is the whole text when there is no placeholder.
Split_PastOpenBrace(t) ==
    IF \E i \in 1..Len(t) : PlaceholderAt(t, i)
    THEN LET i == CHOOSE j \in 1..Len(t) : PlaceholderAt(t, j)
         IN  [prefix |-> SubSeq(t, 1, i - 1), suffix |-> SubSeq(t, i + 1, Len(t))]
    ELSE [prefix |-> t, suffix |-> <<>>]
Split(t) ==
    IF \E i \in 1..Len(t) : PlaceholderAt(t, i)
    THEN LET i == CHOOSE j \in 1..Len(t) :
                    PlaceholderAt(t, j) /\ \A k \in 1..(j - 1) : ~PlaceholderAt(t, k)
         IN  [prefix |-> SubSeq(t, 1, i - 1), suffix |-> SubSeq(t, i + 2, Len(t))]
    ELSE [prefix |-> t, suffix |-> <<>>]

-----------------------------------------------------------------------------
(* What the comments promise of a text, for every short one.               *)

ShortTexts == SeqOf(Characters, MaxText)

Plain(t) == \A i \in 1..Len(t) : t[i] \in {"a", " "}

\* A line of printable text that neither starts nor ends with a space, with one
\* {} and no other brace if its message has an argument, and none if it has not.
WellFormed(t, arg) ==
    /\ t # <<>> /\ t[1] # " " /\ t[Len(t)] # " "
    /\ \/ arg = "e_NONE" /\ Plain(t)
       \/ /\ arg \in TextArguments \ {"e_NONE", "e_COUNT"}
          /\ \E i \in 1..(Len(t) - 1) :
                /\ Plain(SubSeq(t, 1, i - 1))
                /\ SubSeq(t, i, i + 1) = k_PLACEHOLDER
                /\ Plain(SubSeq(t, i + 2, Len(t)))

\* The parts are plain, and with the argument back between them are the text.
PartsOf(parts, t, arg) ==
    /\ Plain(parts.prefix) /\ Plain(parts.suffix)
    /\ t = parts.prefix \o (IF arg = "e_NONE" THEN <<>> ELSE k_PLACEHOLDER) \o parts.suffix
=============================================================================
