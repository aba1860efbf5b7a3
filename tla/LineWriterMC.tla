---------------------------- MODULE LineWriterMC ----------------------------
(* An instance of LineWriter for TLC: sequences of appends to one buffer,   *)
(* and single appends of many more texts that are searched for control      *)
(* characters.                                                              *)
EXTENDS LineWriter

\* Texts that mean something to an append.
PlainTexts == {<<>>, <<97>>, <<97, 98, 99>>, <<97, CR, LF, 98>>, <<LF, CR, LF>>}

ShortNumbers == {-42, -7, 0, 7, 260}

\* 0.5 and -1e+20, as text.
ShortFloats == {<<48, 46, 53>>, <<k_MINUS, 49, 101, 43, 50, 48>>}

\* Every pair of characters, at the start and at the end of a word of three.
AllPairs == {<<c, d, 97>> : c, d \in 0..255} \union {<<97, c, d>> : c, d \in 0..255}

\* Texts of up to two words of three, of the characters that differ by one from
\* those the search compares with.
EdgeTexts == SeqOf({LF, CR, 31, k_SPACE, 126, k_DEL, 128, 255}, 6)

\* After one of those texts was appended to a new buffer, as the last append.
ScanInit ==
    \E text \in AllPairs \union EdgeTexts, column \in Columns \ {0} :
        /\ writer = append_continued(NewWriter, text, column)
        /\ said = Continued(text, column)
        /\ appends = MaxAppends

MCSpec == (Init \/ ScanInit) /\ [][Next]_vars
=============================================================================
