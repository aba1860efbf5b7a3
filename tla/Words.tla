------------------------------- MODULE Words --------------------------------
(***************************************************************************)
(* Unsigned words and the operators C++ has for them.  A word is the set   *)
(* of the positions of its one bits, the lowest being 0, so that | and &   *)
(* are union and intersection, and a conversion to a narrower type cuts    *)
(* the positions it has no room for.                                       *)
(***************************************************************************)
EXTENDS Integers, FiniteSets, FiniteSetsExt

\* The words of a width, and all the bits of that width set.
Word(width) == SUBSET (0..(width - 1))
Ones(width) == 0..(width - 1)

ShiftedLeft(word, by, width) == {b + by : b \in word} \intersect Ones(width)
ShiftedRight(word, by) == {b - by : b \in {c \in word : c >= by}}

\* A number as a word, and a word as the number it stands for.
WordOf(n, width) == {b \in Ones(width) : (n \div 2 ^ b) % 2 = 1}
NumberOf(word) == MapThenSumSet(LAMBDA b : 2 ^ b, word)
=============================================================================
