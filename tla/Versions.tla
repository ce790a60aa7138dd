------------------------------ MODULE Versions ------------------------------
(***************************************************************************)
(* Version comparison of config/ConfigManager.py: Tree.getDigits and      *)
(* Tree.isGreater.  A version string "c1.c2...ck" is the sequence of its  *)
(* dot-separated components; a component is a natural number, or Bad for  *)
(* text int() rejects (letters, an empty component).                      *)
(***************************************************************************)
EXTENDS Naturals, Sequences, SequencesExt

CONSTANT Bad  \* a component int() rejects; a model value

\* getDigits raises when the string has no dot or a component is not a number.
Parses(v) == Len(v) > 1 /\ \A i \in DOMAIN v : v[i] # Bad

\* Variant for mutation checks: the digit stack left unreversed.
RECURSIVE DigitsUnreversed(_)
DigitsUnreversed(x) == IF x >= 10 THEN <<x % 10>> \o DigitsUnreversed(x \div 10) ELSE <<x>>

\* The inner loop of getDigits: push x % 10 while x >= 10, push x, reverse.
RECURSIVE Digits(_)
Digits(x) == IF x >= 10 THEN Digits(x \div 10) \o <<x % 10>> ELSE <<x>>

\* getDigits: the digits of every component, concatenated in order.
GetDigits(v) == FlattenSeq([i \in DOMAIN v |-> Digits(v[i])])

\* Variant for mutation checks: a tie on the common digits is won by the
\* first argument when it is at least as long ("len(list1) >= len(list2)").
IsGreaterTieLonger(v1, v2) ==
    IF ~Parses(v1) \/ ~Parses(v2) THEN FALSE
    ELSE LET l1 == GetDigits(v1)
             l2 == GetDigits(v2)
             n  == IF Len(l1) < Len(l2) THEN Len(l1) ELSE Len(l2)
             diff == {i \in 1..n : l1[i] # l2[i]}
         IN IF diff # {} THEN LET i == CHOOSE j \in diff : \A k \in diff : j <= k
                              IN l1[i] > l2[i]
            ELSE Len(l1) >= Len(l2)

\* isGreater: FALSE when either version does not parse; otherwise the first
\* differing digit over the common length decides, and on a tie the longer
\* digit list is the greater.
IsGreater(v1, v2) ==
    IF ~Parses(v1) \/ ~Parses(v2) THEN FALSE
    ELSE LET l1   == GetDigits(v1)
             l2   == GetDigits(v2)
             n    == IF Len(l1) < Len(l2) THEN Len(l1) ELSE Len(l2)
             diff == {i \in 1..n : l1[i] # l2[i]}
         IN IF diff # {} THEN LET i == CHOOSE j \in diff : \A k \in diff : j <= k
                              IN l1[i] > l2[i]
            ELSE Len(l1) > Len(l2)
=============================================================================
