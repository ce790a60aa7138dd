----------------------------- MODULE MCSplitter -----------------------------
(***************************************************************************)
(* The splitters run in a directory left by an earlier run, and the       *)
(* decimal digits Versions gives both str(fileCount) and getDigits,      *)
(* checked with isGreater over every pair of a small set of versions.    *)
(***************************************************************************)
EXTENDS Splitter

\* Lines: a graph opening on its own line, one whose brace is on the next
\* line, that brace, an edge, a comment, an XML declaration, an svg tag.
Graph   == <<"digraph", "{">>
Graph2  == <<"digraph", "G">>
Brace   == <<"{", "{">>
Edge    == <<"a", ";">>
Comment == <<"//", "x">>
XmlDecl == <<"<?xml", ">">>
SvgTag  == <<"<svg", ">">>

\* Files: g.dot, its first output g1.dot from an earlier run (edited since),
\* "g h.dot", p.svg and the Errors.txt of the earlier run.
GDot  == [stem |-> <<"g">>, ext |-> ".dot"]
G1Dot == [stem |-> <<"g", "1">>, ext |-> ".dot"]
GHDot == [stem |-> <<"g", " ", "h">>, ext |-> ".dot"]
PSvg  == [stem |-> <<"p">>, ext |-> ".svg"]

MCFileSystems ==
    {(GDot :> <<Comment, Graph, Edge, Graph2, Brace>>) @@
     (G1Dot :> <<Graph, Comment>>) @@
     (GHDot :> <<Graph, Graph>>) @@
     (PSvg :> <<XmlDecl, SvgTag, XmlDecl>>) @@
     (ErrorsTxt :> <<Edge>>)}

\* "*", "*.dot" and "g*".
MCPatterns == {[prefix |-> <<>>, ext |-> "*"], [prefix |-> <<>>, ext |-> ".dot"],
               [prefix |-> <<"g">>, ext |-> "*"]}

\* Versions: equal digit lists from different strings, a two-digit
\* component, a bare number, an unparsable component.
MCVersionSet == {<<1, 9>>, <<1, 10>>, <<1, 1, 0>>, <<2, 0>>, <<1, 0>>,
                 <<10>>, <<1, Bad>>, <<0, 12, 3>>}

VARIABLES a, b
all == <<svars, a, b>>

MCInit == Init /\ a \in MCVersionSet /\ b \in MCVersionSet
MCNext == SplitterNext /\ UNCHANGED <<a, b>>
\* A script is one thread that runs to its end.
MCSpec == MCInit /\ [][MCNext]_all /\ WF_all(MCNext)

-----------------------------------------------------------------------------
\* Reference: the number a digit list denotes.
RECURSIVE Value(_)
Value(d) == IF d = <<>> THEN 0 ELSE Value(Front(d)) * 10 + Last(d)

\* Reference: lexicographic order of the digit lists, a proper prefix
\* being the smaller.
LexGreater(l1, l2) ==
    \/ IsStrictPrefix(l2, l1)
    \/ \E k \in 1..Len(l1) : k <= Len(l2) /\ SubSeq(l1, 1, k - 1) = SubSeq(l2, 1, k - 1)
                             /\ l1[k] > l2[k]

\* getDigits turns every component into its decimal digits, most
\* significant first, without leading zeros (so does str(fileCount)).
DigitsAreDecimal ==
    \A x \in Range(a) \ {Bad} :
        LET d == Digits(x) IN
        /\ Value(d) = x
        /\ \A k \in DOMAIN d : d[k] \in 0..9
        /\ Len(d) > 1 => d[1] # 0

\* isGreater is that order on parsable versions and FALSE otherwise.
IsGreaterIsLexOrder ==
    IsGreater(a, b) = (Parses(a) /\ Parses(b) /\ LexGreater(GetDigits(a), GetDigits(b)))
=============================================================================
