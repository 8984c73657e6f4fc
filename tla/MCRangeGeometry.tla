--------------------------- MODULE MCRangeGeometry ---------------------------
(* Small sources for RangeGeometry.  They have what the scan of a page has   *)
(* to keep for the next one: indicators, a grapheme longer than a   *)
(* segment, an atom, a break, objects at both ends and inside.               *)
EXTENDS RangeGeometry

S1 == [text |-> <<"x", "n", "r", "r", "r">>, atoms |-> <<>>, objects |-> <<1>>]
S2 == [text |-> <<"x", "e", "e", "x">>, atoms |-> <<>>, objects |-> <<4>>]
S3 == [text |-> <<>>, atoms |-> <<>>, objects |-> <<>>]
S4 == [text |-> <<"x", "x", "r", "r", "n">>, atoms |-> <<[lo |-> 0, hi |-> 2]>>, objects |-> <<0, 0>>]
S5 == [text |-> <<"x", "e", "e", "n", "n", "r">>, atoms |-> <<>>, objects |-> <<0>>]
FiveSources == <<S1, S2, S3, S4, S5>>

SomeGoals == {[block |-> 0, view |-> 1, over |-> 0], [block |-> 1, view |-> 1, over |-> 1]}
At(at, before, after) == [at |-> at, gap |-> <<before, after>>]
SomeAnchors == {At(0, 1, 2), At(1, 0, 1), At(4, 0, 0)}
=============================================================================
