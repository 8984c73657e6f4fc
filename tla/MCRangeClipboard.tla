--------------------------- MODULE MCRangeClipboard ---------------------------
(* A small source for RangeClipboard.                                        *)
EXTENDS RangeClipboard, TLC

\* Four bytes with two line breaks, one of them in an atom of two bytes whose copy is
\* as long; an object before the atom and two behind it, the first with an empty copy.
Text == {0, 2}
OneAtom == <<[id |-> 1, lo |-> 1, hi |-> 3, copy |-> <<10, 11>>]>>
ThreeObjects == <<[id |-> 1, at |-> 1, copy |-> <<21>>],
                  [id |-> 2, at |-> 3, copy |-> <<>>],
                  [id |-> 3, at |-> 3, copy |-> <<23>>]>>
PageEnds == 1..4

At(at, before, after) == [at |-> at, gap |-> <<before, after>>]
From(start, end) == [start |-> start, end |-> end]

\* Text before the first object; from it to the last; between two objects; all, which
\* is too large; nothing; the atom alone; half of it; a start the source does not have.
SomeSelections ==
  {From(At(0, 0, 0), At(1, 0, 1)), From(At(1, 0, 1), At(3, 3, 0)), From(At(3, 2, 3), At(3, 3, 0)),
   From(At(0, 0, 0), At(4, 0, 0)), From(At(0, 0, 0), At(0, 0, 0)),
   From(At(1, 1, 0), At(3, 0, 2)), From(At(2, 0, 0), At(4, 0, 0)), From(At(3, 0, 0), At(4, 0, 0))}

\* The second operation: between the two objects.
SecondSelection == {From(At(3, 2, 3), At(3, 3, 0))}

SomePolicies ==
  {[atoms |-> "PlainText", items |-> 2], [atoms |-> "PlainText", items |-> 0],
   [atoms |-> "Propagate", items |-> 2]}
=============================================================================
