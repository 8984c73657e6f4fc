--------------------------- MODULE MCRangeResidency ---------------------------
(* Small instances of RangeResidency for TLC.                                *)
EXTENDS RangeResidency, TLC

\* A source of eight bytes that may shrink to four, cut in quarters on its left.
BothExtents == {4, 8}
Parts == {0, 2, 4, 8}

Forward(at, max) == [type |-> "Forward", at |-> at, max |-> max]
Backward(at, max) == [type |-> "Backward", at |-> at, max |-> max]
Around(at, max) == [type |-> "Validation", at |-> at, max |-> max]

\* Halves from either side and a check of the middle, which either half answers.
HalfDemands == {Forward(0, 4), Backward(8, 4), Around(4, 8)}

\* An atom across the middle, seen from both halves; another that overlaps it.
Bridge == [id |-> 1, lo |-> 3, hi |-> 5, copy |-> 3]
Intruder == [id |-> 2, lo |-> 4, hi |-> 6, copy |-> 1]
TwoAtoms == {Bridge, Intruder}
=============================================================================
