----------------------------- MODULE MCRangeEdit -----------------------------
(* Small instances of RangeEdit for TLC: the values its .cfg files name.     *)
EXTENDS RangeEdit

\* "ab" over one line.
LineOfTwo == [bytes |-> 2, lines |-> 1]
OneExtent == {LineOfTwo}

\* Replace the whole line of two, or declare more line breaks than it has: refused.
ReplaceLine == [start |-> 0, len |-> 2, breaks |-> 0, kind |-> "Edit"]
InventedBreaks == [ReplaceLine EXCEPT !.breaks = 2]
LineReplacements == {ReplaceLine, InventedBreaks}

\* A page that inserts one byte and affects one object.
Page(off, brk, target, effect) ==
  [off |-> off, ins |-> 1, brk |-> brk, other |-> TRUE, anchor |-> off, target |-> target,
   effect |-> effect, weight |-> 1 + off]

\* Two pages that only continue each other in one order, and affect different objects.
TwoPages == {Page(0, 0, 2, "Removed"), Page(1, 1, 1, "Replaced")}

AtStart == [type |-> "Exact", at |-> 0]
AtEndOfOne == [type |-> "ReplacementEnd", at |-> 1]
BothIntents == {AtStart, AtEndOfOne}

TwoProposalPages == [Source |-> 1, Proposal |-> 2]
=============================================================================
