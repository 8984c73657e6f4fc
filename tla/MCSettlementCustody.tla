-------------------------- MODULE MCSettlementCustody --------------------------
(* Small instances of SettlementCustody for TLC.                             *)
EXTENDS SettlementCustody, TLC

\* The widgets are alike.
Symmetry == Permutations(Widgets)

\* A host that configures between edits, drains before it settles, and leaves
\* cancelled history requests alone; and one for each of its other habits.
Plain == {}
Configuring == {"ConfiguresDuringEdit"}
Answering == {"AnswersCancelled"}
=============================================================================
