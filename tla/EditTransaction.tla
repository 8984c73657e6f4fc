--------------------------- MODULE EditTransaction ---------------------------
(***************************************************************************)
(* What a range-backed edit promises, without pages, passes or keys: the   *)
(* document a widget is bound to changes only when a rebind replaces it or *)
(* when one whole change, frozen before its admission and based on exactly *)
(* this document, is committed.  An admitted change is never taken back; a *)
(* rebind detaches it and its result no longer reaches the document.       *)
(***************************************************************************)
EXTENDS Naturals

CONSTANTS BindingIds, Revisions, None

ExtentSpace == [bytes : Nat, lines : Nat]
Documents == [id : BindingIds, rev : Revisions, extent : ExtentSpace]

VARIABLES
  doc,     \* the document the widget is bound to
  txn,     \* "None", "Open", "Admitted" or "Detached"
  base,    \* the document the transaction began on
  change   \* the extent the admitted change gives its base

vars == <<doc, txn, base, change>>

Init ==
  /\ doc \in Documents
  /\ txn = "None"
  /\ base = None
  /\ change = None

Open ==
  /\ txn = "None"
  /\ txn' = "Open"
  /\ base' = doc
  /\ UNCHANGED <<doc, change>>

Gone == txn' = "None" /\ base' = None /\ change' = None

Abandon == txn = "Open" /\ Gone /\ UNCHANGED doc

Admit ==
  /\ txn = "Open"
  /\ txn' = "Admitted"
  /\ change' \in ExtentSpace
  /\ UNCHANGED <<doc, base>>

\* The change is applied to the very document it is based on.
Commit ==
  /\ txn = "Admitted"
  /\ doc = base
  /\ \E r \in Revisions \ {base.rev} : doc' = [id |-> base.id, rev |-> r, extent |-> change]
  /\ Gone

\* The host applied nothing, or applied it beside the current document.
Settle == txn \in {"Admitted", "Detached"} /\ Gone /\ UNCHANGED doc

\* A rebind, or a disposal when the document stays.
Replace ==
  /\ doc' \in Documents
  /\ \/ txn = "None" /\ UNCHANGED <<txn, base, change>>
     \/ txn = "Open" /\ Gone
     \/ txn \in {"Admitted", "Detached"} /\ txn' = "Detached" /\ UNCHANGED <<base, change>>

Next == Open \/ Abandon \/ Admit \/ Commit \/ Settle \/ Replace

Spec == Init /\ [][Next]_vars
=============================================================================
