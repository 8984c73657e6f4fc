--------------------------- MODULE SourcePositions ---------------------------
(***************************************************************************)
(* Positions of a range-backed source (src/src/range_source/position.rs):  *)
(* an offset, and the inline objects on both sides of it at that offset.   *)
(* Objects are named by their place in source order, from 1.               *)
(***************************************************************************)
EXTENDS Naturals

Null == 0       \* None: no object, no atom, no offset

\* InlineObjectGap: <<Null, o>> is Before(o), <<o, Null>> is After(o).
NoGap == <<Null, Null>>

Plain(at) == [at |-> at, gap |-> NoGap]

\* compare_at_same_anchor returns Less or Equal.
GapLeads(g, h) ==
  \/ g = h
  \/ /\ g # NoGap /\ h # NoGap
     /\ \/ g[1] = Null /\ h[1] # Null
        \/ g[2] # Null /\ h[2] = Null
        \/ Null \notin {g[1], g[2], h[1], h[2]} /\ g[1] <= h[1]

\* compare_in_revision returns Less or Equal.
Leads(p, q) == p.at < q.at \/ (p.at = q.at /\ GapLeads(p.gap, q.gap))
=============================================================================
