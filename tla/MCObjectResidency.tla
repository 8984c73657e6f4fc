-------------------------- MODULE MCObjectResidency --------------------------
(* A small instance of ObjectResidency for TLC.                              *)
EXTENDS ObjectResidency, TLC

\* Two objects at one anchor and one after them; a fact that contradicts the first two.
Here == [at |-> 1, order |-> 1, id |-> 1, payload |-> 1]
Next2 == [at |-> 1, order |-> 2, id |-> 2, payload |-> 0]
There == [at |-> 2, order |-> 1, id |-> 3, payload |-> 1]
Wrong == [at |-> 1, order |-> 2, id |-> 1, payload |-> 1]
FourFacts == {Here, Next2, There, Wrong}

\* Another presentation hides all but one of them.
TwoPresentations == [g \in Generations |-> IF g = "shown" THEN {Here, Next2, There} ELSE {Next2}]

Ask(lo, hi, cursor, forward, objects) ==
  [lo |-> lo, hi |-> hi, cursor |-> cursor, forward |-> forward, objects |-> objects, bytes |-> 6]

\* From the left edge on, and back from the last object.
TwoDemands == {Ask(0, 2, None, TRUE, 2), Ask(1, 2, Cursor(There), FALSE, 1)}
Lengths == {1, 2}
=============================================================================
