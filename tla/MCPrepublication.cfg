\* Two sessions that ask four times between them, of a source with objects, on a ledger
\* of two slots; no widget is shown at first.
SPECIFICATION FairSpec
CONSTANTS
  Slots = 2
  Sources = {1}
  Kinds = {"Page", "Object"}
  Positions = {1}
  AtFirst = {"None"}
  Sessions = 2
  MaxAsks = 4
  MaxText = 1
  MaxObjects = 1
  MaxProtections = 0
  MaxChanges = 0
INVARIANT HeldExactly
PROPERTIES SettledInTurn LedgerDrains
CHECK_DEADLOCK FALSE
