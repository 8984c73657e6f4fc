\* One session for a widget that is shown disabled, two sources and two positions, and a
\* change of either between any two steps.
SPECIFICATION Spec
CONSTANTS
  Slots = 3
  Sources = {1, 2}
  Kinds = {"Page"}
  Positions = {1, 2}
  AtFirst = {"Disabled"}
  Sessions = 1
  MaxAsks = 3
  MaxText = 1
  MaxObjects = 1
  MaxProtections = 2
  MaxChanges = 1
PROPERTY AdoptsOnItsCut
CHECK_DEADLOCK FALSE
