\* The host changes the layout while an edit is active.  The widget may be disposed
\* of: the system may stop.
SPECIFICATION FairSpec
CONSTANTS
  Widgets = {w1}
  Capacity = 1
  MaxOperation = 1
  Credits = 2
  MaxQueued = 2
  MaxWaiting = 2
  Habits <- Configuring
PROPERTIES SlotsDrain
CHECK_DEADLOCK FALSE
