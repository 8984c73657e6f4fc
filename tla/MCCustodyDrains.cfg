\* One widget and two operations under frames and a host that keep going; the host
\* may answer a history request it was told to cancel.  A host that disposed of the
\* widget and owes nothing is done: the system may stop.
SPECIFICATION FairSpec
CONSTANTS
  Widgets = {w1}
  Capacity = 1
  MaxOperation = 2
  Credits = 2
  MaxQueued = 2
  MaxWaiting = 2
  Habits <- Answering
PROPERTIES SlotsDrain
CHECK_DEADLOCK FALSE
