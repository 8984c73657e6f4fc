\* Two widget generations that share one slot and two operations.  A host that
\* disposed of every widget and owes nothing is done: the system may stop.
SPECIFICATION Spec
CONSTANTS
  Widgets = {w1, w2}
  Capacity = 1
  MaxOperation = 2
  Credits = 1
  MaxQueued = 2
  MaxWaiting = 2
  Habits <- Plain
SYMMETRY Symmetry
INVARIANTS CustodyExact OperationsUnique HostHearsTruth
PROPERTIES BindingFollowsLive RetainedSettlementWins
CHECK_DEADLOCK FALSE
