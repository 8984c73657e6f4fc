\* Two presentations, two demands, three request identities and two payloads.
SPECIFICATION Spec
CONSTANTS
  Generations = {"shown", "hidden"}
  Extents <- Lengths
  Facts <- FourFacts
  Objects <- TwoPresentations
  Demands <- TwoDemands
  Purposes = {p1}
  PageIds = {1, 2}
  MaxRequest = 3
  MaxPages = 2
  MaxObjects = 3
  MaxBytes = 8
  MaxPresentation = 2
  MaxPending = 2
  MaxPendingObjects = 4
  MaxPendingBytes = 12
INVARIANTS AnswersHold ShownOnce GapsAreTrue
