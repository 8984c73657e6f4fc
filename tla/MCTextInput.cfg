\* Any two calls on two values, with undo, redo and copies between them.
SPECIFICATION Spec
CONSTANTS
  Setups <- TwoSetups
  Clip <- OtherClip
  Inputs <- SomeInputs
  AtomIds <- OneId
  CopyText <- Fallback
  Ranges <- SomeRanges
  Limits <- SomeLimits
  UndoLimit = 2
  UndoBytes = 12
  MaxCalls = 2
INVARIANTS Coherent WithinBounds HostMirrors AtomsStayWhole 
 
CHECK_DEADLOCK FALSE
