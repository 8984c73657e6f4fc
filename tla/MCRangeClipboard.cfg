\* Two operations on seven selections, every way to cut four bytes and three objects.
SPECIFICATION FairSpec
CONSTANTS
  Extent = 4
  Cuts <- PageEnds
  Breaks <- Text
  Atoms <- OneAtom
  Objects <- ThreeObjects
  Selections <- SomeSelections
  Retakes <- SecondSelection
  Policies <- SomePolicies
  MaxObjects = 2
  MaxBytes = 5
  MaxOps = 2
  MaxRebinds = 1
  MaxAsks = 9
INVARIANT WritesTheSelection
PROPERTIES StepsStandWhenCommitted DeletesWhatWasWritten Ends
CHECK_DEADLOCK FALSE
