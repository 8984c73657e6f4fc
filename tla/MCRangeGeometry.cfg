\* Five sources: every cut into pages of up to three bytes, three jobs, one replacement.
SPECIFICATION Spec
CONSTANTS
  SegmentBytes = 2
  MaxCheckpoints = 3
  Sources <- FiveSources
  PageBytes = 3
  Goals <- SomeGoals
  Anchors <- SomeAnchors
  MaxJobs = 3
  MaxChanges = 1
INVARIANTS   ViewCovered
PROPERTIES ReleasesNameJobs
CHECK_DEADLOCK FALSE
