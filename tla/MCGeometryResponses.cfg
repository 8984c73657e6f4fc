\* A source of two text and two object pages, two credits a frame. Geometry settles when
\* nobody asks for more: the system may stop.
SPECIFICATION FairSpec
CONSTANTS
  Scan <- TwoPages
  Quotas = {2}
  DrawWakes = TRUE
  MaxRetargets = 1
  MaxEdits = 1
  MaxRefusals = 1
INVARIANT JobIsServed
 
CHECK_DEADLOCK FALSE
