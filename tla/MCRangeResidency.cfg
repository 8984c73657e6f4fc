\* Two revisions, two extents, three demands and four request identities.
SPECIFICATION Spec
CONSTANTS
  Generations = {g1, g2}
  Extents <- BothExtents
  Cuts <- Parts
  PageIds = {1, 2, 3}
  Purposes = {p1}
  Demands <- HalfDemands
  Atoms <- TwoAtoms
  NoAtom = NoAtom
  MaxRequest = 4
  MaxPages = 2
  MaxBytes = 10
  MaxPending = 2
  MaxPendingBytes = 12
INVARIANTS CountsExact ResidentsCohere
PROPERTIES EvictsOldest
