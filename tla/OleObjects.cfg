SPECIFICATION Spec
CONSTANTS
  o1 = o1  o2 = o2  o3 = o3
  c1 = c1  c2 = c2
  NULL = NULL
  Objects <- MCObjects
  Coms <- MCComs
  MaxDepth = 2
  MaxRefs = 2
  MaxHeld = 2
SYMMETRY MCSymmetry
INVARIANTS TypeOK ChainOrdered UniqueLive HeldCovers WalkReleases
CHECK_DEADLOCK FALSE
