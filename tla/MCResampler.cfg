SPECIFICATION Spec
CONSTANTS
  o1 = o1
  o2 = o2
  l1 = l1
  NoRing = NoRing
  Owned <- MCOwned
  Lent <- MCLent
  UntilProcess = FALSE
INVARIANT PointersValid
CHECK_DEADLOCK FALSE
