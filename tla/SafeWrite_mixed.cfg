SPECIFICATION Spec
CONSTANTS
  Remote = {r1, r2}
  Local = {l1}
  Label <- OneLabelPerKind
  MaxTime = 1
  MaxFaults = 1
  MaxCrashes = 1
  Old = Old
  Hole = Hole
  None = None
  r1 = r1
  r2 = r2
  l1 = l1
  l2 = l2
  Size <- Sizes
INVARIANT TypeOK
INVARIANT LiveComplete
CHECK_DEADLOCK FALSE
