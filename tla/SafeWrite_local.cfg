SPECIFICATION FairSpec
CONSTANTS
  Remote = {r1}
  Local = {l1, l2}
  Label <- OneLabelPerKind
  MaxTime = 1
  MaxFaults = 1
  MaxCrashes = 1
  Old = Old
  Hole = Hole
  None = None
  r1 = r1
  r2 = r2
  l1 = l1
  l2 = l2
  Size <- Sizes
INVARIANT Recoverable
PROPERTY Terminates
PROPERTY ImplementsAtomicConf
CHECK_DEADLOCK FALSE
