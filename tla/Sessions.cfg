SPECIFICATION FairSpec
CONSTANTS
  Portal = {p1}
  Operator = {o1}
  Requests = {r1, r2}
  Loops = {g1}
  PortalTTL = 2
  MaxAge = 3
  OperatorTTL = 3
  MaxDelay = 1
  MaxLogins = 1
  MaxTime = 7
  MaxFaults = 1
  NoRow = NoRow
INVARIANT TypeOK
PROPERTY IdleOut
PROPERTY KeptWhileUsed
PROPERTY GoneStaysGone
PROPERTY Purged
PROPERTY PortalSessionEnds
CHECK_DEADLOCK FALSE
