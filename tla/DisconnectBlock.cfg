SPECIFICATION FairSpec
CONSTANTS
  Users = {alice, bob}
  Ips = {router}
  MaxBlocks = 3
  NoIp = NoIp
  MaxCrashes = 1
  MaxStarts = 1
  MaxFaults = 1
INVARIANT TypeOK
INVARIANT RowHasTimer
INVARIANT DropHolds
PROPERTY Lifted
CHECK_DEADLOCK FALSE
