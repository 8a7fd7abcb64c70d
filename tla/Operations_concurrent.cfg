SPECIFICATION AllSpec
CONSTANTS
  Requests = {q1, q2, q3}
  Names <- OneName
  Devs <- TwoDevs
  Ops = {"create", "rotate", "archive", "unarchive", "delete", "rename",
         "deleteuser", "cleanup", "renew_orphan", "renew", "reset"}
  MaxAtOnce = 2
  MaxFaults = 0
  MaxCrashes = 1
  MaxCuts = 1
  NoRow = NoRow
  Disabled = Disabled
  q1 = q1
  q2 = q2
  q3 = q3
  q4 = q4
INVARIANT NoPhantomDevice
INVARIANT OwnSecrets
INVARIANT AllTypeOK
SYMMETRY RequestSymmetry
CHECK_DEADLOCK FALSE
