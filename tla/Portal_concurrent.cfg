SPECIFICATION Spec
CONSTANTS
  Requests = {q1, q2, q3}
  Names <- OneName
  Devs <- TwoDevs
  Ops = {"create", "rotate", "archive", "unarchive", "delete", "rename"}
  MaxAtOnce = 2
  MaxFaults = 1
  MaxCrashes = 1
  NoRow = NoRow
  Disabled = Disabled
  q1 = q1
  q2 = q2
  q3 = q3
  q4 = q4
INVARIANT NoPhantomDevice
INVARIANT OwnSecrets
INVARIANT CreatedWhole
INVARIANT NoDeadlock
SYMMETRY RequestSymmetry
CHECK_DEADLOCK FALSE
