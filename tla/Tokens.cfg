SPECIFICATION TSpec
CONSTANTS
  Requests = {q1, q2}
  Names <- OneName
  Devs <- TwoDevs
  Ops = {"rotate", "archive", "unarchive", "rename"}
  MaxAtOnce = 1
  MaxFaults = 1
  MaxCrashes = 1
  NoRow = NoRow
  Disabled = Disabled
  Tokens = {k1}
  Fetches = {f1, f2}
  q1 = q1
  q2 = q2
  f1 = f1
  f2 = f2
INVARIANT TokensTypeOK
INVARIANT SpentServesNobody
PROPERTY ServedConnects
CONSTRAINT OneFailure
SYMMETRY TokenSymmetry
CHECK_DEADLOCK FALSE
