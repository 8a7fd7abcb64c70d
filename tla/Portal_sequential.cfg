SPECIFICATION Spec
CONSTANTS
  Requests = {q1, q2, q3}
  Names <- TwoNames
  Devs <- CorpDevs
  Ops = {"create", "rotate", "archive", "unarchive", "delete"}
  MaxAtOnce = 1
  MaxFaults = 0
  MaxCrashes = 0
  NoRow = NoRow
  Disabled = Disabled
  q1 = q1
  q2 = q2
  q3 = q3
  q4 = q4
INVARIANT TypeOK
INVARIANT InSync
INVARIANT NoDrift
INVARIANT ArchivedRejected
PROPERTY ImplementsAccounts
SYMMETRY RequestSymmetry
CHECK_DEADLOCK FALSE
