SPECIFICATION AllSpec
CONSTANTS
  Requests = {q1, q2, q3}
  Names <- OneName
  Devs <- CorpDevs
  Ops = {"create", "rotate", "archive", "unarchive", "delete", "rename",
         "deleteuser", "cleanup", "renew_orphan", "reset"}
  MaxAtOnce = 1
  MaxFaults = 1
  MaxCrashes = 0
  MaxCuts = 2
  NoRow = NoRow
  Disabled = Disabled
  q1 = q1
  q2 = q2
  q3 = q3
  q4 = q4
PROPERTY DeletedGone
PROPERTY SectionsKept
PROPERTY RetiredGone
PROPERTY RenewedConnects
PROPERTY CutUndone
SYMMETRY RequestSymmetry
CHECK_DEADLOCK FALSE
