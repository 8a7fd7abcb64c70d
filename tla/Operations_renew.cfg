SPECIFICATION AllSpec
CONSTANTS
  Requests = {q1, q2}
  Names <- OneName
  Devs <- OneDev
  Ops = {"archive", "renew"}
  MaxAtOnce = 1
  MaxFaults = 0
  MaxCrashes = 0
  MaxCuts = 0
  NoRow = NoRow
  Disabled = Disabled
  q1 = q1
  q2 = q2
  q3 = q3
  q4 = q4
PROPERTY RenewEnables
CHECK_DEADLOCK FALSE
