SPECIFICATION AllSpec
CONSTANTS
  Requests = {q1}
  Names <- TwoNames
  Devs <- OneDev
  Ops = {"deleteuser"}
  MaxAtOnce = 1
  MaxFaults = 0
  MaxCrashes = 0
  MaxCuts = 0
  NoRow = NoRow
  Disabled = Disabled
  q1 = q1
  q2 = q2
  q3 = q3
  q4 = q4
PROPERTY OthersKept
CHECK_DEADLOCK FALSE
