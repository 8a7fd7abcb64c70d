SPECIFICATION FairSpec
CONSTANTS
  Pickers <- FourPickers
  Defaulted <- NoDuration
  MaxDrafts = 2
  MaxKills = 1
  MaxFaults = 1
INVARIANT TypeOK
INVARIANT OneDraft
PROPERTY SavedInTheEnd
CHECK_DEADLOCK FALSE
