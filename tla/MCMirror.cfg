SPECIFICATION FairSpec
CONSTANTS
  NumKeys = 2
  Limits <- MCLimits
  hideWindow = 1
  MaxNow = 3
  MaxPuts = 1
INVARIANTS
  HideBudget
  Offsite
PROPERTIES
  OnlyGoneHidden
  EventuallyOffsite
CHECK_DEADLOCK FALSE
