SPECIFICATION FairSpec
CONSTANTS
  d1 = d1
  None = None
  Devices = {d1}
  Fleets <- MCFleets
  MaxUses = 1
  Windows = {1, 2}
  Default = 2
  Events = {"crash", "hangup", "command"}
  MaxNow = 2
CHECK_DEADLOCK FALSE
INVARIANTS
  HandedBack
  RetiredIsGone
PROPERTIES
  WindowHonoured
  DueIsReaped
