SPECIFICATION FairSpec
CONSTANTS
  None = None
  p1 = p1
  p2 = p2
  t1 = t1
  s1 = s1
  s2 = s2
  Policies = {p1, p2}
  First = p1
  Tasks = {}
  Slots = {s1}
  Events = {"revoke"}
  MaxCommands = 1
CHECK_DEADLOCK FALSE
PROPERTIES
  CommandsDone
  Converges
