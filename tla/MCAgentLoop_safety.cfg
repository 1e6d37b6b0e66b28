SPECIFICATION Spec
CONSTANTS
  None = None
  p1 = p1
  p2 = p2
  t1 = t1
  s1 = s1
  s2 = s2
  Policies = {p1}
  First = p1
  Tasks = {t1}
  Slots = {s1, s2}
  Events = {"crash", "revoke"}
  MaxCommands = 3
SYMMETRY MCSymmetry
CHECK_DEADLOCK FALSE
INVARIANTS
  AckedIsReported
  RecordedWasApplied
  SeenIsReported
PROPERTY
  CommandOrder
