SPECIFICATION Spec
CONSTANTS
  p1 = p1
  p2 = p2
  p3 = p3
  new1 = new1
  new2 = new2
  new3 = new3
  kept = kept
  gone = gone
  Procs = {p1, p2, p3}
  Contents = {new1, new2, new3, kept, gone}
  Prefixes <- MCPrefixes
  PrefixOf <- MCPrefixOf
  Plans <- MCPlans
  Existing <- MCExisting
  Now = 1
  MaxPacks = 5
  MaxSessions = 5
  MaxFaults = 2
INVARIANTS NothingForgotten IndexedIsStored SessionCovers ReadYourWrites
PROPERTIES FlushCommitsUnlessFailed EveryCallReturns
CHECK_DEADLOCK FALSE
