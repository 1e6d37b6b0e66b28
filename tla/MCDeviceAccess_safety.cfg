SPECIFICATION Spec
CONSTANTS
  a1 = a1
  k1 = k1
  p1 = p1
  p2 = p2
  r1 = r1
  h1 = h1
  None = None
  Agents = {a1}
  KeyIds = {k1, p1, p2}
  Owner <- MCOwner
  Kits = {p1, p2}
  Requests = {r1}
  KitHandlers = {h1}
  TTL = 1
  CacheSize = 2
  MaxGen = 2
  MaxNow = 1
INVARIANTS
  LateRefused
  DisabledKeyExpires
