SPECIFICATION Spec
CONSTANTS
  a = a
  s = s
  c1 = c1
  c2 = c2
  p1 = p1
  p2 = p2
  Keys = {a, s}
  Contents = {c1, c2}
  Missing = Missing
  Broken = Broken
  Deletable = {s}
  Owned = {s}
  Rank <- MCRank
  PageSize = 1
  Procs = {p1, p2}
  Backends = {"local", "cloud"}
INVARIANTS
  Durable
  ListComplete
PROPERTY
  Implements
SYMMETRY Symmetry
