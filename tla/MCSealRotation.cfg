SPECIFICATION FairSpec
CONSTANTS
  h1 = h1
  h2 = h2
  r1 = r1
  r2 = r2
  s1 = s1
  s2 = s2
  None = None
  Secrets <- MCSecrets
  Handlers <- MCHandlers
  Rotators <- MCRotators
  Faults <- MCAllFaults
  MaxKey = 3
INVARIANTS
  StoreReadable
  KeyOnDisk
  OneKey
  GatewayKeyCurrent
PROPERTIES
  RotationReturns
