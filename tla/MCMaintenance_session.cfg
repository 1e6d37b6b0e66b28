SPECIFICATION Spec
CONSTANTS
  c1 = c1
  c2 = c2
  Contents = {c1, c2}
  MaxPacks = 3
  MaxUploads = 1
  MaxLost = 0
  StartTime = 4
  MinContentAgeSubjectToGC = 3
  MarginBetweenSnapshotGC = 1
  DropContentFromIndexExtraMargin = 1
  RewriteMinAge = 1
  PackDeleteMinAge = 3
  SessionExpirationAge = 6
  MinRewriteToOrphanDeletionDelay = 2
  ViewAge = 1
  UploadWindow = 1
  PackWindow = 5
  Plans <- MCNewContent
INVARIANT
  SnapshotIntact
CHECK_DEADLOCK FALSE
