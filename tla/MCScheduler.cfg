SPECIFICATION FairSpec
CONSTANTS
  reap = reap
  mirror = mirror
  ag = ag
  Kinds = {reap}
  ReapKind = reap
  Agents = {ag}
  NoAgent = NoAgent
  NoTime = NoTime
  Timeout = 1
  Every <- MCReapOnly
  Retention = 2
  MaxNow = 3
  Horizon = 1
  MaxInputs = 1
  MaxFaults = 2
INVARIANTS
  RunsAccounted
PROPERTIES
  OutcomeIsFinal
  DueJobsFinish
