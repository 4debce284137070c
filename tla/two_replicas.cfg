SPECIFICATION Spec
CONSTANTS
  NReplicas = 2
  MaxView = 3
  Commands <- AtBoth
CHECK_DEADLOCK FALSE
INVARIANTS
  TypeOK
  OneChain
  LastExecuted
  SharesDistinct
  ShareAfterCommit
  PacemakerAgrees
PROPERTIES
  ChainSpec
  LeavesCompleteView
