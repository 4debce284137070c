SPECIFICATION Spec
CONSTANTS
  NReplicas = 2
  MaxView = 3
  Commands <- LateAtZero
CHECK_DEADLOCK FALSE
VIEW LiveView
INVARIANTS
  OneVotePerHeight
