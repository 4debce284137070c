SPECIFICATION LaggardSpec
CONSTANTS
  NReplicas = 5
  MaxView = 3
  Commands <- NoCommand
CHECK_DEADLOCK FALSE
VIEW LiveView
INVARIANTS
  VotesDontConflict
  OnlySharesThrow
PROPERTIES
  StuckOnceAhead
