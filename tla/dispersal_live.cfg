SPECIFICATION FairReducedSpec
CONSTANTS
  NReplicas = 4
  view = 2
  MaxCrashes = 1
CHECK_DEADLOCK FALSE
INVARIANT
  DecodesInTime
PROPERTIES
  Totality
