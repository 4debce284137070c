SPECIFICATION FairSpec
CONSTANTS
  NReplicas = 2
  MaxView = 2
  Commands <- AtProposer
CHECK_DEADLOCK FALSE
PROPERTIES
  Progress
