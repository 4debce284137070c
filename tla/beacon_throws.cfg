SPECIFICATION QuietFirstSpec
CONSTANTS
  NReplicas = 3
  MaxView = 2
  Commands <- AtProposer
CHECK_DEADLOCK FALSE
VIEW LiveView
INVARIANTS
  NoException
