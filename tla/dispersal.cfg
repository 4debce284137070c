SPECIFICATION Spec
CONSTANTS
  NReplicas = 5
  view = 6
  MaxCrashes = 2
CHECK_DEADLOCK FALSE
VIEW View
INVARIANTS
  TypeOK
  Retrievable
