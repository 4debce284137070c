SPECIFICATION Spec
CONSTANTS
  NReplicas = 3
  MaxView = 13
  Commands <- FirstAndSecond
  Hasty <- Once
CHECK_DEADLOCK FALSE
VIEW Unordered
INVARIANTS
  TypeOK
  AggregateInTime
  SameAggregate
  DistinctDealers
  RepeatsSetupOnce
