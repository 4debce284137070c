SPECIFICATION FairSpec
CONSTANTS
  p1 = p1
  p2 = p2
  Peer <- TwoPeers
  MaxBlock = 3
  Parent <- ThreeParents
  QcRef <- ThreeQcRefs
  Message <- FewMessages
  Chunked <- First
  MaxCrashes = 1
CHECK_DEADLOCK FALSE
INVARIANTS
  TypeOK
  NoThrow
  ForgottenOnlyByDecode
PROPERTIES
  GateOpens
