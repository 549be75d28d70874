SPECIFICATION Spec
CONSTANTS
  Width = 4
  BucketSize = 1
  OwnId <- Upper
  Peer <- UpperPeers
  Addr = {a}
  PingLimit = 2
  MaxBuckets = 8
INVARIANTS SplitsAreBounded
CHECK_DEADLOCK FALSE
