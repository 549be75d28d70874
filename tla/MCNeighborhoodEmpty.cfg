SPECIFICATION Spec
CONSTANTS
  Width = 4
  BucketSize = 1
  OwnId <- Lower
  Peer <- LowerPeers
  Addr = {a}
  PingLimit = 2
  MaxBuckets = 8
INVARIANTS EmptyBucketIsSkipped
CHECK_DEADLOCK FALSE
