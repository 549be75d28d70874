SPECIFICATION Spec
CONSTANTS
  Width = 4
  BucketSize = 1
  OwnId <- Own
  Peer <- OwnPeers
  Addr = {a}
  PingLimit = 2
  MaxBuckets = 8
INVARIANTS NodesInPlace KademliaTable LowerSplitsAreBounded
PROPERTIES NobodyLost
CHECK_DEADLOCK FALSE
