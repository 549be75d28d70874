SPECIFICATION UdpSpec
CONSTANTS
  t1 = t1
  t2 = t2
  t3 = t3
  Thread <- ThreeThreads
  Free = Free
  MaxPackets = 3
INVARIANTS OneReader PutMeetsTimedCronOnly
PROPERTIES SocketIsRead CronGoesOn ShutdownEnds
CHECK_DEADLOCK FALSE
