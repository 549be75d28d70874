SPECIFICATION Spec
CONSTANTS
  a = a
  b = b
  c = c
  hb = hb
  hc = hc
  l1 = l1
  l2 = l2
  Node = {a, b, c}
  Host = {hb, hc}
  NoHost = NoHost
  hostname <- TwoHosts
  LkpId = {l1, l2}
  NoLkp = NoLkp
  PingLimit = 2
  Beginning <- Lossy
  Again = {"V", "L", "A", "F", "o"}
INVARIANTS NoRequestTwice GoodIsMutual AnswersAreTrue
CHECK_DEADLOCK FALSE
