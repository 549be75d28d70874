SPECIFICATION PromptSpec
CONSTANTS
  a = a
  b = b
  c = c
  hb = hb
  hc = hc
  l1 = l1
  l2 = l2
  Node = {a, b, c}
  Host = {hb}
  NoHost = NoHost
  hostname <- OneHost
  LkpId = {l1, l2}
  NoLkp = NoLkp
  PingLimit = 2
  Beginning <- Prompt
  Again = {}
PROPERTIES JoinCompletes FoundIfReachable
CHECK_DEADLOCK FALSE
