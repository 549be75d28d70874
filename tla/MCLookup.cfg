SPECIFICATION Spec
CONSTANTS
  Task = {t1, t2}
  NoTask = NoTask
  Node = {me, n1}
  Me = me
  LkpId = {l1, l2}
  First = 1
  Patience = 3
  LastAsk = 2
  MaxLag = 2
  MinGap = 1
  MaxGap = 2
  MaxClock = 9
INVARIANTS CallbackOnce AskOnce Timely
PROPERTIES NoEarlyTimeout KeepsPromise
