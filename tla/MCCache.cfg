SPECIFICATION TableSpec
CONSTANTS
  SessionId = {s1, s2}
  KeyLife = 3
  MaxLag = 1
  MinGap = 1
  MaxGap = 2
  MaxClock = 16
  MaxUses = 2
  me = me
  n1 = n1
  n2 = n2
  Node <- MCNode
  Me = me
  FindLife = 1
  KeyTime = 1
  MinAnnounceGap = 3
  MaxAnnounceGap = 4
  EntryLife = 11
  Delay = 1
SYMMETRY Symmetry
INVARIANTS OneReplyPerRequest PromptReplyIsAccepted KeysDoNotLinger AnnouncedOnce OneAnnouncement StaysKnown
