SPECIFICATION FormatsSpec
CONSTANTS
  Byte <- MCByte
  Payload <- MCPayload
  Tree <- MCTree
  MaxSize = 9
  StrMaxLen = 1
  StrMaxSize = 2
  IntMaxLen = 2
  IntMaxSize = 12
  HostByte = {h}
  Nul = Nul
  LabelByte <- MCLabelByte
  LabelLength = {1, 2, 9}
  QName_Size = 5
  MaxQuestions = 2
  MaxDatagram = 16
INVARIANTS WritesWithinBuffer DecodesWithinPacket Understood QueryIsRead ResponseEchoes
CHECK_DEADLOCK FALSE
