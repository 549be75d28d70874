SPECIFICATION HashSpec
CONSTANTS
  i1 = i1
  i2 = i2
  i3 = i3
  i4 = i4
  o1 = o1
  o2 = o2
  o3 = o3
  o4 = o4
  x1 = x1
  x2 = x2
  x3 = x3
  x4 = x4
  NULL = NULL
  Item <- MCItem
  Payload <- MCPayload
  Id <- MCId
  Slot = {0, 1}
  index <- MCindex
SYMMETRY Symmetry
INVARIANTS WellLinked SweepResult Findable
PROPERTIES ImplementsSequence
