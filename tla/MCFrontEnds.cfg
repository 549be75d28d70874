SPECIFICATION FrontSpec
CONSTANTS
  h1 = h1
  h2 = h2
  b1 = b1
  d1 = d1
  b2 = b2
  d2 = d2
  Host <- MCHost
  Block <- MCBlock
  Descriptor <- MCDescriptor
  Addr = {a, b}
  None = None
  Gone = Gone
  Builds <- MCBuilds
  Life = 1
  MaxTime = 3
INVARIANTS AnswersLatest LiveAnswersAreWhole OneOwner LastRequest WalkIsComplete
PROPERTIES ContextsAreFreed
CHECK_DEADLOCK FALSE
