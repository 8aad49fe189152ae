SPECIFICATION FairHostSpec
CONSTANTS
  i1 = i1
  i2 = i2
  Instance = {i1, i2}
  h1 = h1
  h2 = h2
  h3 = h3
  Handle = {h1, h2, h3}
  NDisposers = 2
INVARIANTS NoUseAfterDispose DrainIsHonest CloseIsComplete
PROPERTIES DetachDrains
CHECK_DEADLOCK FALSE
