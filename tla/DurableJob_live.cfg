SPECIFICATION FairSpec
CONSTANTS
  Runner = {r1}
  r1 = r1
  None = None
  NSteps = 1
  AuthFaults = {}
  MaxCrashes = 1
  MaxCancels = 1
  MaxStops = 1
  MaxHangs = 1
PROPERTIES JobsTerminate UncancelledRunnerEscalates
CHECK_DEADLOCK FALSE
