SPECIFICATION FairSpec
CONSTANTS
  Runner = {r1}
  r1 = r1
  None = None
  NSteps = 2
  AuthFaults = {"revoked"}
  MaxCrashes = 0
  MaxCancels = 1
  MaxStops = 0
  MaxHangs = 1
PROPERTIES StaleRunnerEscalates
CHECK_DEADLOCK FALSE
