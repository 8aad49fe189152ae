SPECIFICATION Spec
CONSTANTS
  Runner = {r1}
  r1 = r1
  None = None
  NSteps = 2
  AuthFaults = {"revoked"}
  MaxCrashes = 1
  MaxCancels = 0
  MaxStops = 0
  MaxHangs = 0
INVARIANTS ExitFileIsHonoured
CHECK_DEADLOCK FALSE
