SPECIFICATION Spec
CONSTANTS
  Runner = {r1, r2}
  r1 = r1
  r2 = r2
  None = None
  NSteps = 2
  AuthFaults = {"revoked", "out-of-scope"}
  MaxCrashes = 2
  MaxCancels = 1
  MaxStops = 1
  MaxHangs = 1
SYMMETRY Symmetry
INVARIANTS IntentPrecedesEffect OneRunner SuccessIsTruthful OneWakePerOutcome DeadMeansGone
PROPERTIES NoStartAfterCancel
CHECK_DEADLOCK FALSE
