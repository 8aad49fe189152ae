SPECIFICATION Spec
CONSTANTS
  p1 = p1
  p2 = p2
  p3 = p3
  Proc = {p1, p2, p3}
  None = None
  MaxTries = 2
  MaxDeadlines = 0
  MaxContenders = 3
  MaxCrashes = 1
  CrashAt = {"held"}
  MaxWriteFaults = 0
  MaxRenameFaults = 0
INVARIANTS MutualExclusion
CHECK_DEADLOCK FALSE
