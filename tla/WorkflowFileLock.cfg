SPECIFICATION FairSpec
CONSTANTS
  p1 = p1
  p2 = p2
  p3 = p3
  Proc = {p1, p2, p3}
  None = None
  MaxTries = 2
  MaxDeadlines = 1
  MaxContenders = 3
  MaxCrashes = 2
  CrashAt = {"held", "link", "reread", "unmark"}
  MaxWriteFaults = 1
  MaxRenameFaults = 1
INVARIANTS ExclusiveUnlessKilled ReclaimableUnlessKilled
PROPERTIES DeadOwnerIsReplaced
CHECK_DEADLOCK FALSE
