SPECIFICATION FairSpec
CONSTANTS
  Null = Null
  f1 = f1
  f2 = f2
  f3 = f3
  Fact = {f1, f2, f3}
  Input = {f1}
  ClaimLimit = 2
  RecentLimit = 2
  MaxCrashes = 1
  MaxDisturbances = 1
INVARIANTS BacklogIsSplittable NoFactLost OneNoticePerFact ClaimIsNew
PROPERTIES FactsAreNoticed
