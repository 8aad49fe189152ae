SPECIFICATION FairSpec
CONSTANTS
  Input = {m1, m2}
  SessionReplaced = replaced
  MaxAttempts = 6
  MaxSignals = 2
  MaxFaults = 2
INVARIANTS AtMostOnce NegativeEvidenceIsTrue ConsumedMeansAccepted NoInputLost RunningTurnIsOwned
PROPERTIES DeliveryIsDecided
CHECK_DEADLOCK FALSE
