SPECIFICATION FairSpec
CONSTANTS
  Event <- MCEvent
  Global = "global"
  Poison <- MCPoison
  Deferring <- MCDeferring
  MaxPerDrain = 2
  Backlog <- MCBacklog
  Republished <- MCRepublished
  MaxDisturbances = 1
INVARIANTS AcknowledgedMeansSettled EffectAtMostOnce
PROPERTIES TaskOrderIsKept ArchiveIsAFence HealthyEventsLeaveTheInbox
CHECK_DEADLOCK FALSE
