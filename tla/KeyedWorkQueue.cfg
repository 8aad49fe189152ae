SPECIFICATION FairSpec
CONSTANTS
  Key = {k1, k2, k3}
  Consumer = {c1, c2, c3}
  Drainer = {d1}
  None = None
INVARIANTS NoLostSignal NoWaiterWithReadyWork
PROPERTIES KeepsThePromise SignalsAreServed CloseTerminates
CHECK_DEADLOCK FALSE
