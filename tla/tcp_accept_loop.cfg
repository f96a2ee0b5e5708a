SPECIFICATION FairSpec
CONSTANTS
  c1 = c1
  c2 = c2
  c3 = c3
  Clients <- ThreeClients
  Resetting <- TwoResetting
  MaxFds = 2
INVARIANTS NoLostWakeup NoDanglingAccept FinishedOnlyWhileSleeping
PROPERTIES NoAcceptWhileSleeping AcceptedOrStopped
CHECK_DEADLOCK FALSE
