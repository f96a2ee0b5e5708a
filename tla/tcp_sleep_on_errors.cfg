SPECIFICATION FairSpec
CONSTANTS
  c1 = c1
  c2 = c2
  c3 = c3
  Clients <- ThreeClients
  Resetting <- NoneResetting
  MaxFds = 1
PROPERTIES RetryAfterSleep
CHECK_DEADLOCK FALSE
