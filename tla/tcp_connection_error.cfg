SPECIFICATION FairSpec
CONSTANTS
  c1 = c1
  c2 = c2
  c3 = c3
  Clients <- ThreeClients
  Resetting <- TwoResetting
  MaxFds = 4
PROPERTIES ConnectionErrorsIgnored
CHECK_DEADLOCK FALSE
