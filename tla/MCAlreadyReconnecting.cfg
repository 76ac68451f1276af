SPECIFICATION FairSpec
CONSTANTS
  Objects = {1}
  MaxClients = 1
  MaxLosses = 2
  Threads = {1, 2}
CHECK_DEADLOCK FALSE
PROPERTIES
  AlreadyReconnecting
