SPECIFICATION FairSpec
CONSTANTS
  Objects = {1, 2}
  MaxClients = 2
  MaxLosses = 2
  Threads = {1, 2, 3}
CHECK_DEADLOCK FALSE
INVARIANTS
  TypeOK
  OneReconnectThread
  ClientsAccounted
  ConnectsExclude
  FreedOnlyByMisuse
PROPERTIES
  OnlyLateLossForgotten
  LossRepaired
