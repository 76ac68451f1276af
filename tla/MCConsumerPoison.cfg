SPECIFICATION FairSpec
CONSTANTS
  Msgs = {1, 2, 3, 4}
  MaxConsumers = 2
  Faults = {"kill"}
  Devices = {"d1"}
  Gateways = {"g1"}
  Uplink <- Poison
PROPERTIES
  EverySettleableSettled
