SPECIFICATION Spec
CONSTANTS
  Msgs = {1}
  MaxConsumers = 2
  Faults = {"txn"}
  Devices = {"d1"}
  Gateways = {"g1"}
  Uplink <- OneReading
INVARIANTS
  AckedMeansStored
