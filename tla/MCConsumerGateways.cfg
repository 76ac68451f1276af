SPECIFICATION Spec
CONSTANTS
  Msgs = {1, 2, 3}
  MaxConsumers = 2
  Faults = {"link", "kill", "txn", "pg"}
  Devices = {"d1", "d2"}
  Gateways = {"g1", "g2"}
  Uplink <- TwoDevices
INVARIANTS
  RowsInWriteOrder
  RowsMissingOnlyAfterRequeue
PROPERTIES
  ImplementsIngestion
