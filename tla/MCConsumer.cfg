SPECIFICATION Spec
CONSTANTS
  Msgs = {1, 2, 3, 4}
  MaxConsumers = 2
  Faults = {"link", "kill", "txn", "pg"}
  Devices = {"d1"}
  Gateways = {"g1"}
  Uplink <- Readings
INVARIANTS
  TypeOK
  NoLeakedDelivery
  AckedOnlyIfAccounted
PROPERTIES
  NoRegressionUnlessRedelivered
  OutageEndsWithRestart
  NoAnswerWithoutPostgres
