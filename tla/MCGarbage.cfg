SPECIFICATION Spec
CONSTANTS
  Msgs = {1, 2}
  MaxConsumers = 2
  Faults = {}
  Devices = {"d1"}
  Gateways = {"g1"}
  Uplink <- OneGarbage
INVARIANTS
  GarbageNotRequeued
