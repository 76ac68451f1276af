SPECIFICATION PipelineFairSpec
CONSTANTS
  Msgs = {1, 2, 3, 4, 5}
  NumUplinks = 5
  MaxConsumers = 1
  Faults = {"config", "kill"}
  PublisherFaults = {"connect", "declare", "bind", "link"}
  Devices = {"d1"}
  Gateways = {"g1"}
  Uplink <- MCUplink
  Token <- MCToken
  NotJson = {1, 4}
  ProducerFiles <- MCProducerFiles
  ConsumerFiles <- MCConsumerFiles
  IntRange = 65536
INVARIANTS
  LostUplinksExplained
  ReadingsStoredOrQueued
PROPERTIES
  ImplementsTelemetry
  CompleteSourceServed
  ReadingsArriveStored
CHECK_DEADLOCK FALSE
