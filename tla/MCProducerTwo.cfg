SPECIFICATION Spec
CONSTANTS
  NumSources = 2
  MaxUplinks = 2
  MqttFaults = {"refuse", "drop"}
  Writers = {1, 2}
  RoutingKey = "things.data"
  PublisherFaults = {"connect", "declare", "bind", "link"}
  StopAllowed = TRUE
CHECK_DEADLOCK FALSE
INVARIANTS
  TypeOK
  InstanceAlive
  QueuedOnceInOrder
  ContentHasSender
  LastSourceSubscribed
PROPERTIES
  ImplementsForwarding
