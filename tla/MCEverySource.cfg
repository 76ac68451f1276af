SPECIFICATION Spec
CONSTANTS
  NumSources = 2
  MaxUplinks = 1
  MqttFaults = {}
  Writers = {1, 2}
  RoutingKey = "things.data"
  PublisherFaults = {}
  StopAllowed = FALSE
INVARIANTS
  EverySourceSubscribed
\* The run ends when the bounded uplinks are received.
CHECK_DEADLOCK FALSE
