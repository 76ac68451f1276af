SPECIFICATION FairSpec
CONSTANTS
  NumSources = 1
  MaxUplinks = 15
  MqttFaults = {"refuse", "drop"}
  Writers = {1}
  RoutingKey = "uplinks"
  PublisherFaults = {}
  StopAllowed = FALSE
INVARIANTS
  ChannelKept
  EverySourceSubscribed
PROPERTIES
  Resubscribes
  EveryUplinkQueued
