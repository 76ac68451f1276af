----------------------------- MODULE MCConsumer -----------------------------
(* Instances of Consumer for TLC: few messages, at most two devices and gateways. *)
EXTENDS Consumer

Body(kind, receivedAt) ==
  [kind |-> kind, device |-> "d1", receivedAt |-> receivedAt, gateways |-> <<"g1">>]

\* Two readings of one device, the first published twice, as a Producer whose
\* MQTT session is resumed does, and one of a device without a row.
Readings == <<Body("good", 10), Body("good", 20), Body("good", 10), Body("unknown", 0)>>

\* Two devices and two gateways, with a message that is always refused.
TwoDevices ==
  <<[kind |-> "good", device |-> "d1", receivedAt |-> 10, gateways |-> <<"g1", "g2">>],
    [kind |-> "refused", device |-> "d2", receivedAt |-> 0, gateways |-> <<>>],
    [kind |-> "good", device |-> "d2", receivedAt |-> 10, gateways |-> <<"g2">>]>>

\* A message that is requeued forever in front of ones that are settled.
Poison == <<Body("garbage", 0), Body("unknown", 0), Body("no_time", 0), Body("good", 10)>>

OneReading == <<Body("good", 10)>>
OneGarbage == <<Body("garbage", 0), Body("good", 10)>>

=============================================================================
