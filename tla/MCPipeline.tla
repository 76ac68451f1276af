----------------------------- MODULE MCPipeline -----------------------------
(* Instances of Pipeline for TLC: config.json as users write it, and as not. *)
EXTENDS Pipeline, TLC

Body(kind, receivedAt) ==
  [kind |-> kind, device |-> "d1", receivedAt |-> receivedAt, gateways |-> <<>>]

\* Two uplinks that are no JSON between readings, one of which is received twice.
MCUplink == <<Body("garbage", 0), Body("good", 10), Body("good", 10),
              Body("garbage", 0), Body("good", 20)>>
MCToken == <<"", "id1", "id1", "", "id2">>

Account == [host |-> Text("h"), username |-> Text("u"), password |-> Text("p"),
            port |-> Number(5672)]
Source  == Account @@ [topic |-> Text("t")]

Producers(lavinmq, sources) ==
  [lavinmq |-> Object(lavinmq), mqtt_sources |-> Array(sources)]

MCProducerFiles ==
  {Producers(Account, <<Source>>),
   \* an entry without a topic, a vhost that is no string, the Consumer's port
   \* once it is an int
   Producers([Account EXCEPT !.port = Number(5672 + 65536)]
               @@ [vhost |-> Number(0), routing_key |-> Text("k")], <<Account, Source>>),
   Producers(Account @@ [routing_key |-> Text("")], <<Source>>),
   Producers([Account EXCEPT !.port = Text("5672")], <<Source>>),
   Producers(Account, <<Account>>),
   Unreadable}

Broker == [host |-> Text("h"), queue_name |-> Text("uplink_data_queue")]

Consumers(lavinmq) == [lavinmq |-> Object(lavinmq), postgres |-> Object(<<>>)]

MCConsumerFiles ==
  {Consumers(Broker @@ [port |-> Number(-1), virtual_host |-> Text("/")]),
   Consumers(Broker @@ [tls |-> Boolean(TRUE)]),
   Consumers([host |-> Text("h")]),
   [lavinmq |-> Object(Broker)],
   Unreadable}

=============================================================================
