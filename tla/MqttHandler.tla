----------------------------- MODULE MqttHandler -----------------------------
(***************************************************************************)
(* The Producer's MQTT sessions, Producer/src/mqtt_handler.cpp.  Each      *)
(* handler owns a mosquitto client whose network loop runs in a thread of  *)
(* its own, but libmosquitto calls back through the file-static pointer    *)
(* instance, which every constructor overwrites.                           *)
(*                                                                         *)
(* libmosquitto and the MQTT brokers are external: sessions are clean, and *)
(* the loop thread reconnects by itself.                                   *)
(***************************************************************************)
EXTENDS Naturals

CONSTANTS
  NumSources,   \* entries of mqtt_sources in config.json
  MaxUplinks,   \* bound on the uplinks a source receives
  MqttFaults    \* a subset of {"refuse", "drop"}

ASSUME NumSourcesAssumption == NumSources \in Nat \ {0}
ASSUME MaxUplinksAssumption == MaxUplinks \in Nat
ASSUME MqttFaultsAssumption == MqttFaults \subseteq {"refuse", "drop"}

Sources == 1..NumSources

VARIABLES
  instance,    \* the handler the wrappers call, 0 for nullptr
  alive,       \* handlers constructed and not destroyed
  callback,    \* handlers whose message_callback is set
  looping,     \* handlers whose loop thread runs
  session,     \* of each client, see SessionStates
  subscribed,  \* clients with a subscription at their broker
  received     \* number of uplinks each client has received

mqttVars == <<instance, alive, callback, looping, session, subscribed, received>>

\* "connecting": the CONNECT is sent; "up": the CONNACK is handled.
SessionStates == {"off", "connecting", "up"}

HandlersInit ==
  /\ instance = 0
  /\ alive = {} /\ callback = {} /\ looping = {} /\ subscribed = {}
  /\ session = [s \in Sources |-> "off"]
  /\ received = [s \in Sources |-> 0]

\* Mutant of Construct: the first handler keeps the callbacks.
ConstructUnnamed(s) ==
  /\ instance' = IF instance = 0 THEN s ELSE instance
  /\ alive' = alive \cup {s}
  /\ UNCHANGED <<callback, looping, session, subscribed, received>>

Construct(s) ==
  /\ instance' = s
  /\ alive' = alive \cup {s}
  /\ UNCHANGED <<callback, looping, session, subscribed, received>>

SetMessageCallback(s) ==
  /\ callback' = callback \cup {s}
  /\ UNCHANGED <<instance, alive, looping, session, subscribed, received>>

\* A failure is only logged: the loop thread tries again.
ConnectAndSubscribe(s) ==
  /\ \/ session' = [session EXCEPT ![s] = "connecting"]
     \/ "refuse" \in MqttFaults /\ UNCHANGED session
  /\ UNCHANGED <<instance, alive, callback, looping, subscribed, received>>

Loop(s) ==
  /\ looping' = looping \cup {s}
  /\ UNCHANGED <<instance, alive, callback, session, subscribed, received>>

Reconnect(s) ==
  /\ s \in looping /\ session[s] = "off"
  /\ session' = [session EXCEPT ![s] = "connecting"]
  /\ UNCHANGED <<instance, alive, callback, looping, subscribed, received>>

\* Mutant of OnConnect: only connect_and_subscribe() ever subscribes.
OnConnectOnly(s) ==
  /\ s \in looping /\ session[s] = "connecting"
  /\ session' = [session EXCEPT ![s] = "up"]
  /\ UNCHANGED <<instance, alive, callback, looping, subscribed, received>>

\* Mutant of OnConnect: a client that has had uplinks is taken to be subscribed still,
\* as if its broker kept the session.
OnConnectFirstTime(s) ==
  /\ s \in looping /\ session[s] = "connecting"
  /\ session' = [session EXCEPT ![s] = "up"]
  /\ subscribed' = IF session'[instance] # "off" /\ received[instance] = 0
                     THEN subscribed \cup {instance} ELSE subscribed
  /\ UNCHANGED <<instance, alive, callback, looping, received>>

\* The CONNACK of client s: on_connect_wrapper ignores its arguments and has the
\* handler in instance subscribe its own client, which fails unnoticed while that
\* client has no socket.
OnConnect(s) ==
  /\ s \in looping /\ session[s] = "connecting"
  /\ session' = [session EXCEPT ![s] = "up"]
  /\ subscribed' = IF session'[instance] # "off"
                     THEN subscribed \cup {instance} ELSE subscribed
  /\ UNCHANGED <<instance, alive, callback, looping, received>>

\* A CONNACK with an error code is only logged: the broker closes the connection.
OnConnectRefused(s) ==
  /\ "refuse" \in MqttFaults
  /\ s \in looping /\ session[s] = "connecting"
  /\ session' = [session EXCEPT ![s] = "off"]
  /\ subscribed' = subscribed \ {s}
  /\ UNCHANGED <<instance, alive, callback, looping, received>>

\* The connection breaks, and the clean session with it.
DropSession(s) ==
  /\ "drop" \in MqttFaults
  /\ session[s] \in {"connecting", "up"}
  /\ session' = [session EXCEPT ![s] = "off"]
  /\ subscribed' = subscribed \ {s}
  /\ UNCHANGED <<instance, alive, callback, looping, received>>

\* Client s receives its next uplink.  The wrapper hands it to the handler in
\* instance, whose callback the process runs if it is set: see Producer.  A message
\* without a payload is no uplink: on_message ignores it.
Receivable(s) ==
  s \in looping /\ session[s] = "up" /\ s \in subscribed /\ received[s] < MaxUplinks

Receive(s) ==
  /\ Receivable(s)
  /\ received' = [received EXCEPT ![s] = @ + 1]
  /\ UNCHANGED <<instance, alive, callback, looping, session, subscribed>>

\* mosquitto_destroy cancels and joins the loop thread, then closes the socket
\* without a DISCONNECT: nothing calls disconnect().
Destroy(s) ==
  /\ alive' = alive \ {s}
  /\ looping' = looping \ {s}
  /\ session' = [session EXCEPT ![s] = "off"]
  /\ subscribed' = subscribed \ {s}
  /\ UNCHANGED <<instance, callback, received>>

=============================================================================
