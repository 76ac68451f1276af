-------------------------- MODULE LavinMQPublisher --------------------------
(***************************************************************************)
(* The Producer's AMQP connection, Producer/src/lavinmq_publisher.cpp: one *)
(* object, one connection and one channel for all threads, without a lock. *)
(*                                                                         *)
(* amqp_basic_publish writes a method frame, then the header and body      *)
(* frames.  The broker requires the frames of one content to be contiguous *)
(* on a channel and answers others with a connection exception.            *)
(***************************************************************************)
EXTENDS Naturals, Sequences

CONSTANTS
  Writers,         \* threads that call publish(); 0 is none of them
  RoutingKey,      \* lavinmq.routing_key of config.json, "" if it is empty
  PublisherFaults  \* a subset of {"connect", "declare", "bind", "link"}

ASSUME WritersAssumption == Writers \subseteq Nat \ {0}
ASSUME PublisherFaultsAssumption ==
  PublisherFaults \subseteq {"connect", "declare", "bind", "link"}

VARIABLES
  connected,  \* the member of this name: written by the constructor only
  amqp,       \* the channel at the broker, see ChannelStates
  declared,   \* uplink_data_queue exists
  binding,    \* the routing key it is bound with, "none" before
  content,    \* the thread whose content the broker is receiving, or 0
  queue       \* what the queue received, in order

pubVars == <<connected, amqp, declared, binding, content, queue>>

ChannelStates == {"none", "open", "closed"}

PublisherInit ==
  /\ connected = FALSE /\ amqp = "none"
  /\ declared \in BOOLEAN /\ binding = "none"
  /\ content = 0
  /\ queue = <<>>

\* Whichever call of the constructor fails, it returns with connected unset.
OpenConnection ==
  /\ amqp = "none"
  /\ \/ connected' = TRUE /\ amqp' = "open"
     \/ "connect" \in PublisherFaults /\ amqp' = "closed" /\ UNCHANGED connected
  /\ UNCHANGED <<declared, binding, content, queue>>

\* Mutant of BindKey: the default key whatever is configured.
DefaultBindKey == "things.data"

\* main.cpp:377 binds with a default key when the configured one is empty.
BindKey == IF RoutingKey = "" THEN "things.data" ELSE RoutingKey

\* setupQueues(): a refused declare or bind closes the channel.  The code carries
\* on, and main() ignores the result.
SetupQueues ==
  /\ \/ ~connected /\ UNCHANGED <<amqp, declared, binding>>
     \/ /\ connected /\ amqp = "open"
        /\ declared' = TRUE /\ binding' = BindKey
        /\ UNCHANGED amqp
     \/ /\ connected /\ amqp = "open" /\ "declare" \in PublisherFaults
        /\ amqp' = "closed"
        /\ UNCHANGED <<declared, binding>>
     \/ /\ connected /\ amqp = "open" /\ "bind" \in PublisherFaults
        /\ amqp' = "closed" /\ declared' = TRUE
        /\ UNCHANGED binding
     \/ connected /\ amqp = "closed" /\ UNCHANGED <<amqp, declared, binding>>
  /\ UNCHANGED <<connected, content, queue>>

\* The broker or the network closes the connection; nothing notices or reconnects.
LoseChannel ==
  /\ "link" \in PublisherFaults
  /\ amqp = "open"
  /\ amqp' = "closed" /\ content' = 0
  /\ UNCHANGED <<connected, declared, binding, queue>>

\* The first frame of publish(): a method frame inside another content is an
\* UNEXPECTED_FRAME.  publish() only logs a failed write.
SendMethod(t) ==
  /\ connected
  /\ \/ amqp # "open" /\ UNCHANGED <<amqp, content>>
     \/ amqp = "open" /\ content = 0 /\ content' = t /\ UNCHANGED amqp
     \/ amqp = "open" /\ content # 0 /\ content' = 0 /\ amqp' = "closed"
  /\ UNCHANGED <<connected, declared, binding, queue>>

\* Mutant of SendContent: the last frame of the content is not written.
SendContentUnfinished(t, m) ==
  /\ queue' = IF amqp = "open" /\ content = t /\ binding = RoutingKey
                THEN Append(queue, m) ELSE queue
  /\ UNCHANGED <<connected, amqp, declared, binding, content>>

\* The remaining frames complete the content, which the exchange routes if its key
\* is bound; publish() is not mandatory, so that an unroutable one is dropped.
SendContent(t, m) ==
  /\ IF amqp = "open" /\ content = t
       THEN /\ content' = 0
            /\ queue' = IF binding = RoutingKey THEN Append(queue, m) ELSE queue
       ELSE UNCHANGED <<content, queue>>
  /\ UNCHANGED <<connected, amqp, declared, binding>>

=============================================================================
