-------------------------- MODULE LavinMQConnection --------------------------
(***************************************************************************)
(* The Consumer's AMQP session (Consumer/src/LavinMQ.cpp) with the broker  *)
(* queue it reads.  The class LavinMQConnection is translated from its     *)
(* source; the broker and the client library rabbitmq-c are external and   *)
(* are modelled from the calls the class makes.                            *)
(*                                                                         *)
(* A message is its publication number.  A delivery tag names one          *)
(* outstanding delivery, and a message is never outstanding twice, so the  *)
(* tag is represented by the message it delivers.                          *)
(***************************************************************************)
EXTENDS Integers, Sequences, Functions

CONSTANTS
  Msgs,          \* publication numbers of the messages of a run
  MaxConsumers,  \* bound on the basic.consume subscriptions alive at the broker
  Faults         \* which faults may happen: a subset of FaultKinds

\* "config": what config.json says lets no connection be opened, see Pipeline.
FaultKinds == {"link", "kill", "txn", "pg", "config"}

ASSUME MsgsAssumption == Msgs \subseteq Nat \ {0}
ASSUME MaxConsumersAssumption == MaxConsumers \in Nat \ {0}
ASSUME FaultsAssumption == Faults \subseteq FaultKinds

VARIABLES
  \* the broker
  queueExists,   \* the queue has been declared
  ready,         \* messages waiting in the queue
  unacked,       \* messages delivered on the open session and not settled
  acked,         \* messages settled by an ack: gone from the broker
  redelivered,   \* messages the broker has taken back at least once
  consumers,     \* subscriptions of the open session
  \* the client
  link,          \* connection_ and its channel, see LinkStates
  wire,          \* deliveries sent by the broker, not yet read from the socket
  inbox,         \* deliveries the library queued while it waited for a reply
  tagIntact,     \* the memory behind consumer_tag still holds the tag
  messages       \* the vector readAllMessages fills and main() iterates over

\* "none": connection_ is null; "open": connected, channel usable; "closed": the
\* broker closed the channel by an exception; "lost": the connection is gone.
\* In the last two connection_ is still non-null.
LinkStates == {"none", "open", "closed", "lost"}

queueVars == <<queueExists, ready, unacked, acked, redelivered>>
readVars  == <<wire, inbox, tagIntact, messages>>
mqVars    == <<queueVars, consumers, link, readVars>>

Published == ready \cup unacked \cup acked

\* Every delivery the process still has to look at, in the order it will.
Held == messages \o inbox \o wire

MqTypeOK ==
  /\ queueExists \in BOOLEAN
  /\ ready \in SUBSET Msgs
  /\ unacked \in SUBSET Msgs
  /\ acked \in SUBSET Msgs
  /\ redelivered \in SUBSET Msgs
  /\ consumers \in 0..MaxConsumers
  /\ link \in LinkStates
  /\ wire \in Seq(Msgs)
  /\ inbox \in Seq(Msgs)
  /\ tagIntact \in BOOLEAN
  /\ messages \in Seq(Msgs)

MqInit ==
  /\ queueExists \in BOOLEAN
  /\ ready = {} /\ unacked = {} /\ acked = {} /\ redelivered = {}
  /\ consumers = 0
  /\ link = "none"
  /\ wire = <<>> /\ inbox = <<>> /\ messages = <<>>
  /\ tagIntact = TRUE

-----------------------------------------------------------------------------
(* The broker *)

\* The Producer declares the durable queue and binds it.
SetupQueue ==
  /\ ~queueExists
  /\ queueExists' = TRUE
  /\ UNCHANGED <<ready, unacked, acked, redelivered, consumers, link, readVars>>

\* The Producer publishes the next message and the exchange routes it.
Arrive(m) ==
  /\ queueExists
  /\ \A k \in Published : k < m
  /\ ready' = ready \cup {m}
  /\ UNCHANGED <<queueExists, unacked, acked, redelivered, consumers, link, readVars>>

\* The broker pushes its oldest waiting message.  The client never calls
\* basic.qos: there is no prefetch limit.  A message taken back by the queue
\* regains its place, so the oldest one is the one of least number.
Deliver(m) ==
  /\ link = "open" /\ consumers > 0
  /\ m \in ready
  /\ \A k \in ready : m <= k
  /\ ready' = ready \ {m}
  /\ unacked' = unacked \cup {m}
  /\ wire' = Append(wire, m)
  /\ UNCHANGED <<queueExists, acked, redelivered, consumers, link, inbox,
                 tagIntact, messages>>

\* The queue takes back a set of outstanding messages.
Requeue(S) ==
  /\ ready' = ready \cup S
  /\ unacked' = unacked \ S
  /\ redelivered' = redelivered \cup S

\* The session is over for the broker: it takes back all that is outstanding.
SessionEnds ==
  /\ Requeue(unacked)
  /\ consumers' = 0
  /\ UNCHANGED <<queueExists, acked>>

\* The connection breaks (network, broker restart, heartbeat).  What had already
\* reached the client's socket can still be read.
LoseConnection ==
  /\ "link" \in Faults
  /\ link \in {"open", "closed"}
  /\ link' = "lost"
  /\ SessionEnds
  /\ UNCHANGED readVars

-----------------------------------------------------------------------------
(* connect() and disconnect() *)

\* connection_ is null only before the first connect(): main() calls it once.
Connect ==
  /\ link = "none"
  /\ link' = "open"
  /\ UNCHANGED <<queueVars, consumers, readVars>>

\* Every failure path of connect() leaves connection_ null again.
ConnectFails ==
  /\ link = "none"
  /\ UNCHANGED mqVars

\* disconnect(), also what the broker sees when the process dies.  The library's
\* queues and the caller's vector go with the process.
Disconnect ==
  /\ link' = "none"
  /\ SessionEnds
  /\ wire' = <<>> /\ inbox' = <<>> /\ messages' = <<>>
  /\ tagIntact' = TRUE

-----------------------------------------------------------------------------
(* readAllMessages(): declare, consume, poll until nothing is there, cancel *)

\* A synchronous call waits for its reply and queues the deliveries it meets on
\* the way; the reply follows everything the broker sent before it.
AwaitReply ==
  /\ inbox' = inbox \o wire
  /\ wire' = <<>>

DeclarePassive ==
  /\ link = "open" /\ queueExists
  /\ AwaitReply
  /\ UNCHANGED <<queueVars, consumers, link, tagIntact, messages>>

\* A passive declare of a missing queue is a channel exception: the broker
\* closes the channel, and nothing in the class opens it again.
DeclareMissing ==
  /\ link = "open" /\ ~queueExists
  /\ link' = "closed"
  /\ SessionEnds
  /\ UNCHANGED readVars

\* Mutant of CallFails: a new session is opened, with what is left of the old one.
CallFailsReopens ==
  /\ link \in {"closed", "lost"}
  /\ link' = "open"
  /\ UNCHANGED <<queueVars, consumers, readVars>>

\* A call on a closed channel or a lost connection returns null.
CallFails ==
  /\ link \in {"closed", "lost"}
  /\ UNCHANGED mqVars

Consume ==
  /\ link = "open"
  /\ consumers' = consumers + 1
  /\ tagIntact' = TRUE
  /\ AwaitReply
  /\ UNCHANGED <<queueVars, link, messages>>

\* The library hands out what it has queued before it looks at the socket.
PollInbox ==
  /\ inbox # <<>>
  /\ messages' = Append(messages, Head(inbox))
  /\ inbox' = Tail(inbox)
  /\ UNCHANGED <<queueVars, consumers, link, wire, tagIntact>>

\* Mutant of PollWire: the new message is put in front of the batch.
PollWirePushesFront ==
  /\ inbox = <<>> /\ wire # <<>>
  /\ messages' = <<Head(wire)>> \o messages
  /\ wire' = Tail(wire)
  /\ UNCHANGED <<queueVars, consumers, link, inbox, tagIntact>>

\* consume_ok->consumer_tag points into a pool that amqp_maybe_release_buffers
\* recycles before each read: a frame read from the socket may overwrite it.
\* The overwriting is bounded by MaxConsumers, see CancelConsumer.
PollWire ==
  /\ inbox = <<>> /\ wire # <<>>
  /\ messages' = Append(messages, Head(wire))
  /\ wire' = Tail(wire)
  /\ tagIntact' \in IF consumers < MaxConsumers THEN {tagIntact, FALSE}
                                                ELSE {tagIntact}
  /\ UNCHANGED <<queueVars, consumers, link, inbox>>

\* The zero timeout expires, or the read fails.  Deliveries on the wire may not
\* have reached the socket yet, so the queue need not be empty.
PollNothing ==
  /\ inbox = <<>>
  /\ UNCHANGED mqVars

\* A cancel with an overwritten tag names no subscription: the broker confirms
\* it and keeps delivering.
CancelConsumer ==
  /\ link = "open"
  /\ consumers' = IF tagIntact THEN consumers - 1 ELSE consumers
  /\ AwaitReply
  /\ UNCHANGED <<queueVars, link, tagIntact, messages>>

-----------------------------------------------------------------------------
(* ackMessage() and nackMessage(): written to the socket, no reply.  main()     *)
(* ignores their result.  A tag the broker does not know closes the channel.    *)

UnknownTag ==
  /\ link' = "closed"
  /\ SessionEnds

AckMessage(m) ==
  IF link # "open" THEN UNCHANGED <<queueVars, consumers, link>>
  ELSE IF m \notin unacked THEN UnknownTag
  ELSE /\ acked' = acked \cup {m}
       /\ unacked' = unacked \ {m}
       /\ UNCHANGED <<queueExists, ready, redelivered, consumers, link>>

\* The requeue argument defaults to true, and no caller passes it.
NackMessage(m) ==
  IF link # "open" THEN UNCHANGED <<queueVars, consumers, link>>
  ELSE IF m \notin unacked THEN UnknownTag
  ELSE /\ Requeue({m})
       /\ UNCHANGED <<queueExists, acked, consumers, link>>

=============================================================================
