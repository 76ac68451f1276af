--------------------------- MODULE ConsumerProofs ---------------------------
(***************************************************************************)
(* Proofs about Consumer, for every set of messages, devices and gateways, *)
(* every content of the messages and every set of faults.                  *)
(*                                                                         *)
(* The invariant is built in layers: TypeInv (types and what the program   *)
(* counter says), QueueInv (which deliveries the process holds, and in     *)
(* which order), Stored (the database against the acks) and Latest (the    *)
(* devices' rows against what is still to come).                           *)
(***************************************************************************)
EXTENDS Consumer, HeldLemmas

-----------------------------------------------------------------------------
(* Types and control *)

\* What each program point knows.  A read ends with its subscription cancelled
\* unless the tag was overwritten, which the bound on consumers accounts for.
Control ==
  /\ pc \in Processing => messages # <<>>
  /\ pc \notin Processing \cup {"poll", "cancel"} => messages = <<>>
  /\ link # "open" => consumers = 0
  /\ pc \in {"poll", "cancel"} /\ link = "open" => consumers > 0
  /\ pc \in {"poll", "cancel"} /\ ~tagIntact => consumers < MaxConsumers
  /\ pc \notin {"poll", "cancel"} => consumers < MaxConsumers

TypeInv == TypeOK /\ Control

\* The conversion of a message is typed.
LEMMA UplinkType ==
  ASSUME NEW m \in Msgs
  PROVE  /\ Uplink[m].kind \in Kinds
         /\ DeviceOf(m) \in Devices
         /\ Key(m) \in Devices \X Nat
         /\ GatewaysOf(m) \in Seq(Gateways)
BY UplinkAssumption DEF Uplinks, DeviceOf, Key, GatewaysOf

\* The message being handled is a message.
LEMMA CurrentType ==
  ASSUME TypeInv, pc \in Processing
  PROVE  current \in Msgs /\ messages # <<>> /\ messages \in Seq(Msgs)
<1>1. messages # <<>> /\ messages \in Seq(Msgs)
  BY DEF TypeInv, Control, TypeOK, MqTypeOK
<1> QED BY <1>1, HeadTailProperties DEF current

\* The messages, their custody and the next program point after a message.
LEMMA SettleType ==
  ASSUME TypeInv, pc \in Processing, Ack \/ Nack
  PROVE  /\ MqTypeOK'
         /\ gw' = 1
         /\ \/ pc' = "declare" /\ messages' = <<>>
            \/ pc' = "message" /\ messages' # <<>>
         /\ consumers' < MaxConsumers
         /\ link' # "open" => consumers' = 0
<1>1. current \in Msgs /\ messages # <<>> /\ messages \in Seq(Msgs)
  BY CurrentType
<1>2. /\ gw' = 1
      /\ \/ pc' = "declare" /\ messages' = <<>>
         \/ pc' = "message" /\ messages' # <<>>
      /\ messages' \in Seq(Msgs)
      /\ UNCHANGED <<wire, inbox, tagIntact>>
  BY <1>1, HeadTailProperties DEF Ack, Nack, NextMessage
<1>3. AckMessage(current) \/ NackMessage(current)
  BY DEF Ack, Nack
<1>4. consumers < MaxConsumers /\ consumers \in Nat /\ (link # "open" => consumers = 0)
  BY DEF TypeInv, Control, TypeOK, MqTypeOK, Processing
<1>5. /\ consumers' \in 0..MaxConsumers /\ consumers' < MaxConsumers
      /\ link' # "open" => consumers' = 0
  BY <1>3, <1>4, MaxConsumersAssumption
     DEF AckMessage, NackMessage, UnknownTag, SessionEnds, Requeue
<1>6. /\ queueExists' \in BOOLEAN
      /\ ready' \in SUBSET Msgs /\ unacked' \in SUBSET Msgs
      /\ acked' \in SUBSET Msgs /\ redelivered' \in SUBSET Msgs
      /\ link' \in LinkStates
  BY <1>1, <1>3 DEF TypeInv, TypeOK, MqTypeOK, LinkStates, AckMessage, NackMessage,
                    UnknownTag, SessionEnds, Requeue, queueVars
<1> QED BY <1>2, <1>5, <1>6 DEF TypeInv, TypeOK, MqTypeOK

\* After a message the control part holds again.
LEMMA SettleControl ==
  ASSUME TypeInv, pc \in Processing, Ack \/ Nack
  PROVE  Control'
BY SettleType DEF Control, Processing

\* A failing transaction leaves the connection in one of its two states.
LEMMA PgType ==
  ASSUME TypeInv, TxnThrows \/ CommitInDoubt
  PROVE  pg' \in {"up", "down"}
BY DEF TypeInv, TypeOK, TxnThrows, CommitInDoubt

\* What the death of the process does, see Exit.
LEMMA ExitType ==
  ASSUME TypeInv, Exit
  PROVE  TypeInv'
<1>1. MqTypeOK'
  BY EmptySeq, MaxConsumersAssumption
     DEF Exit, Disconnect, SessionEnds, Requeue, TypeInv, TypeOK, MqTypeOK, LinkStates
<1>2. TypeOK'
  BY <1>1 DEF Exit, TypeInv, TypeOK, ProcessStates, dbVars
<1>3. Control'
  BY MaxConsumersAssumption
     DEF Exit, Disconnect, SessionEnds, Requeue, Control, Processing
<1> QED BY <1>2, <1>3 DEF TypeInv

\* What awaiting a reply does to the two queues of the library.
LEMMA AwaitType ==
  ASSUME TypeInv, AwaitReply
  PROVE  inbox' \in Seq(Msgs) /\ wire' \in Seq(Msgs)
BY ConcatProperties, EmptySeq DEF AwaitReply, TypeInv, TypeOK, MqTypeOK

LEMMA TypeInit == Init => TypeInv
BY MaxConsumersAssumption
   DEF Init, MqInit, TypeInv, TypeOK, MqTypeOK, Control, LinkStates,
       ProcessStates, Processing

\* Start-up and shutdown.
LEMMA TypeLife ==
  ASSUME TypeInv, StartUp \/ Kill
  PROVE  TypeInv'
<1>1. CASE Start
  BY <1>1 DEF Start, TypeInv, TypeOK, MqTypeOK, Control, ProcessStates, Processing,
              mqVars, queueVars, readVars, dbVars
<1>2. CASE ConnectBroker
  BY <1>2 DEF ConnectBroker, Connect, ConnectFails, TypeInv, TypeOK, MqTypeOK,
              LinkStates, Control, ProcessStates, Processing, mqVars, queueVars,
              readVars, dbVars
<1>3. CASE ConnectPostgres
  BY <1>3 DEF ConnectPostgres, TypeInv, TypeOK, MqTypeOK, Control, ProcessStates,
              Reading, Processing, mqVars, queueVars, readVars, dbVars
<1>4. CASE ConnectPostgresFails \/ Kill
  BY <1>4, ExitType DEF ConnectPostgresFails, Kill
<1> QED BY <1>1, <1>2, <1>3, <1>4 DEF StartUp

\* Reading a batch.
LEMMA TypeRead ==
  ASSUME TypeInv, ReadBatch
  PROVE  TypeInv'
<1> USE DEF TypeInv, TypeOK, MqTypeOK, LinkStates, ProcessStates, Reading
<1>1. CASE Declare
  <2>1. TypeOK'
    BY <1>1, AwaitType, MaxConsumersAssumption
       DEF Declare, DeclarePassive, DeclareMissing, CallFails,
           SessionEnds, Requeue, mqVars, queueVars, readVars, dbVars
  <2>2. Control'
    BY <1>1, MaxConsumersAssumption
       DEF Declare, DeclarePassive, DeclareMissing, CallFails,
           SessionEnds, Requeue, mqVars, queueVars, readVars, Control, Processing
  <2> QED BY <2>1, <2>2
<1>2. CASE Subscribe
  <2>1. TypeOK'
    <3>1. CASE Consume /\ pc' = "poll"
      <4>1. consumers' \in 0..MaxConsumers
        BY <1>2, <3>1, MaxConsumersAssumption DEF Subscribe, Consume, Control
      <4> QED BY <1>2, <3>1, <4>1, AwaitType DEF Subscribe, Consume, queueVars, dbVars
    <3>2. CASE CallFails /\ pc' = "sleep"
      BY <1>2, <3>2 DEF Subscribe, CallFails, mqVars, queueVars, readVars, dbVars
    <3> QED BY <1>2, <3>1, <3>2 DEF Subscribe
  <2>2. Control'
    BY <1>2 DEF Subscribe, Consume, CallFails, mqVars, queueVars, readVars, Control,
                Processing
  <2> QED BY <2>1, <2>2
<1>3. CASE Poll
  <2>1. TypeOK'
    <3>1. CASE PollInbox /\ pc' = "poll"
      BY <1>3, <3>1, HeadTailProperties, AppendProperties
         DEF Poll, PollInbox, queueVars, dbVars
    <3>2. CASE PollWire /\ pc' = "poll"
      BY <1>3, <3>2, HeadTailProperties, AppendProperties
         DEF Poll, PollWire, queueVars, dbVars
    <3>3. CASE PollNothing /\ pc' = "cancel"
      BY <1>3, <3>3 DEF Poll, PollNothing, mqVars, queueVars, readVars, dbVars
    <3> QED BY <1>3, <3>1, <3>2, <3>3 DEF Poll
  <2>2. Control'
    BY <1>3 DEF Poll, PollInbox, PollWire, PollNothing, mqVars, queueVars, readVars,
                Control, Processing
  <2> QED BY <2>1, <2>2
<1>4. CASE Cancel
  <2>1. TypeOK'
    BY <1>4, AwaitType, MaxConsumersAssumption
       DEF Cancel, CancelConsumer, CallFails, Control, Processing,
           mqVars, queueVars, readVars, dbVars
  <2>2. Control'
    BY <1>4, MaxConsumersAssumption
       DEF Cancel, CancelConsumer, CallFails, mqVars, queueVars, readVars, Control,
           Processing
  <2> QED BY <2>1, <2>2
<1>5. CASE Wake
  BY <1>5 DEF Wake, Control, Processing, mqVars, queueVars, readVars, dbVars
<1> QED BY <1>1, <1>2, <1>3, <1>4, <1>5 DEF ReadBatch

\* The steps of handling a message that neither settle it nor fail.
LEMMA TypeStore ==
  ASSUME TypeInv, DeviceFound \/ InsertRow \/ UpdateDevice \/ UpsertGateway
  PROVE  TypeInv'
<1> USE DEF TypeInv, TypeOK, MqTypeOK, ProcessStates, Processing
<1>1. pc \in Processing
  BY DEF DeviceFound, Parsed, InsertRow, UpdateDevice, UpsertGateway
<1>2. current \in Msgs
  BY <1>1, CurrentType
<1>3. /\ Key(current) \in Devices \X Nat /\ DeviceOf(current) \in Devices
      /\ GatewaysOf(current) \in Seq(Gateways)
  BY <1>2, UplinkType
<1>4. CASE DeviceFound
  BY <1>1, <1>4 DEF DeviceFound, Control, mqVars, queueVars, readVars, dbVars
<1>5. CASE InsertRow
  BY <1>1, <1>3, <1>5 DEF InsertRow, Control, mqVars, queueVars, readVars
<1>6. CASE UpdateDevice
  BY <1>1, <1>2, <1>3, <1>6
     DEF UpdateDevice, WriteDevice, Control, mqVars, queueVars, readVars
<1>7. CASE UpsertGateway
  <2>1. GatewaysOf(current)[gw] \in Gateways
    BY <1>3, <1>7, ElementOfSeq DEF UpsertGateway, MoreGateways
  <2> QED BY <1>1, <1>2, <1>3, <1>7, <2>1
          DEF UpsertGateway, WriteGateway, Control, mqVars, queueVars, readVars
<1> QED BY <1>4, <1>5, <1>6, <1>7

\* The steps that settle a message and leave the database and the connection to
\* it alone.
LEMMA TypeSettle ==
  ASSUME TypeInv,
         \/ RejectGarbage \/ DropIncomplete \/ DropUnknownDevice
         \/ RowAlreadyExists \/ InsertRefused \/ AckStored
  PROVE  TypeInv'
<1>1. (Ack \/ Nack) /\ pc \in Processing /\ UNCHANGED <<pg, dbVars>>
  BY DEF RejectGarbage, DropIncomplete, DropUnknownDevice, Parsed, RowAlreadyExists,
         InsertRefused, AckStored, Processing
<1>2. MqTypeOK' /\ gw' = 1 /\ pc' \in ProcessStates /\ Control'
  BY <1>1, SettleType, SettleControl DEF ProcessStates, Reading, Processing
<1> QED BY <1>1, <1>2 DEF TypeInv, TypeOK, dbVars

\* The steps in which a transaction throws.
LEMMA TypeFail ==
  ASSUME TypeInv, LookupFails \/ InsertFails \/ UpdateFails \/ UpsertFails
  PROVE  TypeInv'
<1>1. Nack /\ pc \in Processing /\ (TxnThrows \/ CommitInDoubt)
  BY DEF LookupFails, Parsed, InsertFails, UpdateFails, UpsertFails, Processing
<1>2. MqTypeOK' /\ gw' = 1 /\ pc' \in ProcessStates /\ Control'
  BY <1>1, SettleType, SettleControl DEF ProcessStates, Reading, Processing
<1>3. pg' \in {"up", "down"}
  BY <1>1, PgType
<1>4. current \in Msgs
  BY <1>1, CurrentType
<1>5. /\ Key(current) \in Devices \X Nat /\ DeviceOf(current) \in Devices
      /\ GatewaysOf(current) \in Seq(Gateways)
  BY <1>4, UplinkType
<1>6. /\ air' \in SUBSET (Devices \X Nat)
      /\ cwDevice' \in [Devices -> Msgs \cup {0}]
      /\ cwGateway' \in [Devices \X Gateways -> Msgs \cup {0}]
  <2>1. CASE LookupFails
    BY <2>1 DEF LookupFails, dbVars, TypeInv, TypeOK
  <2>2. CASE InsertFails
    BY <1>5, <2>2 DEF InsertFails, TypeInv, TypeOK
  <2>3. CASE UpdateFails
    BY <1>4, <1>5, <2>3 DEF UpdateFails, WriteDevice, TypeInv, TypeOK
  <2>4. CASE UpsertFails
    <3>1. GatewaysOf(current)[gw] \in Gateways
      BY <1>5, <2>4, ElementOfSeq DEF UpsertFails, MoreGateways, TypeInv, TypeOK
    <3> QED BY <1>4, <1>5, <2>4, <3>1 DEF UpsertFails, WriteGateway, TypeInv, TypeOK
  <2> QED BY <2>1, <2>2, <2>3, <2>4
<1> QED BY <1>2, <1>3, <1>6 DEF TypeInv, TypeOK

\* The broker and the network.
LEMMA TypeEnvironment ==
  ASSUME TypeInv, Environment
  PROVE  TypeInv'
<1> USE DEF TypeInv, TypeOK, MqTypeOK, LinkStates
<1>1. UNCHANGED <<procVars, dbVars>>
  BY DEF Environment
<1>2. CASE SetupQueue
  BY <1>1, <1>2 DEF SetupQueue, Control, procVars, dbVars, readVars
<1>3. ASSUME NEW m \in Msgs, Arrive(m)
      PROVE  TypeInv'
  BY <1>1, <1>3 DEF Arrive, Control, procVars, dbVars, readVars
<1>4. ASSUME NEW m \in Msgs, Deliver(m)
      PROVE  TypeInv'
  <2>1. wire' \in Seq(Msgs)
    BY <1>4, AppendProperties DEF Deliver
  <2> QED BY <1>1, <1>4, <2>1 DEF Deliver, Control, procVars, dbVars
<1>5. CASE LoseConnection
  BY <1>1, <1>5, MaxConsumersAssumption
     DEF LoseConnection, SessionEnds, Requeue, Control, procVars, dbVars, readVars
<1> QED BY <1>2, <1>3, <1>4, <1>5 DEF Environment

LEMMA TypeStep ==
  ASSUME TypeInv, [Next]_vars
  PROVE  TypeInv'
<1>1. CASE StartUp \/ Kill
  BY <1>1, TypeLife
<1>2. CASE ReadBatch
  BY <1>2, TypeRead
<1>3. CASE Handle
  BY <1>3, TypeStore, TypeSettle, TypeFail DEF Handle
<1>4. CASE Environment
  BY <1>4, TypeEnvironment
<1>5. CASE UNCHANGED vars
  BY <1>5 DEF vars, procVars, dbVars, mqVars, queueVars, readVars,
              TypeInv, TypeOK, MqTypeOK, Control
<1> QED BY <1>1, <1>2, <1>3, <1>4, <1>5 DEF Next, Process

\* The state of the Consumer and of the queue it reads is always of its type, and
\* what main() relies on at each program point holds: there is a message when one
\* is handled, and the batch is finished when the next one is read
\* (main.cpp:122-348, LavinMQ.cpp:200-269).
THEOREM TypeCorrect == Spec => [](TypeOK /\ Control)
<1>1. TypeInv => TypeOK /\ Control
  BY DEF TypeInv
<1> QED BY <1>1, TypeInit, TypeStep, PTL DEF Spec

-----------------------------------------------------------------------------
(* What a step does to the deliveries the process holds and to the queue.      *)
(* Every step of Next is one of the six that follow.                           *)

queueSets == <<ready, unacked, acked, redelivered>>

Quiet      == Held' = Held /\ UNCHANGED <<queueSets, link>>
Opens      == Held' = Held /\ link = "none" /\ UNCHANGED queueSets
Arrives(m) == Held' = Held /\ Arrive(m)
Delivers(m) == Held' = Append(Held, m) /\ Deliver(m)
Ends == /\ SessionEnds
        /\ link' # "open"
        /\ \/ Held' = <<>>
           \/ Held' = Held /\ link' # "none"
Settles ==
  /\ pc \in Processing
  /\ Held # <<>> /\ current = Head(Held) /\ Held' = Tail(Held)
  /\ AckMessage(current) \/ NackMessage(current)

HeldStep ==
  \/ Quiet \/ Opens \/ Ends \/ Settles
  \/ \E m \in Msgs : Arrives(m) \/ Delivers(m)

LEMMA HeldType ==
  ASSUME TypeInv
  PROVE  /\ messages \in Seq(Msgs) /\ inbox \in Seq(Msgs) /\ wire \in Seq(Msgs)
         /\ Held \in Seq(Msgs)
BY ConcatProperties DEF TypeInv, TypeOK, MqTypeOK, Held

LEMMA UnreadHeld ==
  ASSUME UNCHANGED readVars
  PROVE  Held' = Held
BY DEF readVars, Held

LEMMA AwaitHeld ==
  ASSUME TypeInv, AwaitReply, UNCHANGED messages
  PROVE  Held' = Held
<1>1. Held' = messages \o (inbox \o wire) \o <<>>
  BY DEF AwaitReply, Held
<1>2. messages \o (inbox \o wire) \o <<>> = messages \o inbox \o wire
  BY HeldType, JoinLast
<1> QED BY <1>1, <1>2 DEF Held

LEMMA PollHeld ==
  ASSUME TypeInv, PollInbox \/ PollWire
  PROVE  Held' = Held
<1>1. CASE PollInbox
  <2>1. Held' = Append(messages, Head(inbox)) \o Tail(inbox) \o wire
    BY <1>1 DEF PollInbox, Held
  <2>2. Append(messages, Head(inbox)) \o Tail(inbox) = messages \o inbox
    BY <1>1, HeldType, MoveHead DEF PollInbox
  <2> QED BY <2>1, <2>2 DEF Held
<1>2. CASE PollWire
  <2>1. Held' = Append(messages, Head(wire)) \o <<>> \o Tail(wire)
    BY <1>2 DEF PollWire, Held
  <2>2. Head(wire) \in Msgs
    BY <1>2, HeldType, HeadTailProperties DEF PollWire
  <2>3. Append(messages, Head(wire)) \in Seq(Msgs)
    BY <2>2, HeldType, AppendProperties
  <2>4. Append(messages, Head(wire)) \o <<>> = Append(messages, Head(wire))
    BY <2>3, ConcatEmptySeq
  <2>5. Append(messages, Head(wire)) \o Tail(wire) = messages \o wire
    BY <1>2, HeldType, MoveHead DEF PollWire
  <2>6. Held = messages \o <<>> \o wire /\ messages \o <<>> = messages
    BY <1>2, HeldType, ConcatEmptySeq DEF PollWire, Held
  <2> QED BY <2>1, <2>4, <2>5, <2>6
<1> QED BY <1>1, <1>2

LEMMA SettleHeld ==
  ASSUME TypeInv, pc \in Processing, Ack \/ Nack
  PROVE  Settles
<1>1. messages # <<>> /\ messages \in Seq(Msgs)
  BY CurrentType
<1>2. inbox \o wire \in Seq(Msgs) /\ Held = messages \o (inbox \o wire)
  BY HeldType, ConcatProperties, ConcatAssociative DEF Held
<1>3. Head(Held) = current /\ Held # <<>> /\ Tail(Held) = Tail(messages) \o (inbox \o wire)
  BY <1>1, <1>2, DropFirst DEF current
<1>4. Held' = Tail(messages) \o inbox \o wire
  BY DEF Ack, Nack, NextMessage, Held
<1>5. Tail(messages) \in Seq(Msgs)
  BY <1>1, HeadTailProperties
<1>6. Tail(messages) \o inbox \o wire = Tail(messages) \o (inbox \o wire)
  BY <1>5, HeldType, ConcatAssociative
<1>7. Held' = Tail(Held)
  BY <1>3, <1>4, <1>6
<1> QED BY <1>3, <1>7 DEF Settles, Ack, Nack

LEMMA ExitHeld ==
  ASSUME TypeInv, Exit
  PROVE  Ends
<1>1. Held' = <<>>
  BY EmptySeq, ConcatEmptySeq DEF Exit, Disconnect, Held
<1> QED BY <1>1 DEF Exit, Disconnect, Ends

LEMMA EveryHeldStep ==
  ASSUME TypeInv, [Next]_vars
  PROVE  HeldStep
<1> USE DEF HeldStep
<1>1. CASE UNCHANGED mqVars
  BY <1>1, UnreadHeld DEF mqVars, queueVars, Quiet, queueSets
<1>2. CASE Start \/ ConnectPostgres \/ Wake \/ UNCHANGED vars
  BY <1>1, <1>2 DEF Start, ConnectPostgres, Wake, vars
<1>3. CASE ConnectBroker
  <2>1. CASE Connect
    BY <2>1, UnreadHeld DEF Connect, queueVars, Opens, queueSets
  <2> QED BY <1>1, <1>3, <2>1 DEF ConnectBroker, ConnectFails
<1>4. CASE ConnectPostgresFails \/ Kill
  BY <1>4, ExitHeld DEF ConnectPostgresFails, Kill
<1>5. CASE CallFails
  BY <1>1, <1>5 DEF CallFails
<1>6. CASE DeclarePassive \/ Consume \/ CancelConsumer
  BY <1>6, AwaitHeld DEF DeclarePassive, Consume, CancelConsumer, queueVars, Quiet,
                         queueSets
<1>7. CASE DeclareMissing
  BY <1>7, UnreadHeld DEF DeclareMissing, Ends
<1>8. CASE Poll
  <2>1. CASE PollInbox \/ PollWire
    BY <2>1, PollHeld DEF PollInbox, PollWire, queueVars, Quiet, queueSets
  <2>2. CASE PollNothing
    BY <1>1, <2>2 DEF PollNothing
  <2> QED BY <1>8, <2>1, <2>2 DEF Poll
<1>9. CASE ReadBatch
  BY <1>2, <1>5, <1>6, <1>7, <1>8, <1>9 DEF ReadBatch, Declare, Subscribe, Cancel
<1>10. CASE DeviceFound \/ InsertRow \/ UpdateDevice \/ UpsertGateway
  BY <1>1, <1>10 DEF DeviceFound, InsertRow, UpdateDevice, UpsertGateway
<1>11. CASE \/ RejectGarbage \/ DropIncomplete \/ DropUnknownDevice
            \/ RowAlreadyExists \/ InsertRefused \/ AckStored
            \/ LookupFails \/ InsertFails \/ UpdateFails \/ UpsertFails
  <2>1. (Ack \/ Nack) /\ pc \in Processing
    BY <1>11 DEF RejectGarbage, DropIncomplete, DropUnknownDevice, Parsed,
                 RowAlreadyExists, InsertRefused, AckStored, LookupFails,
                 InsertFails, UpdateFails, UpsertFails, Processing
  <2> QED BY <2>1, SettleHeld
<1>12. CASE Handle
  BY <1>10, <1>11, <1>12 DEF Handle
<1>13. CASE Environment
  <2>1. CASE SetupQueue
    BY <2>1, UnreadHeld DEF SetupQueue, Quiet, queueSets
  <2>2. ASSUME NEW m \in Msgs, Arrive(m)
        PROVE  HeldStep
    BY <2>2, UnreadHeld DEF Arrive, Arrives
  <2>3. ASSUME NEW m \in Msgs, Deliver(m)
        PROVE  HeldStep
    <3>1. Held' = messages \o inbox \o Append(wire, m)
      BY <2>3 DEF Deliver, Held
    <3>2. Held' = Append(Held, m)
      BY <3>1, HeldType, AppendToLast DEF Held
    <3> QED BY <2>3, <3>2 DEF Delivers
  <2>4. CASE LoseConnection
    BY <2>4, UnreadHeld DEF LoseConnection, Ends
  <2> QED BY <1>13, <2>1, <2>2, <2>3, <2>4 DEF Environment
<1> QED BY <1>2, <1>3, <1>4, <1>9, <1>12, <1>13 DEF Next, Process, StartUp

-----------------------------------------------------------------------------
(* Custody and delivery order *)

\* A message is in one place at the broker.
Partition ==
  /\ ready \cap unacked = {}
  /\ acked \cap (ready \cup unacked) = {}
  /\ redelivered \subseteq Published

\* Without a connection the process holds nothing.
Custody ==
  /\ Partition
  /\ NoLeakedDelivery
  /\ link = "none" => Held = <<>>

Fresh(m) == m \notin redelivered

\* Messages that were never taken back are delivered and held in the order of
\* their publication, after everything that was delivered before them.
FreshOrder ==
  /\ \A j \in ready \ redelivered, k \in unacked \cup acked \cup redelivered : k < j
  /\ \A i, j \in 1..Len(Held) : i < j /\ Fresh(Held[j]) => Held[i] < Held[j]

QueueInv == Custody /\ FreshOrder

\* The head of the deliveries held is outstanding while the session is open: no
\* ack or nack ever names a tag the broker does not know.
LEMMA TagsKnown ==
  ASSUME TypeInv, Custody, Settles
  PROVE  /\ current \in Msgs /\ Held \in Seq(Msgs) /\ Held # <<>>
         /\ IsInjective(Held') /\ Range(Held') = Range(Held) \ {current}
         /\ current \in Range(Held)
         /\ link = "open" => current \in unacked
<1>1. Held \in Seq(Msgs) /\ Held # <<>> /\ current = Head(Held) /\ Held' = Tail(Held)
  BY HeldType DEF Settles
<1>2. IsInjective(Held)
  BY DEF Custody, NoLeakedDelivery
<1>3. current \in Msgs
  BY <1>1, HeadTailProperties
<1>4. /\ IsInjective(Tail(Held)) /\ Range(Tail(Held)) = Range(Held) \ {Head(Held)}
      /\ Head(Held) \in Range(Held)
  BY <1>1, <1>2, TailIsInjective
<1> QED BY <1>1, <1>3, <1>4 DEF Custody, NoLeakedDelivery

LEMMA CustodyInit == Init => QueueInv
<1> SUFFICES ASSUME Init PROVE QueueInv
  OBVIOUS
<1>1. Held = <<>>
  BY EmptySeq, ConcatEmptySeq DEF Init, MqInit, Held
<1>2. IsInjective(Held) /\ Range(Held) = {}
  BY <1>1 DEF IsInjective, Range
<1>3. Custody
  BY <1>1, <1>2 DEF Init, MqInit, Custody, Partition, NoLeakedDelivery
<1>4. FreshOrder
  BY <1>1 DEF Init, MqInit, FreshOrder
<1> QED BY <1>3, <1>4 DEF QueueInv

LEMMA CustodyStep ==
  ASSUME TypeInv, Custody, HeldStep
  PROVE  Custody'
<1> USE DEF Custody, Partition, Published
<1>1. CASE Quiet
  BY <1>1 DEF Quiet, queueSets, NoLeakedDelivery
<1>2. CASE Opens
  <2>1. Range(Held) = {}
    BY <1>2 DEF Opens, Range
  <2> QED BY <1>2, <2>1 DEF Opens, queueSets, NoLeakedDelivery
<1>3. CASE Ends
  <2>1. CASE Held' = <<>>
    <3>1. IsInjective(Held') /\ Range(Held') = {}
      BY <2>1 DEF IsInjective, Range
    <3> QED BY <1>3, <2>1, <3>1 DEF Ends, SessionEnds, Requeue, NoLeakedDelivery
  <2>2. CASE Held' = Held /\ link' # "none"
    BY <1>3, <2>2 DEF Ends, SessionEnds, Requeue, NoLeakedDelivery
  <2> QED BY <1>3, <2>1, <2>2 DEF Ends
<1>4. CASE Settles
  <2>1. /\ IsInjective(Held') /\ Range(Held') = Range(Held) \ {current}
        /\ current \in Range(Held)
        /\ link = "open" => current \in unacked
    BY <1>4, TagsKnown
  <2>2. link # "none"
    BY <1>4 DEF Settles
  <2>3. CASE link # "open"
    BY <1>4, <2>1, <2>2, <2>3
       DEF Settles, AckMessage, NackMessage, queueVars, NoLeakedDelivery
  <2>4. CASE link = "open" /\ AckMessage(current)
    BY <1>4, <2>1, <2>4 DEF AckMessage, NoLeakedDelivery
  <2>5. CASE link = "open" /\ NackMessage(current)
    BY <1>4, <2>1, <2>5 DEF NackMessage, Requeue, NoLeakedDelivery
  <2> QED BY <1>4, <2>3, <2>4, <2>5 DEF Settles
<1>5. ASSUME NEW m \in Msgs, Arrives(m)
      PROVE  Custody'
  <2>1. m \notin Published
    BY <1>5, MsgsAssumption DEF Arrives, Arrive
  <2> QED BY <1>5, <2>1 DEF Arrives, Arrive, readVars, NoLeakedDelivery
<1>6. ASSUME NEW m \in Msgs, Delivers(m)
      PROVE  Custody'
  <2>1. m \notin Range(Held) /\ IsInjective(Held) /\ Held \in Seq(Msgs)
    BY <1>6, HeldType DEF Delivers, Deliver, NoLeakedDelivery
  <2>2. IsInjective(Held') /\ Range(Held') = Range(Held) \cup {m}
    BY <1>6, <2>1, AppendRange, AppendIsInjective DEF Delivers
  <2> QED BY <1>6, <2>1, <2>2 DEF Delivers, Deliver, NoLeakedDelivery
<1> QED BY <1>1, <1>2, <1>3, <1>4, <1>5, <1>6 DEF HeldStep

LEMMA OrderStep ==
  ASSUME TypeInv, Custody, FreshOrder, HeldStep
  PROVE  FreshOrder'
<1> USE DEF FreshOrder, Fresh
<1>0. /\ Msgs \subseteq Nat /\ Held \in Seq(Msgs) /\ Len(Held) \in Nat
      /\ ready \subseteq Msgs /\ unacked \subseteq Msgs
      /\ acked \subseteq Msgs /\ redelivered \subseteq Msgs
  BY MsgsAssumption, HeldType, LenProperties DEF TypeInv, TypeOK, MqTypeOK
<1>1. CASE Quiet \/ Opens
  BY <1>1 DEF Quiet, Opens, queueSets
<1>2. CASE Ends
  <2>1. CASE Held' = <<>>
    BY <1>2, <2>1 DEF Ends, SessionEnds, Requeue
  <2>2. CASE Held' = Held
    BY <1>2, <2>2 DEF Ends, SessionEnds, Requeue
  <2> QED BY <1>2, <2>1, <2>2 DEF Ends
<1>3. CASE Settles
  <2>1. Len(Held') = Len(Held) - 1 /\ \A i \in 1..Len(Held') : Held'[i] = Held[i + 1]
    BY <1>0, <1>3, HeadTailProperties DEF Settles
  <2>2. redelivered \subseteq redelivered'
    BY <1>3, TagsKnown
       DEF Settles, AckMessage, NackMessage, UnknownTag, SessionEnds, Requeue, queueVars
  <2>3. ASSUME NEW i \in 1..Len(Held'), NEW j \in 1..Len(Held'),
               i < j, Held'[j] \notin redelivered'
        PROVE  Held'[i] < Held'[j]
    <3>1. /\ i + 1 \in 1..Len(Held) /\ j + 1 \in 1..Len(Held) /\ i + 1 < j + 1
          /\ Held'[i] = Held[i + 1] /\ Held'[j] = Held[j + 1]
      BY <1>0, <2>1, <2>3
    <3> QED BY <2>2, <2>3, <3>1
  <2>4. \A j \in (ready \ redelivered)', k \in (unacked \cup acked \cup redelivered)' : k < j
    BY <1>3, TagsKnown
       DEF Settles, AckMessage, NackMessage, UnknownTag, SessionEnds, Requeue, queueVars
  <2> QED BY <2>3, <2>4
<1>4. ASSUME NEW m \in Msgs, Arrives(m)
      PROVE  FreshOrder'
  BY <1>0, <1>4 DEF Arrives, Arrive, Custody, Partition, Published
<1>5. ASSUME NEW m \in Msgs, Delivers(m)
      PROVE  FreshOrder'
  <2>1. \A j \in (ready \ redelivered)', k \in (unacked \cup acked \cup redelivered)' : k < j
    BY <1>0, <1>5 DEF Delivers, Deliver
  <2>2. /\ Len(Held') = Len(Held) + 1 /\ Held'[Len(Held) + 1] = m
        /\ \A i \in 1..Len(Held) : Held'[i] = Held[i]
    BY <1>0, <1>5, AppendProperties DEF Delivers
  <2>3. \A i \in 1..Len(Held) : Held[i] \in unacked \cup redelivered
    <3>1. Range(Held) = unacked
      BY <1>5 DEF Delivers, Deliver, Custody, NoLeakedDelivery
    <3> QED BY <1>0, <3>1, RangeByIndex
  <2>4. Fresh(m) => \A i \in 1..Len(Held) : Held[i] < m
    BY <1>5, <2>3 DEF Delivers, Deliver
  <2>5. \A i, j \in 1..Len(Held') : i < j /\ Fresh(Held'[j]) => Held'[i] < Held'[j]
    BY <1>0, <2>2, <2>4
  <2> QED BY <1>5, <2>1, <2>5 DEF Delivers, Deliver
<1> QED BY <1>1, <1>2, <1>3, <1>4, <1>5 DEF HeldStep

LEMMA QueueStep ==
  ASSUME TypeInv, QueueInv, [Next]_vars
  PROVE  QueueInv'
BY EveryHeldStep, CustodyStep, OrderStep DEF QueueInv

\* At every moment the process holds exactly the deliveries outstanding on its open
\* session, each once, and none of them is settled: leaked subscriptions,
\* deliveries queued by library calls and sessions that end under a batch lose
\* nothing and settle nothing twice (LavinMQ.cpp:200-295, main.cpp:130-347).
THEOREM CustodyCorrect == Spec => []NoLeakedDelivery
<1>1. TypeInv /\ QueueInv => NoLeakedDelivery
  BY DEF QueueInv, Custody
<1> QED BY <1>1, TypeInit, TypeStep, CustodyInit, QueueStep, PTL DEF Spec

-----------------------------------------------------------------------------
(* The database against the acks *)

\* What the process has stored of the message it handles.
Progress ==
  /\ pc \in {"update", "gateways"} => Key(current) \in air
  /\ pc = "gateways" => cwDevice[DeviceOf(current)] # 0

Stored == Progress /\ AckedOnlyIfAccounted /\ RowsInWriteOrder

\* An ack settles the current message or nothing.
LEMMA AckedStep ==
  ASSUME TypeInv, Ack \/ Nack
  PROVE  /\ acked' \subseteq acked \cup {current}
         /\ Nack => acked' = acked
         /\ pc' \notin Processing \ {"message"}
BY DEF Ack, Nack, AckMessage, NackMessage, UnknownTag, SessionEnds, Requeue, queueVars,
       NextMessage, Processing

\* Steps that leave the database and the acks alone, and do not move the process
\* inside the handling of a message.
LEMMA StoredStays ==
  ASSUME Stored, UNCHANGED <<dbVars, acked>>,
         \/ UNCHANGED <<pc, messages>>
         \/ pc' \notin {"update", "gateways"}
  PROVE  Stored'
BY DEF Stored, Progress, AckedOnlyIfAccounted, RowsInWriteOrder, dbVars, current

\* A row of cw_devices or cw_device_gateway written for a recorded reading.
LEMMA DeviceRow ==
  ASSUME TypeInv, RowsInWriteOrder, current \in Msgs, Key(current) \in air,
         WriteDevice, UNCHANGED <<air, cwGateway>>
  PROVE  /\ RowsInWriteOrder'
         /\ cwDevice'[DeviceOf(current)] # 0
<1>1. DeviceOf(current) \in Devices /\ current # 0
  BY UplinkType, MsgsAssumption
<1> QED BY <1>1 DEF TypeInv, TypeOK, RowsInWriteOrder, WriteDevice

LEMMA GatewayRow ==
  ASSUME TypeInv, RowsInWriteOrder, current \in Msgs, MoreGateways,
         Key(current) \in air, cwDevice[DeviceOf(current)] # 0,
         WriteGateway, UNCHANGED <<air, cwDevice>>
  PROVE  RowsInWriteOrder'
<1>1. DeviceOf(current) \in Devices /\ GatewaysOf(current) \in Seq(Gateways)
  BY UplinkType
<1>2. GatewaysOf(current)[gw] \in Gateways
  BY <1>1, ElementOfSeq DEF MoreGateways, TypeInv, TypeOK
<1>3. \A d \in Devices, g \in Gateways :
        cwGateway'[<<d, g>>] = IF d = DeviceOf(current) /\ g = GatewaysOf(current)[gw]
                             THEN current ELSE cwGateway[<<d, g>>]
  BY <1>1, <1>2 DEF WriteGateway, TypeInv, TypeOK
<1> QED BY <1>3 DEF RowsInWriteOrder

LEMMA StoredInit == Init => Stored
BY DEF Init, MqInit, Stored, Progress, AckedOnlyIfAccounted, RowsInWriteOrder

\* Where the code acks, the reading is stored or cannot be.
LEMMA AckJustified ==
  ASSUME TypeInv, Stored,
         \/ RejectGarbage \/ DropIncomplete \/ DropUnknownDevice
         \/ RowAlreadyExists \/ InsertRefused \/ AckStored
  PROVE  Ack => Key(current) \in air \/ Discardable(current) \/ acked' = acked
<1>1. CASE RejectGarbage \/ InsertRefused
  BY <1>1, AckedStep DEF RejectGarbage, InsertRefused
<1>2. CASE DropIncomplete \/ DropUnknownDevice
  BY <1>2 DEF DropIncomplete, DropUnknownDevice, Discardable
<1>3. CASE RowAlreadyExists \/ AckStored
  BY <1>3 DEF RowAlreadyExists, AckStored, Stored, Progress
<1> QED BY <1>1, <1>2, <1>3

\* The steps that settle a message when the database has nothing more to do.
LEMMA StoredSettle ==
  ASSUME TypeInv, Stored,
         \/ RejectGarbage \/ DropIncomplete \/ DropUnknownDevice
         \/ RowAlreadyExists \/ InsertRefused \/ AckStored
  PROVE  Stored'
<1>1. (Ack \/ Nack) /\ UNCHANGED dbVars
  BY DEF RejectGarbage, DropIncomplete, DropUnknownDevice, RowAlreadyExists,
         InsertRefused, AckStored
<1>2. Ack => Key(current) \in air \/ Discardable(current) \/ acked' = acked
  BY AckJustified
<1>3. AckedOnlyIfAccounted'
  BY <1>1, <1>2, AckedStep DEF Stored, AckedOnlyIfAccounted, dbVars
<1>4. Progress' /\ RowsInWriteOrder'
  BY <1>1, AckedStep DEF Stored, Progress, RowsInWriteOrder, dbVars, Processing
<1> QED BY <1>3, <1>4 DEF Stored

\* The steps in which a transaction throws: the message is nacked, and the effect
\* of the transaction may be there.
LEMMA StoredFail ==
  ASSUME TypeInv, Stored, LookupFails \/ InsertFails \/ UpdateFails \/ UpsertFails
  PROVE  Stored'
<1>1. Nack /\ pc \in Processing
  BY DEF LookupFails, Parsed, InsertFails, UpdateFails, UpsertFails, Processing
<1>2. acked' = acked /\ pc' \notin {"update", "gateways"}
  BY <1>1, AckedStep DEF Processing
<1>3. current \in Msgs
  BY <1>1, CurrentType
<1>4. CASE UNCHANGED dbVars
  BY <1>2, <1>4, StoredStays
<1>5. CASE LookupFails
  BY <1>4, <1>5 DEF LookupFails
<1>6. CASE InsertFails
  BY <1>2, <1>6 DEF InsertFails, Stored, Progress, AckedOnlyIfAccounted, RowsInWriteOrder
<1>7. CASE UpdateFails
  <2>1. CASE cwDevice' = cwDevice
    BY <1>4, <1>7, <2>1 DEF UpdateFails, dbVars
  <2>2. CASE WriteDevice
    <3>1. Key(current) \in air
      BY <1>7 DEF UpdateFails, Stored, Progress
    <3>2. RowsInWriteOrder'
      BY <1>3, <1>7, <2>2, <3>1, DeviceRow DEF UpdateFails, Stored
    <3> QED BY <1>2, <1>7, <3>2 DEF UpdateFails, Stored, Progress, AckedOnlyIfAccounted
  <2> QED BY <1>7, <2>1, <2>2 DEF UpdateFails
<1>8. CASE UpsertFails
  <2>1. CASE cwGateway' = cwGateway
    BY <1>4, <1>8, <2>1 DEF UpsertFails, dbVars
  <2>2. CASE WriteGateway
    <3>1. Key(current) \in air /\ cwDevice[DeviceOf(current)] # 0
      BY <1>8 DEF UpsertFails, Stored, Progress
    <3>2. RowsInWriteOrder'
      BY <1>3, <1>8, <2>2, <3>1, GatewayRow DEF UpsertFails, Stored
    <3> QED BY <1>2, <1>8, <3>2 DEF UpsertFails, Stored, Progress, AckedOnlyIfAccounted
  <2> QED BY <1>8, <2>1, <2>2 DEF UpsertFails
<1> QED BY <1>5, <1>6, <1>7, <1>8

\* The transactions that commit.
LEMMA StoredStore ==
  ASSUME TypeInv, Stored, DeviceFound \/ InsertRow \/ UpdateDevice \/ UpsertGateway
  PROVE  Stored'
<1>1. pc \in Processing /\ UNCHANGED mqVars
  BY DEF DeviceFound, Parsed, InsertRow, UpdateDevice, UpsertGateway, Processing
<1>2. current \in Msgs /\ current' = current /\ acked' = acked
  BY <1>1, CurrentType DEF mqVars, queueVars, readVars, current
<1>3. CASE DeviceFound
  BY <1>2, <1>3, StoredStays DEF DeviceFound
<1>4. CASE InsertRow
  BY <1>2, <1>4 DEF InsertRow, Stored, Progress, AckedOnlyIfAccounted, RowsInWriteOrder
<1>5. CASE UpdateDevice
  <2>1. Key(current) \in air
    BY <1>5 DEF UpdateDevice, Stored, Progress
  <2>2. RowsInWriteOrder' /\ cwDevice'[DeviceOf(current)] # 0
    BY <1>2, <1>5, <2>1, DeviceRow DEF UpdateDevice, Stored
  <2> QED BY <1>2, <1>5, <2>1, <2>2
          DEF UpdateDevice, Stored, Progress, AckedOnlyIfAccounted
<1>6. CASE UpsertGateway
  <2>1. Key(current) \in air /\ cwDevice[DeviceOf(current)] # 0
    BY <1>6 DEF UpsertGateway, Stored, Progress
  <2>2. RowsInWriteOrder'
    BY <1>2, <1>6, <2>1, GatewayRow DEF UpsertGateway, Stored
  <2> QED BY <1>2, <1>6, <2>1, <2>2
          DEF UpsertGateway, Stored, Progress, AckedOnlyIfAccounted
<1> QED BY <1>3, <1>4, <1>5, <1>6

\* The rest of Next: the process is not inside the handling of a message, or the
\* step is not its own.
LEMMA StoredElsewhere ==
  ASSUME Stored, StartUp \/ Kill \/ ReadBatch \/ Environment \/ UNCHANGED vars
  PROVE  Stored'
<1>1. UNCHANGED <<dbVars, acked>>
  BY DEF StartUp, Start, ConnectBroker, Connect, ConnectFails, ConnectPostgres,
         ConnectPostgresFails, Kill, Exit, Disconnect, SessionEnds, ReadBatch, Declare,
         DeclarePassive, DeclareMissing, CallFails, Subscribe, Consume, Poll, PollInbox,
         PollWire, PollNothing, Cancel, CancelConsumer, Wake, Environment, SetupQueue,
         Arrive, Deliver, LoseConnection, mqVars, queueVars, vars
<1>2. UNCHANGED <<pc, messages>> \/ pc' \notin {"update", "gateways"}
  <2>1. CASE StartUp \/ Kill \/ ReadBatch
    BY <2>1 DEF StartUp, Start, ConnectBroker, ConnectPostgres, ConnectPostgresFails,
         Kill, Exit, ReadBatch, Declare, Subscribe, Poll, Cancel, Wake
  <2>2. CASE Environment
    BY <2>2 DEF Environment, SetupQueue, Arrive, Deliver, LoseConnection, procVars,
         readVars
  <2>3. CASE UNCHANGED vars
    BY <2>3 DEF vars, procVars, mqVars, readVars
  <2> QED BY <2>1, <2>2, <2>3
<1> QED BY <1>1, <1>2, StoredStays

LEMMA StoredStep ==
  ASSUME TypeInv, Stored, [Next]_vars
  PROVE  Stored'
BY StoredSettle, StoredFail, StoredStore, StoredElsewhere DEF Next, Process, Handle

\* Whatever fails between the insert and the ack, a message leaves the broker only
\* when its reading is in the data table or when it carries none that could be
\* stored (main.cpp:234-346).
THEOREM AccountedCorrect == Spec => []AckedOnlyIfAccounted
<1>1. Stored => AckedOnlyIfAccounted
  BY DEF Stored
<1> QED BY <1>1, TypeInit, TypeStep, StoredInit, StoredStep, PTL DEF Spec

\* cw_devices and cw_device_gateway never run ahead of the data table, nor
\* cw_device_gateway of cw_devices (main.cpp:275-329).
THEOREM WriteOrderCorrect == Spec => []RowsInWriteOrder
<1>1. Stored => RowsInWriteOrder
  BY DEF Stored
<1> QED BY <1>1, TypeInit, TypeStep, StoredInit, StoredStep, PTL DEF Spec

-----------------------------------------------------------------------------
(* The order in which device rows are written *)

\* What has been delivered at least once.
Delivered == unacked \cup acked \cup redelivered

\* No device row is later than a message that the process still holds from its
\* first delivery.
Latest ==
  /\ Range(Held) \subseteq Delivered
  /\ \A d \in Devices : cwDevice[d] \in {0} \cup Delivered
  /\ \A d \in Devices, m \in Range(Held) : Fresh(m) => cwDevice[d] <= m

\* The only writers of cwDevice.
LEMMA DeviceWriters ==
  ASSUME TypeInv, [Next]_vars
  PROVE  \/ cwDevice' = cwDevice
         \/ pc = "update" /\ WriteDevice
BY ExitType
   DEF Next, Process, StartUp, Start, ConnectBroker, ConnectPostgres,
       ConnectPostgresFails, Kill, Exit, ReadBatch, Declare, Subscribe, Poll, Cancel,
       Wake, Handle, RejectGarbage, DropIncomplete, DeviceFound, DropUnknownDevice,
       LookupFails, InsertRow, RowAlreadyExists, InsertRefused, InsertFails,
       UpdateDevice, UpdateFails, UpsertGateway, UpsertFails, AckStored, Environment,
       dbVars, vars

\* A step adds at most one message to those held, which is later than every
\* message delivered before it unless it was delivered before itself.
LEMMA HeldGrows ==
  ASSUME TypeInv, QueueInv, Range(Held) \subseteq Delivered, HeldStep
  PROVE  /\ Delivered \subseteq Delivered' /\ redelivered \subseteq redelivered'
         /\ Range(Held') \subseteq Delivered'
         /\ \A m \in Range(Held') \ Range(Held) :
              Fresh(m)' => m \in Nat \ {0} /\ \A k \in Delivered : k < m
<1> USE DEF QueueInv, Custody, FreshOrder, Fresh, Delivered
<1>1. CASE Quiet \/ Opens
  BY <1>1 DEF Quiet, Opens, queueSets
<1>2. CASE Ends
  <2>1. Range(Held') \subseteq Range(Held)
    BY <1>2 DEF Ends, Range
  <2> QED BY <1>2, <2>1 DEF Ends, SessionEnds, Requeue
<1>3. CASE Settles
  <2>1. Range(Held') \subseteq Range(Held)
    BY <1>3, TagsKnown
  <2>2. Delivered \subseteq Delivered' /\ redelivered \subseteq redelivered'
    BY <1>3, TagsKnown
       DEF Settles, AckMessage, NackMessage, UnknownTag, SessionEnds, Requeue, queueVars
  <2> QED BY <2>1, <2>2
<1>4. ASSUME NEW m \in Msgs, Arrives(m)
      PROVE  /\ Delivered' = Delivered /\ redelivered' = redelivered
             /\ Held' = Held
  BY <1>4 DEF Arrives, Arrive
<1>5. ASSUME NEW m \in Msgs, Delivers(m)
      PROVE  /\ Delivered' = Delivered \cup {m} /\ redelivered' = redelivered
             /\ Range(Held') = Range(Held) \cup {m}
             /\ Fresh(m) => m \in Nat \ {0} /\ \A k \in Delivered : k < m
  <2>1. Range(Held') = Range(Held) \cup {m}
    BY <1>5, HeldType, AppendRange DEF Delivers
  <2> QED BY <1>5, <2>1, MsgsAssumption DEF Delivers, Deliver
<1> QED BY <1>1, <1>2, <1>3, <1>4, <1>5 DEF HeldStep

\* The message being handled precedes every other one held from a first delivery.
LEMMA CurrentIsFirst ==
  ASSUME TypeInv, QueueInv, pc \in Processing
  PROVE  /\ current \in Range(Held)
         /\ \A m \in Range(Held) : Fresh(m) => current <= m
<1>1. messages # <<>> /\ messages \in Seq(Msgs)
  BY CurrentType
<1>2. inbox \o wire \in Seq(Msgs) /\ Held = messages \o (inbox \o wire)
  BY HeldType, ConcatProperties, ConcatAssociative DEF Held
<1>3. Head(Held) = current /\ Held # <<>> /\ Held \in Seq(Msgs)
  BY <1>1, <1>2, DropFirst, HeldType DEF current
<1>4. Len(Held) \in Nat \ {0} /\ current = Held[1] /\ Held[1] \in Msgs
  BY <1>3, EmptySeq, ElementOfSeq
<1>5. current \in Range(Held)
  BY <1>3, <1>4, RangeByIndex
<1>6. ASSUME NEW m \in Range(Held), Fresh(m)
      PROVE  current <= m
  <2>0. current \in Nat
    BY <1>4, MsgsAssumption
  <2>1. PICK i \in 1..Len(Held) : Held[i] = m
    BY <1>3, RangeByIndex
  <2>2. CASE i = 1
    BY <1>4, <2>0, <2>1, <2>2
  <2>3. CASE i # 1
    <3>1. Held[1] < Held[i]
      BY <1>4, <1>6, <2>1, <2>3 DEF QueueInv, FreshOrder
    <3>2. Held[i] \in Msgs
      BY <1>3, <2>1, ElementOfSeq
    <3>3. Held[i] \in Nat
      BY <3>2, MsgsAssumption
    <3> QED BY <1>4, <2>0, <2>1, <3>1, <3>3
  <2> QED BY <2>2, <2>3
<1> QED BY <1>5, <1>6

\* The rows of cw_devices are numbers of messages, or 0.
LEMMA DeviceType ==
  ASSUME TypeInv
  PROVE  \A d \in Devices : cwDevice[d] \in Nat
<1>1. cwDevice \in [Devices -> Msgs \cup {0}]
  BY DEF TypeInv, TypeOK
<1>2. Msgs \cup {0} \subseteq Nat
  BY MsgsAssumption
<1> QED BY <1>1, <1>2

LEMMA LatestInit == Init => Latest
<1> SUFFICES ASSUME Init PROVE Latest
  OBVIOUS
<1>1. Range(Held) = {}
  BY EmptySeq, ConcatEmptySeq DEF Init, MqInit, Held, Range
<1> QED BY <1>1 DEF Init, Latest

LEMMA LatestStep ==
  ASSUME TypeInv, QueueInv, Latest, [Next]_vars
  PROVE  Latest'
<1>1. /\ Delivered \subseteq Delivered' /\ redelivered \subseteq redelivered'
      /\ Range(Held') \subseteq Delivered'
      /\ \A m \in Range(Held') \ Range(Held) :
           Fresh(m)' => m \in Nat \ {0} /\ \A k \in Delivered : k < m
  BY EveryHeldStep, HeldGrows DEF Latest
<1>2. \A d \in Devices : cwDevice[d] \in Nat
  BY DeviceType
<1>3. CASE cwDevice' = cwDevice
  <2>1. ASSUME NEW d \in Devices, NEW m \in Range(Held'), m \notin redelivered'
        PROVE  cwDevice'[d] <= m
    <3>1. CASE m \in Range(Held)
      BY <1>1, <1>3, <2>1, <3>1 DEF Latest, Fresh
    <3>2. CASE m \notin Range(Held)
      BY <1>1, <1>2, <1>3, <2>1, <3>2 DEF Latest, Fresh
    <3> QED BY <3>1, <3>2
  <2> QED BY <1>1, <1>3, <2>1 DEF Latest, Fresh
<1>4. CASE pc = "update" /\ WriteDevice
  <2>1. /\ current \in Range(Held) /\ current \in Nat
        /\ \A m \in Range(Held) : Fresh(m) => current <= m
    BY <1>4, CurrentIsFirst, CurrentType, MsgsAssumption DEF Processing
  <2>2. \A d \in Devices :
          cwDevice'[d] = IF d = DeviceOf(current) THEN current ELSE cwDevice[d]
    BY <1>4 DEF WriteDevice, TypeInv, TypeOK
  <2>3. ASSUME NEW d \in Devices, NEW m \in Range(Held'), m \notin redelivered'
        PROVE  cwDevice'[d] <= m
    <3>1. CASE m \in Range(Held)
      BY <1>1, <2>1, <2>2, <2>3, <3>1 DEF Latest, Fresh
    <3>2. CASE m \notin Range(Held)
      <4>1. m \in Nat /\ \A k \in Delivered : k < m
        BY <1>1, <2>3, <3>2 DEF Fresh
      <4>2. cwDevice'[d] \in {0} \cup Delivered
        BY <2>1, <2>2 DEF Latest
      <4> QED BY <1>2, <2>1, <2>2, <4>1, <4>2
    <3> QED BY <3>1, <3>2
  <2>4. \A d \in Devices : cwDevice'[d] \in {0} \cup Delivered'
    BY <1>1, <2>1, <2>2 DEF Latest
  <2> QED BY <1>1, <2>3, <2>4 DEF Latest, Fresh
<1> QED BY <1>3, <1>4, DeviceWriters

\* A device's row goes back to an earlier message only when the broker delivers that
\* message again: without a redelivery the UPDATE of main.cpp:302-307, which
\* compares no timestamps, keeps the row at the latest message.
THEOREM RegressionCorrect == Spec => NoRegressionUnlessRedelivered
<1>1. ASSUME TypeInv, QueueInv, Latest, [Next]_vars, NEW d \in Devices,
             cwDevice'[d] < cwDevice[d]
      PROVE  cwDevice'[d] \in redelivered
  <2>1. cwDevice[d] \in Nat
    BY <1>1, DeviceType
  <2>2. pc = "update" /\ WriteDevice
    BY <1>1, <2>1, DeviceWriters
  <2>3. /\ current \in Range(Held) /\ current \in Nat
    BY <1>1, <2>2, CurrentIsFirst, CurrentType, MsgsAssumption DEF Processing
  <2>4. cwDevice'[d] = IF d = DeviceOf(current) THEN current ELSE cwDevice[d]
    BY <1>1, <2>2 DEF WriteDevice, TypeInv, TypeOK
  <2> QED BY <1>1, <2>1, <2>3, <2>4 DEF Latest, Fresh
<1>2. ASSUME TypeInv, QueueInv, Latest
      PROVE  [Next]_vars =>
               [\A d \in Devices :
                  cwDevice'[d] < cwDevice[d] => cwDevice'[d] \in redelivered]_vars
  BY <1>1, <1>2
<1> QED BY <1>2, TypeInit, TypeStep, CustodyInit, QueueStep, LatestInit, LatestStep, PTL
        DEF Spec, NoRegressionUnlessRedelivered

-----------------------------------------------------------------------------
(* Consumer implements Ingestion *)

pending == ready \cup unacked

\* Between a message's arrival and its ack it is pending, wherever it is.
PendingStays == pending' = pending /\ acked' = acked

\* A settlement acks one pending message or leaves all of them pending.
LEMMA SettlePending ==
  ASSUME TypeInv, Custody, pc \in Processing, Ack \/ Nack
  PROVE  /\ current \in Msgs /\ current \in pending
         /\ Nack => PendingStays
         /\ Ack => \/ PendingStays
                   \/ /\ acked' # acked
                      /\ pending' = pending \ {current}
                      /\ acked' = acked \cup {current}
<1>1. Settles
  BY SettleHeld
<1>2. current \in Msgs /\ current \in Range(Held) /\ (link = "open" => current \in unacked)
  BY <1>1, TagsKnown
<1>3. ready \cap unacked = {} /\ acked \cap pending = {} /\ current \in pending
  BY <1>2 DEF Custody, Partition, NoLeakedDelivery, pending
<1>4. ASSUME Nack
      PROVE  PendingStays
  BY <1>2, <1>3, <1>4
     DEF Nack, NackMessage, Requeue, queueVars, pending, PendingStays
<1>5. ASSUME Ack
      PROVE  \/ PendingStays
             \/ /\ acked' # acked
                /\ pending' = pending \ {current}
                /\ acked' = acked \cup {current}
  BY <1>2, <1>3, <1>5 DEF Ack, AckMessage, queueVars, pending, PendingStays
<1> QED BY <1>2, <1>3, <1>4, <1>5

\* The message being handled is pending even if the session has ended.
LEMMA CurrentPending ==
  ASSUME TypeInv, QueueInv, pc \in Processing
  PROVE  current \in Msgs /\ current \in pending
BY CurrentIsFirst, CurrentType DEF QueueInv, Custody, NoLeakedDelivery, pending

LEMMA AbstractInit == Init => Abstract!Init
BY DEF Init, MqInit, Abstract!Init

\* A step of the database and the broker together, seen as one of Ingestion.
LEMMA AbstractSteps ==
  ASSUME NEW m \in Msgs
  PROVE  /\ /\ \A k \in pending \cup acked : k < m
            /\ pending' = pending \cup {m}
            /\ UNCHANGED <<acked, dbVars>>
            => Abstract!Next
         /\ /\ m \in pending /\ Key(m) \notin air /\ air' = air \cup {Key(m)}
            /\ PendingStays /\ UNCHANGED <<cwDevice, cwGateway>>
            => Abstract!Next
         /\ /\ m \in pending /\ Key(m) \in air
            /\ cwDevice' = [cwDevice EXCEPT ![DeviceOf(m)] = m]
            /\ PendingStays /\ UNCHANGED <<air, cwGateway>>
            => Abstract!Next
         /\ \A g \in Gateways :
            /\ m \in pending /\ Key(m) \in air /\ cwDevice[DeviceOf(m)] # 0
            /\ cwGateway' = [cwGateway EXCEPT ![<<DeviceOf(m), g>>] = m]
            /\ PendingStays /\ UNCHANGED <<air, cwDevice>>
            => Abstract!Next
         /\ /\ m \in pending /\ (Key(m) \in air \/ Discardable(m))
            /\ pending' = pending \ {m} /\ acked' = acked \cup {m}
            /\ UNCHANGED dbVars
            => Abstract!Next
<1> USE DEF pending, PendingStays, dbVars, Abstract!Next, Abstract!Ingest
<1>1. /\ \A k \in pending \cup acked : k < m
      /\ pending' = pending \cup {m}
      /\ UNCHANGED <<acked, dbVars>>
      => Abstract!Publish(m)
  BY DEF Abstract!Publish
<1>2. /\ m \in pending /\ Key(m) \notin air /\ air' = air \cup {Key(m)}
      /\ PendingStays /\ UNCHANGED <<cwDevice, cwGateway>>
      => Abstract!Record(m)
  BY DEF Abstract!Record
<1>3. /\ m \in pending /\ Key(m) \in air
      /\ cwDevice' = [cwDevice EXCEPT ![DeviceOf(m)] = m]
      /\ PendingStays /\ UNCHANGED <<air, cwGateway>>
      => Abstract!TouchDevice(m)
  BY DEF Abstract!TouchDevice
<1>4. ASSUME NEW g \in Gateways
      PROVE  /\ m \in pending /\ Key(m) \in air /\ cwDevice[DeviceOf(m)] # 0
             /\ cwGateway' = [cwGateway EXCEPT ![<<DeviceOf(m), g>>] = m]
             /\ PendingStays /\ UNCHANGED <<air, cwDevice>>
             => Abstract!TouchGateway(m, g)
  BY DEF Abstract!TouchGateway
<1>5. /\ m \in pending /\ (Key(m) \in air \/ Discardable(m))
      /\ pending' = pending \ {m} /\ acked' = acked \cup {m}
      /\ UNCHANGED dbVars
      => Abstract!Settle(m)
  BY DEF Abstract!Settle
<1> QED BY <1>1, <1>2, <1>3, <1>4, <1>5

LEMMA AbstractStep ==
  ASSUME TypeInv, QueueInv, Stored, [Next]_vars
  PROVE  [Abstract!Next]_(Abstract!vars)
<1>1. CASE PendingStays /\ UNCHANGED dbVars
  BY <1>1 DEF PendingStays, pending, dbVars, Abstract!vars
<1>2. CASE StartUp \/ Kill \/ ReadBatch \/ UNCHANGED vars
  <2>1. UNCHANGED dbVars
    BY <1>2 DEF StartUp, Start, ConnectBroker, ConnectPostgres, ConnectPostgresFails,
       Kill, Exit, ReadBatch, Declare, Subscribe, Poll, Cancel, Wake, vars
  <2>2. SessionEnds \/ UNCHANGED queueSets
    BY <1>2 DEF StartUp, Start, ConnectBroker, Connect, ConnectFails, ConnectPostgres,
       ConnectPostgresFails, Kill, Exit, Disconnect, ReadBatch, Declare, DeclarePassive,
       DeclareMissing, CallFails, Subscribe, Consume, Poll, PollInbox, PollWire,
       PollNothing, Cancel, CancelConsumer, Wake, mqVars, queueVars, queueSets, vars
  <2>3. PendingStays
    BY <2>2 DEF SessionEnds, Requeue, queueSets, pending, PendingStays
  <2> QED BY <1>1, <2>1, <2>3
<1>3. CASE Environment
  <2>1. UNCHANGED dbVars
    BY <1>3 DEF Environment
  <2>2. CASE SetupQueue \/ LoseConnection \/ \E m \in Msgs : Deliver(m)
    <3>1. PendingStays
      BY <2>2 DEF SetupQueue, LoseConnection, SessionEnds, Requeue, Deliver, pending,
                  PendingStays
    <3> QED BY <1>1, <2>1, <3>1
  <2>3. ASSUME NEW m \in Msgs, Arrive(m)
        PROVE  Abstract!Next
    <3>1. /\ \A k \in pending \cup acked : k < m
          /\ pending' = pending \cup {m} /\ UNCHANGED <<acked, dbVars>>
      BY <2>1, <2>3 DEF Arrive, Published, pending
    <3> QED BY <3>1, AbstractSteps
  <2> QED BY <1>3, <2>2, <2>3 DEF Environment
<1>4. CASE \/ RejectGarbage \/ DropIncomplete \/ DropUnknownDevice
           \/ RowAlreadyExists \/ InsertRefused \/ AckStored
  <2>1. (Ack \/ Nack) /\ pc \in Processing /\ UNCHANGED dbVars
    BY <1>4 DEF RejectGarbage, DropIncomplete, DropUnknownDevice, Parsed,
       RowAlreadyExists, InsertRefused, AckStored, Processing
  <2>2. CASE PendingStays
    BY <1>1, <2>1, <2>2
  <2>3. CASE ~PendingStays
    <3>1. /\ current \in Msgs /\ current \in pending /\ acked' # acked /\ Ack
          /\ pending' = pending \ {current} /\ acked' = acked \cup {current}
      BY <2>1, <2>3, SettlePending DEF QueueInv
    <3>2. Key(current) \in air \/ Discardable(current)
      BY <1>4, <3>1, AckJustified
    <3>3. Abstract!Next
      BY <2>1, <3>1, <3>2, AbstractSteps
    <3> QED BY <3>3
  <2> QED BY <2>2, <2>3
<1>5. CASE LookupFails \/ InsertFails \/ UpdateFails \/ UpsertFails
  <2>1. Nack /\ pc \in Processing
    BY <1>5 DEF LookupFails, Parsed, InsertFails, UpdateFails, UpsertFails, Processing
  <2>2. current \in Msgs /\ current \in pending /\ PendingStays
    BY <2>1, SettlePending DEF QueueInv
  <2>3. CASE UNCHANGED dbVars
    BY <1>1, <2>2, <2>3
  <2>4. CASE LookupFails
    BY <2>3, <2>4 DEF LookupFails
  <2>5. CASE InsertFails
    <3>1. CASE air' = air
      BY <2>3, <2>5, <3>1 DEF InsertFails, dbVars
    <3>2. CASE Insertable /\ air' = air \cup {Key(current)}
      <4>1. Abstract!Next
        BY <2>2, <2>5, <3>2, AbstractSteps DEF InsertFails, Insertable
      <4> QED BY <4>1
    <3> QED BY <2>5, <3>1, <3>2 DEF InsertFails
  <2>6. CASE UpdateFails
    <3>1. CASE cwDevice' = cwDevice
      BY <2>3, <2>6, <3>1 DEF UpdateFails, dbVars
    <3>2. CASE WriteDevice
      <4>1. Abstract!Next
        BY <2>2, <2>6, <3>2, AbstractSteps DEF UpdateFails, WriteDevice, Stored, Progress
      <4> QED BY <4>1
    <3> QED BY <2>6, <3>1, <3>2 DEF UpdateFails
  <2>7. CASE UpsertFails
    <3>1. CASE cwGateway' = cwGateway
      BY <2>3, <2>7, <3>1 DEF UpsertFails, dbVars
    <3>2. CASE WriteGateway
      <4>1. GatewaysOf(current)[gw] \in Gateways
        BY <2>2, <2>7, UplinkType, ElementOfSeq
           DEF UpsertFails, MoreGateways, TypeInv, TypeOK
      <4>2. Abstract!Next
        BY <2>2, <2>7, <3>2, <4>1, AbstractSteps
           DEF UpsertFails, WriteGateway, Stored, Progress
      <4> QED BY <4>2
    <3> QED BY <2>7, <3>1, <3>2 DEF UpsertFails
  <2> QED BY <1>5, <2>4, <2>5, <2>6, <2>7
<1>6. CASE DeviceFound \/ InsertRow \/ UpdateDevice \/ UpsertGateway
  <2>1. pc \in Processing /\ PendingStays
    BY <1>6 DEF DeviceFound, Parsed, InsertRow, UpdateDevice, UpsertGateway, Processing,
                mqVars, queueVars, pending, PendingStays
  <2>2. current \in Msgs /\ current \in pending
    BY <2>1, CurrentPending
  <2>3. CASE DeviceFound
    BY <1>1, <2>1, <2>3 DEF DeviceFound
  <2>4. CASE InsertRow
    <3>1. Abstract!Next
      BY <2>1, <2>2, <2>4, AbstractSteps DEF InsertRow, Insertable
    <3> QED BY <3>1
  <2>5. CASE UpdateDevice
    <3>1. Abstract!Next
      BY <2>1, <2>2, <2>5, AbstractSteps DEF UpdateDevice, WriteDevice, Stored, Progress
    <3> QED BY <3>1
  <2>6. CASE UpsertGateway
    <3>1. GatewaysOf(current)[gw] \in Gateways
      BY <2>2, <2>6, UplinkType, ElementOfSeq
         DEF UpsertGateway, MoreGateways, TypeInv, TypeOK
    <3>2. Abstract!Next
      BY <2>1, <2>2, <2>6, <3>1, AbstractSteps
         DEF UpsertGateway, WriteGateway, Stored, Progress
    <3> QED BY <3>2
  <2> QED BY <1>6, <2>3, <2>4, <2>5, <2>6
<1> QED BY <1>2, <1>3, <1>4, <1>5, <1>6 DEF Next, Process, Handle

\* The Consumer, with its sessions, batches, failures and restarts, does nothing that
\* Ingestion does not allow: only pending messages write to the database, in the
\* order insert, device, gateways, and only accounted messages are settled
\* (main.cpp:122-348).
THEOREM RefinementCorrect == Spec => ImplementsIngestion
BY AbstractInit, AbstractStep, TypeInit, TypeStep, CustodyInit, QueueStep, StoredInit,
   StoredStep, PTL DEF Spec, ImplementsIngestion, Abstract!Spec

-----------------------------------------------------------------------------
(* Outages *)

Dead == link \in {"closed", "lost"}

\* The session is opened only where there was none, and its memory is given up
\* only by the end of the process.
LEMMA DeadStays ==
  ASSUME Dead, [Next]_vars
  PROVE  link' # "open" /\ (link' = "none" => pc' = "down")
<1> USE DEF Dead
<1>1. CASE StartUp \/ Kill
  BY <1>1 DEF StartUp, Start, ConnectBroker, Connect, ConnectFails, ConnectPostgres,
         ConnectPostgresFails, Kill, Exit, Disconnect, mqVars
<1>2. CASE ReadBatch
  BY <1>2 DEF ReadBatch, Declare, DeclarePassive, DeclareMissing, CallFails, Subscribe,
         Consume, Poll, PollInbox, PollWire, PollNothing, Cancel, CancelConsumer, Wake, mqVars
<1>3. CASE Handle
  <2>1. CASE Ack \/ Nack
    BY <2>1 DEF Ack, Nack, AckMessage, NackMessage
  <2>2. CASE UNCHANGED mqVars
    BY <2>2 DEF mqVars
  <2> QED BY <1>3, <2>1, <2>2
          DEF Handle, RejectGarbage, DropIncomplete, DropUnknownDevice, RowAlreadyExists,
              InsertRefused, AckStored, LookupFails, InsertFails, UpdateFails, UpsertFails,
              DeviceFound, InsertRow, UpdateDevice, UpsertGateway
<1>4. CASE Environment \/ UNCHANGED vars
  BY <1>4 DEF Environment, SetupQueue, Arrive, Deliver, LoseConnection, vars, mqVars
<1> QED BY <1>1, <1>2, <1>3, <1>4 DEF Next, Process

\* On a dead session nothing is acked, and nothing is delivered.
LEMMA DeadHolds ==
  ASSUME TypeInv, Dead, [Next]_vars
  PROVE  acked' = acked /\ Range(Held') \subseteq Range(Held)
<1>1. HeldStep
  BY EveryHeldStep
<1>2. CASE Quiet
  BY <1>2 DEF Quiet, queueSets
<1>3. CASE Opens \/ \E m \in Msgs : Delivers(m)
  BY <1>3 DEF Opens, Delivers, Deliver, Dead
<1>4. CASE \E m \in Msgs : Arrives(m)
  BY <1>4 DEF Arrives, Arrive
<1>5. CASE Ends
  <2>1. acked' = acked
    BY <1>5 DEF Ends, SessionEnds
  <2>2. Range(<<>>) = {}
    BY DEF Range
  <2> QED BY <1>5, <2>1, <2>2 DEF Ends
<1>6. CASE Settles
  <2>1. acked' = acked
    BY <1>6 DEF Settles, AckMessage, NackMessage, Dead, queueVars
  <2>2. Held \in Seq(Msgs) /\ Held # <<>> /\ Held' = Tail(Held)
    BY <1>6, HeldType DEF Settles
  <2>3. Range(Tail(Held)) \subseteq Range(Held)
    <3>1. Tail(Held) \in Seq(Msgs) /\ Len(Tail(Held)) = Len(Held) - 1 /\ Len(Held) \in Nat \ {0}
      BY <2>2, HeadTailProperties, EmptySeq
    <3>2. ASSUME NEW e \in Range(Tail(Held))
          PROVE  e \in Range(Held)
      <4>1. PICK i \in 1..Len(Tail(Held)) : Tail(Held)[i] = e
        BY <3>1, RangeByIndex
      <4>2. i + 1 \in 1..Len(Held) /\ Held[i + 1] = e
        BY <2>2, <3>1, <4>1
      <4> QED BY <2>2, <4>2, RangeByIndex
    <3> QED BY <3>2
  <2> QED BY <2>1, <2>2, <2>3
<1> QED BY <1>1, <1>2, <1>3, <1>4, <1>5, <1>6 DEF HeldStep

\* The database is written only for a message that is held.
LEMMA WritersHold ==
  ASSUME TypeInv, Held = <<>>, [Next]_vars
  PROVE  UNCHANGED dbVars
<1>1. pc \notin Processing
  <2>1. SUFFICES ASSUME pc \in Processing PROVE FALSE
    OBVIOUS
  <2>2. messages # <<>> /\ messages \in Seq(Msgs)
    BY <2>1, CurrentType
  <2>3. inbox \o wire \in Seq(Msgs) /\ Held = messages \o (inbox \o wire)
    BY HeldType, ConcatProperties, ConcatAssociative DEF Held
  <2> QED BY <2>2, <2>3, DropFirst
<1>2. ~Handle
  BY <1>1 DEF Handle, RejectGarbage, DropIncomplete, DropUnknownDevice, RowAlreadyExists,
         InsertRefused, AckStored, LookupFails, InsertFails, UpdateFails, UpsertFails,
         DeviceFound, InsertRow, UpdateDevice, UpsertGateway, Parsed, Processing
<1>3. CASE StartUp \/ Kill \/ ReadBatch \/ Environment \/ UNCHANGED vars
  BY <1>3 DEF StartUp, Start, ConnectBroker, ConnectPostgres, ConnectPostgresFails, Kill,
         Exit, ReadBatch, Declare, Subscribe, Poll, Cancel, Wake, Environment, vars
<1> QED BY <1>2, <1>3 DEF Next, Process

\* After its channel was closed or its connection lost, the Consumer acks nothing,
\* is delivered nothing, and stops storing when it has nothing left, until its
\* process ends (LavinMQ.cpp:95, 210-221, main.cpp:122-128).
THEOREM OutageCorrect == Spec => OutageEndsWithRestart
<1>1. ASSUME TypeInv, [Next]_vars
      PROVE  Dead =>
               /\ acked' = acked /\ Range(Held') \subseteq Range(Held)
               /\ Held = <<>> => UNCHANGED dbVars
               /\ link' # "open" /\ (link' = "none" => pc' = "down")
  BY <1>1, DeadStays, DeadHolds, WritersHold
<1> QED BY <1>1, TypeInit, TypeStep, PTL DEF Spec, OutageEndsWithRestart, Dead

-----------------------------------------------------------------------------

\* A message is stored step by step only while the pqxx connection is up.
PgInv == pc \in {"insert", "update", "gateways"} => pg = "up"

\* The end of a message leaves the statements that need the connection.
LEMMA SettlePg ==
  ASSUME Ack \/ Nack
  PROVE  pc' \notin {"insert", "update", "gateways"}
BY DEF Ack, Nack, NextMessage

\* PgInv, and what happens to the rows and the acks while the connection is down.
LEMMA PgStep ==
  ASSUME TypeInv, PgInv, [Next]_vars
  PROVE  /\ PgInv'
         /\ pg = "down" => UNCHANGED dbVars
         /\ pg' = "down" =>
              \A m \in acked' \ acked : Uplink[m].kind \in {"no_eui", "no_time"}
<1>1. CASE StartUp \/ Kill \/ ReadBatch \/ Environment \/ UNCHANGED vars
  <2>1. UNCHANGED dbVars /\ acked' = acked
    BY <1>1 DEF StartUp, Start, ConnectBroker, Connect, ConnectFails, ConnectPostgres,
         ConnectPostgresFails, Kill, Exit, Disconnect, SessionEnds, ReadBatch, Declare,
         DeclarePassive, DeclareMissing, CallFails, Subscribe, Consume, Poll, PollInbox,
         PollWire, PollNothing, Cancel, CancelConsumer, Wake, Environment, SetupQueue,
         Arrive, Deliver, LoseConnection, mqVars, queueVars, vars
  <2>2. PgInv'
    BY <1>1 DEF PgInv, StartUp, Start, ConnectBroker, ConnectPostgres,
         ConnectPostgresFails, Kill, Exit, ReadBatch, Declare, Subscribe, Poll, Cancel,
         Wake, Environment, procVars, vars
  <2> QED BY <2>1, <2>2
<1>2. CASE DeviceFound \/ InsertRow \/ UpdateDevice \/ UpsertGateway
  <2>1. pg = "up" /\ pg' = "up"
    BY <1>2 DEF DeviceFound, InsertRow, UpdateDevice, UpsertGateway
  <2> QED BY <2>1 DEF PgInv
<1>3. CASE RejectGarbage \/ InsertRefused \/ LookupFails \/ InsertFails \/ UpdateFails \/ UpsertFails
  <2>1. Nack
    BY <1>3 DEF RejectGarbage, InsertRefused, LookupFails, InsertFails, UpdateFails, UpsertFails
  <2>2. acked' = acked /\ PgInv'
    BY <2>1, AckedStep, SettlePg DEF PgInv
  <2>3. pg = "down" => UNCHANGED dbVars
    BY <1>3 DEF RejectGarbage, InsertRefused, LookupFails, InsertFails, UpdateFails,
                UpsertFails, PgInv, dbVars
  <2> QED BY <2>2, <2>3
<1>4. CASE DropUnknownDevice \/ RowAlreadyExists \/ AckStored
  <2>1. Ack /\ pg = "up" /\ pg' = "up" /\ UNCHANGED dbVars
    BY <1>4 DEF DropUnknownDevice, RowAlreadyExists, AckStored, PgInv
  <2> QED BY <2>1, SettlePg DEF PgInv
<1>5. CASE DropIncomplete
  <2>1. Ack /\ UNCHANGED dbVars /\ Uplink[current].kind \in {"no_eui", "no_time"}
    BY <1>5 DEF DropIncomplete
  <2>2. acked' \subseteq acked \cup {current}
    BY <2>1, AckedStep
  <2> QED BY <2>1, <2>2, SettlePg DEF PgInv
<1> QED BY <1>1, <1>2, <1>3, <1>4, <1>5 DEF Next, Process, Handle

\* The invariant holds in every reachable state.
LEMMA PgCorrect == Spec => []PgInv
<1>1. Init => PgInv
  BY DEF Init, PgInv
<1>2. TypeInv /\ PgInv /\ [Next]_vars => PgInv'
  BY PgStep
<1> QED BY <1>1, <1>2, TypeInit, TypeStep, PTL DEF Spec

\* Whatever the process is doing when the PostgreSQL connection breaks, it acks
\* nothing that would have needed an answer (main.cpp:241-252, 334-346).
THEOREM PostgresCorrect == Spec => NoAnswerWithoutPostgres
<1>1. ASSUME TypeInv, PgInv, [Next]_vars
      PROVE  /\ pg = "down" => UNCHANGED dbVars
             /\ pg' = "down" =>
                  \A m \in acked' \ acked : Uplink[m].kind \in {"no_eui", "no_time"}
  BY <1>1, PgStep
<1> QED BY <1>1, PgCorrect, TypeInit, TypeStep, PTL DEF Spec, NoAnswerWithoutPostgres

-----------------------------------------------------------------------------
(* What an ack means *)

\* Faults that end connections and nothing else, and uplinks that are one and the same
\* where they have the same key.
OnlyOutages == Faults \cap {"kill", "txn"} = {}
KeysTell    ==
  \A k, m \in Msgs :
    Uplink[k].kind = "good" /\ Uplink[m].kind = "good" /\ Key(k) = Key(m) => Uplink[k] = Uplink[m]

GatewayRows(m, n) ==
  \A i \in 1..n : cwGateway[<<DeviceOf(m), GatewaysOf(m)[i]>>] # 0

\* All rows of a message are there.
Whole(m) ==
  /\ Key(m) \in air /\ cwDevice[DeviceOf(m)] # 0
  /\ GatewayRows(m, Len(GatewaysOf(m)))

\* The message being handled is the one whose reading is recorded while rows of it are
\* missing.
Unfinished(m) ==
  /\ pc \in {"update", "gateways"} /\ Uplink[current] = Uplink[m]
  /\ pc = "gateways" => cwDevice[DeviceOf(m)] # 0 /\ GatewayRows(m, gw - 1)

\* Rows may be missing: an earlier attempt at the key failed, or had another content.
Excused(m) ==
  \E k \in Published :
    /\ Uplink[k].kind = "good" /\ Key(k) = Key(m)
    /\ Uplink[k] # Uplink[m] \/ (~OnlyOutages /\ k \in redelivered)

\* The process has lost PostgreSQL, and then has it back only after a kill.
Broken == pg = "down" /\ pc \notin {"down", "connect", "pgconnect"}

Entry(m) ==
  Key(m) \in air =>
    Whole(m) \/ Unfinished(m) \/ Excused(m) \/ (OnlyOutages /\ Broken)

\* Without a session all that the process still holds has gone back to the queue.
Outstanding == link # "open" => Range(Held) \subseteq redelivered

\* What is stored is good and counted from its first gateway, and a recorded reading is
\* whole, being completed, or excused; whole or excused where it was acked.
Storing ==
  /\ pc \in {"update", "gateways"} => Uplink[current].kind = "good"
  /\ pc # "gateways" => gw = 1
  /\ pc = "gateways" => gw <= Len(GatewaysOf(current)) + 1
  /\ \A m \in Msgs : Uplink[m].kind = "good" =>
       Entry(m) /\ (m \in acked => Whole(m) \/ Excused(m))

LEMMA StoringInit == Init => Storing /\ Outstanding
<1>1. Init => Held = <<>>
  BY EmptySeq, ConcatEmptySeq DEF Init, MqInit, Held
<1>2. Init => Outstanding
  BY <1>1 DEF Outstanding, Range
<1> QED BY <1>2 DEF Init, MqInit, Storing, Entry

\* No message leaves the broker's books, and none forgets that it was taken back.
LEMMA BooksGrow ==
  ASSUME TypeInv, QueueInv, HeldStep
  PROVE  Published \subseteq Published' /\ redelivered \subseteq redelivered'
<1>1. CASE Quiet \/ Opens \/ Ends
  BY <1>1 DEF Quiet, Opens, Ends, queueSets, SessionEnds, Requeue, Published
<1>2. CASE Settles
  BY <1>2, TagsKnown
     DEF QueueInv, Settles, AckMessage, NackMessage, Requeue, queueVars, Published
<1>3. ASSUME NEW m \in Msgs, Arrives(m) \/ Delivers(m)
      PROVE  Published \subseteq Published' /\ redelivered \subseteq redelivered'
  BY <1>3 DEF Arrives, Delivers, Arrive, Deliver, Published
<1> QED BY <1>1, <1>2, <1>3 DEF HeldStep

LEMMA OutstandingStep ==
  ASSUME TypeInv, QueueInv, Outstanding, HeldStep
  PROVE  Outstanding'
<1> USE DEF Outstanding
<1>1. CASE Quiet \/ Opens
  <2>1. link = "none" => Held = <<>>
    BY DEF QueueInv, Custody
  <2> QED BY <1>1, <2>1 DEF Quiet, Opens, queueSets, Range
<1>2. CASE Ends
  <2>1. CASE Held' = <<>>
    BY <2>1 DEF Range
  <2>2. CASE Held' = Held
    BY <1>2, <2>2 DEF Ends, SessionEnds, Requeue, QueueInv, Custody, NoLeakedDelivery
  <2> QED BY <1>2, <2>1, <2>2 DEF Ends
<1>3. CASE Settles
  BY <1>3, TagsKnown DEF QueueInv, Settles, AckMessage, NackMessage, Requeue, queueVars
<1>4. ASSUME NEW m \in Msgs, Arrives(m) \/ Delivers(m)
      PROVE  Outstanding'
  BY <1>4 DEF Arrives, Delivers, Arrive, Deliver
<1> QED BY <1>1, <1>2, <1>3, <1>4 DEF HeldStep

\* Whatever ends the handling of a message without an ack puts it back.
LEMMA AttemptRequeued ==
  ASSUME TypeInv, QueueInv, Outstanding, pc \in Processing, Kill \/ Nack
  PROVE  current \in redelivered' /\ current \in Published'
<1>1. current \in Range(Held) /\ (link = "open" => current \in unacked)
  BY CurrentIsFirst DEF QueueInv, Custody, NoLeakedDelivery
<1>2. current \in ready \cup unacked
  BY CurrentPending DEF pending
<1>3. CASE Kill
  BY <1>1, <1>2, <1>3 DEF Outstanding, Kill, Exit, Disconnect, SessionEnds, Requeue, Published
<1>4. CASE Nack
  BY <1>1, <1>2, <1>4 DEF Outstanding, Nack, NackMessage, Requeue, queueVars, Published
<1> QED BY <1>3, <1>4

\* No row is ever taken away.
LEMMA RowsStay ==
  ASSUME TypeInv, [Next]_vars, NEW m \in Msgs
  PROVE  /\ Key(m) \in air => Key(m) \in air'
         /\ cwDevice[DeviceOf(m)] # 0 => cwDevice'[DeviceOf(m)] # 0
         /\ \A i \in 1..Len(GatewaysOf(m)) :
              LET row == <<DeviceOf(m), GatewaysOf(m)[i]>>
              IN cwGateway[row] # 0 => cwGateway'[row] # 0
<1>1. CASE UNCHANGED dbVars
  BY <1>1 DEF dbVars
<1>2. CASE pc \in Processing /\ Handle
  <2>1. /\ current \in Msgs /\ current # 0 /\ DeviceOf(current) \in Devices
        /\ DeviceOf(m) \in Devices
    BY <1>2, CurrentType, UplinkType, MsgsAssumption
  <2>2. CASE /\ UNCHANGED <<cwDevice, cwGateway>>
             /\ air' \in {air, air \cup {Key(current)}}
    BY <2>2
  <2>3. CASE WriteDevice /\ UNCHANGED <<air, cwGateway>>
    BY <2>1, <2>3 DEF WriteDevice, TypeInv, TypeOK
  <2>4. CASE WriteGateway /\ UNCHANGED <<air, cwDevice>>
    <3>1. \A d \in Devices, g \in Gateways :
            cwGateway[<<d, g>>] # 0 => cwGateway'[<<d, g>>] # 0
      BY <2>1, <2>4 DEF WriteGateway, TypeInv, TypeOK
    <3>2. \A i \in 1..Len(GatewaysOf(m)) : GatewaysOf(m)[i] \in Gateways
      BY UplinkType, ElementOfSeq
    <3> QED BY <2>1, <2>4, <3>1, <3>2
  <2> QED BY <1>1, <1>2, <2>2, <2>3, <2>4
          DEF Handle, RejectGarbage, DropIncomplete, DeviceFound, DropUnknownDevice,
              LookupFails, InsertRow, RowAlreadyExists, InsertRefused, InsertFails,
              UpdateDevice, UpdateFails, UpsertGateway, UpsertFails, AckStored, dbVars
<1>3. CASE StartUp \/ Kill \/ ReadBatch \/ Environment \/ UNCHANGED vars
  <2>1. UNCHANGED dbVars
    BY <1>3 DEF StartUp, Start, ConnectBroker, ConnectPostgres, ConnectPostgresFails, Kill,
       Exit, ReadBatch, Declare, Subscribe, Poll, Cancel, Wake, Environment, vars
  <2> QED BY <1>1, <2>1
<1>4. Handle => pc \in Processing
  BY DEF Handle, RejectGarbage, DropIncomplete, DropUnknownDevice, RowAlreadyExists,
         InsertRefused, AckStored, LookupFails, InsertFails, UpdateFails, UpsertFails,
         DeviceFound, InsertRow, UpdateDevice, UpsertGateway, Parsed, Processing
<1> QED BY <1>2, <1>3, <1>4 DEF Next, Process

\* What is whole stays so, and what is excused.
LEMMA WholeStays ==
  ASSUME TypeInv, QueueInv, [Next]_vars, NEW m \in Msgs
  PROVE  /\ Whole(m) => Whole(m)'
         /\ Excused(m) => Excused(m)'
<1>1. Whole(m) => Whole(m)'
  BY RowsStay DEF Whole, GatewayRows
<1>2. Excused(m) => Excused(m)'
  BY EveryHeldStep, BooksGrow DEF Excused
<1> QED BY <1>1, <1>2

\* Nothing opens the connection again, and only a kill leads out of the main loop.
LEMMA BrokenStays ==
  ASSUME OnlyOutages, Broken, [Next]_vars
  PROVE  Broken'
<1> USE DEF Broken
<1>1. CASE StartUp \/ Kill \/ Environment \/ UNCHANGED vars
  BY <1>1 DEF OnlyOutages, StartUp, Start, ConnectBroker, ConnectPostgres,
     ConnectPostgresFails, Kill, Environment, procVars, vars
<1>2. CASE ReadBatch
  BY <1>2 DEF ReadBatch, Declare, Subscribe, Poll, Cancel, Wake
<1>3. CASE Handle
  BY <1>3 DEF Handle, RejectGarbage, DropIncomplete, DropUnknownDevice, RowAlreadyExists,
     InsertRefused, AckStored, LookupFails, InsertFails, UpdateFails, UpsertFails,
     DeviceFound, InsertRow, UpdateDevice, UpsertGateway, Ack, Nack, NextMessage,
     TxnThrows, CommitInDoubt
<1> QED BY <1>1, <1>2, <1>3 DEF Next, Process

\* Steps away from the rows.
LEMMA StoringCalm ==
  ASSUME TypeInv, QueueInv, [Next]_vars, Storing, UNCHANGED <<dbVars, acked>>,
         \/ UNCHANGED <<pc, pg, gw, messages>>
         \/ pc \notin {"update", "gateways"} /\ pc' \notin {"update", "gateways"} /\ gw' = 1
  PROVE  Storing'
<1>1. ASSUME NEW m \in Msgs, Uplink[m].kind = "good"
      PROVE  Entry(m)' /\ (m \in acked' => Whole(m)' \/ Excused(m)')
  <2>1. /\ Entry(m) /\ (m \in acked => Whole(m) \/ Excused(m))
    BY <1>1 DEF Storing
  <2>2. Unfinished(m) => Unfinished(m)'
    BY DEF Unfinished, GatewayRows, dbVars, current
  <2> QED BY <2>1, <2>2, WholeStays, BrokenStays DEF Entry, dbVars
<1> QED BY <1>1 DEF Storing, current

\* Killed: the message being handled is put back.
LEMMA StoringKilled ==
  ASSUME TypeInv, QueueInv, Outstanding, Storing, [Next]_vars, Kill
  PROVE  Storing'
<1>1. /\ pc' = "down" /\ gw' = 1 /\ UNCHANGED <<dbVars, acked>> /\ ~OnlyOutages
  BY DEF Kill, Exit, Disconnect, SessionEnds, OnlyOutages
<1>2. ASSUME NEW m \in Msgs, Uplink[m].kind = "good"
      PROVE  Entry(m)' /\ (m \in acked' => Whole(m)' \/ Excused(m)')
  <2>1. Entry(m) /\ (m \in acked => Whole(m) \/ Excused(m))
    BY <1>2 DEF Storing
  <2>2. Unfinished(m) => Excused(m)'
    <3>1. Unfinished(m) =>
            pc \in Processing /\ Key(current) = Key(m) /\ Uplink[current].kind = "good"
      BY <1>2 DEF Unfinished, Processing, Key
    <3> QED BY <1>1, <3>1, AttemptRequeued DEF Excused
  <2> QED BY <1>1, <2>1, <2>2, WholeStays DEF Entry, dbVars
<1> QED BY <1>1, <1>2 DEF Storing

LEMMA StoringElsewhere ==
  ASSUME TypeInv, QueueInv, Outstanding, Storing, [Next]_vars,
         StartUp \/ Kill \/ ReadBatch \/ Environment \/ UNCHANGED vars
  PROVE  Storing'
<1>1. UNCHANGED <<dbVars, acked>>
  BY DEF StartUp, Start, ConnectBroker, Connect, ConnectFails, ConnectPostgres,
         ConnectPostgresFails, Kill, Exit, Disconnect, SessionEnds, ReadBatch, Declare,
         DeclarePassive, DeclareMissing, CallFails, Subscribe, Consume, Poll, PollInbox,
         PollWire, PollNothing, Cancel, CancelConsumer, Wake, Environment, SetupQueue,
         Arrive, Deliver, LoseConnection, mqVars, queueVars, vars
<1>2. CASE Kill
  BY <1>2, StoringKilled
<1>3. CASE StartUp \/ ReadBatch
  <2>1. /\ pc \notin {"update", "gateways"} /\ pc' \notin {"update", "gateways"}
        /\ gw' \in {gw, 1}
    BY <1>3 DEF StartUp, Start, ConnectBroker, ConnectPostgres, ConnectPostgresFails,
         Exit, ReadBatch, Declare, Subscribe, Poll, Cancel, Wake
  <2> QED BY <1>1, <2>1, StoringCalm DEF Storing
<1>4. CASE Environment \/ UNCHANGED vars
  <2>1. UNCHANGED <<pc, pg, gw, messages>>
    BY <1>4 DEF Environment, SetupQueue, Arrive, Deliver, LoseConnection, procVars,
         readVars, vars, mqVars
  <2> QED BY <1>1, <2>1, StoringCalm
<1> QED BY <1>2, <1>3, <1>4

\* A transaction that throws: the attempt is put back, or the connection is gone.
LEMMA StoringFail ==
  ASSUME TypeInv, QueueInv, Outstanding, Storing, [Next]_vars,
         LookupFails \/ InsertFails \/ UpdateFails \/ UpsertFails
  PROVE  Storing'
<1>1. /\ Nack /\ pc \in Processing /\ (TxnThrows \/ CommitInDoubt)
      /\ \/ air' = air
         \/ air' = air \cup {Key(current)} /\ Uplink[current].kind = "good"
  BY DEF LookupFails, Parsed, InsertFails, Insertable, UpdateFails, UpsertFails,
         Processing, dbVars
<1>2. OnlyOutages => pg' = "down"
  BY <1>1 DEF OnlyOutages, TxnThrows, CommitInDoubt
<1>3. acked' = acked /\ gw' = 1 /\ pc' \in {"declare", "message"}
  BY <1>1, AckedStep, SettleType
<1>4. /\ OnlyOutages => Broken'
      /\ \A m \in Msgs : Uplink[current].kind = "good" /\ Key(m) = Key(current) =>
           OnlyOutages \/ Excused(m)'
  BY <1>1, <1>2, <1>3, AttemptRequeued DEF Excused, Broken
<1>5. ASSUME NEW m \in Msgs, Uplink[m].kind = "good"
      PROVE  Entry(m)' /\ (m \in acked' => Whole(m)' \/ Excused(m)')
  <2>1. Entry(m) /\ (m \in acked => Whole(m) \/ Excused(m))
    BY <1>5 DEF Storing
  <2>2. Unfinished(m) => Uplink[current].kind = "good" /\ Key(m) = Key(current)
    BY <1>5 DEF Unfinished, Key
  <2> QED BY <1>1, <1>3, <1>4, <2>1, <2>2, WholeStays DEF Entry
<1> QED BY <1>3, <1>5 DEF Storing

\* The steps that settle a message.
LEMMA StoringSettle ==
  ASSUME TypeInv, QueueInv, Stored, PgInv, Storing, [Next]_vars,
         \/ RejectGarbage \/ DropIncomplete \/ DropUnknownDevice
         \/ RowAlreadyExists \/ InsertRefused \/ AckStored
  PROVE  Storing'
<1>1. /\ pc \in Processing /\ UNCHANGED <<pg, dbVars>>
      /\ gw' = 1 /\ pc' \in {"declare", "message"}
      /\ acked' \subseteq acked \cup {current}
  <2>1. (Ack \/ Nack) /\ pc \in Processing /\ UNCHANGED <<pg, dbVars>>
    BY DEF RejectGarbage, DropIncomplete, DropUnknownDevice, Parsed, RowAlreadyExists,
           InsertRefused, AckStored, Processing
  <2> QED BY <2>1, SettleType, AckedStep
<1>2. ASSUME NEW m \in Msgs, Uplink[m].kind = "good", Key(m) \in air
      PROVE  Whole(m) \/ Excused(m) \/ (OnlyOutages /\ Broken)
  <2>1. CASE ~Unfinished(m)
    BY <1>2, <2>1 DEF Storing, Entry
  <2>2. CASE Unfinished(m)
    <3>1. pc = "gateways" /\ ~MoreGateways
      BY <2>2 DEF Unfinished, RejectGarbage, DropIncomplete, DropUnknownDevice, Parsed,
                  RowAlreadyExists, InsertRefused, AckStored
    <3>2. /\ GatewaysOf(current) = GatewaysOf(m)
          /\ cwDevice[DeviceOf(m)] # 0 /\ GatewayRows(m, gw - 1)
      BY <2>2, <3>1 DEF Unfinished, GatewaysOf
    <3>3. gw - 1 = Len(GatewaysOf(m))
      <4>1. Len(GatewaysOf(m)) \in Nat /\ gw \in Nat /\ gw <= Len(GatewaysOf(m)) + 1
        BY <3>1, <3>2, UplinkType DEF Storing, TypeInv, TypeOK
      <4> QED BY <3>1, <3>2, <4>1 DEF MoreGateways
    <3> QED BY <1>2, <3>2, <3>3 DEF Whole
  <2> QED BY <2>1, <2>2
<1>3. current \in Msgs
  BY <1>1, CurrentType
<1>4. ASSUME NEW m \in Msgs, Uplink[m].kind = "good", m \in acked'
      PROVE  Whole(m) \/ Excused(m)
  <2>1. CASE m \in acked
    BY <1>4, <2>1 DEF Storing
  <2>2. CASE m = current /\ m \notin acked
    <3>1. Key(m) \in air /\ ~Broken
      <4>1. CASE RowAlreadyExists \/ AckStored
        BY <2>2, <4>1 DEF RowAlreadyExists, AckStored, Stored, Progress, PgInv, Broken
      <4>2. CASE RejectGarbage \/ InsertRefused
        BY <1>4, <2>2, <4>2, AckedStep DEF RejectGarbage, InsertRefused
      <4>3. CASE DropIncomplete \/ DropUnknownDevice
        BY <1>4, <2>2, <4>3 DEF DropIncomplete, DropUnknownDevice
      <4> QED BY <4>1, <4>2, <4>3
    <3> QED BY <1>2, <1>4, <3>1
  <2> QED BY <1>1, <1>4, <2>1, <2>2
<1>5. \A m \in Msgs : Uplink[m].kind = "good" =>
        Entry(m)' /\ (m \in acked' => Whole(m)' \/ Excused(m)')
  BY <1>1, <1>2, <1>4, WholeStays, BrokenStays DEF dbVars, Entry
<1> QED BY <1>1, <1>5 DEF Storing, Processing

\* The transactions that commit.
LEMMA StoringStore ==
  ASSUME TypeInv, QueueInv, Storing, [Next]_vars,
         DeviceFound \/ InsertRow \/ UpdateDevice \/ UpsertGateway
  PROVE  Storing'
<1>1. /\ pc \in Processing /\ UNCHANGED <<mqVars, pg>>
      /\ pc' \in Processing /\ pg = "up" /\ ~Broken
  BY DEF DeviceFound, Parsed, InsertRow, UpdateDevice, UpsertGateway, Processing, Broken
<1>2. /\ current \in Msgs /\ current' = current /\ acked' = acked
      /\ gw \in Nat /\ current # 0
  BY <1>1, CurrentType, MsgsAssumption DEF mqVars, queueVars, readVars, current, TypeInv, TypeOK
<1>3. /\ Key(current) \in Devices \X Nat /\ DeviceOf(current) \in Devices
      /\ GatewaysOf(current) \in Seq(Gateways) /\ Len(GatewaysOf(current)) \in Nat
  BY <1>2, UplinkType
<1>4. \A m \in Msgs : (Whole(m) => Whole(m)') /\ (Excused(m) => Excused(m)')
  BY WholeStays
<1>5. CASE DeviceFound
  BY <1>1, <1>2, <1>5, StoringCalm DEF DeviceFound, Parsed, Storing, mqVars, queueVars
<1>6. CASE InsertRow
  <2>1. /\ pc = "insert" /\ pc' = "update" /\ gw' = gw /\ Uplink[current].kind = "good"
        /\ air' = air \cup {Key(current)}
    BY <1>6 DEF InsertRow, Insertable
  <2>2. ASSUME NEW m \in Msgs, Uplink[m].kind = "good", Key(m) \in air'
        PROVE  Whole(m)' \/ Unfinished(m)' \/ Excused(m)'
    <3>1. CASE Key(m) \in air
      BY <1>1, <1>4, <2>1, <2>2, <3>1 DEF Storing, Entry, Unfinished
    <3>2. CASE Key(m) = Key(current)
      <4>1. CASE Uplink[m] = Uplink[current]
        BY <1>2, <2>1, <4>1 DEF Unfinished
      <4>2. CASE Uplink[m] # Uplink[current]
        <5>1. current \in Published'
          BY <1>1, CurrentPending DEF mqVars, queueVars, Published, pending
        <5> QED BY <1>2, <2>1, <3>2, <4>2, <5>1 DEF Excused
      <4> QED BY <4>1, <4>2
    <3> QED BY <2>1, <2>2, <3>1, <3>2
  <2> QED BY <1>1, <1>2, <1>4, <2>1, <2>2 DEF Storing, Entry
<1>7. CASE UpdateDevice
  <2>1. /\ pc = "update" /\ pc' = "gateways" /\ gw' = gw /\ gw = 1 /\ WriteDevice
        /\ UNCHANGED <<air, cwGateway>>
    BY <1>7 DEF UpdateDevice, Storing
  <2>2. ASSUME NEW m \in Msgs, Uplink[m].kind = "good", Key(m) \in air'
        PROVE  Whole(m)' \/ Unfinished(m)' \/ Excused(m)'
    <3>1. CASE Whole(m) \/ Excused(m)
      BY <1>4, <3>1
    <3>2. CASE Unfinished(m)
      <4>1. DeviceOf(m) = DeviceOf(current) /\ Uplink[current] = Uplink[m]
        BY <3>2 DEF Unfinished, DeviceOf
      <4>2. cwDevice'[DeviceOf(m)] # 0
        BY <1>2, <1>3, <2>1, <4>1 DEF WriteDevice, TypeInv, TypeOK
      <4>3. GatewayRows(m, gw - 1)'
        BY <2>1 DEF GatewayRows
      <4> QED BY <1>2, <2>1, <4>1, <4>2, <4>3 DEF Unfinished
    <3> QED BY <1>1, <2>1, <2>2, <3>1, <3>2 DEF Storing, Entry
  <2> QED BY <1>1, <1>2, <1>3, <1>4, <2>1, <2>2 DEF Storing, Entry
<1>8. CASE UpsertGateway
  <2>1. /\ pc = "gateways" /\ pc' = "gateways" /\ gw' = gw + 1 /\ MoreGateways
        /\ WriteGateway /\ UNCHANGED <<air, cwDevice>>
    BY <1>8 DEF UpsertGateway
  <2>2. ASSUME NEW m \in Msgs, Uplink[m].kind = "good", Key(m) \in air'
        PROVE  Whole(m)' \/ Unfinished(m)' \/ Excused(m)'
    <3>1. CASE Whole(m) \/ Excused(m)
      BY <1>4, <3>1
    <3>2. CASE Unfinished(m)
      <4>1. /\ DeviceOf(m) = DeviceOf(current) /\ GatewaysOf(m) = GatewaysOf(current)
            /\ Uplink[current] = Uplink[m] /\ cwDevice[DeviceOf(m)] # 0
            /\ GatewayRows(m, gw - 1)
        BY <2>1, <3>2 DEF Unfinished, DeviceOf, GatewaysOf
      <4>2. /\ gw \in 1..Len(GatewaysOf(m))
            /\ \A i \in 1..(gw - 1) : cwGateway'[<<DeviceOf(m), GatewaysOf(m)[i]>>] # 0
        <5>1. gw \in 1..Len(GatewaysOf(m))
          BY <1>3, <2>1, <4>1 DEF MoreGateways, TypeInv, TypeOK
        <5>2. 1..(gw - 1) \subseteq 1..Len(GatewaysOf(m))
          BY <1>3, <4>1, <5>1
        <5> QED BY <4>1, <5>1, <5>2, RowsStay DEF GatewayRows
      <4>3. cwGateway'[<<DeviceOf(m), GatewaysOf(m)[gw]>>] # 0
        <5>1. GatewaysOf(m)[gw] \in Gateways
          BY <1>3, <2>1, <4>1, ElementOfSeq DEF MoreGateways, TypeInv, TypeOK
        <5> QED BY <1>2, <1>3, <2>1, <4>1, <5>1 DEF WriteGateway, TypeInv, TypeOK
      <4>4. \A i \in 1..gw : cwGateway'[<<DeviceOf(m), GatewaysOf(m)[i]>>] # 0
        BY <1>2, <4>2, <4>3
      <4>5. /\ gw = gw' - 1 /\ cwDevice'[DeviceOf(m)] # 0
            /\ Uplink[current'] = Uplink[m]
        BY <1>2, <2>1, <4>1
      <4> QED BY <2>1, <4>4, <4>5 DEF Unfinished, GatewayRows
    <3> QED BY <1>1, <2>1, <2>2, <3>1, <3>2 DEF Storing, Entry
  <2>3. gw' <= Len(GatewaysOf(current)) + 1
    BY <1>2, <1>3, <2>1 DEF MoreGateways
  <2> QED BY <1>1, <1>2, <1>3, <1>4, <2>1, <2>2, <2>3 DEF Storing, Entry
<1> QED BY <1>5, <1>6, <1>7, <1>8

LEMMA StoringStep ==
  ASSUME TypeInv, QueueInv, Stored, PgInv, Storing /\ Outstanding, [Next]_vars
  PROVE  (Storing /\ Outstanding)'
<1>1. Storing'
  BY StoringElsewhere, StoringSettle, StoringStore, StoringFail DEF Next, Process, Handle
<1>2. Outstanding'
  BY EveryHeldStep, OutstandingStep
<1> QED BY <1>1, <1>2

\* What Storing says of an acked reading, in terms of the tables.
LEMMA AckedRows ==
  ASSUME TypeInv, Storing, NEW m \in acked, Uplink[m].kind = "good"
  PROVE  RowsStored(m) \/ Excused(m)
<1>1. m \in Msgs
  BY DEF TypeInv, TypeOK, MqTypeOK
<1>2. DOMAIN GatewaysOf(m) = 1..Len(GatewaysOf(m))
  BY <1>1, UplinkType
<1> QED BY <1>1, <1>2 DEF Storing, Whole, GatewayRows, RowsStored

\* Whatever fails, a message that is handled once is stored whole when it is acked:
\* where rows are missing, an attempt at the same key went back to the queue, or
\* the key was recorded for another content (main.cpp:270-346).
THEOREM RowsMissingCorrect == Spec => []RowsMissingOnlyAfterRequeue
<1>1. TypeInv /\ Storing => RowsMissingOnlyAfterRequeue
  BY AckedRows DEF RowsMissingOnlyAfterRequeue, Excused
<1> QED BY <1>1, TypeInit, TypeStep, CustodyInit, QueueStep, StoredInit, StoredStep,
        PgCorrect, StoringInit, StoringStep, PTL DEF Spec

\* Where no single transaction fails and the process is not killed, an ack means what
\* main.cpp:338-339 says it means: all that the message carries is stored, whatever
\* happens to both connections and however often the message is redelivered.  A commit
\* in doubt does no harm, as the process that met it never reaches PostgreSQL again.
\* Each of the two faults breaks it, as the run acked_means_stored shows for one.
THEOREM AckedStoredCorrect ==
  ASSUME OnlyOutages, KeysTell
  PROVE  Spec => []AckedMeansStored
<1>1. TypeInv /\ Storing /\ Stored => AckedMeansStored
  <2> SUFFICES ASSUME TypeInv, Storing, Stored, NEW m \in acked, Uplink[m].kind = "good"
               PROVE  RowsStored(m)
    BY DEF AckedMeansStored
  <2>1. ~Excused(m)
    <3>1. m \in Msgs /\ Published \subseteq Msgs
      BY DEF TypeInv, TypeOK, MqTypeOK, Published
    <3> QED BY <3>1 DEF Excused, KeysTell
  <2> QED BY <2>1, AckedRows
<1> QED BY <1>1, TypeInit, TypeStep, CustodyInit, QueueStep, StoredInit, StoredStep,
        PgCorrect, StoringInit, StoringStep, PTL DEF Spec

=============================================================================
