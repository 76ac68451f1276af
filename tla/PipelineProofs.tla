--------------------------- MODULE PipelineProofs ---------------------------
(***************************************************************************)
(* Proofs about Pipeline, for every set of uplinks, every set of faults    *)
(* and every pair of files.                                                *)
(*                                                                         *)
(* The invariant relates the phase of the Producer to its loop thread      *)
(* (Phase), the channel to what the thread sends on it (Channel), and the  *)
(* messages of the Consumer to what the Producer has queued (Queued).      *)
(* From it every step is a step of Consumer or none at all, so that what   *)
(* ConsumerProofs shows of the Consumer alone holds of the pipeline.       *)
(* With one more, what the Consumer has came through the queue (Arrived),  *)
(* every step is one of Telemetry, or none.                                *)
(***************************************************************************)
EXTENDS Pipeline, ConsumerProofs

-----------------------------------------------------------------------------
(* The invariant *)

\* An uplink is received only when the main thread waits, with everything set.
Phase ==
  /\ main \in {"publisher", "queues", "construct", "callback", "connect", "loop", "wait"}
  /\ next = 1
  /\ received \in [{1} -> 0..NumUplinks]
  /\ work \in [{1} -> {"idle", "publish", "sending"}]
  /\ main # "wait" => looping = {} /\ work[1] = "idle" /\ received[1] = 0
  /\ main \in {"connect", "loop", "wait"} => 1 \in callback
  /\ main \in {"callback", "connect", "loop", "wait"} => instance = 1
  /\ work[1] # "idle" => received[1] > 0

\* What is sent on a channel that is left open is queued when it is complete.
Channel ==
  /\ connected \in BOOLEAN
  /\ main = "publisher" => amqp = "none"
  /\ main # "publisher" => amqp \in {"open", "closed"}
  /\ /\ main \notin {"publisher", "queues"} /\ connected /\ amqp = "open"
     /\ RoutingKey(producerFile) # ""
     => binding = RoutingKey(producerFile)
  /\ content \in {0, 1}
  /\ work[1] # "sending" \/ amqp # "open" => content = 0
  /\ work[1] = "sending" /\ amqp = "open" => content = 1

\* Where the two programs meet, each uplink queued is a message of the Consumer,
\* or one with its id is.
Queued ==
  Meets =>
    /\ queueExists = declared
    /\ Published \subseteq 1..received[1]
    /\ work[1] # "idle" => received[1] \notin Published
    /\ queue \in Seq({1} \X Msgs)
    /\ \A i \in DOMAIN queue : \E k \in Published : MessageId(k) = MessageId(queue[i][2])

Files == producerFile \in ProducerFiles /\ consumerFile \in ConsumerFiles

PipelineInv == Files /\ Phase /\ Channel /\ Queued

\* The files are never written.
LEMMA FilesStay ==
  ASSUME UNCHANGED fileVars
  PROVE  Meets' = Meets /\ RoutingKey(producerFile)' = RoutingKey(producerFile)
BY DEF fileVars, Meets, BothLoad, SameBroker, RoutingKey

-----------------------------------------------------------------------------
(* The Consumer publishes nothing *)

\* No step of the Consumer, nor of the broker by itself, changes what was published.
LEMMA ConsumerKeeps ==
  ASSUME \/ StartUp \/ Kill \/ ReadBatch \/ Handle \/ LoseConnection
         \/ \E m \in Msgs : Deliver(m)
  PROVE  Published' = Published
<1>1. CASE StartUp \/ Kill \/ ReadBatch \/ LoseConnection
  <2>1. SessionEnds \/ UNCHANGED queueSets
    BY <1>1 DEF StartUp, Start, ConnectBroker, Connect, ConnectFails, ConnectPostgres,
       ConnectPostgresFails, Kill, Exit, Disconnect, ReadBatch, Declare, DeclarePassive,
       DeclareMissing, CallFails, Subscribe, Consume, Poll, PollInbox, PollWire,
       PollNothing, Cancel, CancelConsumer, Wake, LoseConnection, mqVars, queueVars,
       queueSets
  <2> QED BY <2>1 DEF SessionEnds, Requeue, queueSets, Published
<1>2. CASE Handle
  <2>1. Ack \/ Nack \/ UNCHANGED mqVars
    BY <1>2 DEF Handle, RejectGarbage, DropIncomplete, DropUnknownDevice, Parsed,
       RowAlreadyExists, InsertRefused, AckStored, LookupFails, InsertFails, UpdateFails,
       UpsertFails, DeviceFound, InsertRow, UpdateDevice, UpsertGateway
  <2>2. CASE UNCHANGED mqVars
    BY <2>2 DEF mqVars, queueVars, Published
  <2>3. CASE Ack \/ Nack
    BY <2>3 DEF Ack, Nack, AckMessage, NackMessage, UnknownTag, SessionEnds, Requeue,
       queueVars, Published
  <2> QED BY <2>1, <2>2, <2>3
<1>3. CASE \E m \in Msgs : Deliver(m)
  BY <1>3 DEF Deliver, Published
<1> QED BY <1>1, <1>2, <1>3

\* Nor does it declare the queue.
LEMMA ConsumerDeclares ==
  ASSUME \/ StartUp \/ Kill \/ ReadBatch \/ Handle \/ LoseConnection
         \/ \E m \in Msgs : Deliver(m)
  PROVE  queueExists' = queueExists
<1>1. CASE StartUp \/ Kill \/ ReadBatch \/ LoseConnection
  BY <1>1 DEF StartUp, Start, ConnectBroker, Connect, ConnectFails, ConnectPostgres,
     ConnectPostgresFails, Kill, Exit, Disconnect, ReadBatch, Declare, DeclarePassive,
     DeclareMissing, CallFails, Subscribe, Consume, Poll, PollInbox, PollWire,
     PollNothing, Cancel, CancelConsumer, Wake, LoseConnection, mqVars, queueVars,
     SessionEnds
<1>2. CASE Handle
  BY <1>2 DEF Handle, RejectGarbage, DropIncomplete, DropUnknownDevice, Parsed,
     RowAlreadyExists, InsertRefused, AckStored, LookupFails, InsertFails, UpdateFails,
     UpsertFails, DeviceFound, InsertRow, UpdateDevice, UpsertGateway, Ack, Nack,
     AckMessage, NackMessage, UnknownTag, SessionEnds, mqVars, queueVars
<1>3. CASE \E m \in Msgs : Deliver(m)
  BY <1>3 DEF Deliver
<1> QED BY <1>1, <1>2, <1>3

\* The Consumer's part of the pipeline takes such steps and leaves the Producer alone.
LEMMA ConsumerSide ==
  ASSUME ConsumerRuns \/ (\E m \in Msgs : BrokerDelivers(m)) \/ Breaks
  PROVE  /\ UNCHANGED <<producerVars, fileVars>>
         /\ Published' = Published /\ queueExists' = queueExists
         /\ Next
<1>1. \/ StartUp \/ Kill \/ ReadBatch \/ Handle
      \/ LoseConnection /\ UNCHANGED <<procVars, dbVars>>
      \/ (\E m \in Msgs : Deliver(m)) /\ UNCHANGED <<procVars, dbVars>>
  BY DEF ConsumerRuns, ConsumerStartUp, StartUp, BrokerDelivers, Breaks
<1>2. Next
  BY <1>1 DEF Next, Process, Environment
<1> QED BY <1>1, <1>2, ConsumerKeeps, ConsumerDeclares
        DEF ConsumerRuns, BrokerDelivers, Breaks

-----------------------------------------------------------------------------
(* The steps of the Producer *)

ProducerActs(f) == Runs(RoutingKey(f)) \/ Surroundings(RoutingKey(f))

\* The phase of the main thread determines what the loop thread can be doing.
LEMMA PhaseStep ==
  ASSUME Phase, NEW f \in ProducerFiles, ProducerActs(f)
  PROVE  Phase'
<1> USE DEF Phase, Prod!pubVars, Prod!mqttVars, Prod!procVars, Prod!Sources
<1>1. CASE Prod(RoutingKey(f))!MainThread
  BY <1>1 DEF Prod!MainThread, Prod!CreatePublisher, Prod!DeclareQueues, Prod!CreateHandler,
     Prod!Construct, Prod!SetMessageCallback, Prod!ConnectAndSubscribe, Prod!StartLoop,
     Prod!Loop, Prod!ClearHandler
<1>2. CASE Prod(RoutingKey(f))!Publish(1) \/ Prod(RoutingKey(f))!CompletePublish(1)
  BY <1>2 DEF Prod!Publish, Prod!CompletePublish
<1>3. CASE Prod(RoutingKey(f))!Network(1)
  BY <1>3 DEF Prod!Network, Prod!Reconnect, Prod!OnConnect, Prod!OnConnectRefused
<1>4. CASE Prod(RoutingKey(f))!OnMessage(1)
  <2>1. main = "wait" /\ received[1] < NumUplinks /\ received' = [received EXCEPT ![1] = @ + 1]
    BY <1>4 DEF Prod!OnMessage, Prod!Receive, Prod!Receivable
  <2>2. received' \in [{1} -> 0..NumUplinks] /\ received'[1] > 0
    BY <2>1, NumUplinksAssumption
  <2> QED BY <1>4, <2>1, <2>2 DEF Prod!OnMessage, Prod!Receive
<1>5. CASE Prod(RoutingKey(f))!Disturb
  BY <1>5 DEF Prod!Disturb, Prod!LoseChannel, Prod!DropSession
<1> QED BY <1>1, <1>2, <1>3, <1>4, <1>5 DEF ProducerActs, Runs, Surroundings

\* The channel is bound before the first uplink, and a content has its sender.
LEMMA ChannelStep ==
  ASSUME Phase, Channel, NEW f \in ProducerFiles, producerFile = f, ProducerActs(f),
         UNCHANGED fileVars
  PROVE  Channel'
<1>1. producerFile' = f /\ producerFile = f
  BY DEF fileVars
<1> USE DEF Phase, Channel, Prod!pubVars, Prod!mqttVars, Prod!procVars, Prod!Sources
<1>2. CASE Prod(RoutingKey(f))!MainThread
  <2>1. CASE Prod(RoutingKey(f))!CreatePublisher
    BY <1>1, <2>1 DEF Prod!CreatePublisher, Prod!OpenConnection
  <2>2. CASE Prod(RoutingKey(f))!DeclareQueues
    BY <1>1, <2>2 DEF Prod!DeclareQueues, Prod!SetupQueues, Prod!BindKey
  <2>3. CASE Prod(RoutingKey(f))!CreateHandler \/ Prod(RoutingKey(f))!StartLoop
    <3>1. /\ UNCHANGED <<connected, amqp, binding, content, work>>
          /\ main \notin {"publisher", "queues", "wait"}
          /\ main' \notin {"publisher", "queues"}
      BY <2>3 DEF Prod!CreateHandler, Prod!StartLoop
    <3> QED BY <1>1, <3>1
  <2> QED BY <1>2, <2>1, <2>2, <2>3 DEF Prod!MainThread, Prod!ClearHandler
<1>3. CASE Prod(RoutingKey(f))!Publish(1)
  <2>1. work[1] = "publish" /\ work'[1] \in {"sending", "idle"} /\ main = "wait" /\ main' = main
    BY <1>3 DEF Prod!Publish
  <2>2. UNCHANGED <<connected, binding>> /\ amqp' \in {amqp, "closed"}
    BY <1>3 DEF Prod!Publish, Prod!SendMethod
  <2>3. /\ work'[1] = "idle" \/ amqp' # "open" => content' = 0
        /\ amqp' = "open" /\ work'[1] = "sending" => content' = 1
        /\ content' \in {0, 1}
    BY <1>3 DEF Prod!Publish, Prod!SendMethod
  <2> QED BY <1>1, <2>1, <2>2, <2>3
<1>4. CASE Prod(RoutingKey(f))!CompletePublish(1)
  <2>1. work[1] = "sending" /\ work'[1] = "idle" /\ main = "wait" /\ main' = main
    BY <1>4 DEF Prod!CompletePublish
  <2>2. UNCHANGED <<connected, binding, amqp>>
    BY <1>4 DEF Prod!CompletePublish, Prod!SendContent
  <2>3. content' = 0
    BY <1>4, <2>1 DEF Prod!CompletePublish, Prod!SendContent
  <2> QED BY <1>1, <2>1, <2>2, <2>3
<1>5. CASE Prod(RoutingKey(f))!Network(1)
  BY <1>1, <1>5 DEF Prod!Network
<1>6. CASE Prod(RoutingKey(f))!OnMessage(1)
  BY <1>1, <1>6 DEF Prod!OnMessage
<1>7. CASE Prod(RoutingKey(f))!Disturb
  <2>1. UNCHANGED <<main, work, connected, binding>>
    BY <1>7 DEF Prod!Disturb, Prod!LoseChannel
  <2>2. \/ UNCHANGED <<amqp, content>>
        \/ amqp = "open" /\ amqp' = "closed" /\ content' = 0
    BY <1>7 DEF Prod!Disturb, Prod!LoseChannel
  <2> QED BY <1>1, <2>1, <2>2
<1> QED BY <1>2, <1>3, <1>4, <1>5, <1>6, <1>7 DEF ProducerActs, Runs, Surroundings

\* What a step does to the uplinks: nothing, it receives one, or it completes one,
\* which is queued if the channel is open and bound.
Received == /\ received'[1] = received[1] + 1 /\ work[1] = "idle" /\ work'[1] = "publish"
            /\ UNCHANGED queue
Completed(f) ==
  /\ work[1] = "sending" /\ work'[1] = "idle" /\ UNCHANGED <<received, declared>>
  /\ queue' = IF amqp = "open" /\ binding = RoutingKey(f)
                THEN Append(queue, <<1, received[1]>>) ELSE queue
Neither ==
  /\ UNCHANGED <<received, queue>>
  /\ \/ work[1] # "idle" /\ (work'[1] = "idle" => ~connected)
     \/ work'[1] = work[1]

LEMMA UplinkStep ==
  ASSUME Phase, Channel, NEW f \in ProducerFiles, ProducerActs(f)
  PROVE  Received \/ Completed(f) \/ Neither
<1> USE DEF Phase, Channel, Prod!pubVars, Prod!mqttVars, Prod!procVars, Prod!Sources
<1>1. CASE Prod(RoutingKey(f))!MainThread
  BY <1>1 DEF Prod!MainThread, Prod!CreatePublisher, Prod!OpenConnection,
     Prod!DeclareQueues, Prod!SetupQueues, Prod!CreateHandler,
     Prod!Construct, Prod!SetMessageCallback, Prod!ConnectAndSubscribe, Prod!StartLoop,
     Prod!Loop, Prod!ClearHandler, Neither
<1>2. CASE Prod(RoutingKey(f))!Publish(1)
  BY <1>2 DEF Prod!Publish, Prod!SendMethod, Neither
<1>3. CASE Prod(RoutingKey(f))!CompletePublish(1)
  BY <1>3 DEF Prod!CompletePublish, Prod!SendContent, Prod!MessageOf, Completed
<1>4. CASE Prod(RoutingKey(f))!Network(1)
  BY <1>4 DEF Prod!Network, Prod!Reconnect, Prod!OnConnect, Prod!OnConnectRefused, Neither
<1>5. CASE Prod(RoutingKey(f))!OnMessage(1)
  <2>1. main = "wait" /\ received' = [received EXCEPT ![1] = @ + 1]
    BY <1>5 DEF Prod!OnMessage, Prod!Receive, Prod!Receivable
  <2> QED BY <1>5, <2>1 DEF Prod!OnMessage, Received
<1>6. CASE Prod(RoutingKey(f))!Disturb
  BY <1>6 DEF Prod!Disturb, Prod!LoseChannel, Prod!DropSession, Neither
<1> QED BY <1>1, <1>2, <1>3, <1>4, <1>5, <1>6 DEF ProducerActs, Runs, Surroundings

\* Nothing is declared but the queue; a lost channel stays lost.
LEMMA ConnectionStep ==
  ASSUME Phase, Channel, NEW f \in ProducerFiles, ProducerActs(f)
  PROVE  /\ declared' \in {declared, TRUE}
         /\ main = "wait" => /\ UNCHANGED connected
                             /\ amqp = "closed" => amqp' = "closed"
<1> USE DEF Phase, Channel, Prod!pubVars, Prod!mqttVars, Prod!procVars, Prod!Sources
<1>1. CASE Prod(RoutingKey(f))!MainThread
  BY <1>1 DEF Prod!MainThread, Prod!CreatePublisher, Prod!OpenConnection,
     Prod!DeclareQueues, Prod!SetupQueues, Prod!CreateHandler, Prod!StartLoop,
     Prod!ClearHandler
<1>2. CASE Prod(RoutingKey(f))!Publish(1) \/ Prod(RoutingKey(f))!CompletePublish(1)
  BY <1>2 DEF Prod!Publish, Prod!SendMethod, Prod!CompletePublish, Prod!SendContent
<1>3. CASE Prod(RoutingKey(f))!Network(1) \/ Prod(RoutingKey(f))!OnMessage(1)
  BY <1>3 DEF Prod!Network, Prod!OnMessage
<1>4. CASE Prod(RoutingKey(f))!Disturb
  BY <1>4 DEF Prod!Disturb, Prod!LoseChannel
<1> QED BY <1>1, <1>2, <1>3, <1>4 DEF ProducerActs, Runs, Surroundings

\* The Producer's part of the pipeline.
LEMMA ProducerSide ==
  ASSUME ProducerRuns \/ SurroundingsAct
  PROVE  /\ AtTheQueue /\ UNCHANGED fileVars
         /\ \E f \in ProducerFiles : producerFile = f /\ ProducerActs(f)
BY DEF ProducerRuns, SurroundingsAct, ProducerActs

\* What arrives in the queue of the Consumer is the uplink that was queued, unless
\* its id was seen.
LEMMA ArrivalStep ==
  ASSUME Meets, AtTheQueue, queueExists = declared, declared' \in {declared, TRUE}
  PROVE  /\ queueExists' = declared'
         /\ Published' = Published
            \/ /\ queue' # queue /\ Published' = Published \cup {received[1]}
               /\ \A k \in Published : k < received[1]
         /\ queue' # queue /\ declared' = declared =>
              received[1] \in Published' \/ MessageId(received[1]) \in Seen
<1>1. CASE SetupQueue /\ declared' # declared
  BY <1>1 DEF SetupQueue, Published
<1>2. CASE Arrive(received[1]) /\ queue' # queue
  BY <1>2 DEF Arrive, Published
<1>3. CASE UNCHANGED mqVars /\ declared' = declared
           /\ (queue' # queue => MessageId(received[1]) \in Seen)
  BY <1>3 DEF mqVars, queueVars, Published
<1> QED BY <1>1, <1>2, <1>3 DEF AtTheQueue

-----------------------------------------------------------------------------
(* The invariant holds *)

\* The initial states satisfy the invariant.
LEMMA PipelineInvInit == PipelineInit => PipelineInv
<1> SUFFICES ASSUME PipelineInit PROVE PipelineInv
  OBVIOUS
<1>1. Phase
  BY NumUplinksAssumption DEF PipelineInit, Prod!Init, Prod!HandlersInit, Prod!PublisherInit,
     Prod!Sources, Phase
<1>2. Channel
  BY DEF PipelineInit, Prod!Init, Prod!PublisherInit, Prod!Sources, Channel
<1>3. Queued
  <2>1. Published = {}
    BY DEF PipelineInit, Init, MqInit, Published
  <2>2. queue = <<>>
    BY DEF PipelineInit, Prod!Init, Prod!PublisherInit
  <2>3. queue \in Seq({1} \X Msgs) /\ DOMAIN queue = {}
    BY <2>2
  <2> QED BY <2>1, <2>3 DEF Queued, PipelineInit
<1> QED BY <1>1, <1>2, <1>3 DEF PipelineInv, Files, PipelineInit

\* A message keeps the id of its uplink.
LEMMA QueuedStep ==
  ASSUME PipelineInv, NEW f \in ProducerFiles, producerFile = f, ProducerActs(f),
         AtTheQueue, UNCHANGED fileVars
  PROVE  Queued'
<1> SUFFICES ASSUME Meets PROVE Queued'
  BY FilesStay DEF Queued
<1> USE DEF PipelineInv
<1>1. /\ queueExists = declared /\ Published \subseteq 1..received[1]
      /\ work[1] # "idle" => received[1] \notin Published
      /\ queue \in Seq({1} \X Msgs)
      /\ \A i \in DOMAIN queue : \E k \in Published : MessageId(k) = MessageId(queue[i][2])
      /\ received[1] \in 0..NumUplinks /\ NumUplinks \in Nat
  BY NumUplinksAssumption DEF Queued, Phase
<1>2. declared' \in {declared, TRUE} /\ (Received \/ Completed(f) \/ Neither)
  BY ConnectionStep, UplinkStep
<1>3. /\ queueExists' = declared'
      /\ Published' = Published
         \/ /\ queue' # queue /\ Published' = Published \cup {received[1]}
            /\ \A k \in Published : k < received[1]
      /\ queue' # queue /\ declared' = declared =>
           received[1] \in Published' \/ MessageId(received[1]) \in Seen
  BY <1>1, <1>2, ConnectionStep, ArrivalStep
<1>4. CASE Received
  <2>1. Published' = Published /\ received'[1] = received[1] + 1 /\ queue' = queue
    BY <1>3, <1>4 DEF Received
  <2>2. Published \subseteq 1..received'[1] /\ received'[1] \notin Published
    BY <1>1, <2>1
  <2> QED BY <1>1, <1>3, <2>1, <2>2 DEF Queued
<1>5. CASE Neither
  BY <1>1, <1>3, <1>5 DEF Neither, Queued
<1>6. CASE Completed(f)
  <2>1. /\ received' = received /\ declared' = declared /\ work'[1] = "idle"
        /\ received[1] \in Msgs
    BY <1>1, <1>6, NumUplinksAssumption DEF Completed, Phase
  <2>2. Published' \subseteq 1..received'[1] /\ Published \subseteq Published'
    <3>1. Published' \subseteq Published \cup {received[1]} /\ Published \subseteq Published'
      BY <1>3
    <3>2. received[1] \in 1..received[1]
      BY <1>1, <2>1, NumUplinksAssumption
    <3> QED BY <1>1, <2>1, <3>1, <3>2
  <2>3. CASE queue' = queue
    BY <1>1, <1>3, <2>1, <2>2, <2>3 DEF Queued
  <2>4. CASE queue' # queue
    <3>1. queue' = Append(queue, <<1, received[1]>>)
      BY <1>6, <2>4 DEF Completed
    <3>2. queue' \in Seq({1} \X Msgs)
      BY <1>1, <2>1, <3>1, AppendProperties
    <3>3. \E k \in Published' : MessageId(k) = MessageId(received[1])
      <4>1. CASE MessageId(received[1]) \in Seen
        BY <1>1, <2>2, <4>1 DEF Seen
      <4> QED BY <1>3, <2>1, <2>4, <4>1
    <3>4. ASSUME NEW i \in DOMAIN queue'
          PROVE  \E k \in Published' : MessageId(k) = MessageId(queue'[i][2])
      <4>1. CASE i \in DOMAIN queue
        <5>1. queue'[i] = queue[i]
          BY <1>1, <3>1, <4>1
        <5> QED BY <1>1, <2>2, <4>1, <5>1
      <4>2. CASE i \notin DOMAIN queue
        <5>1. queue'[i] = <<1, received[1]>>
          BY <1>1, <3>1, <3>4, <4>2
        <5> QED BY <3>3, <5>1
      <4> QED BY <4>1, <4>2
    <3> QED BY <1>3, <2>1, <2>2, <3>2, <3>4 DEF Queued
  <2> QED BY <2>3, <2>4
<1> QED BY <1>2, <1>4, <1>5, <1>6

\* Every step preserves the invariant.
LEMMA PipelineInvStep ==
  ASSUME PipelineInv, [PipelineNext]_pipelineVars
  PROVE  PipelineInv'
<1>1. CASE ProducerRuns \/ SurroundingsAct
  <2>1. /\ AtTheQueue /\ UNCHANGED fileVars
        /\ \E f \in ProducerFiles : producerFile = f /\ ProducerActs(f)
    BY <1>1, ProducerSide
  <2>2. PICK f \in ProducerFiles : producerFile = f /\ ProducerActs(f)
    BY <2>1
  <2>3. Phase' /\ Channel' /\ Queued'
    BY <2>1, <2>2, PhaseStep, ChannelStep, QueuedStep DEF PipelineInv
  <2> QED BY <2>1, <2>2, <2>3 DEF PipelineInv, Files, fileVars
<1>2. CASE /\ UNCHANGED <<producerVars, fileVars>>
           /\ Published' = Published /\ queueExists' = queueExists
  <2>1. Meets' = Meets
    BY <1>2, FilesStay
  <2>2. Phase' /\ Channel' /\ Files'
    BY <1>2 DEF PipelineInv, Phase, Channel, Files, producerVars, fileVars
  <2>3. Queued'
    BY <1>2, <2>1 DEF PipelineInv, Queued, producerVars
  <2> QED BY <2>2, <2>3 DEF PipelineInv
<1>3. CASE UNCHANGED pipelineVars
  BY <1>2, <1>3 DEF pipelineVars, vars, mqVars, queueVars, Published
<1> QED BY <1>1, <1>2, <1>3, ConsumerSide DEF PipelineNext

\* The invariant holds in every reachable state.
LEMMA PipelineInvCorrect == PipelineSpec => []PipelineInv
BY PipelineInvInit, PipelineInvStep, PTL DEF PipelineSpec

-----------------------------------------------------------------------------
(* Theorems *)

\* Two messages under one id are one reading, or both are no JSON.
LEMMA SameId ==
  ASSUME NEW k \in Msgs, NEW m \in Msgs, MessageId(k) = MessageId(m)
  PROVE  Uplink[k] = Uplink[m] \/ {k, m} \subseteq NotJson
BY TokenAssumption DEF MessageId

\* An uplink is lost for one of the causes, and a cause stays.
LEMMA LostStep ==
  ASSUME PipelineInv, LostUplinksExplained, [PipelineNext]_pipelineVars
  PROVE  LostUplinksExplained'
<1>1. CASE /\ UNCHANGED <<producerVars, fileVars>>
           /\ Published' = Published
  BY <1>1, FilesStay DEF LostUplinksExplained, producerVars, fileVars
<1>2. CASE ProducerRuns \/ SurroundingsAct
  <2>1. /\ AtTheQueue /\ UNCHANGED fileVars
        /\ \E f \in ProducerFiles : producerFile = f /\ ProducerActs(f)
        /\ Phase /\ Channel
    BY <1>2, ProducerSide DEF PipelineInv
  <2>2. PICK f \in ProducerFiles : producerFile = f /\ ProducerActs(f)
    BY <2>1
  <2>3. /\ declared' \in {declared, TRUE}
        /\ Received \/ Completed(f) \/ Neither
        /\ main = "wait" => connected' = connected /\ (amqp = "closed" => amqp' = "closed")
    BY <2>1, <2>2, ConnectionStep, UplinkStep
  <2>4. SUFFICES ASSUME NEW m \in 1..received'[1], m \notin Published',
                        m < received'[1] \/ work'[1] = "idle",
                        Meets, connected', amqp' # "closed", RoutingKey(f) # ""
                 PROVE  \E k \in Published' :
                          k < m /\ (Uplink[k] = Uplink[m] \/ {k, m} \subseteq NotJson)
    <3>1. producerFile' = f
      BY <2>1, <2>2 DEF fileVars
    <3> QED BY <2>1, <3>1, FilesStay DEF LostUplinksExplained
  <2>5. /\ queueExists = declared /\ Published \subseteq 1..received[1]
        /\ work[1] # "idle" => received[1] \notin Published
        /\ \A i \in DOMAIN queue : \E k \in Published : MessageId(k) = MessageId(queue[i][2])
        /\ received[1] \in 0..NumUplinks /\ NumUplinks \in Nat /\ Msgs = 1..NumUplinks
    BY <2>4, NumUplinksAssumption DEF PipelineInv, Queued, Phase
  <2>6. /\ Published \subseteq Published'
        /\ queue' # queue /\ declared' = declared =>
             received[1] \in Published' \/ MessageId(received[1]) \in Seen
    <3>1. declared' \in {declared, TRUE}
      BY <2>3
    <3>2. \/ Published' = Published
          \/ Published' = Published \cup {received[1]}
      BY <2>1, <2>4, <2>5, <3>1, ArrivalStep
    <3>3. queue' # queue /\ declared' = declared =>
            received[1] \in Published' \/ MessageId(received[1]) \in Seen
      BY <2>1, <2>4, <2>5, <3>1, ArrivalStep
    <3> QED BY <3>2, <3>3
  <2>7. CASE m \in 1..received[1] /\ (m < received[1] \/ work[1] = "idle")
    <3>1. main = "wait"
      BY <2>1, <2>5, <2>7 DEF Phase
    <3>2. connected /\ amqp # "closed" /\ m \notin Published
      BY <2>3, <2>4, <2>6, <3>1
    <3>3. RoutingKey(producerFile) # ""
      BY <2>2, <2>4
    <3>4. \E k \in Published :
            k < m /\ (Uplink[k] = Uplink[m] \/ {k, m} \subseteq NotJson)
      BY <2>4, <2>7, <3>2, <3>3 DEF LostUplinksExplained
    <3> QED BY <2>6, <3>4
  <2>8. CASE Received
    <3>1. m < received'[1]
      BY <2>4, <2>8 DEF Received
    <3> QED BY <2>5, <2>7, <2>8, <3>1 DEF Received
  <2>9. CASE Neither
    <3>1. CASE work[1] # "idle" /\ work'[1] = "idle"
      <4>1. ~connected /\ main = "wait"
        BY <2>1, <2>9, <3>1 DEF Neither, Phase
      <4> QED BY <2>3, <2>4, <4>1
    <3>2. CASE ~(work[1] # "idle" /\ work'[1] = "idle")
      BY <2>4, <2>7, <2>9, <3>2 DEF Neither
    <3> QED BY <3>1, <3>2
  <2>10. CASE Completed(f) /\ m = received[1]
    <3>1. main = "wait" /\ received[1] \in Msgs
      BY <2>1, <2>5, <2>10 DEF Completed, Phase
    <3>2. connected /\ amqp = "open" /\ binding = RoutingKey(f)
      BY <2>1, <2>2, <2>3, <2>4, <3>1 DEF Channel
    <3>3. queue' = Append(queue, <<1, received[1]>>) /\ declared' = declared
      BY <2>10, <3>2 DEF Completed
    <3>4. queue' # queue
      <4>1. queue \in Seq({1} \X Msgs)
        BY <2>4 DEF PipelineInv, Queued
      <4>2. Len(queue') = Len(queue) + 1 /\ Len(queue) \in Nat
        BY <3>1, <3>3, <4>1, AppendProperties
      <4> QED BY <4>2
    <3>5. PICK i \in DOMAIN queue : MessageId(queue[i][2]) = MessageId(received[1])
      BY <2>4, <2>6, <2>10, <3>3, <3>4 DEF Seen
    <3>6. PICK k \in Published : MessageId(k) = MessageId(received[1])
      BY <2>5, <3>5
    <3>7. k \in Msgs /\ k < received[1]
      BY <2>5, <2>10, <3>6 DEF Completed
    <3> QED BY <2>6, <2>10, <3>1, <3>6, <3>7, SameId
  <2>11. CASE Completed(f) /\ m # received[1]
    <3>1. received'[1] = received[1]
      BY <2>11 DEF Completed
    <3>2. m \in 1..received[1]
      BY <2>4, <3>1
    <3>3. m < received[1]
      BY <2>5, <2>11, <3>2
    <3> QED BY <2>7, <3>2, <3>3
  <2> QED BY <2>3, <2>8, <2>9, <2>10, <2>11
<1>3. CASE UNCHANGED pipelineVars
  BY <1>1, <1>3 DEF pipelineVars, vars, mqVars, queueVars, Published
<1> QED BY <1>1, <1>2, <1>3, ConsumerSide DEF PipelineNext

\* For every set of uplinks and every pair of files, an uplink that is not in what
\* the Consumer reads was lost for one of the listed causes.
THEOREM LossCorrect == PipelineSpec => []LostUplinksExplained
<1>1. PipelineInit => LostUplinksExplained
  BY PipelineInvInit DEF PipelineInit, PipelineInv, Phase, LostUplinksExplained, Prod!Init,
     Prod!PublisherInit, Prod!HandlersInit, Prod!Sources
<1> QED BY <1>1, LostStep, PipelineInvCorrect, PTL DEF PipelineSpec

\* A step of the pipeline is one of the Consumer, its queue and what surrounds it.
LEMMA ConsumerStep ==
  ASSUME PipelineInv, [PipelineNext]_pipelineVars
  PROVE  [Next]_vars
<1>1. CASE ProducerRuns \/ SurroundingsAct
  <2>1. /\ AtTheQueue /\ \E f \in ProducerFiles : producerFile = f /\ ProducerActs(f)
        /\ Phase /\ Channel
    BY <1>1, ProducerSide DEF PipelineInv
  <2>2. PICK f \in ProducerFiles : producerFile = f /\ ProducerActs(f)
    BY <2>1
  <2>3. Received \/ Completed(f) \/ Neither
    BY <2>1, <2>2, UplinkStep
  <2>4. queue' # queue => received[1] \in Msgs
    BY <2>1, <2>3, NumUplinksAssumption DEF Received, Completed, Neither, Phase
  <2> QED BY <2>1, <2>4 DEF AtTheQueue, Next, Environment, vars
<1>2. CASE UNCHANGED pipelineVars
  BY <1>2 DEF pipelineVars
<1> QED BY <1>1, <1>2, ConsumerSide DEF PipelineNext

\* Whatever the files say and the Producer does, the Consumer of the pipeline is the
\* Consumer of its own module: all that is proved of it holds here.
THEOREM ConsumerEmbedded == PipelineSpec => Spec
<1>1. PipelineInit => Init
  BY DEF PipelineInit
<1> QED BY <1>1, ConsumerStep, PipelineInvCorrect, PTL DEF PipelineSpec, Spec

\* The Producer of the pipeline is the Producer of its own module with one source and
\* the key that its file names, also where the file lets it do nothing.
THEOREM ProducerEmbedded ==
  ASSUME NEW f \in ProducerFiles
  PROVE  PipelineSpec /\ producerFile = f => Prod(RoutingKey(f))!Spec
<1>1. PipelineInit => Prod(RoutingKey(f))!Init
  BY DEF PipelineInit, Prod!Init, Prod!HandlersInit, Prod!PublisherInit, Prod!Sources
<1>2. ASSUME producerFile = f, [PipelineNext]_pipelineVars
      PROVE  producerFile' = f /\ [Prod(RoutingKey(f))!Next]_(Prod(RoutingKey(f))!vars)
  <2>1. CASE ProducerRuns \/ SurroundingsAct
    <3>1. UNCHANGED fileVars /\ ProducerActs(f)
      BY <1>2, <2>1, ProducerSide
    <3>2. 1 \in Prod(RoutingKey(f))!Sources
      BY DEF Prod!Sources
    <3> QED BY <1>2, <3>1, <3>2
            DEF fileVars, ProducerActs, Runs, Surroundings, Prod!Next, Prod!LoopThread
  <2>2. CASE UNCHANGED <<producerVars, fileVars>>
    BY <1>2, <2>2
       DEF fileVars, producerVars, Prod!vars, Prod!pubVars, Prod!mqttVars, Prod!procVars
  <2> QED BY <1>2, <2>1, <2>2
          DEF PipelineNext, ConsumerRuns, BrokerDelivers, Breaks, pipelineVars
<1> DEFINE Starts == Prod(RoutingKey(f))!Init
           Moves  == Prod(RoutingKey(f))!Next
           State  == Prod(RoutingKey(f))!vars
           Mine   == producerFile = f
<1>3. (PipelineInit => Starts) /\ (Mine /\ [PipelineNext]_pipelineVars => Mine' /\ [Moves]_State)
  BY <1>1, <1>2
<1> HIDE DEF Starts, Moves, State, Mine
<1>4. PipelineSpec /\ Mine => Starts /\ [][Moves]_State
  BY <1>3, PTL DEF PipelineSpec
<1> QED BY <1>4 DEF Starts, Moves, State, Mine, Prod!Spec

\* In the pipeline too, a message only leaves the queue when its reading is recorded
\* or when there is none to record.
THEOREM PipelineAccounted == PipelineSpec => []AckedOnlyIfAccounted
BY ConsumerEmbedded, AccountedCorrect, PTL

\* In the pipeline too, an uplink that is handled once leaves all of its rows.
THEOREM PipelineRows == PipelineSpec => []RowsMissingOnlyAfterRequeue
BY ConsumerEmbedded, RowsMissingCorrect, PTL

\* From the gateway to the table: the reading of every uplink that the Producer is
\* done with is stored or queued, unless the queue was out of its reach.
THEOREM EndToEndCorrect == PipelineSpec => []ReadingsStoredOrQueued
<1>1. LostUplinksExplained /\ AckedOnlyIfAccounted /\ PipelineInv => ReadingsStoredOrQueued
  <2> SUFFICES ASSUME LostUplinksExplained, AckedOnlyIfAccounted, PipelineInv,
                      NEW m \in 1..received[1], Uplink[m].kind = "good",
                      m < received[1] \/ work[1] = "idle",
                      Meets, connected, amqp # "closed", RoutingKey(producerFile) # ""
               PROVE  \/ Key(m) \in air
                      \/ \E k \in ready \cup unacked : Key(k) = Key(m)
    BY DEF ReadingsStoredOrQueued
  <2>1. PICK k \in Published : Uplink[k] = Uplink[m]
    <3>1. m \notin NotJson
      BY NotJsonAssumption
    <3> QED BY <3>1 DEF LostUplinksExplained
  <2>2. Key(k) = Key(m) /\ ~Discardable(k)
    BY <2>1 DEF Key, Discardable
  <2> QED BY <2>2 DEF Published, AckedOnlyIfAccounted
<1> QED BY <1>1, LossCorrect, PipelineAccounted, PipelineInvCorrect, PTL

-----------------------------------------------------------------------------
(* The two programs without what is between them *)

\* What the Consumer had came by the queue that the two share.
Arrived == \A k \in Published : Meets /\ MessageId(k) \in Seen

\* What arrives has an id that the queue has from then on.
LEMMA ArrivedStep ==
  ASSUME PipelineInv, Arrived, [PipelineNext]_pipelineVars
  PROVE  Arrived'
<1>1. CASE /\ UNCHANGED <<producerVars, fileVars>>
           /\ Published' = Published
  <2>1. Seen' = Seen /\ Meets' = Meets
    BY <1>1, FilesStay DEF Seen, MessageId, producerVars
  <2> QED BY <1>1, <2>1 DEF Arrived, MessageId
<1>2. CASE ProducerRuns \/ SurroundingsAct
  <2>1. /\ AtTheQueue /\ UNCHANGED fileVars
        /\ \E f \in ProducerFiles : producerFile = f /\ ProducerActs(f)
        /\ Phase /\ Channel
    BY <1>2, ProducerSide DEF PipelineInv
  <2>2. PICK f \in ProducerFiles : producerFile = f /\ ProducerActs(f)
    BY <2>1
  <2>3. Received \/ Completed(f) \/ Neither
    BY <2>1, <2>2, UplinkStep
  <2>4. Meets' = Meets
    BY <2>1, FilesStay
  <2>5. CASE ~Meets
    <3>1. Published' = Published
      BY <2>1, <2>5 DEF AtTheQueue, mqVars, queueVars, Published
    <3> QED BY <2>5, <3>1 DEF Arrived
  <2>6. CASE Meets
    <3>1. /\ queueExists = declared /\ declared' \in {declared, TRUE}
          /\ queue \in Seq({1} \X Msgs)
      BY <2>1, <2>2, <2>6, ConnectionStep DEF PipelineInv, Queued
    <3>2. \/ Published' = Published
          \/ queue' # queue /\ Published' = Published \cup {received[1]}
      BY <2>1, <2>6, <3>1, ArrivalStep
    <3>3. CASE queue' = queue
      BY <2>4, <3>2, <3>3 DEF Arrived, Seen, MessageId
    <3>4. CASE queue' # queue
      <4>1. queue' = Append(queue, <<1, received[1]>>) /\ received[1] \in Msgs
        BY <2>1, <2>3, <3>4, NumUplinksAssumption
           DEF Received, Completed, Neither, Phase
      <4>2. /\ DOMAIN queue' = 1..(Len(queue) + 1) /\ Len(queue) \in Nat
            /\ DOMAIN queue = 1..Len(queue)
            /\ \A i \in DOMAIN queue : queue'[i] = queue[i]
            /\ queue'[Len(queue) + 1] = <<1, received[1]>>
        BY <3>1, <4>1, AppendProperties, LenProperties
      <4>3. MessageId(received[1]) \in Seen' /\ Seen \subseteq Seen'
        <5>1. Seen' = {MessageId(queue'[i][2]) : i \in DOMAIN queue'}
          BY DEF Seen, MessageId
        <5>2. Len(queue) + 1 \in DOMAIN queue' /\ DOMAIN queue \subseteq DOMAIN queue'
          BY <4>2
        <5>3. MessageId(received[1]) = MessageId(queue'[Len(queue) + 1][2])
          BY <4>2
        <5>4. MessageId(received[1]) \in Seen'
          BY <5>1, <5>2, <5>3
        <5>5. Seen \subseteq Seen'
          BY <4>2, <5>1, <5>2 DEF Seen
        <5> QED BY <5>4, <5>5
      <4>4. \A k \in Published' : MessageId(k) \in Seen'
        BY <3>2, <4>3 DEF Arrived
      <4> QED BY <2>4, <2>6, <4>4 DEF Arrived, MessageId
    <3> QED BY <3>3, <3>4
  <2> QED BY <2>5, <2>6
<1>3. CASE UNCHANGED pipelineVars
  BY <1>1, <1>3 DEF pipelineVars, vars, mqVars, queueVars, Published
<1> QED BY <1>1, <1>2, <1>3, ConsumerSide DEF PipelineNext

\* What the Consumer does is part of what Telemetry allows.
LEMMA IngestStep ==
  ASSUME TypeInv, QueueInv, Stored, Next, Published' = Published, UNCHANGED received
  PROVE  [EndToEnd!TelemetryNext]_(EndToEnd!telemetryVars)
<1>1. [Abstract!Next]_(Abstract!vars)
  BY AbstractStep
<1>2. CASE UNCHANGED Abstract!vars
  BY <1>2 DEF Abstract!vars, EndToEnd!telemetryVars, EndToEnd!vars
<1>3. ASSUME NEW m \in Msgs, Abstract!Publish(m)
      PROVE  FALSE
  <2>1. m \notin Published /\ m \in Published'
    BY <1>3, NumUplinksAssumption DEF Abstract!Publish, Published
  <2> QED BY <2>1
<1>4. CASE Abstract!Ingest
  <2>1. EndToEnd!Ingest
    BY <1>4 DEF Abstract!Ingest, Abstract!Record, Abstract!TouchDevice, Abstract!TouchGateway,
       Abstract!Settle, EndToEnd!Ingest, EndToEnd!Record, EndToEnd!TouchDevice,
       EndToEnd!TouchGateway, EndToEnd!Settle
  <2> QED BY <2>1 DEF EndToEnd!TelemetryNext
<1> QED BY <1>1, <1>2, <1>3, <1>4 DEF Abstract!Next

\* A step of the Producer receives an uplink, or brings the last one to the queue
\* under a new id, or is nothing to Telemetry.
LEMMA ForwardStep ==
  ASSUME PipelineInv, PipelineInv', Arrived, ProducerRuns \/ SurroundingsAct
  PROVE  [EndToEnd!TelemetryNext]_(EndToEnd!telemetryVars)
<1>1. /\ AtTheQueue
      /\ \E f \in ProducerFiles : producerFile = f /\ ProducerActs(f)
      /\ Phase /\ Channel
  BY ProducerSide DEF PipelineInv
<1>2. PICK f \in ProducerFiles : producerFile = f /\ ProducerActs(f)
  BY <1>1
<1>3. Received \/ Completed(f) \/ Neither
  BY <1>1, <1>2, UplinkStep
<1>4. UNCHANGED dbVars
  BY <1>1 DEF AtTheQueue
<1>5. CASE Meets /\ queue' # queue /\ MessageId(received[1]) \notin Seen /\ Arrive(received[1])
  <2>1. received[1] \in Msgs /\ UNCHANGED received
    BY <1>1, <1>3, <1>5, NumUplinksAssumption DEF Received, Completed, Neither, Phase
  <2>2. /\ \A k \in Published : k < received[1] /\ MessageId(k) # MessageId(received[1])
        /\ ready' \cup unacked' = (ready \cup unacked) \cup {received[1]} /\ acked' = acked
    BY <1>5 DEF Arrive, Arrived, Published
  <2>3. EndToEnd!Publish(received[1])
    BY <1>4, <2>2 DEF EndToEnd!Publish, Published, dbVars
  <2>4. EndToEnd!Forward
    BY <2>1, <2>2, <2>3 DEF EndToEnd!Forward, Published
  <2> QED BY <2>4 DEF EndToEnd!TelemetryNext
<1>6. CASE (Meets /\ declared' # declared /\ SetupQueue) \/ UNCHANGED mqVars
  <2>1. UNCHANGED EndToEnd!vars
    BY <1>4, <1>6 DEF SetupQueue, mqVars, queueVars, dbVars, EndToEnd!vars
  <2>2. CASE Received
    <3>1. received'[1] \in Msgs
      BY <1>1, <2>2, NumUplinksAssumption DEF PipelineInv, Phase, Received
    <3>2. EndToEnd!Receive
      BY <2>1, <2>2, <3>1 DEF EndToEnd!Receive, Received
    <3> QED BY <3>2 DEF EndToEnd!TelemetryNext
  <2>3. CASE UNCHANGED received
    BY <2>1, <2>3 DEF EndToEnd!telemetryVars
  <2> QED BY <1>3, <2>2, <2>3 DEF Completed, Neither
<1> QED BY <1>1, <1>5, <1>6 DEF AtTheQueue

\* Neither crashes, restarts, faults nor files make the two programs do what is not
\* in Telemetry: an uplink gets to the queue in its turn, once, under an id that is
\* new there, and is ingested in the order insert, device, gateways, settlement.
THEOREM TelemetryCorrect == PipelineSpec => ImplementsTelemetry
<1>1. PipelineInit => Arrived /\ EndToEnd!TelemetryInit
  <2> SUFFICES ASSUME PipelineInit PROVE Arrived /\ EndToEnd!TelemetryInit
    OBVIOUS
  <2>1. Init /\ Prod("")!Init
    BY DEF PipelineInit
  <2>2. received[1] = 0
    BY <2>1, PipelineInvInit DEF Prod!Init, PipelineInv, Phase
  <2>3. Published = {} /\ Abstract!Init
    BY <2>1, AbstractInit DEF Init, MqInit, Published
  <2> QED BY <2>2, <2>3 DEF Arrived, EndToEnd!TelemetryInit, EndToEnd!Init, Abstract!Init
<1>2. PipelineInv /\ PipelineInv' /\ Arrived /\ TypeInv /\ QueueInv /\ Stored
      /\ [PipelineNext]_pipelineVars
      => [EndToEnd!TelemetryNext]_(EndToEnd!telemetryVars)
  <2> SUFFICES ASSUME PipelineInv, PipelineInv', Arrived, TypeInv, QueueInv, Stored,
                      [PipelineNext]_pipelineVars
               PROVE  [EndToEnd!TelemetryNext]_(EndToEnd!telemetryVars)
    OBVIOUS
  <2>1. CASE ConsumerRuns \/ (\E m \in Msgs : BrokerDelivers(m)) \/ Breaks
    <3>1. UNCHANGED producerVars /\ Published' = Published /\ Next
      BY <2>1, ConsumerSide
    <3> QED BY <3>1, IngestStep DEF producerVars
  <2>2. CASE UNCHANGED pipelineVars
    BY <2>2 DEF pipelineVars, vars, mqVars, queueVars, dbVars, producerVars,
       EndToEnd!telemetryVars, EndToEnd!vars
  <2> QED BY <2>1, <2>2, ForwardStep DEF PipelineNext
<1>3. PipelineSpec => []Arrived
  BY <1>1, ArrivedStep, PipelineInvCorrect, PTL DEF PipelineSpec
<1>4. Spec => [](TypeInv /\ QueueInv /\ Stored)
  BY TypeInit, TypeStep, CustodyInit, QueueStep, StoredInit, StoredStep, PTL DEF Spec
<1> QED BY <1>1, <1>2, <1>3, <1>4, ConsumerEmbedded, PipelineInvCorrect, PTL
        DEF PipelineSpec, ImplementsTelemetry, EndToEnd!TelemetrySpec

=============================================================================
