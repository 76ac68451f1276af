------------------------------ MODULE Pipeline ------------------------------
(***************************************************************************)
(* The two programs together: the Producer with one source, the broker's   *)
(* deduplicating queue, and the Consumer, each started with a config.json  *)
(* of its own.  They meet when what they read from these files names the   *)
(* same queue of the same broker; nothing else connects them.              *)
(*                                                                         *)
(* A step is a step of Producer or of Consumer; publish() moves both, as   *)
(* what it completes arrives in the queue.  The number of an uplink is the *)
(* number of the message it becomes.                                       *)
(***************************************************************************)
EXTENDS Consumer, Configuration

CONSTANTS
  NumUplinks,       \* bound on the uplinks received; Msgs is 1..NumUplinks
  PublisherFaults,
  Token,            \* what tells an uplink that is JSON apart, see MessageFilter
  NotJson,          \* the uplinks that are none
  ProducerFiles, ConsumerFiles  \* config.json as the programs may find it

ASSUME NumUplinksAssumption == NumUplinks \in Nat /\ Msgs = 1..NumUplinks
ASSUME NotJsonAssumption == \A m \in NotJson : m \in Msgs /\ Uplink[m].kind = "garbage"
ASSUME TokenAssumption ==
  \A k, m \in Msgs \ NotJson :
    Token[k] # "parse_error" /\ (Token[k] = Token[m] => Uplink[k] = Uplink[m])

VARIABLES
  instance, alive, callback, looping, session, subscribed, received,  \* MqttHandler
  connected, amqp, declared, binding, content, queue,  \* LavinMQPublisher
  main, next, work,                                    \* Producer
  producerFile, consumerFile                           \* never written

producerVars == <<instance, alive, callback, looping, session, subscribed, received,
                  connected, amqp, declared, binding, content, queue, main, next, work>>
fileVars     == <<producerFile, consumerFile>>
pipelineVars == <<vars, producerVars, fileVars>>

Prod(key) == INSTANCE Producer
  WITH RoutingKey <- key, NumSources <- 1, Writers <- {1}, MaxUplinks <- NumUplinks,
       MqttFaults <- {}, StopAllowed <- FALSE

\* What lavinmq.routing_key becomes.
RoutingKey(f) == LavinMQSettings(f["lavinmq"].object).routing_key

\* Both programs get past reading their files.
BothLoad(f, g) == LoadsSources(f) /\ HasSection(g, "lavinmq")

SameBroker(f, g) ==
  LET p == LavinMQSettings(f["lavinmq"].object)
      c == FromJson(g["lavinmq"].object)
  IN <<p.host, p.port, p.vhost>> = <<c.host, c.port, c.virtual_host>>

\* The Producer names the queue in its main(), the Consumer reads the name.  The
\* Producer has no TLS, so that a Consumer that uses it is at another port.
Meets ==
  /\ BothLoad(producerFile, consumerFile)
  /\ SameBroker(producerFile, consumerFile)
  /\ LET c == FromJson(consumerFile["lavinmq"].object)
     IN c.queue_name = "uplink_data_queue" /\ ~c.tls

PipelineInit ==
  /\ Init
  /\ producerFile \in ProducerFiles /\ consumerFile \in ConsumerFiles
  /\ Prod("")!Init
  /\ Meets => queueExists = declared

-----------------------------------------------------------------------------
(* The Producer and the queue *)

\* Mutant of MessageId: the id is not looked for.
MessageIdUnknown(m) == IF m \in NotJson THEN "parse_error" ELSE "unknown"

\* What publish() is given as the id; all that does not parse shares one.
MessageId(m) == IF m \in NotJson THEN "parse_error" ELSE Token[m]

\* Mutant of Seen: the queue is declared without x-message-deduplication.
SeenNothing == {}

\* The queue was declared with x-message-deduplication, and its cache is larger
\* than the messages of a run.
Seen == {MessageId(queue[i][2]) : i \in DOMAIN queue}

\* What a step of the Producer is to the queue of the Consumer.
AtTheQueue ==
  /\ \/ /\ Meets /\ declared' # declared
        /\ SetupQueue
     \/ /\ Meets /\ queue' # queue /\ MessageId(received[1]) \notin Seen
        /\ Arrive(received[1])
     \/ /\ Meets => declared' = declared
        /\ Meets /\ queue' # queue => MessageId(received[1]) \in Seen
        /\ UNCHANGED mqVars
  /\ UNCHANGED <<procVars, dbVars>>

Runs(key) ==
  \/ Prod(key)!MainThread
  \/ Prod(key)!Publish(1) \/ Prod(key)!CompletePublish(1) \/ Prod(key)!Network(1)

ProducerRuns ==
  \E f \in ProducerFiles :
    /\ producerFile = f /\ LoadsSources(f)
    /\ Runs(RoutingKey(f))
    /\ AtTheQueue
    /\ UNCHANGED fileVars

\* A crash takes the callback of a second source.
Surroundings(key) == Prod(key)!OnMessage(1) \/ Prod(key)!Disturb

SurroundingsAct ==
  \E f \in ProducerFiles :
    /\ producerFile = f /\ LoadsSources(f)
    /\ Surroundings(RoutingKey(f))
    /\ AtTheQueue
    /\ UNCHANGED fileVars

-----------------------------------------------------------------------------
(* The Consumer with its file *)

\* Without a section main() returns where it looks for it.
ConsumerStartUp ==
  \/ Start /\ HasSection(consumerFile, "lavinmq")
  \/ ConnectBroker
  \/ ConnectPostgres /\ HasSection(consumerFile, "postgres")
  \/ ConnectPostgresFails

ConsumerRuns ==
  /\ ConsumerStartUp \/ ReadBatch \/ Handle
  /\ UNCHANGED <<producerVars, fileVars>>

BrokerDelivers(m) ==
  /\ Deliver(m)
  /\ UNCHANGED <<procVars, dbVars, producerVars, fileVars>>

Breaks ==
  /\ Kill \/ (LoseConnection /\ UNCHANGED <<procVars, dbVars>>)
  /\ UNCHANGED <<producerVars, fileVars>>

-----------------------------------------------------------------------------

PipelineNext ==
  \/ ProducerRuns \/ SurroundingsAct
  \/ ConsumerRuns \/ (\E m \in Msgs : BrokerDelivers(m)) \/ Breaks

PipelineSpec == PipelineInit /\ [][PipelineNext]_pipelineVars

\* As in Producer and Consumer.  One condition serves all threads of the Producer,
\* as none of them has infinitely many steps to take.
PipelineFairness ==
  /\ WF_pipelineVars(ProducerRuns)
  /\ WF_pipelineVars(ConsumerRuns)
  /\ \A m \in Msgs : SF_pipelineVars(BrokerDelivers(m))

PipelineFairSpec == PipelineSpec /\ PipelineFairness

-----------------------------------------------------------------------------
(* Properties *)

\* Why an uplink that the Producer is done with may be missing from what the
\* Consumer reads, and nothing else is a reason: the two do not meet; the channel
\* is gone, which the Producer does not notice; the routing key is empty, with
\* which it publishes but does not bind; or an earlier uplink got there with the
\* same reading, or as the one that stands for all that do not parse
\* (lavinmq_publisher.cpp:67-101, Producer main.cpp:376-481).
LostUplinksExplained ==
  \A m \in 1..received[1] :
    m \notin Published /\ (m < received[1] \/ work[1] = "idle") =>
      \/ ~Meets
      \/ ~connected \/ amqp = "closed"
      \/ RoutingKey(producerFile) = ""
      \/ \E k \in Published :
           k < m /\ (Uplink[k] = Uplink[m] \/ {k, m} \subseteq NotJson)

\* End to end: the reading of an uplink that the Producer is done with is in the
\* table, or in the queue and so on its way there, unless the queue was out of the
\* Producer's reach: no dedup, kill, nack or restart between the two loses it
\* (Producer main.cpp:376-481, Consumer main.cpp:122-348).
ReadingsStoredOrQueued ==
  \A m \in 1..received[1] :
    Uplink[m].kind = "good" /\ (m < received[1] \/ work[1] = "idle") =>
      \/ Key(m) \in air
      \/ \E k \in ready \cup unacked : Key(k) = Key(m)
      \/ ~Meets
      \/ ~connected \/ amqp = "closed"
      \/ RoutingKey(producerFile) = ""

\* The pipeline implements Telemetry.
EndToEnd == INSTANCE Telemetry
  WITH pending <- ready \cup unacked, done <- acked, received <- received[1], Id <- MessageId
ImplementsTelemetry == EndToEnd!TelemetrySpec

\* With a complete LavinMQ section, one complete entry among the sources is enough
\* for the Producer to come up and subscribe, wherever the entry stands and
\* whatever happens to the publisher (config_loader.cpp:178-263, main.cpp:353-486).
CompleteSourceServed ==
  /\ Has(producerFile, "lavinmq", "object")
  /\ Complete(producerFile["lavinmq"].object, Credentials)
  /\ Has(producerFile, "mqtt_sources", "array")
  /\ \E i \in DOMAIN producerFile["mqtt_sources"].array :
       Complete(producerFile["mqtt_sources"].array[i], Credentials \cup {"topic"})
  => <>(1 \in subscribed)

\* Where the two meet and their connections last, the reading of every uplink that
\* the Producer receives is in the database at last: no step of either program
\* loses it, whatever stands before it in the queue.
StaysPublishing == <>[](connected /\ amqp = "open")

ReadingsArriveStored ==
  Meets /\ (LoadsSources(producerFile) => RoutingKey(producerFile) # "")
  /\ StaysPublishing /\ StaysConnected
  => <>[](\A m \in 1..received[1] : Uplink[m].kind = "good" => Key(m) \in air)

=============================================================================
