------------------------------ MODULE Producer ------------------------------
(***************************************************************************)
(* The Producer process, Producer/src/main.cpp:353-499: the main thread    *)
(* sets up the publisher, creates one MQTT handler per source and, after   *)
(* SIGINT, destroys them; each handler's loop thread runs the callback     *)
(* that filters an uplink and publishes it.  Filtering is MessageFilter's  *)
(* subject: here an uplink is its source and its number.                   *)
(***************************************************************************)
EXTENDS MqttHandler, LavinMQPublisher

CONSTANT StopAllowed  \* whether SIGINT may arrive

ASSUME StopAllowedAssumption == StopAllowed \in BOOLEAN

VARIABLES
  main,   \* where the main thread is, see MainStates
  next,   \* the source whose handler it creates or destroys next
  work    \* what each loop thread does

procVars == <<main, next, work>>
vars == <<mqttVars, pubVars, procVars>>

MainStates == {"publisher", "queues", "construct", "callback", "connect", "loop",
               "wait", "clear", "done"}
WorkStates == {"idle", "publish", "sending"}

Init ==
  /\ HandlersInit
  /\ PublisherInit
  /\ main = "publisher" /\ next = 1
  /\ work = [s \in Sources |-> "idle"]

-----------------------------------------------------------------------------
(* The main thread *)

CreatePublisher ==
  /\ main = "publisher"
  /\ OpenConnection
  /\ main' = "queues"
  /\ UNCHANGED <<mqttVars, next, work>>

DeclareQueues ==
  /\ main = "queues"
  /\ SetupQueues
  /\ main' = "construct"
  /\ UNCHANGED <<mqttVars, next, work>>

CreateHandler ==
  /\ \/ main = "construct" /\ Construct(next) /\ main' = "callback"
     \/ main = "callback" /\ SetMessageCallback(next) /\ main' = "connect"
     \/ main = "connect" /\ ConnectAndSubscribe(next) /\ main' = "loop"
  /\ UNCHANGED <<pubVars, next, work>>

\* Mutant of StartLoop: the loop over the sources runs one too far.
StartLoopTooFar ==
  /\ main = "loop"
  /\ Loop(next)
  /\ next' = next + 1
  /\ main' = IF next < NumSources THEN "construct" ELSE "wait"
  /\ UNCHANGED <<pubVars, work>>

StartLoop ==
  /\ main = "loop"
  /\ Loop(next)
  /\ IF next < NumSources THEN next' = next + 1 /\ main' = "construct"
                          ELSE next' = 1 /\ main' = "wait"
  /\ UNCHANGED <<pubVars, work>>

Stop ==
  /\ StopAllowed /\ main = "wait"
  /\ main' = "clear"
  /\ UNCHANGED <<mqttVars, pubVars, next, work>>

\* Mutant of ClearHandler: the handlers are destroyed from the last to the first.
ClearHandlerFromLast ==
  /\ main = "clear"
  /\ Destroy(NumSources + 1 - next)
  /\ work' = [work EXCEPT ![NumSources + 1 - next] = "idle"]
  /\ IF next < NumSources THEN next' = next + 1 /\ UNCHANGED main
                          ELSE main' = "done" /\ UNCHANGED next
  /\ UNCHANGED <<pubVars>>

\* handlers.clear() destroys from the first to the last.  A loop thread that is in
\* its callback is cancelled there, possibly between two frames.
ClearHandler ==
  /\ main = "clear"
  /\ Destroy(next)
  /\ work' = [work EXCEPT ![next] = "idle"]
  /\ IF next < NumSources THEN next' = next + 1 /\ UNCHANGED main
                          ELSE main' = "done" /\ UNCHANGED next
  /\ UNCHANGED <<pubVars>>

-----------------------------------------------------------------------------
(* The loop threads *)

MessageOf(s) == <<s, received[s]>>

\* The main thread assigns a message_callback while other threads test and call it:
\* a data race, in which the callback is seen absent, present or half assigned.
BeingAssigned(h) == main = "callback" /\ next = h

\* on_message: without a callback the uplink is dropped.
OnMessage(s) ==
  /\ work[s] = "idle"
  /\ Receive(s)
  /\ \/ /\ instance \in callback \/ BeingAssigned(instance)
        /\ work' = [work EXCEPT ![s] = "publish"]
     \/ instance \notin callback /\ UNCHANGED work
  /\ UNCHANGED <<pubVars, main, next>>

\* The call of a half assigned callback ends the process.
Crash(s) ==
  /\ work[s] = "idle"
  /\ Receivable(s) /\ BeingAssigned(instance)
  /\ main' = "done"
  /\ looping' = {} /\ alive' = {} /\ subscribed' = {}
  /\ session' = [c \in Sources |-> "off"]
  /\ work' = [t \in Sources |-> "idle"]
  /\ UNCHANGED <<instance, callback, received, pubVars, next>>

\* Mutant of Publish: it returns after the first frame.
PublishMethodOnly(s) ==
  /\ work[s] = "publish"
  /\ SendMethod(s)
  /\ work' = [work EXCEPT ![s] = "idle"]
  /\ UNCHANGED <<mqttVars, main, next>>

\* Mutant of Publish: an uplink is left out while another thread's is being sent.
PublishUnlessBusy(s) ==
  /\ work[s] = "publish"
  /\ \/ content = 0 /\ SendMethod(s) /\ work' = [work EXCEPT ![s] = "sending"]
     \/ (~connected \/ content # 0) /\ UNCHANGED pubVars /\ work' = [work EXCEPT ![s] = "idle"]
  /\ UNCHANGED <<mqttVars, main, next>>

\* Without a connection publish() returns at once.
Publish(s) ==
  /\ work[s] = "publish"
  /\ \/ SendMethod(s) /\ work' = [work EXCEPT ![s] = "sending"]
     \/ ~connected /\ UNCHANGED pubVars /\ work' = [work EXCEPT ![s] = "idle"]
  /\ UNCHANGED <<mqttVars, main, next>>

\* Mutant of CompletePublish: a publish that looks failed is tried again.
CompletePublishOrRetry(s) ==
  /\ work[s] = "sending"
  /\ SendContent(s, MessageOf(s))
  /\ \E w \in {"idle", "publish"} : work' = [work EXCEPT ![s] = w]
  /\ UNCHANGED <<mqttVars, main, next>>

CompletePublish(s) ==
  /\ work[s] = "sending"
  /\ SendContent(s, MessageOf(s))
  /\ work' = [work EXCEPT ![s] = "idle"]
  /\ UNCHANGED <<mqttVars, main, next>>

\* The loop thread handles one packet at a time.
Network(s) ==
  /\ work[s] = "idle"
  /\ Reconnect(s) \/ OnConnect(s) \/ OnConnectRefused(s)
  /\ UNCHANGED <<pubVars, procVars>>

-----------------------------------------------------------------------------
(* The environment *)

Disturb ==
  /\ \/ LoseChannel /\ UNCHANGED mqttVars
     \/ (\E s \in Sources : DropSession(s)) /\ UNCHANGED pubVars
  /\ UNCHANGED procVars

MainThread == \/ CreatePublisher \/ DeclareQueues \/ CreateHandler \/ StartLoop
              \/ ClearHandler
LoopThread(s) == OnMessage(s) \/ Crash(s) \/ Publish(s) \/ CompletePublish(s) \/ Network(s)

Next == MainThread \/ Stop \/ Disturb \/ \E s \in Sources : LoopThread(s)

Spec == Init /\ [][Next]_vars

\* Threads run; brokers answer a CONNECT, and the attempts that fail end: a session
\* that can be opened again and again is accepted eventually.
Fairness ==
  /\ WF_vars(MainThread)
  /\ \A s \in Sources :
       /\ WF_vars(Publish(s) \/ CompletePublish(s) \/ Network(s))
       /\ SF_vars(work[s] = "idle" /\ OnConnect(s) /\ UNCHANGED <<pubVars, procVars>>)

FairSpec == Spec /\ Fairness

-----------------------------------------------------------------------------
(* Properties *)

TypeOK ==
  /\ instance \in {0} \cup Sources
  /\ alive \subseteq Sources /\ callback \subseteq Sources
  /\ looping \subseteq Sources /\ subscribed \subseteq Sources
  /\ session \in [Sources -> SessionStates]
  /\ received \in [Sources -> 0..MaxUplinks]
  /\ connected \in BOOLEAN /\ declared \in BOOLEAN
  /\ amqp \in ChannelStates
  /\ binding \in {"none", BindKey}
  /\ content \in {0} \cup Sources
  /\ queue \in Seq(Sources \X (1..MaxUplinks))
  /\ main \in MainStates /\ next \in Sources
  /\ work \in [Sources -> WorkStates]

\* While any loop thread runs, the handler the static pointer names exists: the
\* vector destroys from its first element, the pointer names its last
\* (mqtt_handler.cpp:5-34, main.cpp:383-496).
InstanceAlive == looping # {} => instance \in alive

\* The queue receives the uplinks of a source in order and each once, whatever the
\* threads, a cancelled one included, do to the shared channel
\* (lavinmq_publisher.cpp:67-101).
QueuedOnceInOrder ==
  \A i, j \in DOMAIN queue :
    i < j /\ queue[i][1] = queue[j][1] => queue[i][2] < queue[j][2]

\* A content half received is the one of a thread that is sending it, until a
\* thread is cancelled: no publish leaves the channel inside a content.
ContentHasSender ==
  main \notin {"clear", "done"} /\ content # 0 => work[content] = "sending"

\* With a single source nothing the process does itself closes the channel that all
\* later uplinks depend on (lavinmq_publisher.cpp:94-100).
ChannelKept == connected => amqp = "open"

\* mqtt_handler.cpp:40-63: connect_and_subscribe() of every handler ends in a
\* subscription of this handler: main.cpp:383 "Create and start handlers for each
\* source", after which a connected source without a subscription receives nothing.
EverySourceSubscribed ==
  main = "wait" => \A s \in Sources : session[s] = "up" => s \in subscribed

\* However many sources there are, the last one is subscribed whenever its session
\* is open: the static pointer names its handler before its client can connect
\* (mqtt_handler.cpp:5-63, main.cpp:383-486).
LastSourceSubscribed ==
  main = "wait" /\ session[NumSources] = "up" => NumSources \in subscribed

\* With a single source the loop thread always subscribes again after the
\* connection broke or was refused (mqtt_handler.cpp:47-63).
Resubscribes == \A s \in Sources : s \in looping ~> s \in subscribed

\* With a single source and a channel that stays open, every uplink that the
\* process receives is queued (mqtt_handler.cpp:65-72, main.cpp:388-481).
EveryUplinkQueued ==
  \A s \in Sources, k \in 1..MaxUplinks :
    received[s] = k ~> \E i \in DOMAIN queue : queue[i] = <<s, k>>

\* The Producer implements Forwarding: an uplink that it receives is forwarded, in its
\* turn and once, unless the channel is gone or its key not bound, the process ends, or
\* the handler named by the static pointer has no callback yet (main.cpp:376-496).
PhaseOf(m) ==
  IF m \in {"clear", "done"} THEN "ending" ELSE IF m = "wait" THEN "serving" ELSE "starting"

Abstract == INSTANCE Forwarding
  WITH phase <- PhaseOf(main), routed <- amqp = "open" /\ binding = RoutingKey,
       handling <- {s \in Sources : work[s] # "idle"}
ImplementsForwarding == Abstract!Spec

=============================================================================
