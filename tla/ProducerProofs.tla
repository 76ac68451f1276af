--------------------------- MODULE ProducerProofs ---------------------------
(***************************************************************************)
(* Proofs about Producer, for every number of sources, every set of faults *)
(* and every routing key.                                                  *)
(*                                                                         *)
(* The invariant relates the phase of the main thread to the handlers      *)
(* there are (Lifecycle), the loop threads to what they do (Busy), the     *)
(* content the broker is receiving to its sender (ContentKnown), and the   *)
(* queue to what was received (Order).                                     *)
(***************************************************************************)
EXTENDS Producer, SequenceTheorems, TLAPS

-----------------------------------------------------------------------------
(* The invariant *)

\* The static pointer names a handler that exists as soon as there is one; during
\* the clean-up it names the one that is destroyed last.
Lifecycle ==
  /\ main \in {"publisher", "queues"} => looping = {}
  /\ main \notin {"clear", "done"} =>
       (instance = 0 /\ looping = {}) \/ instance \in alive
  /\ main \in {"callback", "connect", "loop"} => instance = next /\ instance \in alive
  /\ main = "wait" => instance = NumSources /\ instance \in alive /\ next = 1
  /\ main = "clear" => /\ instance = NumSources /\ instance \in alive
                       /\ looping \subseteq next..NumSources
  /\ main = "done" => looping = {}

\* A thread that publishes runs, and has received an uplink.
Busy == \A s \in Sources : work[s] # "idle" => s \in looping /\ received[s] > 0

\* A content half received belongs to a thread that is sending it, or that was
\* cancelled while it did.
ContentKnown ==
  content # 0 =>
    /\ amqp = "open"
    /\ \/ work[content] = "sending"
       \/ main \in {"clear", "done"} /\ content \notin looping

\* Nothing is in the queue that its source has not received, nor the uplink that
\* its thread is about to publish.
Behind ==
  \A i \in DOMAIN queue :
    /\ queue[i][2] <= received[queue[i][1]]
    /\ work[queue[i][1]] # "idle" => queue[i][2] < received[queue[i][1]]

LifeInv == TypeOK /\ Lifecycle /\ Busy
SafeInv == ContentKnown /\ Behind /\ QueuedOnceInOrder

-----------------------------------------------------------------------------
(* Types, life cycle and threads *)

\* The initial states satisfy the first layer.
LEMMA LifeInit == Init => LifeInv
<1> SUFFICES ASSUME Init PROVE LifeInv
  OBVIOUS
<1>1. 1 \in Sources
  BY NumSourcesAssumption DEF Sources
<1>2. /\ session \in [Sources -> SessionStates]
      /\ received \in [Sources -> 0..MaxUplinks]
      /\ work \in [Sources -> WorkStates]
  BY MaxUplinksAssumption DEF Init, HandlersInit, SessionStates, WorkStates
<1>3. queue \in Seq(Sources \X (1..MaxUplinks))
  BY DEF Init, PublisherInit
<1>4. TypeOK
  BY <1>1, <1>2, <1>3 DEF Init, HandlersInit, PublisherInit, TypeOK, ChannelStates, MainStates
<1>5. Lifecycle /\ Busy
  BY DEF Init, HandlersInit, Lifecycle, Busy
<1> QED BY <1>4, <1>5 DEF LifeInv

\* Whenever a loop thread runs, instance is a source.
LEMMA InstanceIsSource ==
  ASSUME LifeInv, looping # {}
  PROVE  instance \in alive /\ instance \in Sources
BY DEF LifeInv, TypeOK, Lifecycle

\* The actions of the publisher other than the last of a publish keep the types of its
\* variables.
LEMMA PublisherType ==
  ASSUME LifeInv,
         OpenConnection \/ SetupQueues \/ LoseChannel \/ (\E s \in Sources : SendMethod(s))
  PROVE  /\ connected' \in BOOLEAN /\ declared' \in BOOLEAN
         /\ amqp' \in ChannelStates
         /\ binding' \in {"none", BindKey}
         /\ content' \in {0} \cup Sources
         /\ queue' = queue
BY DEF LifeInv, TypeOK, OpenConnection, SetupQueues, LoseChannel, SendMethod, ChannelStates

\* Every step of the main thread preserves the first layer.
LEMMA LifeMain ==
  ASSUME LifeInv, MainThread \/ Stop
  PROVE  LifeInv'
<1> USE NumSourcesAssumption, MaxUplinksAssumption DEF LifeInv
<1>1. CASE CreatePublisher
  <2>1. OpenConnection /\ main' = "queues" /\ UNCHANGED <<mqttVars, next, work>> /\ main = "publisher"
    BY <1>1 DEF CreatePublisher
  <2>2. TypeOK'
    BY <2>1, PublisherType DEF TypeOK, mqttVars, MainStates, BindKey
  <2> QED BY <2>1, <2>2 DEF Lifecycle, Busy, mqttVars
<1>2. CASE DeclareQueues
  <2>1. SetupQueues /\ main' = "construct" /\ UNCHANGED <<mqttVars, next, work>> /\ main = "queues"
    BY <1>2 DEF DeclareQueues
  <2>2. TypeOK'
    BY <2>1, PublisherType DEF TypeOK, mqttVars, MainStates, BindKey
  <2> QED BY <2>1, <2>2 DEF Lifecycle, Busy, mqttVars
<1>3. CASE CreateHandler
  <2>1. TypeOK'
    BY <1>3 DEF CreateHandler, Construct, SetMessageCallback, ConnectAndSubscribe, TypeOK,
                pubVars, MainStates, SessionStates, BindKey
  <2>2. Lifecycle' /\ Busy'
    BY <1>3 DEF CreateHandler, Construct, SetMessageCallback, ConnectAndSubscribe, TypeOK,
                Lifecycle, Busy, Sources
  <2> QED BY <2>1, <2>2
<1>4. CASE StartLoop
  <2>1. TypeOK'
    <3>1. next' \in Sources /\ main' \in MainStates
      BY <1>4 DEF StartLoop, TypeOK, MainStates, Sources
    <3>2. looping' \subseteq Sources
      BY <1>4 DEF StartLoop, Loop, TypeOK
    <3> QED BY <1>4, <3>1, <3>2 DEF StartLoop, Loop, TypeOK, pubVars, BindKey
  <2>2. Lifecycle' /\ Busy'
    BY <1>4 DEF StartLoop, Loop, TypeOK, Lifecycle, Busy, Sources
  <2> QED BY <2>1, <2>2
<1>5. CASE Stop
  <2>1. TypeOK'
    BY <1>5 DEF Stop, TypeOK, mqttVars, pubVars, MainStates, BindKey
  <2>2. Lifecycle' /\ Busy'
    BY <1>5 DEF Stop, TypeOK, Lifecycle, Busy, mqttVars, Sources
  <2> QED BY <2>1, <2>2
<1>6. CASE ClearHandler
  <2>1. TypeOK'
    <3>1. next' \in Sources /\ main' \in MainStates
      BY <1>6 DEF ClearHandler, TypeOK, MainStates, Sources
    <3>2. session' \in [Sources -> SessionStates] /\ work' \in [Sources -> WorkStates]
      BY <1>6 DEF ClearHandler, Destroy, TypeOK, SessionStates, WorkStates
    <3>3. alive' \subseteq Sources /\ looping' \subseteq Sources /\ subscribed' \subseteq Sources
      BY <1>6 DEF ClearHandler, Destroy, TypeOK
    <3> QED BY <1>6, <3>1, <3>2, <3>3 DEF ClearHandler, Destroy, TypeOK, pubVars, BindKey
  <2>2. Busy'
    BY <1>6 DEF ClearHandler, Destroy, TypeOK, Busy, Sources
  <2>3. Lifecycle'
    BY <1>6 DEF ClearHandler, Destroy, TypeOK, Lifecycle, Sources
  <2> QED BY <2>1, <2>2, <2>3
<1> QED BY <1>1, <1>2, <1>3, <1>4, <1>5, <1>6 DEF MainThread

\* Every step of a loop thread preserves the first layer.
LEMMA LifeLoop ==
  ASSUME LifeInv, NEW s \in Sources, LoopThread(s)
  PROVE  LifeInv'
<1> USE NumSourcesAssumption, MaxUplinksAssumption DEF LifeInv
<1>1. CASE OnMessage(s)
  <2>1. /\ s \in looping /\ received[s] < MaxUplinks
        /\ received' = [received EXCEPT ![s] = @ + 1]
        /\ work' = work \/ work' = [work EXCEPT ![s] = "publish"]
        /\ UNCHANGED <<instance, alive, callback, looping, session, subscribed, pubVars, main, next>>
    BY <1>1 DEF OnMessage, Receive, Receivable
  <2>2. TypeOK'
    <3>1. work' \in [Sources -> WorkStates]
      BY <2>1 DEF TypeOK, WorkStates
    <3>2. received' \in [Sources -> 0..MaxUplinks]
      BY <2>1 DEF TypeOK
    <3> QED BY <2>1, <3>1, <3>2 DEF TypeOK, pubVars, BindKey
  <2>3. Lifecycle'
    BY <2>1 DEF Lifecycle
  <2>4. Busy'
    BY <2>1 DEF Busy, TypeOK
  <2> QED BY <2>2, <2>3, <2>4
<1>2. CASE Crash(s)
  <2>1. TypeOK'
    BY <1>2 DEF Crash, TypeOK, pubVars, MainStates, SessionStates, WorkStates, BindKey
  <2>2. Lifecycle' /\ Busy'
    BY <1>2 DEF Crash, Lifecycle, Busy
  <2> QED BY <2>1, <2>2
<1>3. CASE Publish(s)
  <2>1. TypeOK'
    <3>1. CASE SendMethod(s)
      BY <1>3, <3>1, PublisherType DEF Publish, TypeOK, mqttVars, WorkStates, BindKey
    <3>2. CASE UNCHANGED pubVars
      BY <1>3, <3>2 DEF Publish, TypeOK, mqttVars, pubVars, WorkStates, BindKey
    <3> QED BY <1>3, <3>1, <3>2 DEF Publish
  <2>2. Lifecycle' /\ Busy'
    BY <1>3 DEF Publish, Lifecycle, Busy, TypeOK, mqttVars
  <2> QED BY <2>1, <2>2
<1>4. CASE CompletePublish(s)
  <2>1. MessageOf(s) \in Sources \X (1..MaxUplinks)
    BY <1>4 DEF CompletePublish, MessageOf, Busy, TypeOK
  <2>2. queue' \in Seq(Sources \X (1..MaxUplinks))
    <3> DEFINE E == Sources \X (1..MaxUplinks)
    <3>1. queue \in Seq(E) /\ MessageOf(s) \in E
      BY <2>1 DEF TypeOK
    <3>2. queue' = queue \/ queue' = Append(queue, MessageOf(s))
      BY <1>4 DEF CompletePublish, SendContent
    <3> HIDE DEF E
    <3>3. queue' \in Seq(E)
      BY <3>1, <3>2
    <3> QED BY <3>3 DEF E
  <2>3. TypeOK'
    BY <1>4, <2>2 DEF CompletePublish, SendContent, TypeOK, mqttVars, WorkStates, BindKey
  <2>4. Lifecycle' /\ Busy'
    BY <1>4 DEF CompletePublish, Lifecycle, Busy, TypeOK, mqttVars
  <2> QED BY <2>3, <2>4
<1>5. CASE Network(s)
  <2>1. /\ s \in looping
        /\ UNCHANGED <<instance, alive, callback, looping, received, pubVars, procVars>>
    BY <1>5 DEF Network, Reconnect, OnConnect, OnConnectRefused
  <2>2. instance \in Sources
    BY <2>1, InstanceIsSource
  <2>3. session' \in [Sources -> SessionStates] /\ subscribed' \subseteq Sources
    BY <1>5, <2>2 DEF Network, Reconnect, OnConnect, OnConnectRefused, TypeOK, SessionStates
  <2>4. TypeOK'
    BY <2>1, <2>3 DEF TypeOK, pubVars, procVars, BindKey
  <2> QED BY <2>1, <2>4 DEF Lifecycle, Busy, procVars
<1> QED BY <1>1, <1>2, <1>3, <1>4, <1>5 DEF LoopThread

\* Every step preserves the first layer.
LEMMA LifeStep == LifeInv /\ [Next]_vars => LifeInv'
<1> SUFFICES ASSUME LifeInv, [Next]_vars PROVE LifeInv'
  OBVIOUS
<1>1. CASE Disturb
  <2>1. TypeOK'
    <3>1. CASE LoseChannel /\ UNCHANGED mqttVars
      BY <1>1, <3>1, PublisherType DEF Disturb, LifeInv, TypeOK, mqttVars, procVars, BindKey
    <3>2. CASE (\E s \in Sources : DropSession(s)) /\ UNCHANGED pubVars
      BY <1>1, <3>2 DEF Disturb, DropSession, LifeInv, TypeOK, pubVars, procVars,
                        SessionStates, BindKey
    <3> QED BY <1>1, <3>1, <3>2 DEF Disturb
  <2>2. UNCHANGED <<instance, alive, looping, received, procVars>>
    BY <1>1 DEF Disturb, DropSession, mqttVars
  <2> QED BY <2>1, <2>2 DEF LifeInv, Lifecycle, Busy, procVars
<1>2. CASE UNCHANGED vars
  BY <1>2 DEF vars, mqttVars, pubVars, procVars, LifeInv, TypeOK, Lifecycle, Busy, BindKey
<1> QED BY <1>1, <1>2, LifeMain, LifeLoop DEF Next

-----------------------------------------------------------------------------
(* The channel and the queue *)

\* Steps that leave the queue alone, let received only grow, and start no publish of
\* an uplink that was received before.
Quiet ==
  /\ queue' = queue
  /\ \A s \in Sources :
       /\ received'[s] >= received[s]
       /\ work'[s] # "idle" => work[s] # "idle" \/ received'[s] > received[s]

\* What the queue holds are pairs of a source and a number.
LEMMA QueuedPair ==
  ASSUME LifeInv, NEW i \in DOMAIN queue
  PROVE  \E s \in Sources, k \in 1..MaxUplinks : queue[i] = <<s, k>>
<1> DEFINE E == Sources \X (1..MaxUplinks)
<1>1. queue \in Seq(E)
  BY DEF LifeInv, TypeOK
<1> HIDE DEF E
<1>2. queue[i] \in E
  <2>1. DOMAIN queue = 1..Len(queue)
    BY <1>1
  <2> QED BY <1>1, <2>1, ElementOfSeq
<1> QED BY <1>2 DEF E

\* Such steps keep the queue in order.
LEMMA QuietOrder ==
  ASSUME LifeInv, LifeInv', SafeInv, Quiet
  PROVE  (Behind /\ QueuedOnceInOrder)'
<1>1. QueuedOnceInOrder'
  BY DEF Quiet, SafeInv, QueuedOnceInOrder
<1>2. Behind'
  <2> SUFFICES ASSUME NEW i \in DOMAIN queue
               PROVE  /\ queue[i][2] <= received'[queue[i][1]]
                      /\ work'[queue[i][1]] # "idle" => queue[i][2] < received'[queue[i][1]]
    BY DEF Behind, Quiet
  <2>1. PICK s \in Sources, k \in 1..MaxUplinks : queue[i] = <<s, k>>
    BY QueuedPair
  <2>3. k <= received[s] /\ (work[s] # "idle" => k < received[s])
    BY <2>1 DEF SafeInv, Behind
  <2>4. received[s] \in Nat /\ received'[s] \in Nat
    BY MaxUplinksAssumption DEF LifeInv, TypeOK
  <2>5. /\ received'[s] >= received[s]
        /\ work'[s] # "idle" => work[s] # "idle" \/ received'[s] > received[s]
    BY DEF Quiet
  <2>6. k <= received'[s] /\ (work'[s] # "idle" => k < received'[s])
    BY <2>3, <2>4, <2>5, MaxUplinksAssumption
  <2> QED BY <2>1, <2>6
<1> QED BY <1>1, <1>2

\* The step that queues an uplink.
LEMMA QueueOrder ==
  ASSUME LifeInv, SafeInv, NEW s \in Sources,
         work[s] = "sending", work' = [work EXCEPT ![s] = "idle"],
         received' = received,
         queue' = Append(queue, <<s, received[s]>>)
  PROVE  (Behind /\ QueuedOnceInOrder)'
<1> DEFINE n == Len(queue)
<1>1. /\ n \in Nat /\ DOMAIN queue = 1..n /\ DOMAIN queue' = 1..(n + 1)
      /\ \A i \in 1..n : queue'[i] = queue[i]
      /\ queue'[n + 1] = <<s, received[s]>>
  <2> DEFINE E == Sources \X (1..MaxUplinks)
  <2>1. queue \in Seq(E)
    BY DEF LifeInv, TypeOK
  <2>2. <<s, received[s]>> \in E
    BY DEF LifeInv, TypeOK, Busy
  <2> HIDE DEF E
  <2> QED BY <2>1, <2>2, AppendProperties
<1>2. ASSUME NEW i \in 1..n
      PROVE  /\ queue[i][1] \in Sources /\ queue[i][2] \in Nat
             /\ queue[i][2] <= received[queue[i][1]]
             /\ queue[i][1] = s => queue[i][2] < received[s]
             /\ work'[queue[i][1]] # "idle" => queue[i][2] < received[queue[i][1]]
  <2>1. PICK t \in Sources, k \in 1..MaxUplinks : queue[i] = <<t, k>>
    BY <1>1, QueuedPair
  <2>2. k <= received[t] /\ (work[t] # "idle" => k < received[t])
    BY <1>1, <2>1 DEF SafeInv, Behind
  <2>3. work'[t] # "idle" => work[t] # "idle"
    BY DEF LifeInv, TypeOK
  <2> QED BY <2>1, <2>2, <2>3, MaxUplinksAssumption
<1>3. work'[s] = "idle" /\ received[s] \in Nat
  BY MaxUplinksAssumption DEF LifeInv, TypeOK
<1> HIDE DEF n
<1>4. QueuedOnceInOrder'
  <2> SUFFICES ASSUME NEW i \in 1..(n + 1), NEW j \in 1..(n + 1),
                      i < j, queue'[i][1] = queue'[j][1]
               PROVE  queue'[i][2] < queue'[j][2]
    BY <1>1 DEF QueuedOnceInOrder
  <2>1. CASE j \in 1..n
    BY <1>1, <2>1 DEF SafeInv, QueuedOnceInOrder
  <2>2. CASE j = n + 1
    BY <1>1, <1>2, <2>2
  <2> QED BY <1>1, <2>1, <2>2
<1>5. Behind'
  <2> SUFFICES ASSUME NEW i \in 1..(n + 1)
               PROVE  /\ queue'[i][2] <= received[queue'[i][1]]
                      /\ work'[queue'[i][1]] # "idle" => queue'[i][2] < received[queue'[i][1]]
    BY <1>1 DEF Behind
  <2>1. CASE i \in 1..n
    BY <1>1, <1>2, <2>1
  <2>2. CASE i = n + 1
    BY <1>1, <1>3, <2>2
  <2> QED BY <1>1, <2>1, <2>2
<1> QED BY <1>4, <1>5

\* Every step but the last of a publish leaves the queue to QuietOrder.
LEMMA OrderStep ==
  ASSUME LifeInv, LifeInv', SafeInv, [Next]_vars
  PROVE  (Behind /\ QueuedOnceInOrder)'
<1>0. /\ work \in [Sources -> WorkStates]
      /\ received \in [Sources -> 0..MaxUplinks]
      /\ \A s \in Sources : received[s] \in Int
  BY MaxUplinksAssumption DEF LifeInv, TypeOK
<1>1. CASE MainThread \/ Stop
  <2>1. Quiet
    BY <1>0, <1>1 DEF MainThread, Stop, CreatePublisher, DeclareQueues, CreateHandler, StartLoop,
       ClearHandler, Construct, SetMessageCallback, ConnectAndSubscribe, Loop, Destroy,
       OpenConnection, SetupQueues, mqttVars, pubVars, Quiet
  <2> QED BY <2>1, QuietOrder
<1>2. CASE Disturb
  <2>1. Quiet
    BY <1>0, <1>2 DEF Disturb, DropSession, LoseChannel, mqttVars, pubVars, procVars, Quiet
  <2> QED BY <2>1, QuietOrder
<1>3. CASE UNCHANGED vars
  <2>1. Quiet
    BY <1>0, <1>3 DEF vars, mqttVars, pubVars, procVars, Quiet
  <2> QED BY <2>1, QuietOrder
<1>4. ASSUME NEW s \in Sources, LoopThread(s) PROVE (Behind /\ QueuedOnceInOrder)'
  <2>1. CASE OnMessage(s)
    <3>1. /\ received' = [received EXCEPT ![s] = @ + 1]
          /\ work' = work \/ work' = [work EXCEPT ![s] = "publish"]
          /\ queue' = queue
      BY <2>1 DEF OnMessage, Receive, pubVars
    <3>2. Quiet
      BY <1>0, <3>1 DEF Quiet
    <3> QED BY <3>2, QuietOrder
  <2>2. CASE Crash(s) \/ Network(s)
    <3>1. Quiet
      BY <1>0, <2>2 DEF Crash, Network, Reconnect, OnConnect, OnConnectRefused, pubVars,
                        procVars, Quiet
    <3> QED BY <3>1, QuietOrder
  <2>3. CASE Publish(s)
    <3>1. Quiet
      BY <1>0, <2>3 DEF Publish, SendMethod, pubVars, mqttVars, Quiet
    <3> QED BY <3>1, QuietOrder
  <2>4. CASE CompletePublish(s)
    <3>1. /\ work[s] = "sending" /\ work' = [work EXCEPT ![s] = "idle"]
          /\ received' = received
          /\ queue' = queue \/ queue' = Append(queue, <<s, received[s]>>)
      BY <2>4 DEF CompletePublish, SendContent, MessageOf, mqttVars
    <3>2. CASE queue' = queue
      <4>1. Quiet
        BY <1>0, <3>1, <3>2 DEF Quiet
      <4> QED BY <4>1, QuietOrder
    <3>3. CASE queue' = Append(queue, <<s, received[s]>>)
      BY <3>1, <3>3, QueueOrder
    <3> QED BY <3>1, <3>2, <3>3
  <2> QED BY <1>4, <2>1, <2>2, <2>3, <2>4 DEF LoopThread
<1> QED BY <1>1, <1>2, <1>3, <1>4 DEF Next

\* A content in progress always has a sender, or had one that was cancelled.
LEMMA ContentStep ==
  ASSUME LifeInv, LifeInv', SafeInv, [Next]_vars
  PROVE  ContentKnown'
<1> USE DEF ContentKnown
<1>0. /\ content \in {0} \cup Sources
      /\ work \in [Sources -> WorkStates]
      /\ ContentKnown
      /\ 0 \notin Sources
  BY DEF LifeInv, TypeOK, SafeInv, Sources
<1>1. CASE CreatePublisher \/ DeclareQueues
  <2>1. looping = {} /\ main \notin {"clear", "done"}
    BY <1>1 DEF CreatePublisher, DeclareQueues, LifeInv, Lifecycle
  <2>2. content = 0
    BY <1>0, <2>1 DEF LifeInv, Busy
  <2> QED BY <1>1, <2>2 DEF CreatePublisher, DeclareQueues, OpenConnection, SetupQueues
<1>2. CASE CreateHandler
  BY <1>0, <1>2 DEF CreateHandler, pubVars
<1>3. CASE StartLoop \/ Stop
  BY <1>0, <1>3 DEF StartLoop, Stop, pubVars, mqttVars
<1>4. CASE ClearHandler
  <2>1. /\ main = "clear" /\ main' \in {"clear", "done"}
        /\ looping' = looping \ {next}
        /\ work' = [work EXCEPT ![next] = "idle"]
        /\ UNCHANGED <<content, amqp>>
    BY <1>4 DEF ClearHandler, Destroy, pubVars
  <2>2. CASE content = next
    BY <1>0, <2>1, <2>2
  <2>3. CASE content # next
    BY <1>0, <2>1, <2>3
  <2> QED BY <2>2, <2>3
<1>5. CASE Disturb
  BY <1>0, <1>5 DEF Disturb, LoseChannel, DropSession, pubVars, mqttVars, procVars
<1>6. CASE UNCHANGED vars
  BY <1>0, <1>6 DEF vars, pubVars, mqttVars, procVars
<1>7. ASSUME NEW s \in Sources, LoopThread(s) PROVE ContentKnown'
  <2>1. CASE OnMessage(s)
    BY <1>0, <2>1 DEF OnMessage, Receive, pubVars
  <2>2. CASE Crash(s)
    BY <1>0, <2>2 DEF Crash, pubVars
  <2>3. CASE Network(s)
    BY <1>0, <2>3 DEF Network, Reconnect, OnConnect, OnConnectRefused, pubVars, procVars
  <2>4. CASE Publish(s)
    BY <1>0, <2>4 DEF Publish, SendMethod, pubVars, mqttVars
  <2>5. CASE CompletePublish(s)
    BY <1>0, <2>5 DEF CompletePublish, SendContent, mqttVars
  <2> QED BY <1>7, <2>1, <2>2, <2>3, <2>4, <2>5 DEF LoopThread
<1> QED BY <1>1, <1>2, <1>3, <1>4, <1>5, <1>6, <1>7 DEF Next, MainThread

\* The initial states satisfy the second layer.
LEMMA SafeInit == Init => SafeInv
BY DEF Init, PublisherInit, SafeInv, ContentKnown, Behind, QueuedOnceInOrder

\* Every step preserves the second layer.
LEMMA SafeStep == LifeInv /\ LifeInv' /\ SafeInv /\ [Next]_vars => SafeInv'
BY OrderStep, ContentStep DEF SafeInv

-----------------------------------------------------------------------------
(* The theorems *)

\* Every variable of the Producer keeps its type: in particular the loop over the
\* sources stays within them, and a thread publishes only what it has received.
THEOREM TypeCorrect == Spec => []TypeOK
<1>1. LifeInv => TypeOK
  BY DEF LifeInv
<1> QED BY <1>1, LifeInit, LifeStep, PTL DEF Spec

\* However many sources there are, and whenever SIGINT comes, no loop thread ever
\* calls through a pointer to a destroyed handler (mqtt_handler.cpp:5-34).
THEOREM InstanceCorrect == Spec => []InstanceAlive
<1>1. LifeInv => InstanceAlive
  BY DEF LifeInv, Lifecycle, InstanceAlive
<1> QED BY <1>1, LifeInit, LifeStep, PTL DEF Spec

\* However many threads share the channel, the queue receives the uplinks of each
\* source in order and once (lavinmq_publisher.cpp:67-101).
THEOREM OrderCorrect == Spec => []QueuedOnceInOrder
<1>1. SafeInv => QueuedOnceInOrder
  BY DEF SafeInv
<1> QED BY <1>1, LifeInit, LifeStep, SafeInit, SafeStep, PTL DEF Spec

\* A content half received is being sent by its thread, until the clean-up cancels
\* threads (mqtt_handler.cpp:29-34, lavinmq_publisher.cpp:94).
THEOREM SenderCorrect == Spec => []ContentHasSender
<1>1. SafeInv => ContentHasSender
  BY DEF SafeInv, ContentKnown, ContentHasSender
<1> QED BY <1>1, LifeInit, LifeStep, SafeInit, SafeStep, PTL DEF Spec

\* With one source and a network that does not fail, the channel is never lost: only
\* a second thread can put a method frame into a content.
THEOREM ChannelCorrect ==
  ASSUME NumSources = 1, PublisherFaults = {}
  PROVE  Spec => []ChannelKept
<1>1. Init => ChannelKept
  BY DEF Init, PublisherInit, ChannelKept
<1>2. LifeInv /\ SafeInv /\ ChannelKept /\ [Next]_vars => ChannelKept'
  <2> SUFFICES ASSUME LifeInv, SafeInv, ChannelKept, [Next]_vars PROVE ChannelKept'
    OBVIOUS
  <2> USE DEF ChannelKept
  <2>1. CASE MainThread \/ Stop
    BY <2>1 DEF MainThread, Stop, CreatePublisher, DeclareQueues, CreateHandler, StartLoop,
       ClearHandler, OpenConnection, SetupQueues, pubVars
  <2>2. CASE Disturb \/ UNCHANGED vars
    BY <2>2 DEF Disturb, LoseChannel, vars, pubVars
  <2>3. ASSUME NEW s \in Sources, LoopThread(s) PROVE ChannelKept'
    <3>1. CASE Publish(s)
      <4>1. s = 1 /\ s \in looping /\ content \in {0, 1}
        BY <3>1 DEF Publish, LifeInv, Busy, TypeOK, Sources
      <4>2. content = 0
        BY <3>1, <4>1 DEF Publish, SafeInv, ContentKnown
      <4> QED BY <3>1, <4>2 DEF Publish, SendMethod, pubVars
    <3>2. CASE OnMessage(s) \/ Crash(s) \/ CompletePublish(s) \/ Network(s)
      BY <3>2 DEF OnMessage, Crash, CompletePublish, SendContent, Network, pubVars
    <3> QED BY <2>3, <3>1, <3>2 DEF LoopThread
  <2> QED BY <2>1, <2>2, <2>3 DEF Next
<1> QED BY <1>1, <1>2, LifeInit, LifeStep, SafeInit, SafeStep, PTL DEF Spec

-----------------------------------------------------------------------------
(* Subscriptions *)

\* The handler that the static pointer names has a subscription whenever its session
\* is open.  The handlers before it run already, those after it do not.
NamedSubscribed ==
  /\ instance # 0 /\ session[instance] = "up" => instance \in subscribed
  /\ \A s \in Sources : session[s] = "up" => s \in looping
  /\ main \in {"publisher", "queues"} => next = 1
  /\ main \in {"construct", "callback", "connect", "loop"} =>
       \A s \in looping : s < next

\* The steps of the main thread.
LEMMA NamedMain ==
  ASSUME LifeInv, NamedSubscribed, MainThread \/ Stop
  PROVE  NamedSubscribed'
<1> USE DEF NamedSubscribed
<1>0. /\ Sources \subseteq Nat /\ next \in Sources /\ looping \subseteq Sources
      /\ session \in [Sources -> SessionStates] /\ instance \in {0} \cup Sources
  BY DEF Sources, LifeInv, TypeOK
<1>1. CASE CreatePublisher \/ DeclareQueues
  <2>1. looping = {} /\ UNCHANGED <<mqttVars, next>> /\ main' \in {"queues", "construct"}
        /\ (main' = "queues" => next = 1)
    BY <1>1 DEF CreatePublisher, DeclareQueues, LifeInv, Lifecycle
  <2> QED BY <2>1 DEF mqttVars
<1>2. CASE CreateHandler
  <2>1. CASE main = "construct" /\ Construct(next) /\ main' = "callback" /\ next' = next
    <3>1. session[next] # "up"
      BY <1>0, <2>1
    <3> QED BY <1>0, <2>1, <3>1 DEF Construct
  <2>2. CASE main = "callback" /\ SetMessageCallback(next) /\ main' = "connect" /\ next' = next
    BY <2>2 DEF SetMessageCallback
  <2>3. CASE main = "connect" /\ ConnectAndSubscribe(next) /\ main' = "loop" /\ next' = next
    BY <1>0, <2>3 DEF ConnectAndSubscribe
  <2> QED BY <1>2, <2>1, <2>2, <2>3 DEF CreateHandler
<1>3. CASE StartLoop
  BY <1>0, <1>3 DEF StartLoop, Loop
<1>4. CASE Stop
  BY <1>4 DEF Stop, mqttVars
<1>5. CASE ClearHandler
  BY <1>0, <1>5 DEF ClearHandler, Destroy
<1> QED BY <1>1, <1>2, <1>3, <1>4, <1>5 DEF MainThread

\* A CONNACK is the only step to an open session, and the handler that it subscribes
\* is the one named.
LEMMA NamedStep ==
  ASSUME LifeInv, NamedSubscribed, [Next]_vars
  PROVE  NamedSubscribed'
<1> USE DEF NamedSubscribed
<1>0. /\ session \in [Sources -> SessionStates] /\ instance \in {0} \cup Sources
      /\ looping \subseteq Sources
  BY DEF LifeInv, TypeOK
<1>1. CASE Disturb \/ UNCHANGED vars
  BY <1>0, <1>1 DEF Disturb, DropSession, vars, mqttVars, procVars
<1>2. ASSUME NEW s \in Sources, LoopThread(s) PROVE NamedSubscribed'
  <2>1. CASE OnMessage(s) \/ Publish(s) \/ CompletePublish(s)
    BY <2>1 DEF OnMessage, Receive, Publish, CompletePublish, mqttVars
  <2>2. CASE Crash(s)
    BY <1>0, <2>2 DEF Crash
  <2>3. CASE Network(s)
    <3>1. UNCHANGED <<instance, looping, main, next>> /\ s \in looping
      BY <2>3 DEF Network, Reconnect, OnConnect, OnConnectRefused, procVars
    <3>2. instance \in Sources
      BY <3>1, InstanceIsSource
    <3>3. CASE Reconnect(s) \/ OnConnectRefused(s)
      BY <1>0, <3>1, <3>3 DEF Reconnect, OnConnectRefused
    <3>4. CASE OnConnect(s)
      BY <1>0, <3>1, <3>2, <3>4 DEF OnConnect
    <3> QED BY <2>3, <3>3, <3>4 DEF Network
  <2> QED BY <1>2, <2>1, <2>2, <2>3 DEF LoopThread
<1> QED BY <1>1, <1>2, NamedMain DEF Next

\* For any number of sources, whatever the brokers refuse and drop, the last source is
\* served whenever its session is open (mqtt_handler.cpp:5-63, main.cpp:383-486): only
\* the sources before it may be connected without a subscription.
THEOREM LastSubscribedCorrect == Spec => []LastSourceSubscribed
<1>1. Init => NamedSubscribed
  BY DEF Init, HandlersInit, NamedSubscribed
<1>2. LifeInv /\ NamedSubscribed => LastSourceSubscribed
  BY NumSourcesAssumption DEF LifeInv, Lifecycle, NamedSubscribed, LastSourceSubscribed
<1> QED BY <1>1, <1>2, NamedStep, LifeInit, LifeStep, PTL DEF Spec

\* With one source, whatever the broker refuses and drops, a handler whose client is
\* connected is subscribed (mqtt_handler.cpp:40-63): the static pointer does no harm.
THEOREM SubscribedCorrect ==
  ASSUME NumSources = 1
  PROVE  Spec => []EverySourceSubscribed
<1>1. LastSourceSubscribed => EverySourceSubscribed
  BY DEF LastSourceSubscribed, EverySourceSubscribed, Sources
<1> QED BY <1>1, LastSubscribedCorrect, PTL

-----------------------------------------------------------------------------
(* The Producer implements Forwarding *)

\* A channel that is open at the broker belongs to a connected publisher, and a thread
\* that is sending on it has the broker's attention; the named handler has its callback
\* but while that is assigned; nothing is received before the queue is declared.
Flow ==
  /\ amqp = "open" => connected
  /\ \A s \in Sources : work[s] = "sending" /\ amqp = "open" => content = s
  /\ instance # 0 /\ main \notin {"callback", "done"} => instance \in callback
  /\ main \in {"publisher", "queues"} => \A s \in Sources : received[s] = 0

\* The initial states satisfy Flow.
LEMMA FlowInit == Init => Flow
BY DEF Init, HandlersInit, PublisherInit, Flow

\* Every step of the main thread preserves it.
LEMMA FlowMain ==
  ASSUME LifeInv, Flow, MainThread \/ Stop
  PROVE  Flow'
<1> USE DEF Flow
<1>0. work \in [Sources -> WorkStates] /\ next \in Sources
  BY DEF LifeInv, TypeOK
<1>1. CASE CreatePublisher \/ DeclareQueues
  <2>1. \A s \in Sources : work[s] = "idle"
    BY <1>1 DEF CreatePublisher, DeclareQueues, LifeInv, Lifecycle, Busy
  <2> QED BY <1>1, <2>1 DEF CreatePublisher, DeclareQueues, OpenConnection, SetupQueues, mqttVars,
          LifeInv, Lifecycle
<1>2. CASE CreateHandler
  BY <1>2 DEF CreateHandler, Construct, SetMessageCallback, ConnectAndSubscribe, pubVars,
              LifeInv, Lifecycle
<1>3. CASE StartLoop \/ Stop
  BY <1>3 DEF StartLoop, Loop, Stop, pubVars, mqttVars
<1>4. CASE ClearHandler
  BY <1>0, <1>4 DEF ClearHandler, Destroy, pubVars
<1> QED BY <1>1, <1>2, <1>3, <1>4 DEF MainThread

\* So does every other step.
LEMMA FlowStep ==
  ASSUME LifeInv, SafeInv, Flow, [Next]_vars
  PROVE  Flow'
<1> USE DEF Flow
<1>0. /\ work \in [Sources -> WorkStates] /\ 0 \notin Sources
      /\ received \in [Sources -> 0..MaxUplinks]
  BY DEF LifeInv, TypeOK, Sources
<1>1. CASE Disturb \/ UNCHANGED vars
  BY <1>1 DEF Disturb, DropSession, LoseChannel, vars, mqttVars, pubVars, procVars
<1>2. ASSUME NEW s \in Sources, LoopThread(s) PROVE Flow'
  <2>1. CASE OnMessage(s)
    <3>1. main \notin {"publisher", "queues"}
      BY <2>1 DEF OnMessage, Receive, Receivable, LifeInv, Lifecycle
    <3>2. work' = work \/ work' = [work EXCEPT ![s] = "publish"]
      BY <2>1 DEF OnMessage
    <3> QED BY <1>0, <2>1, <3>1, <3>2 DEF OnMessage, Receive, pubVars
  <2>2. CASE Crash(s)
    BY <1>0, <2>2 DEF Crash, BeingAssigned, pubVars
  <2>3. CASE Publish(s)
    BY <1>0, <2>3 DEF Publish, SendMethod, pubVars, mqttVars
  <2>4. CASE CompletePublish(s)
    BY <1>0, <2>4 DEF CompletePublish, SendContent, mqttVars
  <2>5. CASE Network(s)
    BY <2>5 DEF Network, Reconnect, OnConnect, OnConnectRefused, pubVars, procVars
  <2> QED BY <1>2, <2>1, <2>2, <2>3, <2>4, <2>5 DEF LoopThread
<1> QED BY <1>1, <1>2, FlowMain DEF Next

handling == {s \in Sources : work[s] # "idle"}
routed   == amqp = "open" /\ binding = RoutingKey

\* The initial states are those of Forwarding.
LEMMA AbstractInit == Init => Abstract!Init
BY DEF Init, HandlersInit, PublisherInit, Abstract!Init, PhaseOf

\* Steps that leave the loop threads and their uplinks alone, and end nothing.
LEMMA AbstractIdle ==
  ASSUME UNCHANGED <<received, work, queue>>,
         PhaseOf(main') = PhaseOf(main),
         routed' => \/ routed
                    \/ PhaseOf(main) = "starting" /\ \A s \in Sources : received[s] = 0
  PROVE  [Abstract!Next]_Abstract!vars
<1>1. CASE routed' = routed
  BY <1>1 DEF Abstract!vars, routed
<1>2. CASE ~routed'
  <2>1. Abstract!Break
    BY <1>2 DEF Abstract!Break, routed
  <2> QED BY <2>1 DEF Abstract!Next
<1>3. CASE routed' /\ ~routed
  <2>1. Abstract!Establish
    BY <1>3 DEF Abstract!Establish, routed
  <2> QED BY <2>1 DEF Abstract!Next
<1> QED BY <1>1, <1>2, <1>3 DEF routed

\* A step of the main thread is one of Forwarding, or none.
LEMMA AbstractMain ==
  ASSUME LifeInv, Flow, MainThread \/ Stop
  PROVE  [Abstract!Next]_Abstract!vars
<1>0. /\ work \in [Sources -> WorkStates] /\ next \in Sources
  BY DEF LifeInv, TypeOK
<1>1. CASE CreatePublisher \/ DeclareQueues
  <2>1. UNCHANGED <<received, work, queue>>
    BY <1>1 DEF CreatePublisher, DeclareQueues, OpenConnection, SetupQueues, mqttVars
  <2>2. PhaseOf(main') = "starting" /\ PhaseOf(main) = "starting"
        /\ \A s \in Sources : received[s] = 0
    BY <1>1 DEF CreatePublisher, DeclareQueues, PhaseOf, Flow
  <2> QED BY <2>1, <2>2, AbstractIdle
<1>2. CASE CreateHandler \/ (StartLoop /\ main' # "wait")
  <2>1. UNCHANGED <<received, work, queue>> /\ (routed' => routed)
    BY <1>2 DEF CreateHandler, StartLoop, Construct, SetMessageCallback, ConnectAndSubscribe, Loop,
                pubVars, routed
  <2>2. PhaseOf(main') = PhaseOf(main)
    BY <1>2 DEF CreateHandler, StartLoop, PhaseOf
  <2> QED BY <2>1, <2>2, AbstractIdle
<1>3. CASE (StartLoop /\ main' = "wait") \/ Stop
  <2>1. UNCHANGED <<received, work, queue, amqp, binding>>
    BY <1>3 DEF StartLoop, Loop, Stop, pubVars, mqttVars
  <2>2. <<PhaseOf(main), PhaseOf(main')>> \in {<<"starting", "serving">>, <<"serving", "ending">>}
    BY <1>3 DEF StartLoop, Stop, PhaseOf
  <2>3. Abstract!Advance
    BY <2>1, <2>2 DEF Abstract!Advance
  <2> QED BY <2>3 DEF Abstract!Next
<1>4. CASE ClearHandler
  <2>1. /\ UNCHANGED <<received, queue, amqp, binding>>
        /\ work' = [work EXCEPT ![next] = "idle"]
        /\ PhaseOf(main) = "ending" /\ PhaseOf(main') = "ending"
    BY <1>4 DEF ClearHandler, Destroy, pubVars, PhaseOf
  <2>2. handling' = handling \ {next}
    BY <1>0, <2>1 DEF handling
  <2>3. CASE next \in handling
    <3>1. PICK s \in Sources : s = next
      BY <1>0
    <3>2. Abstract!GiveUp(s)
      BY <2>1, <2>2, <2>3, <3>1 DEF Abstract!GiveUp, handling
    <3> QED BY <3>2 DEF Abstract!Next
  <2>4. CASE next \notin handling
    <3>1. handling' = handling
      BY <2>2, <2>4
    <3> QED BY <2>1, <3>1 DEF Abstract!vars, handling
  <2> QED BY <2>3, <2>4
<1> QED BY <1>1, <1>2, <1>3, <1>4 DEF MainThread

\* A step of a loop thread is one of Forwarding, or none.
LEMMA AbstractLoop ==
  ASSUME LifeInv, SafeInv, Flow, NEW s \in Sources, LoopThread(s)
  PROVE  [Abstract!Next]_Abstract!vars
<1>0. work \in [Sources -> WorkStates]
  BY DEF LifeInv, TypeOK
<1>1. CASE OnMessage(s)
  <2>1. /\ s \notin handling /\ received' = [received EXCEPT ![s] = @ + 1]
        /\ UNCHANGED <<main, amqp, binding, queue>>
        /\ \/ work' = [work EXCEPT ![s] = "publish"]
           \/ work' = work /\ instance \notin callback
    BY <1>1 DEF OnMessage, Receive, pubVars, handling
  <2>2. CASE work' = [work EXCEPT ![s] = "publish"]
    <3>1. handling' = handling \cup {s}
      BY <1>0, <2>2 DEF handling
    <3>2. Abstract!Receive(s)
      BY <2>1, <3>1 DEF Abstract!Receive, handling
    <3> QED BY <3>2 DEF Abstract!Next
  <2>3. CASE work' = work /\ instance \notin callback
    <3>1. instance # 0 /\ main # "done"
      BY <1>1, InstanceIsSource DEF OnMessage, Receive, Receivable, Sources, LifeInv, Lifecycle
    <3>2. PhaseOf(main) = "starting"
      BY <2>3, <3>1 DEF Flow, PhaseOf
    <3>3. Abstract!Overlook(s)
      BY <2>1, <2>3, <3>2 DEF Abstract!Overlook, handling
    <3> QED BY <3>3 DEF Abstract!Next
  <2> QED BY <2>1, <2>2, <2>3
<1>2. CASE Crash(s)
  <2>1. /\ UNCHANGED <<received, queue, amqp, binding>>
        /\ work' = [t \in Sources |-> "idle"]
        /\ PhaseOf(main) = "starting" /\ PhaseOf(main') = "ending"
    BY <1>2 DEF Crash, BeingAssigned, pubVars, PhaseOf
  <2>2. Abstract!Abort
    BY <2>1 DEF Abstract!Abort
  <2> QED BY <2>2 DEF Abstract!Next
<1>3. CASE Publish(s) /\ work'[s] = "idle"
  <2>1. /\ ~connected /\ UNCHANGED <<received, main, queue, amqp, binding>>
        /\ s \in handling /\ work' = [work EXCEPT ![s] = "idle"]
    BY <1>0, <1>3 DEF Publish, pubVars, mqttVars, handling
  <2>2. handling' = handling \ {s} /\ ~routed
    BY <1>0, <2>1 DEF handling, routed, Flow
  <2>3. Abstract!GiveUp(s)
    BY <2>1, <2>2 DEF Abstract!GiveUp, handling, routed
  <2> QED BY <2>3 DEF Abstract!Next
<1>4. CASE Publish(s) /\ work'[s] # "idle"
  <2>1. /\ SendMethod(s) /\ UNCHANGED <<received, main>>
        /\ work' = [work EXCEPT ![s] = "sending"] /\ work[s] = "publish"
    BY <1>0, <1>4 DEF Publish, mqttVars
  <2>2. handling' = handling
    BY <1>0, <2>1 DEF handling
  <2>3. UNCHANGED <<queue, binding>> /\ amqp' \in {amqp, "closed"}
    BY <2>1 DEF SendMethod
  <2>4. CASE amqp' = amqp
    BY <2>1, <2>2, <2>3, <2>4 DEF Abstract!vars, handling
  <2>5. CASE amqp' = "closed"
    <3>1. Abstract!Break
      BY <2>1, <2>2, <2>3, <2>5 DEF Abstract!Break, handling
    <3> QED BY <3>1 DEF Abstract!Next
  <2> QED BY <2>3, <2>4, <2>5
<1>5. CASE CompletePublish(s)
  <2>1. /\ SendContent(s, <<s, received[s]>>) /\ UNCHANGED <<received, main, amqp, binding>>
        /\ work[s] = "sending" /\ work' = [work EXCEPT ![s] = "idle"]
    BY <1>5 DEF CompletePublish, SendContent, MessageOf, mqttVars
  <2>2. s \in handling /\ handling' = handling \ {s}
    BY <1>0, <2>1 DEF handling
  <2>3. CASE routed
    <3>1. queue' = Append(queue, <<s, received[s]>>)
      BY <2>1, <2>3 DEF SendContent, routed, Flow
    <3>2. Abstract!Forward(s)
      BY <2>1, <2>2, <2>3, <3>1 DEF Abstract!Forward, handling, routed
    <3> QED BY <3>2 DEF Abstract!Next
  <2>4. CASE ~routed
    <3>1. queue' = queue
      BY <2>1, <2>4 DEF SendContent, routed
    <3>2. Abstract!GiveUp(s)
      BY <2>1, <2>2, <2>4, <3>1 DEF Abstract!GiveUp, handling, routed
    <3> QED BY <3>2 DEF Abstract!Next
  <2> QED BY <2>3, <2>4
<1>6. CASE Network(s)
  <2>1. UNCHANGED <<received, pubVars, procVars>>
    BY <1>6 DEF Network, Reconnect, OnConnect, OnConnectRefused
  <2> QED BY <2>1 DEF Abstract!vars, pubVars, procVars
<1> QED BY <1>1, <1>2, <1>3, <1>4, <1>5, <1>6 DEF LoopThread

\* Every step is one of Forwarding, or none.
LEMMA AbstractStep ==
  ASSUME LifeInv, SafeInv, Flow, [Next]_vars
  PROVE  [Abstract!Next]_Abstract!vars
<1>1. CASE Disturb
  <2>1. UNCHANGED <<received, queue, binding, procVars>> /\ amqp' \in {amqp, "closed"}
    BY <1>1 DEF Disturb, LoseChannel, DropSession, mqttVars, pubVars
  <2>2. UNCHANGED <<received, work, queue>> /\ PhaseOf(main') = PhaseOf(main) /\ (routed' => routed)
    BY <2>1 DEF procVars, routed
  <2> QED BY <2>2, AbstractIdle
<1>2. CASE UNCHANGED vars
  BY <1>2 DEF vars, mqttVars, pubVars, procVars, Abstract!vars
<1> QED BY <1>1, <1>2, AbstractMain, AbstractLoop DEF Next

\* However many threads share the channel and wherever one is cancelled, an uplink that
\* the Producer receives is forwarded, in its turn and once, unless the channel is gone
\* or its key not bound, the process ends, or the handler that the static pointer names
\* has no callback yet (main.cpp:376-496, lavinmq_publisher.cpp:67-101).
THEOREM ForwardingCorrect == Spec => ImplementsForwarding
BY AbstractInit, AbstractStep, FlowInit, FlowStep, LifeInit, LifeStep, SafeInit, SafeStep,
   PTL DEF Spec, ImplementsForwarding, Abstract!Spec

=============================================================================
