# Verification of cw-data-handler

TLA+ models, TLC runs and TLAPS proofs of the two programs of this repository:
the **Producer** (MQTT to LavinMQ) and the **Consumer** (LavinMQ to PostgreSQL).
`PROJECT.json` lists the runs, the theorems, and for each definition the source
lines it models.

    tlc -workers 2 -config MCConsumer.cfg MCConsumer      # one run
    tlapm ConsumerProofs.tla                              # the proofs

## 1. The system

A LoRaWAN uplink reaches an MQTT broker (The Things Stack). The Producer
subscribes to one or more brokers, reduces each uplink to a small JSON message,
and publishes it to a durable, deduplicating queue `uplink_data_queue`. The
Consumer reads the queue in batches and for each message does three things in
PostgreSQL: insert the reading, update the device's row, upsert a row per
gateway. Then it acks the message, or nacks it to have it delivered again.

    MQTT brokers --> MqttHandler (1 per source, 1 thread each) --callback-->
      filterMessageData --> LavinMQPublisher (shared, no lock) --> queue -->
      LavinMQConnection::readAllMessages --> Consumer main loop --> PostgreSQL

### Inventory

| Component | State | Operations | What makes it correct |
|---|---|---|---|
| Consumer `main` (`Consumer/src/main.cpp`) | where it is in the loop, the batch, the pqxx connection | start, read a batch, per message: parse, look up, insert, update, upsert, ack or nack | nothing acked that is not stored; tables written in order; no settled message forgotten or settled twice; everything that can be settled is |
| `LavinMQConnection` (`Consumer/src/LavinMQ.cpp`) | connection, library queues, consumer tag | `connect`, `disconnect`, `readAllMessages`, `ackMessage`, `nackMessage` | what it hands out is what the broker counts as outstanding |
| `PostgresClient` | an optional pqxx connection | `connect`, `connection` | - |
| Message parser (`main.cpp:134-232`) | none | classification of a body | agrees with the Producer's format |
| Producer `main` (`Producer/src/main.cpp`) | handlers, publisher | set up, one handler per source, wait for SIGINT, clear | every source is subscribed, every uplink queued |
| `MqttHandler` | static `instance`, callback, mosquitto client, subscription | construct, set callback, connect, loop, `on_connect`, `on_message`, destroy | callbacks reach an existing handler; subscriptions survive reconnects |
| `LavinMQPublisher` | one AMQP connection and channel, `connected` | construct, `setupQueues`, `publish` | each uplink once and in order; the channel is not broken by its users |
| Filter and message id | none | `filterMessageData`, choice of the id, FNV-1a hash | a well-formed uplink arrives intact, ids tell uplinks apart |
| Producer configuration (`config_loader.cpp`) | none | `loadMqttSources` | one complete source and a complete broker section are enough, and needed |
| Consumer configuration (`main.cpp:67-121`, `FromJson`) | none | reading of the sections, defaults | the two programs meet at one queue |
| `MqttClient` (Consumer) | Paho client, mutex, `reconnecting_`; a detached thread | `connect`, `disconnect`, moves, destructor, `ConnectionLost` and its thread | one reconnect thread per object, no client leaked, freed twice or left down. Not used by `main` yet |
| `locate_config`, `LoRaWanDTO`, CMake, CI | - | - | - |

What is hard: the broker pushes while the Consumer waits for replies; a session
may end while a batch is held; any of the transactions may fail, also after its
commit; the process may be killed between any two steps; on the Producer's side
loop threads share an AMQP channel, a `std::function` and a static pointer
without any synchronisation, and threads are cancelled at shutdown; the two
programs agree on a queue only through files each reads by its own rules; the
reconnect thread of `MqttClient` shares an object with an owner that may free it.
The full list with lines is `hazards` in `PROJECT.json`.

## 2. Modules

| Module | Models |
|---|---|
| `LavinMQConnection` | the broker's queue (external) and the Consumer's AMQP session |
| `Consumer` | the Consumer process on top of it, with the database; its properties |
| `Ingestion` | abstract specification: what ingestion promises, without sessions, batches or a process |
| `HeldLemmas`, `ConsumerProofs` | lemmas on sequences; the theorems about `Consumer` |
| `InductionLemmas` | induction over the natural numbers, with a set in place of a predicate |
| `LavinMQPublisher` | the shared AMQP channel of the Producer, frame by frame |
| `MqttHandler` | handlers, their clients and sessions, the static `instance` |
| `Producer` | main thread and loop threads on top of both; its properties |
| `Forwarding` | abstract specification: what the Producer promises, without sessions, frames or a static pointer |
| `ProducerProofs` | the theorems about `Producer` |
| `MessageFilter` | the filter and the message id |
| `MessagePath` | filter and parser composed: one uplink through both programs |
| `MessagePathProofs` | the theorems about `MessagePath` |
| `Configuration` | what the two programs read from their `config.json` |
| `Pipeline` | `Producer` and `Consumer` composed over the deduplicating queue, with their files |
| `Telemetry` | abstract specification of both programs together; extends `Ingestion` |
| `PipelineProofs` | the theorems about `Pipeline` |
| `MqttClient` | the Consumer's MQTT client: owner, Paho, reconnect threads |
| `MqttClientProofs` | the theorems about `MqttClient` |
| `MCConsumer`, `MCProducer`, `MCMessagePath`, `MCPipeline`, `MCMqttClient` | instances for TLC |

Definitions whose comment starts with *Mutant of* are plausible bugs; each shows
that some property notices when the code is changed that way. They take no part
in any specification.

### Consumer and LavinMQConnection

The control points of the process (`pc`) are the calls that block or may fail:
`connect`, `pgconnect`, then per batch `declare`, `consume`, `poll`, `cancel`
(`readAllMessages`), `sleep` (an empty batch), and per message `message`,
`insert`, `update`, `gateways`. Between two of these anything may happen: the
broker delivers, the link breaks, the process is killed.

* A message is its number in the order of publication; a delivery tag is
  represented by the message it delivers, since no message is outstanding twice.
* Deliveries pass from the broker (`unacked`) over the socket (`wire`) and the
  library's queue of frames met while waiting for a reply (`inbox`) into the
  vector (`messages`). `Held` is these three in the order they will be handled.
* `link` is `"none"` exactly when `connection_` is null. `"closed"` (channel
  exception) and `"lost"` have a non-null `connection_`, and nothing in the code
  leaves these states: `connect()` returns at once.
* `tagIntact`: `consume_ok->consumer_tag` points into the channel's pool, which
  `amqp_maybe_release_buffers` recycles before each read. The model lets any read
  from the socket overwrite it; a cancel with an overwritten tag leaves a
  subscription behind. `MaxConsumers` bounds how many.
* A `pqxx::work` is one step that commits, throws without effect, or throws after
  its commit (`CommitInDoubt`). Once the connection breaks (`pg`), every
  transaction throws: nothing reconnects.
* The unique key of the data table is taken to be (device, `created_at`): that is
  the only reading under which the test for "already exists" makes sense.
* `Uplink[m]` is what the parser and the database make of message m: a good
  reading, garbage, incomplete (`no_eui`, `no_time`), of an unknown device, or
  refused by the insert. `MessagePath` shows where these come from.
* `rows == 0` after an `INSERT ... VALUES` and a null `dataTable` cannot occur and
  are left out.

### Producer, MqttHandler and LavinMQPublisher

* The main thread constructs handlers one by one, in four steps each, while the
  loop threads of the earlier ones already run. All callbacks go through
  `instance`, which each constructor overwrites.
* `set_message_callback` assigns a `std::function` that another thread may be
  testing and calling: a data race. In the model the reader sees the callback
  absent or present, or the process ends (`Crash`).
* A publish is two steps: the method frame, and the header and body frames. A
  method frame inside another content makes the broker close the connection.
  Afterwards `connected` is still true and every publish fails unnoticed.
* `handlers.clear()` destroys the elements from the first; `mosquitto_destroy`
  cancels the loop thread wherever it is, also inside a publish.
* MQTT sessions are clean (`mosquitto_new(NULL, true, NULL)`), and libmosquitto's
  loop thread reconnects by itself.
* Messages are (source, number); they have distinct ids, so that the queue's
  deduplication plays no part here. `MessagePath` treats the ids.

The Producer implements `Forwarding` with `PhaseOf(main)` for the phase, a channel
that is open, connected and bound for `routed`, and the sources with work for
`handling`: per source one uplink is handled at a time, and it is queued in its turn
unless the queue is out of reach or the process is ending. Only while the Producer
starts may an uplink be overlooked, where the callback is not seen yet.

### MessageFilter and MessagePath

A JSON value is its type with a text or a number. What both programs do to numbers
is modelled: `PrintDouble` and `PrintNumber` are `std::to_string`, which keeps six
decimals of a double (4e-7 becomes 0), an integer cast to double becomes the one
next to it (`Nearest`), and `ReadInt` takes the low bits of an int64 as
`static_cast<int>` does. `Decimals`, `WholeDoubles` and `IntRange` say what these
types can hold. What is not modelled is the binary rounding of a double: one stands
for its decimal of up to 15 digits.

Strings are copied between quotes as they are. One that JSON would escape is a type of
its own (`"text"`), and a message with such a string (`~Escaped`) may not parse, or be
read as any of `Misreadings`: it may end early, hold an escape sequence, or bring
members of its own. Only a plain `dev_eui` is safe from it, since it is written first
and simdjson finds the first member of a name. `FilterMessageData` is therefore a set,
of what may be read of the message; it has one element when all is `Escaped`.

The other fields of `decoded_payload` are represented by one that is cast to double
and one that is cast to `int64_t`. The FNV-1a hash is taken as injective.
Both programs walk the gateways with the same kind of loop, append or skip: `Keep` is
its body and `WithEui` the loop, as a function of the number of entries done, which
the proofs can reason about.

### Configuration and Pipeline

A JSON object is a function from names to values, a value a record with one field
named for its type. The Producer needs `host`, `port`, `username` and `password`
of the right types and returns an error otherwise; a source that is not complete
is left out. The Consumer replaces whatever is missing or of another type by a
default. `ToInt` is the cast to `int` that both apply to a port.

`Pipeline` extends `Consumer` and instantiates `Producer` with one source and the
routing key as a parameter, since this constant of `Producer` comes from the file
here: `Prod(RoutingKey(f))`. A step is a step of one program; `Meets` says whether
the other notices. If the files name the same broker and queue, `SetupQueue` of the
Producer is the one of the Consumer's queue, and a publish that completes
(`AtTheQueue`) is the arrival of the message with the uplink's number, unless the
queue has seen its id (`Seen`). `Token` stands for what the id is made from, and
all uplinks in `NotJson` share the id `parse_error`. Faults of MQTT and SIGINT are
those of `Producer` and are not repeated.

The two programs together implement `Telemetry`, which knows of neither: uplinks
are received, the last one may be forwarded as long as its id is new to what is in
the queue or was, and what is in the queue is ingested as in `Ingestion`.

### MqttClient

Three parties: the owner, which makes any legal sequence of calls, as no code uses
the class yet; Paho, which reports a loss to the object that created the client
(`context`); and the detached reconnect threads. `locked` is `client_mtx_`:
`connect()` holds it to its end, the thread only around its check and its
`MQTTClient_connect`, `disconnect()` never. A call that can block is two steps; a
thread remembers the client it was given in `using`. A move carries the client
to another object, while `context` still names the old one.

`undefined` records a use of freed memory, after which the behaviour ends. When a
thread reads what a move writes, a race, either may happen. `misused` records that
the owner destroyed or moved a client while a thread or callbacks were on it: the
class offers no way to wait for the thread, so that an owner cannot avoid it, but
`FreedOnlyByMisuse` says that it is the only way. `cleansession` is 0, so that
subscriptions outlive a connection; subscribe calls that fail are only logged.

## 3. Runs

| Run | Instance | Shows |
|---|---|---|
| `consumer` | 3 readings of one device, one published twice, and one message of an unknown device; 2 subscriptions; link, kill, transaction and database faults | `TypeOK`, `NoLeakedDelivery`, `AckedOnlyIfAccounted`, `NoRegressionUnlessRedelivered`, `OutageEndsWithRestart`, `NoAnswerWithoutPostgres` |
| `consumer_gateways` | 2 devices, 2 gateways, one message the database refuses; every fault | `RowsInWriteOrder`, `RowsMissingOnlyAfterRequeue`, `ImplementsIngestion` |
| `consumer_poison` | garbage in front of three messages that can be settled; kills | `EverySettleableSettled` under fairness |
| `producer_one` | 1 source, 15 uplinks, MQTT faults | `ChannelKept`, `EverySourceSubscribed`, `Resubscribes`, `EveryUplinkQueued` |
| `producer_two` | 2 sources, 2 uplinks each, every fault, SIGINT | `TypeOK`, `InstanceAlive`, `QueuedOnceInOrder`, `ContentHasSender`, `LastSourceSubscribed`, `ImplementsForwarding` |
| `message_path` | 1072 uplinks, 12 misreadings | `ReadingArrivesIntact`, `FilterKeepsGateways`, `LossExplained`, `MeasurementsKept`, `GarbageOnlyFromGarbage`, `IdsTellUplinksApart` |
| `pipeline` | 6 files of the Producer with 5 of the Consumer; 5 uplinks, 2 no JSON, 1 received twice; publisher faults, kills | `LostUplinksExplained`, `ReadingsStoredOrQueued`, `ImplementsTelemetry`; `CompleteSourceServed`, `ReadingsArriveStored` under fairness |
| `mqtt_client` | 2 objects, 2 Paho clients, 2 losses, 3 threads | `TypeOK`, `OneReconnectThread`, `ClientsAccounted`, `ConnectsExclude`, `FreedOnlyByMisuse`, the action property `OnlyLateLossForgotten`; `LossRepaired` under fairness |
| `acked_means_stored` | 1 reading, failing transactions | **violated**: see findings |
| `garbage_not_requeued` | 1 garbage, 1 reading | **violated**: see findings |
| `every_source_subscribed` | 2 sources, no faults | **violated**: see findings |
| `already_reconnecting` | 1 object, 2 losses | **violated**: see findings |

**Bounds.** Three messages are enough for one to be held, one to be on its way
and one to be requeued, and for two readings of a device with a duplicate of the
first; `consumer` has a fourth that is settled without an insert. A batch of all
of them while a subscription leaks occurs. Two subscriptions
are enough for one leaked beside the current one. Two sources are enough for the
static pointer to name the wrong handler and for two threads to meet on the
channel. Two uplinks per source are enough for one to overtake or repeat another.
In `message_path` one part of the uplink varies at a time (the payload's fields
against each other, all lists of up to two gateways, root fields, id fields),
since no code relates these parts to each other. Its numbers are scaled down: 1 is 6
units, a printed decimal is a multiple of 3 units, a double holds the whole numbers up
to 4 and the even ones beyond, an int -3 to 2. So there are numbers that each
conversion keeps, that it rounds (also to 0), and that it wraps. Only
`ReadingArrivesIntact` asks for numbers that all conversions keep; `FilterKeepsGateways`
and `MeasurementsKept` say what becomes of the others. The files of `pipeline` take each
outcome of each program's reading (complete, incomplete in either section, a wrong
type, an empty routing key, other settings, none), and one pair of them meets only
because a port wraps around. An int has `IntRange` values, 65536 there: TLC's own
integers end at 2^31. Five uplinks are enough for two of each id to be received,
one before and one after a good one. In `mqtt_client` two objects are enough for
one to take over the client of the other, two clients for an object to get a
second one while a thread works on the first, two losses for one during the repair
of the other, and three threads for every loss and a spare one: `SpawnThread` never
waits. The proofs have no bounds.

**Fairness.** The Consumer is one thread that is never descheduled for ever:
`WF(Process)`. Failing steps are part of `Process`, so that fairness does not
promise that a transaction succeeds. `SF(Deliver(m))`: the subscription comes and
goes with every batch, and a broker with no prefetch limit pushes all that its
queue holds while there is one. A subscription may exist for a moment only;
strong fairness says that a message is not missed by all of infinitely many of
them. `EverySettleableSettled` has a premise, `StaysConnected`: in the end both
connections stay up. The code itself never reconnects, so without it nothing
can be promised; what holds while they are broken is in `OutageEndsWithRestart` and
`NoAnswerWithoutPostgres`.
For the Producer `WF` of the main thread and of each loop thread, and `SF` of an
accepted CONNACK: a broker that can be reached again and again accepts once.
There is no fairness for the arrival of uplinks, faults and SIGINT.
`Pipeline` has the same: `WF` of the Producer's steps as one (each thread has
finitely many to take, as MQTT does not fail there), `WF` of the Consumer's, `SF`
of each delivery. `ReadingsArriveStored` has the premises that the files meet, that
the publisher's channel and the Consumer's connections last, and that the routing
key is not empty; each is one of the causes in `LostUplinksExplained`, or of
`StaysConnected`.
For `MqttClient`: the owner's calls end, Paho reports losses, threads run (`WF`);
a thread that asks for a lock that is free again and again gets it, and a broker
that is asked again and again accepts once (`SF`). The owner need not call anything.

`producer_two` and `message_path` do not check deadlock: after SIGINT, or a
crash, the Producer really ends, and `message_path` follows one uplink. Neither
does `pipeline`, where a program without its section of the file exits, nor the
two runs of `MqttClient`, whose owner may destroy all objects.

### Findings

1. **Acked as already there, when only part is** (`main.cpp:338-343`). The insert
   commits on its own. If the update or an upsert then fails, the message is
   requeued, the second pass finds the row of the first, and acks. The device's
   and the gateways' rows are never written for that message. A kill between the
   transactions does the same. `RowsMissingOnlyAfterRequeue` shows that rows are
   missing in no other way, and *AckedStoredCorrect* proves that without these two
   faults the comment is right.
2. **Garbage is requeued for ever** (`main.cpp:139`, `LavinMQ.h:58`). The comment
   takes the plain nack for one that does not requeue; its default does.
3. **Only the last source is subscribed** (`mqtt_handler.cpp:5-13`). The CONNACK of
   one client makes the handler in `instance` subscribe. A source whose CONNACK
   comes after the next handler was constructed stays connected without a
   subscription. `LastSourceSubscribed` shows that it never happens to the last one.
4. **A loss during the end of a repair is forgotten** (`MqttClient.cpp:122`). The
   comment says "already reconnecting", but from the success of its
   `MQTTClient_connect` to the reset of `reconnecting_` the thread no longer looks
   at the connection. A loss reported in between is ignored, the thread ends, and
   the client stays down. `LossRepaired` shows that every other loss is repaired, and
   `OnlyLateLossForgotten` (proved) that no other step drops a connection it does not
   destroy.

Differences between text and code met on the way that need no run:

* `Consumer/config.example.json` has no `queue_name`; the default is
  `data_transfer`, the Producer's queue `uplink_data_queue`. The two members for
  the virtual host are `vhost` (Producer) and `virtual_host` (Consumer). The model
  shows such pairs not to meet, without any error on either side.
* `Consumer/README.md:50` offers `clean_session: true`; `MqttClient::connect` sets
  `cleansession = 0` (`MqttClient.cpp:69`).
* The comment beside the back-off (`MqttClient.cpp:181`) starts at 1 s; the code
  counts the attempt first, so that the first wait is 2 s.
* `config_loader.cpp` prints that it uses default sources where there are none, and
  `config_loader.h:31` promises true when sources were loaded, but the result also
  depends on the LavinMQ section.
* The offset basis in `computeDeterministicId` is not the standard one of 64-bit
  FNV-1a. Ids are compared with each other only, so that nothing depends on it.

## 4. Proofs

All theorems hold for all values of the constants, from the assumptions named in
the modules: messages are positive numbers (in `MessagePath`, uplinks have the type
`Uplink`, what a string can turn a message into is a `Message`, `Decimals` and
`WholeDoubles` are integers with 0 among them, and `IntRange` is even), `MaxConsumers` and `NumSources` are
positive, `MaxUplinks` is a natural number, the faults are a subset of the known
ones, `Uplink` has its type; for `Pipeline`, that what is not JSON is garbage to the
Consumer, and that uplinks with one `Token` are the same message; for
`MqttClient`, that objects are positive numbers and its bounds natural ones.

`ConsumerProofs` builds four layers; each is inductive relative to the ones below.

1. `TypeInv` = `TypeOK` and `Control` (which parts of the state can be non-empty at
   which control point: there is a current message exactly while processing, ...).
   *TypeCorrect*.
2. `QueueInv`: `ready`, `unacked` and `acked` partition what was published; `Held`
   is injective, lies within `ready` and `unacked`, and equals `unacked` while the
   session is open (*CustodyCorrect*); and every message not yet delivered for the
   first time is later than all those held, in order (`FreshOrder`). The actions
   are first classified by what they do to `Held` (`HeldStep`: nothing, open, end,
   settle the head, arrive, deliver), so that the sequence reasoning is done six
   times and not thirty. *TagsKnown* shows that no settle ever names a tag the
   broker does not know, so that `UnknownTag` never happens.
3. `Stored`: while past the insert, the current message's key is in the table
   (`Progress`), with *AccountedCorrect* and *WriteOrderCorrect*.
4. `Latest`: each device's row is from a message no later than any that is still to
   be handled for the first time, hence *RegressionCorrect*.

Two theorems are about outages. *OutageCorrect*: on a dead session (`Dead`) acks
and nacks no longer reach the queue, what is held is only worked off, and only the
end of the process opens a new one. *PostgresCorrect* needs `PgInv`: the
statements after the lookup are reached with a connection only.

*RefinementCorrect* then maps every step to a step of `Ingestion` or a stutter,
with `pending` as `ready \cup unacked` and `done` as `acked`.

A last layer says what an ack means. `Storing`: a good key that is in the table is
`Whole` (all rows there), `Unfinished` (the message being handled is the one whose
rows are being written, up to `gw`) or `Excused` (an attempt at the key was put back,
or had another content); a good message that is acked is whole or excused.
`Outstanding` (without a session, all that the process holds has been put back) gives
the step that matters: whatever stops the handling half way, a kill, a transaction
or a dead session, the message ends in `redelivered`. Rows never go away
(`RowsStay`), so that whole stays whole. *RowsMissingCorrect* follows for all
faults. *AckedStoredCorrect* has two assumptions: `OnlyOutages`, there are no kills and
no transactions that fail by themselves, and `KeysTell`, equal keys mean equal
uplinks. Then nothing is excused. Connections may break under it, also in the
middle of a commit: a process that has lost PostgreSQL never gets it back
(`Broken`), so it acks no reading any more. TLC shows that with either of the two
other faults `AckedMeansStored` is false.

`ProducerProofs` has two layers. `LifeInv` is `TypeOK` with `Lifecycle` (what the
phase of the main thread says of `instance` and of the handlers that exist) and
`Busy` (a thread that publishes runs and has received something): hence
*InstanceCorrect*. It is needed because `instance` alone says nothing: that the
clean-up destroys the handler it names last follows only from the whole order of
construction and destruction. `SafeInv` adds `ContentKnown` (a content half
received is being sent, or its thread was cancelled) and `Behind` (the queue holds
nothing its source has not received, nor what its thread is about to publish):
hence *SenderCorrect* and *OrderCorrect*. *ChannelCorrect* has two more
assumptions, one source and a network that does not fail: with two sources
`ChannelKept` is false. So has *SubscribedCorrect* (one source): its invariant is
`UpSubscribed`, and the step that matters is a CONNACK, where `LifeInv` says that
`instance` is the one handler there is. *LastSubscribedCorrect* needs no such
assumption: by `NamedSubscribed` the source that `instance` names is subscribed
whenever its session is open, as only the threads of earlier sources run when the
next constructor takes the name away; and nothing takes it away from the last one.

*ForwardingCorrect* maps every step to one of `Forwarding` or a stutter, for any
number of sources. Its invariant `Flow`: a channel that is open at the broker belongs
to a connected publisher, a thread sending on it is the one the broker is listening
to, the named handler has its callback except while that is assigned, and nothing is
received before the queue is declared. So a message that is complete reaches the
queue whenever `routed` holds, an uplink is overlooked only while the phase is
"starting", and a `Crash` is the `Abort` of the abstract specification, which only a
start allows: that none happens later follows from where the callbacks are set.

`MessagePathProofs` has one simple invariant, `Followed`: body and result are what
the two programs can make of the uplink. The rest is about these functions. The cases
of the filter (unchanged, filtered, misread) are parsed symbolically; *LossCorrect* and
*GarbageCorrect* follow for every set of uplinks and of misreadings. Numbers need three
lemmas: there is a nearest number in every set of integers that is not empty
(*NearestIs*, by the least distance), it is the number itself if that is in the set
(*NearestIsExact*), and an int survives the cast (*IntArrives*). *MeasurementsCorrect*
follows for any set of decimals and doubles that has 0.
*GatewaysCorrect* and *ReadingIntactCorrect* compare two loops over lists of any
length. Their lemmas go by induction over the number of entries done: the filter's
result up to i, walked by the parser, is the parser's walk over the uplink up to i. The
induction theorems of the library take an operator, which the provers cannot
instantiate, so `InductionLemmas` derives one from the well-foundedness of the natural
numbers that takes a set; the statement becomes the set of numbers it holds for.
*IdsCorrect* rests on the first place with an id being the least of a finite set.

`PipelineProofs` has one invariant of three parts: `Phase` (where the main thread
and the loop thread are), `Channel` (the binding is that of the file's routing key
while the channel is open, a content half received is the thread's) and `Queued`
(the Consumer's messages are what the Producer has queued, none twice, and each
uplink dropped by the deduplication has one of its id there). The last relates the
two programs. It gives *LossCorrect*, and that each step of the pipeline is a step
of `Consumer` or a stutter: *ConsumerEmbedded*. So every safety theorem of
`ConsumerProofs` holds in the pipeline as well; *PipelineAccounted* and
*PipelineRows* draw two of these conclusions. *ProducerEmbedded* is the same of the
Producer, with the routing key that the file names. *EndToEndCorrect* combines the
sides: an uplink that is not excused by *LossCorrect* is a message of the Consumer, or
one with its reading is, and by *PipelineAccounted* such a message is acked only with
its key in the table.

*TelemetryCorrect* needs one more invariant, `Arrived`: all that the Consumer has came
through the queue the two share, so its id is in the queue's cache. A step of the
Consumer is one of `Ingestion` by the refinement of `ConsumerProofs`, and no
publication, as it leaves what was published alone. A step of the Producer receives an
uplink, or completes a publish, whose message is new to the cache and therefore, by
`Arrived`, new to all that is pending or done; or it is a stutter.

`MqttClientProofs` has `TypeOK` and four invariants. `ThreadInv` ties
`reconnecting` to the threads, hence *ReconnectCorrect*. `LockInv`: the lock is held
by the owner in `connect()` or one thread in `MQTTClient_connect`, not by both,
hence *ExclusionCorrect*. `ClientInv`: each client has one holder, and the owner's
call has its client, hence *AccountCorrect*. `FreedInv`: as long as nothing was
misused, each client calls back its holder, and a thread in a call was given the
client its object holds; so neither is freed, hence *FreedCorrect*. The action
property needs one more, `FreshInv`: a client that is not created calls nobody back.
Then the object a live client calls back is its holder (`Holder`), and *LateLossCorrect*
goes through the steps one client at a time (`CaredStep`): a thread that finds
`client_` null leaves no live client behind, a failed attempt goes on, a report finds
or starts a thread, and what is left is the end of a thread in its subscribe calls.

**Only model-checked.** The liveness properties (`EverySettleableSettled`,
`Resubscribes`, `EveryUplinkQueued`, `CompleteSourceServed`,
`ReadingsArriveStored`, `LossRepaired`), which need ENABLED and fairness. Every
safety property of the passing runs is a theorem, and so are the three refinements.
That a list of sources with one complete entry is loaded (`ValidSources`) is part of
`CompleteSourceServed` and checked with it.

## 5. Not modelled

Several Consumers on one queue; the order in which other clients publish; memory
exhaustion; TLS, beyond the port it is at; `extractMessageInfo` and all logging;
`battery_percentage`, which the filter writes and nobody reads; the destructor of
the publisher; a NUL character in a body or an id, at which `publish` would end it, as
it passes C strings; a text "already exists" in an error of the update or an upsert,
which the one `catch` (`main.cpp:340`) would ack as it does for the insert. Of the
configuration, the search for the file along the
directories and PostgreSQL's `FromJson`, which only fills the connection URI. Of
`MqttClient`, `ParseConfigs`, which nobody calls and which changes nothing, a callback
that Paho has begun and `MQTTClient_destroy` does not wait for, and the
time that passes: the back-off doubles from 2 s up to 30 s and then stays there.

The FNV-1a hash is taken as injective. It is a pure loop over the bytes of a
payload on 64-bit words, which TLC's integers do not hold, and what the program
wants of it, that two payloads never share an id, is true of no such function.

Components without a module are listed with their reason in `PROJECT.json`.

## 6. Plan

Done: the Consumer with its session and refinement, the Producer with its
refinement, the message formats, the configuration, the pipeline of both programs
with its refinement, `MqttClient`, and the theorems above. What is left:

* an abstract specification of `MqttClient` (an object that is up, down or under
  repair) and the proof that the client with its threads implements it as long as
  it is not misused;
* theorems about `Configuration`: what makes `LoadsSources` true, for lists of any
  length, by `InductionLemmas`;
* a second source in `Pipeline`: message numbers then have to be those of the queue,
  not of the uplinks, and the findings about two sources come with it.
