------------------------------ MODULE Consumer ------------------------------
(***************************************************************************)
(* The Consumer process, Consumer/src/main.cpp:74-357: read a batch from   *)
(* the queue, and for each message parse it, look its device up, insert    *)
(* the reading, update the device's row, upsert one row per gateway, then  *)
(* ack or nack.  LavinMQConnection gives the session the process reads     *)
(* from.  PostgreSQL is external: one pqxx::work is one atomic step that   *)
(* commits, throws with no effect, or throws after the commit took place.  *)
(***************************************************************************)
EXTENDS LavinMQConnection

CONSTANTS
  Devices,   \* rows of cw_devices
  Gateways,
  Uplink     \* the content of each message

\* What parsing and the database make of a body:
\*   good      a reading of a known device
\*   garbage   not JSON
\*   no_eui    no dev_eui, or an empty one
\*   no_time   no received_at
\*   unknown   the device has no row
\*   refused   the database refuses the INSERT, e.g. received_at is no timestamp
Kinds == {"good", "garbage", "no_eui", "no_time", "unknown", "refused"}

Uplinks == [kind : Kinds, device : Devices, receivedAt : Nat,
            gateways : Seq(Gateways)]

ASSUME UplinkAssumption == Uplink \in [Msgs -> Uplinks]

VARIABLES
  pc,         \* what the process does next, see ProcessStates
  pg,         \* the state of the pqxx connection
  air,        \* cw_air_data_duplicate: the keys of its rows
  cwDevice,   \* cw_devices: the message each row was last updated from
  cwGateway,  \* cw_device_gateway: likewise, 0 where there is no row
  gw          \* next gateway of the current message

procVars == <<pc, pg, gw>>
dbVars   == <<air, cwDevice, cwGateway>>
vars     == <<mqVars, procVars, dbVars>>

Reading    == {"declare", "consume", "poll", "cancel"}
Processing == {"message", "insert", "update", "gateways"}
ProcessStates == {"down", "connect", "pgconnect", "sleep"} \cup Reading \cup Processing

\* The table's unique key: what "already exists" means to the INSERT.
Key(m) == <<Uplink[m].device, Uplink[m].receivedAt>>
DeviceOf(m) == Uplink[m].device
GatewaysOf(m) == Uplink[m].gateways
Discardable(m) == Uplink[m].kind \in {"no_eui", "no_time", "unknown"}

Init ==
  /\ MqInit
  /\ pc = "down" /\ pg = "down" /\ gw = 1
  /\ air = {}
  /\ cwDevice = [d \in Devices |-> 0]
  /\ cwGateway = [dg \in Devices \X Gateways |-> 0]

-----------------------------------------------------------------------------
(* Process life *)

Start ==
  /\ pc = "down"
  /\ pc' = "connect"
  /\ UNCHANGED <<mqVars, pg, gw, dbVars>>

\* Both connections and the process memory are gone.
Exit ==
  /\ pc' = "down" /\ pg' = "down" /\ gw' = 1
  /\ Disconnect
  /\ UNCHANGED dbVars

Kill ==
  /\ "kill" \in Faults
  /\ pc # "down"
  /\ Exit

ConnectBroker ==
  /\ pc = "connect"
  /\ \/ Connect /\ pc' = "pgconnect"
     \/ Faults \cap {"link", "config"} # {} /\ ConnectFails /\ pc' = "down"
  /\ UNCHANGED <<pg, gw, dbVars>>

ConnectPostgres ==
  /\ pc = "pgconnect"
  /\ pg' = "up" /\ pc' = "declare"
  /\ UNCHANGED <<mqVars, gw, dbVars>>

\* main() returns, and the destructor of LavinMQConnection disconnects.
ConnectPostgresFails ==
  /\ pc = "pgconnect"
  /\ Faults \cap {"pg", "config"} # {}
  /\ Exit

-----------------------------------------------------------------------------
(* readConfiguredQueue() *)

\* A failed call returns the empty vector: main() sleeps and tries again.
Declare ==
  /\ pc = "declare"
  /\ \/ DeclarePassive /\ pc' = "consume"
     \/ DeclareMissing /\ pc' = "sleep"
     \/ CallFails /\ pc' = "sleep"
  /\ UNCHANGED <<pg, gw, dbVars>>

Subscribe ==
  /\ pc = "consume"
  /\ \/ Consume /\ pc' = "poll"
     \/ CallFails /\ pc' = "sleep"
  /\ UNCHANGED <<pg, gw, dbVars>>

Poll ==
  /\ pc = "poll"
  /\ \/ (PollInbox \/ PollWire) /\ pc' = "poll"
     \/ PollNothing /\ pc' = "cancel"
  /\ UNCHANGED <<pg, gw, dbVars>>

\* The result of the cancel is only logged.
Cancel ==
  /\ pc = "cancel"
  /\ CancelConsumer \/ CallFails
  /\ pc' = IF messages = <<>> THEN "sleep" ELSE "message"
  /\ UNCHANGED <<pg, gw, dbVars>>

Wake ==
  /\ pc = "sleep"
  /\ pc' = "declare"
  /\ UNCHANGED <<mqVars, pg, gw, dbVars>>

-----------------------------------------------------------------------------
(* The loop over the batch *)

current == Head(messages)

\* Mutant of NextMessage: the gateways are counted from 0.
NextMessageFromZero ==
  /\ messages' = Tail(messages)
  /\ pc' = IF Tail(messages) = <<>> THEN "declare" ELSE "message"
  /\ gw' = 0
  /\ UNCHANGED <<wire, inbox, tagIntact>>

NextMessage ==
  /\ messages' = Tail(messages)
  /\ pc' = IF Tail(messages) = <<>> THEN "declare" ELSE "message"
  /\ gw' = 1
  /\ UNCHANGED <<wire, inbox, tagIntact>>

Ack  == AckMessage(current) /\ NextMessage
Nack == NackMessage(current) /\ NextMessage

\* A transaction throws before its commit: because of the server or the
\* statement, because the connection breaks, or because it broke before.
\* Nothing ever reopens the pqxx connection.
TxnThrows ==
  \/ pg = "down" /\ pg' = pg
  \/ "txn" \in Faults /\ pg' = pg
  \/ "pg" \in Faults /\ pg' = "down"

\* The connection breaks when the commit has taken place: the caller sees an
\* exception all the same.
CommitInDoubt ==
  /\ "pg" \in Faults /\ pg = "up"
  /\ pg' = "down"

RejectGarbage ==
  /\ pc = "message" /\ Uplink[current].kind = "garbage"
  /\ Nack
  /\ UNCHANGED <<pg, dbVars>>

DropIncomplete ==
  /\ pc = "message" /\ Uplink[current].kind \in {"no_eui", "no_time"}
  /\ Ack
  /\ UNCHANGED <<pg, dbVars>>

\* The first transaction only reads, so that its commit has no effect.
Parsed == pc = "message" /\ Uplink[current].kind \in {"good", "unknown", "refused"}

DeviceFound ==
  /\ Parsed /\ pg = "up" /\ Uplink[current].kind # "unknown"
  /\ pc' = "insert"
  /\ UNCHANGED <<mqVars, pg, gw, dbVars>>

\* Mutant of DropUnknownDevice: the message is handed back instead.
RequeueUnknownDevice ==
  /\ Parsed /\ pg = "up" /\ Uplink[current].kind = "unknown"
  /\ Nack
  /\ UNCHANGED <<pg, dbVars>>

DropUnknownDevice ==
  /\ Parsed /\ pg = "up" /\ Uplink[current].kind = "unknown"
  /\ Ack
  /\ UNCHANGED <<pg, dbVars>>

\* Mutant of LookupFails: an exception counts as a device that is not found.
AckFailedLookup ==
  /\ Parsed
  /\ TxnThrows
  /\ Ack
  /\ UNCHANGED dbVars

LookupFails ==
  /\ Parsed
  /\ TxnThrows
  /\ Nack
  /\ UNCHANGED dbVars

Insertable == Uplink[current].kind = "good" /\ Key(current) \notin air

InsertRow ==
  /\ pc = "insert" /\ pg = "up" /\ Insertable
  /\ air' = air \cup {Key(current)}
  /\ pc' = "update"
  /\ UNCHANGED <<mqVars, pg, gw, cwDevice, cwGateway>>

\* Mutant of RowAlreadyExists: continue without settling the delivery.
SkipExistingRow ==
  /\ pc = "insert" /\ pg = "up"
  /\ Uplink[current].kind = "good" /\ Key(current) \in air
  /\ NextMessage
  /\ UNCHANGED <<queueVars, consumers, link, pg, dbVars>>

\* The catch block acks when the text of the exception has "already exists".
RowAlreadyExists ==
  /\ pc = "insert" /\ pg = "up"
  /\ Uplink[current].kind = "good" /\ Key(current) \in air
  /\ Ack
  /\ UNCHANGED <<pg, dbVars>>

\* Mutant of InsertRefused: any error of the statement counts as "already exists".
AckRefused ==
  /\ pc = "insert" /\ pg = "up" /\ Uplink[current].kind = "refused"
  /\ Ack
  /\ UNCHANGED <<pg, dbVars>>

InsertRefused ==
  /\ pc = "insert" /\ pg = "up" /\ Uplink[current].kind = "refused"
  /\ Nack
  /\ UNCHANGED <<pg, dbVars>>

\* Mutant of InsertFails: the message is acked although its insert failed.
AckFailedInsert ==
  /\ pc = "insert"
  /\ TxnThrows
  /\ Ack
  /\ UNCHANGED dbVars

\* Mutant of InsertFails: the exception is swallowed and the update goes ahead.
UpdateAfterFailedInsert ==
  /\ pc = "insert"
  /\ TxnThrows
  /\ pc' = "update"
  /\ UNCHANGED <<mqVars, gw, dbVars>>

InsertFails ==
  /\ pc = "insert"
  /\ \/ TxnThrows /\ air' = air
     \/ CommitInDoubt /\ Insertable /\ air' = air \cup {Key(current)}
  /\ Nack
  /\ UNCHANGED <<cwDevice, cwGateway>>

WriteDevice == cwDevice' = [cwDevice EXCEPT ![DeviceOf(current)] = current]

UpdateDevice ==
  /\ pc = "update" /\ pg = "up"
  /\ WriteDevice
  /\ pc' = "gateways"
  /\ UNCHANGED <<mqVars, pg, gw, air, cwGateway>>

UpdateFails ==
  /\ pc = "update"
  /\ \/ TxnThrows /\ cwDevice' = cwDevice
     \/ CommitInDoubt /\ WriteDevice
  /\ Nack
  /\ UNCHANGED <<air, cwGateway>>

\* Mutant of MoreGateways: the last gateway is left out.
MoreGatewaysButLast == gw < Len(GatewaysOf(current))

MoreGateways == gw <= Len(GatewaysOf(current))

WriteGateway ==
  cwGateway' = [cwGateway EXCEPT ![<<DeviceOf(current), GatewaysOf(current)[gw]>>] = current]

UpsertGateway ==
  /\ pc = "gateways" /\ pg = "up" /\ MoreGateways
  /\ WriteGateway
  /\ gw' = gw + 1
  /\ UNCHANGED <<mqVars, pc, pg, air, cwDevice>>

UpsertFails ==
  /\ pc = "gateways" /\ MoreGateways
  /\ \/ TxnThrows /\ cwGateway' = cwGateway
     \/ CommitInDoubt /\ WriteGateway
  /\ Nack
  /\ UNCHANGED <<air, cwDevice>>

AckStored ==
  /\ pc = "gateways" /\ ~MoreGateways
  /\ Ack
  /\ UNCHANGED <<pg, dbVars>>

-----------------------------------------------------------------------------
(* The environment never touches the process or, here, the database. *)

Environment ==
  /\ SetupQueue \/ (\E m \in Msgs : Arrive(m) \/ Deliver(m)) \/ LoseConnection
  /\ UNCHANGED <<procVars, dbVars>>

StartUp == Start \/ ConnectBroker \/ ConnectPostgres \/ ConnectPostgresFails
ReadBatch == Declare \/ Subscribe \/ Poll \/ Cancel \/ Wake
Handle ==
  \/ RejectGarbage \/ DropIncomplete
  \/ DeviceFound \/ DropUnknownDevice \/ LookupFails
  \/ InsertRow \/ RowAlreadyExists \/ InsertRefused \/ InsertFails
  \/ UpdateDevice \/ UpdateFails
  \/ UpsertGateway \/ UpsertFails \/ AckStored

Process == StartUp \/ ReadBatch \/ Handle

Next == Process \/ Kill \/ Environment

Spec == Init /\ [][Next]_vars

\* The process is a running program: it never stops between two statements.  The
\* broker pushes whatever the queue holds while there is a subscription; the
\* subscription comes and goes with each batch, hence strong fairness, and no
\* prefetch limit lets a message that is always requeued hold back the others.
Fairness ==
  /\ WF_vars(Process)
  /\ \A m \in Msgs : SF_vars(Deliver(m) /\ UNCHANGED <<procVars, dbVars>>)

FairSpec == Spec /\ Fairness

-----------------------------------------------------------------------------
(* Properties *)

TypeOK ==
  /\ MqTypeOK
  /\ pc \in ProcessStates
  /\ pg \in {"up", "down"}
  /\ gw \in Nat \ {0}
  /\ air \in SUBSET (Devices \X Nat)
  /\ cwDevice \in [Devices -> Msgs \cup {0}]
  /\ cwGateway \in [Devices \X Gateways -> Msgs \cup {0}]

\* Every delivery outstanding on the open session is exactly one of those the
\* process has still to look at, and it holds no settled one: a batch that is
\* read while calls queue deliveries, subscriptions leak and sessions end never
\* forgets a delivery, settles one twice, or settles with a tag of a dead
\* session (main.cpp:130-347 with LavinMQ.cpp:200-269).
NoLeakedDelivery ==
  /\ IsInjective(Held)
  /\ Range(Held) \subseteq ready \cup unacked
  /\ link = "open" => Range(Held) = unacked
  /\ link # "open" => unacked = {}

\* A message leaves the broker only when the database has its reading or when
\* there is nothing to store, whatever fails between the insert and the ack
\* (main.cpp:234-346).
AckedOnlyIfAccounted ==
  \A m \in acked : Key(m) \in air \/ Discardable(m)

\* cw_devices never refers to a reading that is not in the data table, nor
\* cw_device_gateway to one, or to a device whose row was never updated: the
\* three transactions of main.cpp:275-329 commit in this order.
RowsInWriteOrder ==
  /\ \A d \in Devices : cwDevice[d] # 0 => Key(cwDevice[d]) \in air
  /\ \A d \in Devices, g \in Gateways :
       cwGateway[<<d, g>>] # 0 => Key(cwGateway[<<d, g>>]) \in air /\ cwDevice[d] # 0

\* last_data_updated_at goes back to an earlier message only for one that the
\* broker has delivered before: as long as nothing is redelivered the UPDATE of
\* main.cpp:302-307, which compares no timestamps, keeps the latest message.
NoRegressionUnlessRedelivered ==
  [][\A d \in Devices :
       cwDevice'[d] < cwDevice[d] => cwDevice'[d] \in redelivered]_vars

\* Once its channel is closed or its connection gone, the process settles nothing
\* more, works off at most what it was delivered before, and stores nothing
\* after that: nothing but its own end brings the session back, however often
\* it sleeps and reads again (LavinMQ.cpp:95, 210-221, main.cpp:122-128).
OutageEndsWithRestart ==
  [][(link \in {"closed", "lost"}) =>
       /\ acked' = acked /\ Range(Held') \subseteq Range(Held)
       /\ Held = <<>> => UNCHANGED dbVars
       /\ link' # "open" /\ (link' = "none" => pc' = "down")]_vars

\* A broken PostgreSQL connection is never taken for an answer: no row changes,
\* and no message is acked, as of an unknown device or as there already, by a
\* step that leaves the connection down, but one that needs no database
\* (main.cpp:158-163, 241-252, 334-346, PostgresClient.cpp:69).
NoAnswerWithoutPostgres ==
  [][/\ pg = "down" => UNCHANGED dbVars
     /\ pg' = "down" => \A m \in acked' \ acked : Uplink[m].kind \in {"no_eui", "no_time"}]_vars

\* What a reading is to leave in the three tables is there.
RowsStored(m) ==
  /\ Key(m) \in air
  /\ cwDevice[DeviceOf(m)] # 0
  /\ \A i \in DOMAIN GatewaysOf(m) : cwGateway[<<DeviceOf(m), GatewaysOf(m)[i]>>] # 0

\* A reading is acked while rows of it are missing only where an attempt at its key
\* went back to the queue, or was made for another content: what "already exists"
\* (main.cpp:338-339) leaves out is never lost by a message that is handled once.
RowsMissingOnlyAfterRequeue ==
  \A m \in acked : Uplink[m].kind = "good" /\ ~RowsStored(m) =>
    \E k \in Published :
      /\ Uplink[k].kind = "good" /\ Key(k) = Key(m)
      /\ k \in redelivered \/ Uplink[k] # Uplink[m]

\* The Consumer implements Ingestion.
Abstract == INSTANCE Ingestion WITH pending <- ready \cup unacked, done <- acked
ImplementsIngestion == Abstract!Spec

\* Once the two connections stay up, every message that can be settled is, even
\* with messages in the queue that are requeued forever (main.cpp:122-348).
StaysConnected == <>[](link = "open" /\ pg = "up")
Settleable(m) == Uplink[m].kind = "good" \/ Discardable(m)
EverySettleableSettled ==
  StaysConnected =>
    \A m \in Msgs : Settleable(m) /\ m \in ready ~> m \in acked

\* main.cpp:338-339: "if [the error] contains "already exists" ... ack the message
\* as it is already there".  What the message carries is there when its reading,
\* its device's row and the rows of its gateways all are.
AckedMeansStored == \A m \in acked : Uplink[m].kind = "good" => RowsStored(m)

\* main.cpp:139-140: an unparseable message is settled with "nack, or nack with
\* requeue if supported": the nack in use is meant not to requeue, so that the
\* broker has no reason to deliver the message again.
GarbageNotRequeued ==
  \A m \in Msgs : Uplink[m].kind = "garbage" => m \notin redelivered

=============================================================================
