------------------------------ MODULE Ingestion ------------------------------
(***************************************************************************)
(* What the Consumer promises, without sessions, batches or a program      *)
(* counter: a message is pending from its publication until it is settled, *)
(* only pending messages have effects on the database, the effects of a    *)
(* message follow its data row, and a message is settled only when its     *)
(* reading is recorded or when it can never be.                            *)
(*                                                                         *)
(* Consumer implements this specification with                             *)
(*   pending = ready \cup unacked   and   done = acked.                    *)
(***************************************************************************)
EXTENDS Integers

CONSTANTS
  Msgs,         \* publication numbers
  Devices, Gateways,
  Key(_),       \* the unique key of the reading a message carries
  DeviceOf(_),  \* the device a message comes from
  Discardable(_)  \* no reading can ever be recorded for the message

VARIABLES
  pending, done,  \* the life of a message
  air,            \* keys of the recorded readings
  cwDevice,       \* per device, the message its row was last written from
  cwGateway       \* per device and gateway, likewise

vars == <<pending, done, air, cwDevice, cwGateway>>

Init ==
  /\ pending = {} /\ done = {} /\ air = {}
  /\ cwDevice = [d \in Devices |-> 0]
  /\ cwGateway = [dg \in Devices \X Gateways |-> 0]

Publish(m) ==
  /\ \A k \in pending \cup done : k < m
  /\ pending' = pending \cup {m}
  /\ UNCHANGED <<done, air, cwDevice, cwGateway>>

Record(m) ==
  /\ m \in pending /\ Key(m) \notin air
  /\ air' = air \cup {Key(m)}
  /\ UNCHANGED <<pending, done, cwDevice, cwGateway>>

TouchDevice(m) ==
  /\ m \in pending /\ Key(m) \in air
  /\ cwDevice' = [cwDevice EXCEPT ![DeviceOf(m)] = m]
  /\ UNCHANGED <<pending, done, air, cwGateway>>

TouchGateway(m, g) ==
  /\ m \in pending /\ Key(m) \in air
  /\ cwDevice[DeviceOf(m)] # 0
  /\ cwGateway' = [cwGateway EXCEPT ![<<DeviceOf(m), g>>] = m]
  /\ UNCHANGED <<pending, done, air, cwDevice>>

Settle(m) ==
  /\ m \in pending
  /\ Key(m) \in air \/ Discardable(m)
  /\ pending' = pending \ {m}
  /\ done' = done \cup {m}
  /\ UNCHANGED <<air, cwDevice, cwGateway>>

Ingest ==
  \E m \in Msgs :
    \/ Record(m) \/ TouchDevice(m) \/ Settle(m)
    \/ \E g \in Gateways : TouchGateway(m, g)

Next == (\E m \in Msgs : Publish(m)) \/ Ingest

Spec == Init /\ [][Next]_vars

=============================================================================
