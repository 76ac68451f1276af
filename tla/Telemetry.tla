------------------------------ MODULE Telemetry ------------------------------
(***************************************************************************)
(* What the two programs promise together, without their connections,      *)
(* sessions, frames, batches and files: an uplink is received, it goes to  *)
(* the queue in its turn, at most once, and only under an id that no       *)
(* message before it had, and what is in the queue is ingested.            *)
(***************************************************************************)
EXTENDS Ingestion

CONSTANT Id(_)  \* by which the queue tells a message from one it has had

VARIABLE received  \* number of uplinks received so far

telemetryVars == <<vars, received>>

TelemetryInit == Init /\ received = 0

Receive ==
  /\ received' = received + 1 /\ received' \in Msgs
  /\ UNCHANGED vars

Forward ==
  /\ received \in Msgs
  /\ \A k \in pending \cup done : Id(k) # Id(received)
  /\ Publish(received)
  /\ UNCHANGED received

TelemetryNext == Receive \/ Forward \/ (Ingest /\ UNCHANGED received)

TelemetrySpec == TelemetryInit /\ [][TelemetryNext]_telemetryVars

=============================================================================
