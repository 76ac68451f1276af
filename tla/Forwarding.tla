----------------------------- MODULE Forwarding -----------------------------
(***************************************************************************)
(* What the Producer promises, without sessions, frames or a static        *)
(* pointer: of each source it handles one uplink at a time, and forwards   *)
(* it to the queue unless the queue cannot be reached or the process ends; *)
(* only while it starts may it overlook one.                               *)
(***************************************************************************)
EXTENDS Naturals, Sequences

CONSTANT Sources

VARIABLES
  phase,     \* "starting", "serving" or "ending"
  routed,    \* what is published reaches the queue
  received,  \* number of uplinks of each source
  handling,  \* sources whose last uplink is still to be forwarded
  queue      \* the uplinks forwarded, in order

vars == <<phase, routed, received, handling, queue>>

Init ==
  /\ phase = "starting" /\ routed = FALSE
  /\ received = [s \in Sources |-> 0]
  /\ handling = {} /\ queue = <<>>

\* The queue is reached before the first uplink, or never.
Establish ==
  /\ phase = "starting" /\ \A s \in Sources : received[s] = 0
  /\ routed' = TRUE
  /\ UNCHANGED <<phase, received, handling, queue>>

Break ==
  /\ routed' = FALSE
  /\ UNCHANGED <<phase, received, handling, queue>>

Advance ==
  /\ <<phase, phase'>> \in {<<"starting", "serving">>, <<"serving", "ending">>}
  /\ UNCHANGED <<routed, received, handling, queue>>

Receive(s) ==
  /\ s \notin handling
  /\ received' = [received EXCEPT ![s] = @ + 1]
  /\ handling' = handling \cup {s}
  /\ UNCHANGED <<phase, routed, queue>>

Overlook(s) ==
  /\ s \notin handling /\ phase = "starting"
  /\ received' = [received EXCEPT ![s] = @ + 1]
  /\ UNCHANGED <<phase, routed, handling, queue>>

Forward(s) ==
  /\ s \in handling /\ routed
  /\ queue' = Append(queue, <<s, received[s]>>)
  /\ handling' = handling \ {s}
  /\ UNCHANGED <<phase, routed, received>>

GiveUp(s) ==
  /\ s \in handling /\ (~routed \/ phase = "ending")
  /\ handling' = handling \ {s}
  /\ UNCHANGED <<phase, routed, received, queue>>

\* The process ends with all that it handles.
Abort ==
  /\ phase = "starting"
  /\ phase' = "ending" /\ handling' = {}
  /\ UNCHANGED <<routed, received, queue>>

Next ==
  \/ Establish \/ Break \/ Advance \/ Abort
  \/ \E s \in Sources : Receive(s) \/ Overlook(s) \/ Forward(s) \/ GiveUp(s)

Spec == Init /\ [][Next]_vars

=============================================================================
