----------------------------- MODULE MqttClient -----------------------------
(***************************************************************************)
(* The Consumer's MQTT client, Consumer/src/MqttClient.cpp: a wrapper of a *)
(* Paho client that reconnects from a detached thread.  Three parties meet *)
(* on an object: the thread that owns it, the thread of Paho that calls    *)
(* ConnectionLost, and the reconnect thread.  main() creates no MqttClient *)
(* yet, so that the owner makes any legal sequence of calls.               *)
(*                                                                         *)
(* Results of subscribe calls are only logged, and cleansession is 0, so   *)
(* that the broker keeps subscriptions: they are left out.  So is time.    *)
(***************************************************************************)
EXTENDS Naturals

CONSTANTS
  Objects,    \* addresses of MqttClient objects
  MaxClients, \* bound on the calls of MQTTClient_create
  MaxLosses,  \* bound on the connections that break
  Threads     \* reconnect threads that may run at a time

ASSUME ObjectsAssumption == Objects \subseteq Nat \ {0}
ASSUME BoundsAssumption == MaxClients \in Nat /\ MaxLosses \in Nat

VARIABLES
  \* the objects
  alive,        \* the objects that exist
  client,       \* client_ of each object
  reconnecting, \* the objects whose reconnecting_ is set
  locked,       \* the objects whose client_mtx_ is held
  \* Paho
  paho,         \* the state of each Paho client
  context,      \* the object its callbacks are called with
  lost,         \* broken connections that are not reported yet
  losses,       \* how many connections have broken
  \* the threads
  owner,        \* the call the owner is in, and the object it is made on
  at, self, using,  \* per reconnect thread: where it is, its object, and the
                    \* Paho client that the call it is in was given
  \* history
  misused,      \* a client was destroyed or moved with a thread or callbacks on it
  undefined     \* freed memory has been used

objectVars == <<alive, client, reconnecting, locked>>
pahoVars   == <<paho, context, lost, losses>>
threadVars == <<at, self, using>>
vars == <<objectVars, pahoVars, owner, threadVars, misused, undefined>>

None    == 0          \* no object, no Paho client: nullptr
Clients == 1..MaxClients
PahoStates   == {"none", "down", "up", "gone"}
OwnerStates  == {"idle", "connecting", "subscribing", "closing"}
InCall       == {"connecting", "subscribing"}
ThreadStates == {"none", "check", "connect", "resubscribe", "backoff"} \cup InCall

Idle == [at |-> "idle", obj |-> None]

Init ==
  /\ alive = Objects /\ client = [o \in Objects |-> None]
  /\ reconnecting = {} /\ locked = {}
  /\ paho = [c \in Clients |-> "none"] /\ context = [c \in Clients |-> None]
  /\ lost = {} /\ losses = 0
  /\ owner = Idle
  /\ at = [t \in Threads |-> "none"] /\ self = [t \in Threads |-> None]
  /\ using = [t \in Threads |-> None]
  /\ misused = FALSE /\ undefined = FALSE

Running(t) == at[t] # "none"
UnderThread(o) == \E t \in Threads : Running(t) /\ self[t] = o

-----------------------------------------------------------------------------
(* The owner.  The destructor and the move assignment call disconnect() first, *)
(* which is the same as the owner calling it.                                  *)

Owns(o) == owner.at = "idle" /\ o \in alive

\* Mutant of CreateClient: connect() takes no lock.
CreateClientUnlocked(o) ==
  /\ Owns(o) /\ client[o] = None
  /\ \E c \in Clients :
       /\ paho[c] = "none" /\ \A b \in Clients : b < c => paho[b] # "none"
       /\ client' = [client EXCEPT ![o] = c]
       /\ paho' = [paho EXCEPT ![c] = "down"]
       /\ context' = [context EXCEPT ![c] = o]
  /\ owner' = [at |-> "connecting", obj |-> o]
  /\ UNCHANGED <<alive, reconnecting, locked, lost, losses, threadVars, misused, undefined>>

\* connect() on an object with a client returns at once.
CreateClient(o) ==
  /\ Owns(o) /\ o \notin locked /\ client[o] = None
  /\ \E c \in Clients :
       /\ paho[c] = "none" /\ \A b \in Clients : b < c => paho[b] # "none"
       /\ client' = [client EXCEPT ![o] = c]
       /\ paho' = [paho EXCEPT ![c] = "down"]
       /\ context' = [context EXCEPT ![c] = o]
  /\ locked' = locked \cup {o}
  /\ owner' = [at |-> "connecting", obj |-> o]
  /\ UNCHANGED <<alive, reconnecting, lost, losses, threadVars, misused, undefined>>

OwnerConnected ==
  /\ owner.at = "connecting"
  /\ paho' = [paho EXCEPT ![client[owner.obj]] = "up"]
  /\ owner' = [owner EXCEPT !.at = "subscribing"]
  /\ UNCHANGED <<objectVars, context, lost, losses, threadVars, misused, undefined>>

\* MQTTClient_destroy: no callback comes from the client any more.
DestroyClient(o) ==
  /\ paho' = [paho EXCEPT ![client[o]] = "gone"]
  /\ lost' = lost \ {client[o]}
  /\ client' = [client EXCEPT ![o] = None]
  /\ misused' = (misused \/ UnderThread(o))
  /\ owner' = Idle

\* reset_client(), after setCallbacks or the connect failed.
OwnerConnectFails ==
  /\ owner.at = "connecting"
  /\ DestroyClient(owner.obj)
  /\ locked' = locked \ {owner.obj}
  /\ UNCHANGED <<alive, reconnecting, context, losses, threadVars, undefined>>

OwnerSubscribed ==
  /\ owner.at = "subscribing"
  /\ locked' = locked \ {owner.obj} /\ owner' = Idle
  /\ UNCHANGED <<alive, client, reconnecting, pahoVars, threadVars, misused, undefined>>

\* disconnect() takes no lock.
StartDisconnect(o) ==
  /\ Owns(o) /\ client[o] # None
  /\ paho' = [paho EXCEPT ![client[o]] = "down"]
  /\ owner' = [at |-> "closing", obj |-> o]
  /\ UNCHANGED <<objectVars, context, lost, losses, threadVars, misused, undefined>>

FinishDisconnect ==
  /\ owner.at = "closing"
  /\ DestroyClient(owner.obj)
  /\ UNCHANGED <<alive, reconnecting, locked, context, losses, threadVars, undefined>>

\* Mutant of Move: the assignment does not disconnect its target.
MoveOver(o, p) ==
  /\ Owns(o) /\ p \in alive \ {o} /\ client[p] # None
  /\ client' = [client EXCEPT ![o] = client[p], ![p] = None]
  /\ misused' = TRUE
  /\ undefined' \in {FALSE, UnderThread(o) \/ UnderThread(p)}
  /\ UNCHANGED <<alive, reconnecting, locked, pahoVars, owner, threadVars>>

\* Both moves: the client changes its object, the callbacks still have the old one.
\* config_ is moved as well, which a reconnect thread may be reading.
Move(o, p) ==
  /\ Owns(o) /\ p \in alive \ {o} /\ client[p] # None /\ client[o] = None
  /\ client' = [client EXCEPT ![o] = client[p], ![p] = None]
  /\ misused' = TRUE
  /\ undefined' \in {FALSE, UnderThread(o) \/ UnderThread(p)}
  /\ UNCHANGED <<alive, reconnecting, locked, pahoVars, owner, threadVars>>

\* Mutant of Destruct: the destructor does not disconnect.
DestructConnected(o) ==
  /\ Owns(o)
  /\ alive' = alive \ {o}
  /\ misused' = (misused \/ UnderThread(o))
  /\ UNCHANGED <<client, reconnecting, locked, pahoVars, owner, threadVars, undefined>>

\* The destructor after its disconnect(): nothing waits for the reconnect thread.
Destruct(o) ==
  /\ Owns(o) /\ client[o] = None
  /\ alive' = alive \ {o}
  /\ misused' = (misused \/ UnderThread(o))
  /\ UNCHANGED <<client, reconnecting, locked, pahoVars, owner, threadVars, undefined>>

-----------------------------------------------------------------------------
(* Paho *)

LoseConnection(c) ==
  /\ paho[c] = "up" /\ losses < MaxLosses
  /\ paho' = [paho EXCEPT ![c] = "down"]
  /\ lost' = lost \cup {c} /\ losses' = losses + 1
  /\ UNCHANGED <<objectVars, context, owner, threadVars, misused, undefined>>

SpawnThread(o) ==
  \E t \in Threads :
    /\ ~Running(t)
    /\ at' = [at EXCEPT ![t] = "check"] /\ self' = [self EXCEPT ![t] = o]

\* Mutant of ConnectionLost: reconnecting_ is set without looking at it.
ConnectionLostAlwaysSpawns(c) ==
  /\ c \in lost
  /\ lost' = lost \ {c}
  /\ context[c] \in alive
  /\ reconnecting' = reconnecting \cup {context[c]} /\ SpawnThread(context[c])
  /\ UNCHANGED <<alive, client, locked, paho, context, losses, owner, using, misused, undefined>>

\* The exchange on reconnecting_ lets one thread run at a time.
ConnectionLost(c) ==
  /\ c \in lost
  /\ lost' = lost \ {c}
  /\ \/ /\ context[c] \in alive \ reconnecting
        /\ reconnecting' = reconnecting \cup {context[c]} /\ SpawnThread(context[c])
        /\ UNCHANGED undefined
     \/ /\ context[c] \in alive \cap reconnecting
        /\ UNCHANGED <<reconnecting, at, self, undefined>>
     \/ /\ context[c] \notin alive
        /\ undefined' = TRUE
        /\ UNCHANGED <<reconnecting, at, self>>
  /\ UNCHANGED <<alive, client, locked, paho, context, losses, owner, using, misused>>

-----------------------------------------------------------------------------
(* The reconnect thread *)

GoOn(t, where) == at' = [at EXCEPT ![t] = where] /\ UNCHANGED <<self, reconnecting>>

Stop(t) ==
  /\ reconnecting' = reconnecting \ {self[t]}
  /\ at' = [at EXCEPT ![t] = "none"] /\ self' = [self EXCEPT ![t] = None]

\* client_ is checked under the lock, which is given back at once.
CheckClient(t) ==
  /\ at[t] = "check" /\ self[t] \notin locked
  /\ \/ client[self[t]] = None /\ Stop(t)
     \/ client[self[t]] # None /\ GoOn(t, "connect")
  /\ UNCHANGED <<locked, using, paho>>

\* Mutant of StartConnect: client_ is not checked again.
StartConnectUnchecked(t) ==
  /\ at[t] = "connect" /\ self[t] \notin locked
  /\ using' = [using EXCEPT ![t] = client[self[t]]] /\ locked' = locked \cup {self[t]}
  /\ GoOn(t, "connecting")
  /\ UNCHANGED paho

StartConnect(t) ==
  /\ at[t] = "connect" /\ self[t] \notin locked
  /\ \/ client[self[t]] = None /\ Stop(t) /\ UNCHANGED <<using, locked>>
     \/ /\ client[self[t]] # None
        /\ using' = [using EXCEPT ![t] = client[self[t]]] /\ locked' = locked \cup {self[t]}
        /\ GoOn(t, "connecting")
  /\ UNCHANGED paho

EndCall(t) == paho[using[t]] # "gone" /\ using' = [using EXCEPT ![t] = None]

\* MQTTClient_connect returns, and with its block the lock is released.
Connected(t) ==
  /\ at[t] = "connecting"
  /\ EndCall(t)
  /\ paho' = [paho EXCEPT ![using[t]] = "up"] /\ locked' = locked \ {self[t]}
  /\ GoOn(t, "resubscribe")

\* Mutant of ConnectFailed: the thread ends after the first attempt.
ConnectFailedOnce(t) ==
  /\ at[t] = "connecting"
  /\ EndCall(t)
  /\ paho' = [paho EXCEPT ![using[t]] = "down"] /\ locked' = locked \ {self[t]}
  /\ Stop(t)

ConnectFailed(t) ==
  /\ at[t] = "connecting"
  /\ EndCall(t)
  /\ paho' = [paho EXCEPT ![using[t]] = "down"] /\ locked' = locked \ {self[t]}
  /\ GoOn(t, "backoff")

\* client_ is read again, without the lock.  Paho refuses a null client.
Resubscribe(t) ==
  /\ at[t] = "resubscribe"
  /\ \/ client[self[t]] = None /\ Stop(t) /\ UNCHANGED using
     \/ /\ client[self[t]] # None
        /\ using' = [using EXCEPT ![t] = client[self[t]]] /\ GoOn(t, "subscribing")
  /\ UNCHANGED <<locked, paho>>

Resubscribed(t) ==
  /\ at[t] = "subscribing"
  /\ EndCall(t)
  /\ Stop(t)
  /\ UNCHANGED <<locked, paho>>

Wake(t) ==
  /\ at[t] = "backoff"
  /\ GoOn(t, "check")
  /\ UNCHANGED <<locked, using, paho>>

\* *self or the Paho client has been freed.
UseFreed(t) ==
  /\ \/ Running(t) /\ self[t] \notin alive
     \/ at[t] \in InCall /\ paho[using[t]] = "gone"
  /\ undefined' = TRUE
  /\ UNCHANGED <<objectVars, pahoVars, owner, threadVars, misused>>

OnLiveObject(t) ==
  /\ self[t] \in alive
  /\ UNCHANGED <<alive, client, context, lost, losses, owner, misused, undefined>>

Locking(t) == (CheckClient(t) \/ StartConnect(t)) /\ OnLiveObject(t)
Succeed(t) == Connected(t) /\ OnLiveObject(t)
Reconnect(t) ==
  \/ Locking(t) \/ Succeed(t) \/ UseFreed(t)
  \/ (ConnectFailed(t) \/ Resubscribe(t) \/ Resubscribed(t) \/ Wake(t)) /\ OnLiveObject(t)

-----------------------------------------------------------------------------

EndOwnerCall == OwnerConnected \/ OwnerConnectFails \/ OwnerSubscribed \/ FinishDisconnect
OwnerCall ==
  \/ EndOwnerCall
  \/ \E o \in Objects :
       CreateClient(o) \/ StartDisconnect(o) \/ Destruct(o) \/ \E p \in Objects : Move(o, p)

\* After a use of freed memory anything may happen: the behaviour ends there.
Next ==
  /\ ~undefined
  /\ \/ OwnerCall
     \/ \E c \in Clients : LoseConnection(c) \/ ConnectionLost(c)
     \/ \E t \in Threads : Reconnect(t)

Spec == Init /\ [][Next]_vars

\* Threads run, calls return, a thread that keeps asking for a lock that is free
\* again and again gets it, and a broker that is asked again and again accepts once.
Fairness ==
  /\ WF_vars(~undefined /\ EndOwnerCall)
  /\ \A c \in Clients : WF_vars(~undefined /\ ConnectionLost(c))
  /\ \A t \in Threads :
       /\ WF_vars(~undefined /\ Reconnect(t))
       /\ SF_vars(~undefined /\ Locking(t))
       /\ SF_vars(~undefined /\ Succeed(t))

FairSpec == Spec /\ Fairness

-----------------------------------------------------------------------------
(* Properties *)

TypeOK ==
  /\ alive \subseteq Objects /\ reconnecting \subseteq Objects /\ locked \subseteq Objects
  /\ client \in [Objects -> Clients \cup {None}]
  /\ paho \in [Clients -> PahoStates]
  /\ context \in [Clients -> Objects \cup {None}]
  /\ lost \subseteq Clients /\ losses \in 0..MaxLosses
  /\ owner \in [at : OwnerStates, obj : Objects \cup {None}]
  /\ at \in [Threads -> ThreadStates]
  /\ self \in [Threads -> Objects \cup {None}]
  /\ using \in [Threads -> Clients \cup {None}]
  /\ \A t \in Threads : at[t] \in InCall <=> using[t] # None
  /\ misused \in BOOLEAN /\ undefined \in BOOLEAN

\* An object has a reconnect thread exactly while its reconnecting_ is set, and
\* never two, whatever losses, disconnects and moves come in between
\* (MqttClient.cpp:121-126, 136, 162, 176).
OneReconnectThread ==
  \A o \in Objects :
    /\ o \in reconnecting <=> UnderThread(o)
    /\ \A t, u \in Threads : self[t] = o /\ self[u] = o => t = u

\* Every Paho client that was created and not destroyed belongs to exactly one
\* existing object, and no object holds a destroyed one: no sequence of failed
\* connects, disconnects and moves leaks a client or frees it twice
\* (MqttClient.cpp:17-65, 189-201, 265-272).
ClientsAccounted ==
  /\ \A o, p \in Objects : client[o] = client[p] /\ client[o] # None => o = p
  /\ \A c \in Clients : paho[c] \in {"down", "up"} <=> \E o \in alive : client[o] = c

\* client_mtx_ excludes: the owner inside connect() and a reconnect thread inside
\* MQTTClient_connect never work on the same object (MqttClient.cpp:42, 133, 161).
ConnectsExclude ==
  owner.at \in InCall =>
    \A t \in Threads : self[t] = owner.obj => at[t] # "connecting"

\* Freed memory is only used after the owner destroyed or moved a client while a
\* reconnect thread or its callbacks were on it: the lock-free disconnect() is the
\* one way to it, and an owner that could wait for the thread would be safe
\* (MqttClient.cpp:17-38, 170, 189-201).
FreedOnlyByMisuse == undefined => misused

\* The object that c calls back is the one that holds it.
Attended(c) == \E o \in Objects : context[c] = o /\ client[o] = c

\* A loss that finds no reconnect thread running is repaired: the connection comes
\* up again, however often it fails, unless the client is destroyed or moved away
\* (MqttClient.cpp:128-186).
LossRepaired ==
  \A c \in Clients :
    c \in lost /\ context[c] \notin reconnecting ~>
      paho[c] \in {"up", "gone"} \/ ~Attended(c) \/ undefined

\* A connection is up, or somebody is to see to it: its loss is to be reported, its
\* object has a reconnect thread, or the owner opens or closes it.
Cared(c) ==
  \/ paho[c] = "up" \/ c \in lost
  \/ context[c] \in reconnecting
  \/ owner.at \in {"connecting", "closing"} /\ owner.obj = context[c]

\* Nobody sees to a connection that is down only when a reconnect thread ends that had
\* connected it and was then told of another loss: no failed attempt, early return of
\* the thread or call of the owner drops a connection that it does not destroy
\* (MqttClient.cpp:121-126, 136, 158-184, 189-201).
OnlyLateLossForgotten ==
  [][~misused' =>
       \A c \in Clients :
         Cared(c) /\ ~Cared(c)' =>
           \/ paho'[c] = "gone"
           \/ \E t \in Threads : at[t] = "subscribing" /\ self[t] = context[c]]_vars

\* MqttClient.cpp:124, of a loss that finds reconnecting_ set: "already
\* reconnecting".  If so, the thread that is reconnecting repairs it as well.
AlreadyReconnecting ==
  \A c \in Clients :
    c \in lost ~>
      paho[c] \in {"up", "gone"} \/ ~Attended(c) \/ undefined

=============================================================================
