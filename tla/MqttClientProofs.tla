-------------------------- MODULE MqttClientProofs --------------------------
(***************************************************************************)
(* Proofs about MqttClient, for any number of objects, clients, losses and *)
(* threads.  Three layers: the types; who works on an object (its thread,  *)
(* the call the owner is in, the lock); and which Paho client belongs to   *)
(* which object, with what holds as long as nothing was misused.           *)
(***************************************************************************)
EXTENDS MqttClient, TLAPS

\* A step of MqttClient keeps the types.
LEMMA TypeStep == TypeOK /\ [Next]_vars => TypeOK'
<1>. USE ObjectsAssumption, BoundsAssumption
         DEF TypeOK, objectVars, pahoVars, threadVars
<1>. SUFFICES ASSUME TypeOK, [Next]_vars PROVE TypeOK'
  OBVIOUS
<1>1. ASSUME NEW o \in Objects, CreateClient(o)
     PROVE  TypeOK'
  BY <1>1 DEF CreateClient, Owns, PahoStates, OwnerStates
<1>2. ASSUME OwnerConnected
     PROVE  TypeOK'
  BY <1>2 DEF OwnerConnected, PahoStates, OwnerStates
<1>3. ASSUME OwnerConnectFails
     PROVE  TypeOK'
  BY <1>3 DEF OwnerConnectFails, DestroyClient, PahoStates, OwnerStates, Idle
<1>4. ASSUME OwnerSubscribed
     PROVE  TypeOK'
  BY <1>4 DEF OwnerSubscribed, OwnerStates, Idle
<1>5. ASSUME NEW o \in Objects, StartDisconnect(o)
     PROVE  TypeOK'
  BY <1>5 DEF StartDisconnect, Owns, PahoStates, OwnerStates
<1>6. ASSUME FinishDisconnect
     PROVE  TypeOK'
  BY <1>6 DEF FinishDisconnect, DestroyClient, PahoStates, OwnerStates, Idle
<1>7. ASSUME NEW o \in Objects, NEW p \in Objects, Move(o, p)
     PROVE  TypeOK'
  BY <1>7 DEF Move, Owns
<1>8. ASSUME NEW o \in Objects, Destruct(o)
     PROVE  TypeOK'
  BY <1>8 DEF Destruct, Owns
<1>9. ASSUME NEW c \in Clients, LoseConnection(c)
     PROVE  TypeOK'
  BY <1>9 DEF LoseConnection, PahoStates
<1>10. ASSUME NEW c \in Clients, ConnectionLost(c)
     PROVE  TypeOK'
  <2>1. at' \in [Threads -> ThreadStates]
    BY <1>10 DEF ConnectionLost, SpawnThread, ThreadStates, InCall, Running
  <2>2. self' \in [Threads -> Objects \cup {None}]
    BY <1>10 DEF ConnectionLost, SpawnThread, ThreadStates, InCall, Running
  <2>3. \A u \in Threads : at'[u] \in InCall <=> using'[u] # None
    BY <1>10 DEF ConnectionLost, SpawnThread, ThreadStates, InCall, Running
  <2>4. undefined' \in BOOLEAN
    BY <1>10 DEF ConnectionLost, SpawnThread, ThreadStates, InCall, Running
  <2>5. QED
    BY <2>1, <2>2, <2>3, <2>4, <1>10 DEF ConnectionLost, SpawnThread
<1>11. ASSUME NEW t \in Threads, CheckClient(t), OnLiveObject(t)
     PROVE  TypeOK'
  <2>1. CASE client[self[t]] = None
    <3>1. at' \in [Threads -> ThreadStates]
      BY <2>1, <1>11 DEF CheckClient, OnLiveObject, Stop, GoOn, ThreadStates, InCall
    <3>2. self' \in [Threads -> Objects \cup {None}]
      BY <2>1, <1>11 DEF CheckClient, OnLiveObject, Stop, GoOn, ThreadStates, InCall
    <3>3. using' \in [Threads -> Clients \cup {None}]
      BY <2>1, <1>11 DEF CheckClient, OnLiveObject, Stop, GoOn, ThreadStates, InCall
    <3>4. \A u \in Threads : at'[u] \in InCall <=> using'[u] # None
      BY <2>1, <1>11 DEF CheckClient, OnLiveObject, Stop, GoOn, ThreadStates, InCall
    <3>5. QED
      BY <3>1, <3>2, <3>3, <3>4, <2>1, <1>11 DEF CheckClient, OnLiveObject, Stop, GoOn
  <2>2. CASE client[self[t]] # None
    <3>1. at' \in [Threads -> ThreadStates]
      BY <2>2, <1>11 DEF CheckClient, OnLiveObject, Stop, GoOn, ThreadStates, InCall
    <3>2. self' \in [Threads -> Objects \cup {None}]
      BY <2>2, <1>11 DEF CheckClient, OnLiveObject, Stop, GoOn, ThreadStates, InCall
    <3>3. using' \in [Threads -> Clients \cup {None}]
      BY <2>2, <1>11 DEF CheckClient, OnLiveObject, Stop, GoOn, ThreadStates, InCall
    <3>4. \A u \in Threads : at'[u] \in InCall <=> using'[u] # None
      BY <2>2, <1>11 DEF CheckClient, OnLiveObject, Stop, GoOn, ThreadStates, InCall
    <3>5. QED
      BY <3>1, <3>2, <3>3, <3>4, <2>2, <1>11 DEF CheckClient, OnLiveObject, Stop, GoOn
  <2>3. QED
    BY <2>1, <2>2
<1>12. ASSUME NEW t \in Threads, StartConnect(t), OnLiveObject(t)
     PROVE  TypeOK'
  <2>1. CASE client[self[t]] = None
    <3>1. at' \in [Threads -> ThreadStates]
      BY <2>1, <1>12 DEF StartConnect, OnLiveObject, Stop, GoOn, ThreadStates, InCall
    <3>2. self' \in [Threads -> Objects \cup {None}]
      BY <2>1, <1>12 DEF StartConnect, OnLiveObject, Stop, GoOn, ThreadStates, InCall
    <3>3. using' \in [Threads -> Clients \cup {None}]
      BY <2>1, <1>12 DEF StartConnect, OnLiveObject, Stop, GoOn, ThreadStates, InCall
    <3>4. \A u \in Threads : at'[u] \in InCall <=> using'[u] # None
      BY <2>1, <1>12 DEF StartConnect, OnLiveObject, Stop, GoOn, ThreadStates, InCall
    <3>5. QED
      BY <3>1, <3>2, <3>3, <3>4, <2>1, <1>12 DEF StartConnect, OnLiveObject, Stop, GoOn
  <2>2. CASE client[self[t]] # None
    <3>1. at' \in [Threads -> ThreadStates]
      BY <2>2, <1>12 DEF StartConnect, OnLiveObject, Stop, GoOn, ThreadStates, InCall
    <3>2. self' \in [Threads -> Objects \cup {None}]
      BY <2>2, <1>12 DEF StartConnect, OnLiveObject, Stop, GoOn, ThreadStates, InCall
    <3>3. using' \in [Threads -> Clients \cup {None}]
      BY <2>2, <1>12 DEF StartConnect, OnLiveObject, Stop, GoOn, ThreadStates, InCall
    <3>4. \A u \in Threads : at'[u] \in InCall <=> using'[u] # None
      BY <2>2, <1>12 DEF StartConnect, OnLiveObject, Stop, GoOn, ThreadStates, InCall
    <3>5. QED
      BY <3>1, <3>2, <3>3, <3>4, <2>2, <1>12 DEF StartConnect, OnLiveObject, Stop, GoOn
  <2>3. QED
    BY <2>1, <2>2
<1>13. ASSUME NEW t \in Threads, Connected(t), OnLiveObject(t)
     PROVE  TypeOK'
  <2>1. at' \in [Threads -> ThreadStates]
    BY <1>13 DEF Connected, OnLiveObject, EndCall, GoOn, ThreadStates, InCall
  <2>2. self' \in [Threads -> Objects \cup {None}]
    BY <1>13 DEF Connected, OnLiveObject, EndCall, GoOn, ThreadStates, InCall
  <2>3. using' \in [Threads -> Clients \cup {None}]
    BY <1>13 DEF Connected, OnLiveObject, EndCall, GoOn, ThreadStates, InCall
  <2>4. \A u \in Threads : at'[u] \in InCall <=> using'[u] # None
    BY <1>13 DEF Connected, OnLiveObject, EndCall, GoOn, ThreadStates, InCall
  <2>5. QED
    BY <2>1, <2>2, <2>3, <2>4, <1>13 DEF Connected, OnLiveObject, EndCall, GoOn, PahoStates
<1>14. ASSUME NEW t \in Threads, ConnectFailed(t), OnLiveObject(t)
     PROVE  TypeOK'
  <2>1. at' \in [Threads -> ThreadStates]
    BY <1>14 DEF ConnectFailed, OnLiveObject, EndCall, GoOn, ThreadStates, InCall
  <2>2. self' \in [Threads -> Objects \cup {None}]
    BY <1>14 DEF ConnectFailed, OnLiveObject, EndCall, GoOn, ThreadStates, InCall
  <2>3. using' \in [Threads -> Clients \cup {None}]
    BY <1>14 DEF ConnectFailed, OnLiveObject, EndCall, GoOn, ThreadStates, InCall
  <2>4. \A u \in Threads : at'[u] \in InCall <=> using'[u] # None
    BY <1>14 DEF ConnectFailed, OnLiveObject, EndCall, GoOn, ThreadStates, InCall
  <2>5. QED
    BY <2>1, <2>2, <2>3, <2>4, <1>14 DEF ConnectFailed, OnLiveObject, EndCall, GoOn, PahoStates
<1>15. ASSUME NEW t \in Threads, Resubscribe(t), OnLiveObject(t)
     PROVE  TypeOK'
  <2>1. CASE client[self[t]] = None
    <3>1. at' \in [Threads -> ThreadStates]
      BY <2>1, <1>15 DEF Resubscribe, OnLiveObject, Stop, GoOn, ThreadStates, InCall
    <3>2. self' \in [Threads -> Objects \cup {None}]
      BY <2>1, <1>15 DEF Resubscribe, OnLiveObject, Stop, GoOn, ThreadStates, InCall
    <3>3. using' \in [Threads -> Clients \cup {None}]
      BY <2>1, <1>15 DEF Resubscribe, OnLiveObject, Stop, GoOn, ThreadStates, InCall
    <3>4. \A u \in Threads : at'[u] \in InCall <=> using'[u] # None
      BY <2>1, <1>15 DEF Resubscribe, OnLiveObject, Stop, GoOn, ThreadStates, InCall
    <3>5. QED
      BY <3>1, <3>2, <3>3, <3>4, <2>1, <1>15 DEF Resubscribe, OnLiveObject, Stop, GoOn
  <2>2. CASE client[self[t]] # None
    <3>1. at' \in [Threads -> ThreadStates]
      BY <2>2, <1>15 DEF Resubscribe, OnLiveObject, Stop, GoOn, ThreadStates, InCall
    <3>2. self' \in [Threads -> Objects \cup {None}]
      BY <2>2, <1>15 DEF Resubscribe, OnLiveObject, Stop, GoOn, ThreadStates, InCall
    <3>3. using' \in [Threads -> Clients \cup {None}]
      BY <2>2, <1>15 DEF Resubscribe, OnLiveObject, Stop, GoOn, ThreadStates, InCall
    <3>4. \A u \in Threads : at'[u] \in InCall <=> using'[u] # None
      BY <2>2, <1>15 DEF Resubscribe, OnLiveObject, Stop, GoOn, ThreadStates, InCall
    <3>5. QED
      BY <3>1, <3>2, <3>3, <3>4, <2>2, <1>15 DEF Resubscribe, OnLiveObject, Stop, GoOn
  <2>3. QED
    BY <2>1, <2>2
<1>16. ASSUME NEW t \in Threads, Resubscribed(t), OnLiveObject(t)
     PROVE  TypeOK'
  <2>1. at' \in [Threads -> ThreadStates]
    BY <1>16 DEF Resubscribed, OnLiveObject, EndCall, Stop, ThreadStates, InCall
  <2>2. self' \in [Threads -> Objects \cup {None}]
    BY <1>16 DEF Resubscribed, OnLiveObject, EndCall, Stop, ThreadStates, InCall
  <2>3. using' \in [Threads -> Clients \cup {None}]
    BY <1>16 DEF Resubscribed, OnLiveObject, EndCall, Stop, ThreadStates, InCall
  <2>4. \A u \in Threads : at'[u] \in InCall <=> using'[u] # None
    BY <1>16 DEF Resubscribed, OnLiveObject, EndCall, Stop, ThreadStates, InCall
  <2>5. QED
    BY <2>1, <2>2, <2>3, <2>4, <1>16 DEF Resubscribed, OnLiveObject, EndCall, Stop
<1>17. ASSUME NEW t \in Threads, Wake(t), OnLiveObject(t)
     PROVE  TypeOK'
  <2>1. at' \in [Threads -> ThreadStates]
    BY <1>17 DEF Wake, OnLiveObject, GoOn, ThreadStates, InCall
  <2>2. self' \in [Threads -> Objects \cup {None}]
    BY <1>17 DEF Wake, OnLiveObject, GoOn, ThreadStates, InCall
  <2>3. using' \in [Threads -> Clients \cup {None}]
    BY <1>17 DEF Wake, OnLiveObject, GoOn, ThreadStates, InCall
  <2>4. \A u \in Threads : at'[u] \in InCall <=> using'[u] # None
    BY <1>17 DEF Wake, OnLiveObject, GoOn, ThreadStates, InCall
  <2>5. QED
    BY <2>1, <2>2, <2>3, <2>4, <1>17 DEF Wake, OnLiveObject, GoOn
<1>18. ASSUME NEW t \in Threads, UseFreed(t)
     PROVE  TypeOK'
  BY <1>18 DEF UseFreed
<1>19. CASE UNCHANGED vars
  BY <1>19 DEF vars
<1>20. QED
  BY <1>1, <1>2, <1>3, <1>4, <1>5, <1>6, <1>7, <1>8, <1>9, <1>10, <1>11, <1>12, <1>13, <1>14, <1>15, <1>16, <1>17, <1>18, <1>19
     DEF Next, OwnerCall, EndOwnerCall, Reconnect, Locking, Succeed

\* Every variable starts with a value of its type.
LEMMA InitTypeOK == Init => TypeOK
<1>. SUFFICES ASSUME Init PROVE TypeOK
  OBVIOUS
<1>. USE BoundsAssumption
     DEF Init, Clients, PahoStates, OwnerStates, ThreadStates, InCall, None, Idle
<1>1. losses \in 0..MaxLosses /\ owner \in [at : OwnerStates, obj : Objects \cup {None}]
  OBVIOUS
<1>2. /\ at \in [Threads -> ThreadStates]
      /\ \A t \in Threads : at[t] \in InCall <=> using[t] # None
  OBVIOUS
<1>3. QED
  BY <1>1, <1>2 DEF TypeOK

\* The types of MqttClient hold.
THEOREM TypeCorrect == Spec => []TypeOK
<1>1. QED
  BY InitTypeOK, TypeStep, PTL DEF Spec

-----------------------------------------------------------------------------

\* OneReconnectThread, from the side of the threads.
ThreadInv ==
  /\ \A t \in Threads : Running(t) <=> self[t] # None
  /\ \A t \in Threads : Running(t) => self[t] \in reconnecting
  /\ \A o \in reconnecting : \E t \in Threads : self[t] = o
  /\ \A t, u \in Threads : self[t] = self[u] /\ self[t] # None => t = u

\* Who stops leaves the objects of the other threads marked.
LEMMA StopLeaves ==
  ASSUME TypeOK, ThreadInv, NEW t \in Threads, Stop(t)
  PROVE  \A q \in reconnecting' : \E v \in Threads : self'[v] = q
<1>1. TAKE q \in reconnecting'
<1>2. q \in reconnecting /\ q # self[t]
  BY DEF Stop
<1>3. PICK v \in Threads : self[v] = q
  BY <1>2 DEF ThreadInv
<1>4. self'[v] = q
  BY <1>2, <1>3 DEF Stop, TypeOK
<1>5. QED
  BY <1>4

\* Who is spawned has its object marked.
LEMMA SpawnMarks ==
  ASSUME TypeOK, ThreadInv, NEW o \in Objects, SpawnThread(o),
         reconnecting' = reconnecting \cup {o}
  PROVE  \A q \in reconnecting' : \E v \in Threads : self'[v] = q
<1>. USE ObjectsAssumption
<1>1. PICK t \in Threads : ~Running(t) /\ self' = [self EXCEPT ![t] = o]
  BY DEF SpawnThread
<1>2. self'[t] = o
  BY <1>1 DEF TypeOK
<1>3. ASSUME NEW q \in reconnecting PROVE \E v \in Threads : self'[v] = q
  <2>1. PICK v \in Threads : self[v] = q
    BY DEF ThreadInv
  <2>2. v # t
    BY <2>1, <1>1 DEF ThreadInv, TypeOK, None
  <2>3. QED
    BY <2>1, <2>2, <1>1 DEF TypeOK
<1>4. QED
  BY <1>2, <1>3

\* The exchange keeps the threads of an object apart, and a thread that stops was
\* its object's only one.
LEMMA ThreadStep == TypeOK /\ ThreadInv /\ [Next]_vars => ThreadInv'
<1>. USE ObjectsAssumption
     DEF ThreadInv, Running, None, objectVars, pahoVars, threadVars
<1>. SUFFICES ASSUME TypeOK, ThreadInv, [Next]_vars PROVE ThreadInv'
  OBVIOUS
<1>1. ASSUME NEW o \in Objects, CreateClient(o)
     PROVE  ThreadInv'
  BY <1>1 DEF CreateClient, Owns
<1>2. ASSUME OwnerConnected
     PROVE  ThreadInv'
  BY <1>2 DEF OwnerConnected
<1>3. ASSUME OwnerConnectFails
     PROVE  ThreadInv'
  BY <1>3 DEF OwnerConnectFails, DestroyClient
<1>4. ASSUME OwnerSubscribed
     PROVE  ThreadInv'
  BY <1>4 DEF OwnerSubscribed
<1>5. ASSUME NEW o \in Objects, StartDisconnect(o)
     PROVE  ThreadInv'
  BY <1>5 DEF StartDisconnect, Owns
<1>6. ASSUME FinishDisconnect
     PROVE  ThreadInv'
  BY <1>6 DEF FinishDisconnect, DestroyClient
<1>7. ASSUME NEW o \in Objects, NEW p \in Objects, Move(o, p)
     PROVE  ThreadInv'
  BY <1>7 DEF Move, Owns
<1>8. ASSUME NEW o \in Objects, Destruct(o)
     PROVE  ThreadInv'
  BY <1>8 DEF Destruct, Owns
<1>9. ASSUME NEW c \in Clients, LoseConnection(c)
     PROVE  ThreadInv'
  BY <1>9 DEF LoseConnection
<1>10. ASSUME NEW c \in Clients, ConnectionLost(c)
     PROVE  ThreadInv'
  <2>1. CASE context[c] \in alive \ reconnecting /\ SpawnThread(context[c])
             /\ reconnecting' = reconnecting \cup {context[c]}
    <3>1. context[c] \in Objects
      BY <2>1 DEF TypeOK
    <3>2. \A q \in reconnecting' : \E v \in Threads : self'[v] = q
      BY <2>1, <3>1, SpawnMarks
    <3>3. PICK t \in Threads : /\ ~Running(t)
                               /\ at' = [at EXCEPT ![t] = "check"]
                               /\ self' = [self EXCEPT ![t] = context[c]]
      BY <2>1 DEF SpawnThread
    <3>4. \A v \in Threads : self[v] # context[c]
      BY <2>1, <3>1 DEF TypeOK
    <3>5. \A v \in Threads : Running(v)' <=> self'[v] # None
      BY <3>1, <3>3 DEF TypeOK
    <3>6. \A v \in Threads : Running(v)' => self'[v] \in reconnecting'
      BY <2>1, <3>1, <3>3 DEF TypeOK
    <3>7. \A v, u \in Threads : self'[v] = self'[u] /\ self'[v] # None => v = u
      BY <3>3, <3>4 DEF TypeOK
    <3>8. QED
      BY <3>2, <3>5, <3>6, <3>7
  <2>2. CASE UNCHANGED <<reconnecting, at, self>>
    BY <2>2
  <2>3. QED
    BY <1>10, <2>1, <2>2 DEF ConnectionLost
<1>11. ASSUME NEW t \in Threads, CheckClient(t), OnLiveObject(t)
     PROVE  ThreadInv'
  <2>1. CASE client[self[t]] = None
    <3>1. \A v \in Threads : Running(v)' <=> self'[v] # None
      BY <2>1, <1>11, StopLeaves DEF CheckClient, OnLiveObject, Stop, GoOn, TypeOK
    <3>2. \A v \in Threads : Running(v)' => self'[v] \in reconnecting'
      BY <2>1, <1>11, StopLeaves DEF CheckClient, OnLiveObject, Stop, GoOn, TypeOK
    <3>3. \A q \in reconnecting' : \E v \in Threads : self'[v] = q
      BY <2>1, <1>11, StopLeaves DEF CheckClient, OnLiveObject, Stop, GoOn, TypeOK
    <3>4. \A v, u \in Threads : self'[v] = self'[u] /\ self'[v] # None => v = u
      BY <2>1, <1>11, StopLeaves DEF CheckClient, OnLiveObject, Stop, GoOn, TypeOK
    <3>5. QED
      BY <3>1, <3>2, <3>3, <3>4, <2>1, <1>11, StopLeaves DEF CheckClient, OnLiveObject, Stop, GoOn
  <2>2. CASE client[self[t]] # None
    <3>1. \A v \in Threads : Running(v)' <=> self'[v] # None
      BY <2>2, <1>11, StopLeaves DEF CheckClient, OnLiveObject, Stop, GoOn, TypeOK
    <3>2. \A v \in Threads : Running(v)' => self'[v] \in reconnecting'
      BY <2>2, <1>11, StopLeaves DEF CheckClient, OnLiveObject, Stop, GoOn, TypeOK
    <3>3. \A q \in reconnecting' : \E v \in Threads : self'[v] = q
      BY <2>2, <1>11, StopLeaves DEF CheckClient, OnLiveObject, Stop, GoOn, TypeOK
    <3>4. \A v, u \in Threads : self'[v] = self'[u] /\ self'[v] # None => v = u
      BY <2>2, <1>11, StopLeaves DEF CheckClient, OnLiveObject, Stop, GoOn, TypeOK
    <3>5. QED
      BY <3>1, <3>2, <3>3, <3>4, <2>2, <1>11, StopLeaves DEF CheckClient, OnLiveObject, Stop, GoOn
  <2>3. QED
    BY <2>1, <2>2
<1>12. ASSUME NEW t \in Threads, StartConnect(t), OnLiveObject(t)
     PROVE  ThreadInv'
  <2>1. CASE client[self[t]] = None
    <3>1. \A v \in Threads : Running(v)' <=> self'[v] # None
      BY <2>1, <1>12, StopLeaves DEF StartConnect, OnLiveObject, Stop, GoOn, TypeOK
    <3>2. \A v \in Threads : Running(v)' => self'[v] \in reconnecting'
      BY <2>1, <1>12, StopLeaves DEF StartConnect, OnLiveObject, Stop, GoOn, TypeOK
    <3>3. \A q \in reconnecting' : \E v \in Threads : self'[v] = q
      BY <2>1, <1>12, StopLeaves DEF StartConnect, OnLiveObject, Stop, GoOn, TypeOK
    <3>4. \A v, u \in Threads : self'[v] = self'[u] /\ self'[v] # None => v = u
      BY <2>1, <1>12, StopLeaves DEF StartConnect, OnLiveObject, Stop, GoOn, TypeOK
    <3>5. QED
      BY <3>1, <3>2, <3>3, <3>4, <2>1, <1>12, StopLeaves DEF StartConnect, OnLiveObject, Stop, GoOn
  <2>2. CASE client[self[t]] # None
    <3>1. \A v \in Threads : Running(v)' <=> self'[v] # None
      BY <2>2, <1>12, StopLeaves DEF StartConnect, OnLiveObject, Stop, GoOn, TypeOK
    <3>2. \A v \in Threads : Running(v)' => self'[v] \in reconnecting'
      BY <2>2, <1>12, StopLeaves DEF StartConnect, OnLiveObject, Stop, GoOn, TypeOK
    <3>3. \A q \in reconnecting' : \E v \in Threads : self'[v] = q
      BY <2>2, <1>12, StopLeaves DEF StartConnect, OnLiveObject, Stop, GoOn, TypeOK
    <3>4. \A v, u \in Threads : self'[v] = self'[u] /\ self'[v] # None => v = u
      BY <2>2, <1>12, StopLeaves DEF StartConnect, OnLiveObject, Stop, GoOn, TypeOK
    <3>5. QED
      BY <3>1, <3>2, <3>3, <3>4, <2>2, <1>12, StopLeaves DEF StartConnect, OnLiveObject, Stop, GoOn
  <2>3. QED
    BY <2>1, <2>2
<1>13. ASSUME NEW t \in Threads, Connected(t), OnLiveObject(t)
     PROVE  ThreadInv'
  BY <1>13 DEF Connected, OnLiveObject, EndCall, GoOn, TypeOK
<1>14. ASSUME NEW t \in Threads, ConnectFailed(t), OnLiveObject(t)
     PROVE  ThreadInv'
  BY <1>14 DEF ConnectFailed, OnLiveObject, EndCall, GoOn, TypeOK
<1>15. ASSUME NEW t \in Threads, Resubscribe(t), OnLiveObject(t)
     PROVE  ThreadInv'
  <2>1. CASE client[self[t]] = None
    <3>1. \A v \in Threads : Running(v)' <=> self'[v] # None
      BY <2>1, <1>15, StopLeaves DEF Resubscribe, OnLiveObject, Stop, GoOn, TypeOK
    <3>2. \A v \in Threads : Running(v)' => self'[v] \in reconnecting'
      BY <2>1, <1>15, StopLeaves DEF Resubscribe, OnLiveObject, Stop, GoOn, TypeOK
    <3>3. \A q \in reconnecting' : \E v \in Threads : self'[v] = q
      BY <2>1, <1>15, StopLeaves DEF Resubscribe, OnLiveObject, Stop, GoOn, TypeOK
    <3>4. \A v, u \in Threads : self'[v] = self'[u] /\ self'[v] # None => v = u
      BY <2>1, <1>15, StopLeaves DEF Resubscribe, OnLiveObject, Stop, GoOn, TypeOK
    <3>5. QED
      BY <3>1, <3>2, <3>3, <3>4, <2>1, <1>15, StopLeaves DEF Resubscribe, OnLiveObject, Stop, GoOn
  <2>2. CASE client[self[t]] # None
    <3>1. \A v \in Threads : Running(v)' <=> self'[v] # None
      BY <2>2, <1>15, StopLeaves DEF Resubscribe, OnLiveObject, Stop, GoOn, TypeOK
    <3>2. \A v \in Threads : Running(v)' => self'[v] \in reconnecting'
      BY <2>2, <1>15, StopLeaves DEF Resubscribe, OnLiveObject, Stop, GoOn, TypeOK
    <3>3. \A q \in reconnecting' : \E v \in Threads : self'[v] = q
      BY <2>2, <1>15, StopLeaves DEF Resubscribe, OnLiveObject, Stop, GoOn, TypeOK
    <3>4. \A v, u \in Threads : self'[v] = self'[u] /\ self'[v] # None => v = u
      BY <2>2, <1>15, StopLeaves DEF Resubscribe, OnLiveObject, Stop, GoOn, TypeOK
    <3>5. QED
      BY <3>1, <3>2, <3>3, <3>4, <2>2, <1>15, StopLeaves DEF Resubscribe, OnLiveObject, Stop, GoOn
  <2>3. QED
    BY <2>1, <2>2
<1>16. ASSUME NEW t \in Threads, Resubscribed(t), OnLiveObject(t)
     PROVE  ThreadInv'
  <2>1. \A v \in Threads : Running(v)' <=> self'[v] # None
    BY <1>16, StopLeaves DEF Resubscribed, OnLiveObject, EndCall, Stop, TypeOK
  <2>2. \A v \in Threads : Running(v)' => self'[v] \in reconnecting'
    BY <1>16, StopLeaves DEF Resubscribed, OnLiveObject, EndCall, Stop, TypeOK
  <2>3. \A q \in reconnecting' : \E v \in Threads : self'[v] = q
    BY <1>16, StopLeaves DEF Resubscribed, OnLiveObject, EndCall, Stop, TypeOK
  <2>4. \A v, u \in Threads : self'[v] = self'[u] /\ self'[v] # None => v = u
    BY <1>16, StopLeaves DEF Resubscribed, OnLiveObject, EndCall, Stop, TypeOK
  <2>5. QED
    BY <2>1, <2>2, <2>3, <2>4, <1>16, StopLeaves DEF Resubscribed, OnLiveObject, EndCall, Stop
<1>17. ASSUME NEW t \in Threads, Wake(t), OnLiveObject(t)
     PROVE  ThreadInv'
  BY <1>17 DEF Wake, OnLiveObject, GoOn, TypeOK
<1>18. ASSUME NEW t \in Threads, UseFreed(t)
     PROVE  ThreadInv'
  BY <1>18 DEF UseFreed
<1>19. CASE UNCHANGED vars
  BY <1>19 DEF vars
<1>20. QED
  BY <1>1, <1>2, <1>3, <1>4, <1>5, <1>6, <1>7, <1>8, <1>9, <1>10, <1>11, <1>12, <1>13, <1>14, <1>15, <1>16, <1>17, <1>18, <1>19
     DEF Next, OwnerCall, EndOwnerCall, Reconnect, Locking, Succeed

\* What the lock is held for.
LockInv ==
  /\ owner.at \in InCall => owner.obj \in locked
  /\ \A t \in Threads : at[t] = "connecting" => self[t] \in locked
  /\ ConnectsExclude

\* The lock is taken by one at a time, and given back by the one who holds it.
LEMMA LockStep == TypeOK /\ ThreadInv /\ LockInv /\ [Next]_vars => LockInv'
<1>. USE DEF LockInv, ConnectsExclude, InCall, objectVars, pahoVars, threadVars
<1>. SUFFICES ASSUME TypeOK, ThreadInv, LockInv, [Next]_vars PROVE LockInv'
  OBVIOUS
<1>1. ASSUME NEW o \in Objects, CreateClient(o)
     PROVE  LockInv'
  BY <1>1 DEF CreateClient, Owns, TypeOK
<1>2. ASSUME OwnerConnected
     PROVE  LockInv'
  BY <1>2 DEF OwnerConnected, TypeOK
<1>3. ASSUME OwnerConnectFails
     PROVE  LockInv'
  BY <1>3 DEF OwnerConnectFails, DestroyClient, TypeOK, Idle
<1>4. ASSUME OwnerSubscribed
     PROVE  LockInv'
  BY <1>4 DEF OwnerSubscribed, TypeOK, Idle
<1>5. ASSUME NEW o \in Objects, StartDisconnect(o)
     PROVE  LockInv'
  BY <1>5 DEF StartDisconnect, Owns, TypeOK
<1>6. ASSUME FinishDisconnect
     PROVE  LockInv'
  BY <1>6 DEF FinishDisconnect, DestroyClient, TypeOK, Idle
<1>7. ASSUME NEW o \in Objects, NEW p \in Objects, Move(o, p)
     PROVE  LockInv'
  BY <1>7 DEF Move, Owns, TypeOK
<1>8. ASSUME NEW o \in Objects, Destruct(o)
     PROVE  LockInv'
  BY <1>8 DEF Destruct, Owns, TypeOK
<1>9. ASSUME NEW c \in Clients, LoseConnection(c)
     PROVE  LockInv'
  BY <1>9 DEF LoseConnection, TypeOK
<1>10. ASSUME NEW c \in Clients, ConnectionLost(c)
     PROVE  LockInv'
  <2>1. \A v \in Threads : at'[v] = "connecting" => self'[v] \in locked'
    BY <1>10 DEF ConnectionLost, SpawnThread, TypeOK, ThreadInv, Running, None
  <2>2. owner'.at \in InCall => owner'.obj \in locked'
    BY <1>10 DEF ConnectionLost, SpawnThread, TypeOK, ThreadInv, Running, None
  <2>3. owner'.at \in InCall =>
          \A v \in Threads : self'[v] = owner'.obj => at'[v] # "connecting"
    BY <1>10 DEF ConnectionLost, SpawnThread, TypeOK, ThreadInv, Running, None
  <2>4. QED
    BY <2>1, <2>2, <2>3, <1>10 DEF ConnectionLost, SpawnThread
<1>11. ASSUME NEW t \in Threads, CheckClient(t), OnLiveObject(t)
     PROVE  LockInv'
  <2>1. CASE client[self[t]] = None
    <3>1. \A v \in Threads : at'[v] = "connecting" => self'[v] \in locked'
      BY <2>1, <1>11 DEF CheckClient, OnLiveObject, Stop, GoOn, TypeOK, ThreadInv, Running, None
    <3>2. owner'.at \in InCall => owner'.obj \in locked'
      BY <2>1, <1>11 DEF CheckClient, OnLiveObject, Stop, GoOn, TypeOK, ThreadInv, Running, None
    <3>3. owner'.at \in InCall =>
          \A v \in Threads : self'[v] = owner'.obj => at'[v] # "connecting"
      BY <2>1, <1>11 DEF CheckClient, OnLiveObject, Stop, GoOn, TypeOK, ThreadInv, Running, None
    <3>4. QED
      BY <3>1, <3>2, <3>3, <2>1, <1>11 DEF CheckClient, OnLiveObject, Stop, GoOn
  <2>2. CASE client[self[t]] # None
    <3>1. \A v \in Threads : at'[v] = "connecting" => self'[v] \in locked'
      BY <2>2, <1>11 DEF CheckClient, OnLiveObject, Stop, GoOn, TypeOK, ThreadInv, Running, None
    <3>2. owner'.at \in InCall => owner'.obj \in locked'
      BY <2>2, <1>11 DEF CheckClient, OnLiveObject, Stop, GoOn, TypeOK, ThreadInv, Running, None
    <3>3. owner'.at \in InCall =>
          \A v \in Threads : self'[v] = owner'.obj => at'[v] # "connecting"
      BY <2>2, <1>11 DEF CheckClient, OnLiveObject, Stop, GoOn, TypeOK, ThreadInv, Running, None
    <3>4. QED
      BY <3>1, <3>2, <3>3, <2>2, <1>11 DEF CheckClient, OnLiveObject, Stop, GoOn
  <2>3. QED
    BY <2>1, <2>2
<1>12. ASSUME NEW t \in Threads, StartConnect(t), OnLiveObject(t)
     PROVE  LockInv'
  <2>1. CASE client[self[t]] = None
    <3>1. \A v \in Threads : at'[v] = "connecting" => self'[v] \in locked'
      BY <2>1, <1>12 DEF StartConnect, OnLiveObject, Stop, GoOn, TypeOK, ThreadInv, Running, None
    <3>2. owner'.at \in InCall => owner'.obj \in locked'
      BY <2>1, <1>12 DEF StartConnect, OnLiveObject, Stop, GoOn, TypeOK, ThreadInv, Running, None
    <3>3. owner'.at \in InCall =>
          \A v \in Threads : self'[v] = owner'.obj => at'[v] # "connecting"
      BY <2>1, <1>12 DEF StartConnect, OnLiveObject, Stop, GoOn, TypeOK, ThreadInv, Running, None
    <3>4. QED
      BY <3>1, <3>2, <3>3, <2>1, <1>12 DEF StartConnect, OnLiveObject, Stop, GoOn
  <2>2. CASE client[self[t]] # None
    <3>1. \A v \in Threads : at'[v] = "connecting" => self'[v] \in locked'
      BY <2>2, <1>12 DEF StartConnect, OnLiveObject, Stop, GoOn, TypeOK, ThreadInv, Running, None
    <3>2. owner'.at \in InCall => owner'.obj \in locked'
      BY <2>2, <1>12 DEF StartConnect, OnLiveObject, Stop, GoOn, TypeOK, ThreadInv, Running, None
    <3>3. owner'.at \in InCall =>
          \A v \in Threads : self'[v] = owner'.obj => at'[v] # "connecting"
      BY <2>2, <1>12 DEF StartConnect, OnLiveObject, Stop, GoOn, TypeOK, ThreadInv, Running, None
    <3>4. QED
      BY <3>1, <3>2, <3>3, <2>2, <1>12 DEF StartConnect, OnLiveObject, Stop, GoOn
  <2>3. QED
    BY <2>1, <2>2
<1>13. ASSUME NEW t \in Threads, Connected(t), OnLiveObject(t)
     PROVE  LockInv'
  <2>1. \A v \in Threads : at'[v] = "connecting" => self'[v] \in locked'
    BY <1>13 DEF Connected, OnLiveObject, EndCall, GoOn, TypeOK, ThreadInv, Running, None
  <2>2. owner'.at \in InCall => owner'.obj \in locked'
    BY <1>13 DEF Connected, OnLiveObject, EndCall, GoOn, TypeOK, ThreadInv, Running, None
  <2>3. owner'.at \in InCall =>
          \A v \in Threads : self'[v] = owner'.obj => at'[v] # "connecting"
    BY <1>13 DEF Connected, OnLiveObject, EndCall, GoOn, TypeOK, ThreadInv, Running, None
  <2>4. QED
    BY <2>1, <2>2, <2>3, <1>13 DEF Connected, OnLiveObject, EndCall, GoOn
<1>14. ASSUME NEW t \in Threads, ConnectFailed(t), OnLiveObject(t)
     PROVE  LockInv'
  <2>1. \A v \in Threads : at'[v] = "connecting" => self'[v] \in locked'
    BY <1>14 DEF ConnectFailed, OnLiveObject, EndCall, GoOn, TypeOK, ThreadInv, Running, None
  <2>2. owner'.at \in InCall => owner'.obj \in locked'
    BY <1>14 DEF ConnectFailed, OnLiveObject, EndCall, GoOn, TypeOK, ThreadInv, Running, None
  <2>3. owner'.at \in InCall =>
          \A v \in Threads : self'[v] = owner'.obj => at'[v] # "connecting"
    BY <1>14 DEF ConnectFailed, OnLiveObject, EndCall, GoOn, TypeOK, ThreadInv, Running, None
  <2>4. QED
    BY <2>1, <2>2, <2>3, <1>14 DEF ConnectFailed, OnLiveObject, EndCall, GoOn
<1>15. ASSUME NEW t \in Threads, Resubscribe(t), OnLiveObject(t)
     PROVE  LockInv'
  <2>1. CASE client[self[t]] = None
    <3>1. \A v \in Threads : at'[v] = "connecting" => self'[v] \in locked'
      BY <2>1, <1>15 DEF Resubscribe, OnLiveObject, Stop, GoOn, TypeOK, ThreadInv, Running, None
    <3>2. owner'.at \in InCall => owner'.obj \in locked'
      BY <2>1, <1>15 DEF Resubscribe, OnLiveObject, Stop, GoOn, TypeOK, ThreadInv, Running, None
    <3>3. owner'.at \in InCall =>
          \A v \in Threads : self'[v] = owner'.obj => at'[v] # "connecting"
      BY <2>1, <1>15 DEF Resubscribe, OnLiveObject, Stop, GoOn, TypeOK, ThreadInv, Running, None
    <3>4. QED
      BY <3>1, <3>2, <3>3, <2>1, <1>15 DEF Resubscribe, OnLiveObject, Stop, GoOn
  <2>2. CASE client[self[t]] # None
    <3>1. \A v \in Threads : at'[v] = "connecting" => self'[v] \in locked'
      BY <2>2, <1>15 DEF Resubscribe, OnLiveObject, Stop, GoOn, TypeOK, ThreadInv, Running, None
    <3>2. owner'.at \in InCall => owner'.obj \in locked'
      BY <2>2, <1>15 DEF Resubscribe, OnLiveObject, Stop, GoOn, TypeOK, ThreadInv, Running, None
    <3>3. owner'.at \in InCall =>
          \A v \in Threads : self'[v] = owner'.obj => at'[v] # "connecting"
      BY <2>2, <1>15 DEF Resubscribe, OnLiveObject, Stop, GoOn, TypeOK, ThreadInv, Running, None
    <3>4. QED
      BY <3>1, <3>2, <3>3, <2>2, <1>15 DEF Resubscribe, OnLiveObject, Stop, GoOn
  <2>3. QED
    BY <2>1, <2>2
<1>16. ASSUME NEW t \in Threads, Resubscribed(t), OnLiveObject(t)
     PROVE  LockInv'
  <2>1. \A v \in Threads : at'[v] = "connecting" => self'[v] \in locked'
    BY <1>16 DEF Resubscribed, OnLiveObject, EndCall, Stop, TypeOK, ThreadInv, Running, None
  <2>2. owner'.at \in InCall => owner'.obj \in locked'
    BY <1>16 DEF Resubscribed, OnLiveObject, EndCall, Stop, TypeOK, ThreadInv, Running, None
  <2>3. owner'.at \in InCall =>
          \A v \in Threads : self'[v] = owner'.obj => at'[v] # "connecting"
    BY <1>16 DEF Resubscribed, OnLiveObject, EndCall, Stop, TypeOK, ThreadInv, Running, None
  <2>4. QED
    BY <2>1, <2>2, <2>3, <1>16 DEF Resubscribed, OnLiveObject, EndCall, Stop
<1>17. ASSUME NEW t \in Threads, Wake(t), OnLiveObject(t)
     PROVE  LockInv'
  BY <1>17 DEF Wake, OnLiveObject, GoOn, TypeOK, ThreadInv, Running, None
<1>18. ASSUME NEW t \in Threads, UseFreed(t)
     PROVE  LockInv'
  BY <1>18 DEF UseFreed
<1>19. CASE UNCHANGED vars
  BY <1>19 DEF vars
<1>20. QED
  BY <1>1, <1>2, <1>3, <1>4, <1>5, <1>6, <1>7, <1>8, <1>9, <1>10, <1>11, <1>12, <1>13, <1>14, <1>15, <1>16, <1>17, <1>18, <1>19
     DEF Next, OwnerCall, EndOwnerCall, Reconnect, Locking, Succeed

-----------------------------------------------------------------------------

Existing == {"down", "up"}

\* ClientsAccounted, with what the calls that are in progress know.
ClientInv ==
  /\ \A o \in Objects : client[o] # None => o \in alive /\ paho[client[o]] \in Existing
  /\ \A o, p \in Objects : client[o] = client[p] /\ client[o] # None => o = p
  /\ \A c \in Clients : paho[c] \in Existing => \E o \in Objects : client[o] = c
  /\ \A c \in lost : paho[c] \in Existing
  /\ \A t \in Threads : at[t] \in InCall => paho[using[t]] # "none"
  /\ owner.at # "idle" => owner.obj \in alive /\ client[owner.obj] # None

\* Destroying the client of an object leaves every other one with its holder.
LEMMA DestroyLeaves ==
  ASSUME TypeOK, ClientInv, NEW o \in Objects, client[o] # None, DestroyClient(o)
  PROVE  /\ \A q \in Objects : q # o => client'[q] = client[q] /\ client[q] # client[o]
         /\ client'[o] = None
         /\ \A b \in Clients : b # client[o] => paho'[b] = paho[b]
         /\ paho'[client[o]] = "gone"
         /\ client[o] \notin lost'
BY DEF TypeOK, ClientInv, DestroyClient

\* A client has one holder from its creation until it is destroyed.
LEMMA ClientStep == TypeOK /\ ClientInv /\ [Next]_vars => ClientInv'
<1>. USE ObjectsAssumption
     DEF ClientInv, Existing, None, objectVars, pahoVars, threadVars
<1>. SUFFICES ASSUME TypeOK, ClientInv, [Next]_vars PROVE ClientInv'
  OBVIOUS
<1>1. ASSUME NEW o \in Objects, CreateClient(o)
     PROVE  ClientInv'
  <2>1. \A q \in Objects : client'[q] # None => q \in alive' /\ paho'[client'[q]] \in Existing
    BY <1>1 DEF CreateClient, Owns, TypeOK, Clients, InCall
  <2>2. \A q, r \in Objects : client'[q] = client'[r] /\ client'[q] # None => q = r
    BY <1>1 DEF CreateClient, Owns, TypeOK, Clients, InCall
  <2>3. \A b \in Clients : paho'[b] \in Existing => \E q \in Objects : client'[q] = b
    BY <1>1 DEF CreateClient, Owns, TypeOK, Clients, InCall
  <2>4. \A b \in lost' : paho'[b] \in Existing
    BY <1>1 DEF CreateClient, Owns, TypeOK, Clients, InCall
  <2>5. \A v \in Threads : at'[v] \in InCall => paho'[using'[v]] # "none"
    BY <1>1 DEF CreateClient, Owns, TypeOK, Clients, InCall
  <2>6. owner'.at # "idle" => owner'.obj \in alive' /\ client'[owner'.obj] # None
    BY <1>1 DEF CreateClient, Owns, TypeOK, Clients, InCall
  <2>7. QED
    BY <2>1, <2>2, <2>3, <2>4, <2>5, <2>6, <1>1 DEF CreateClient, Owns
<1>2. ASSUME OwnerConnected
     PROVE  ClientInv'
  <2>1. \A q \in Objects : client'[q] # None => q \in alive' /\ paho'[client'[q]] \in Existing
    BY <1>2 DEF OwnerConnected, TypeOK, Clients, InCall
  <2>2. \A q, r \in Objects : client'[q] = client'[r] /\ client'[q] # None => q = r
    BY <1>2 DEF OwnerConnected, TypeOK, Clients, InCall
  <2>3. \A b \in Clients : paho'[b] \in Existing => \E q \in Objects : client'[q] = b
    BY <1>2 DEF OwnerConnected, TypeOK, Clients, InCall
  <2>4. \A b \in lost' : paho'[b] \in Existing
    BY <1>2 DEF OwnerConnected, TypeOK, Clients, InCall
  <2>5. \A v \in Threads : at'[v] \in InCall => paho'[using'[v]] # "none"
    BY <1>2 DEF OwnerConnected, TypeOK, Clients, InCall
  <2>6. owner'.at # "idle" => owner'.obj \in alive' /\ client'[owner'.obj] # None
    BY <1>2 DEF OwnerConnected, TypeOK, Clients, InCall
  <2>7. QED
    BY <2>1, <2>2, <2>3, <2>4, <2>5, <2>6, <1>2 DEF OwnerConnected
<1>3. ASSUME OwnerConnectFails
     PROVE  ClientInv'
  <2>1. /\ owner.obj \in Objects /\ client[owner.obj] # None /\ DestroyClient(owner.obj)
        /\ UNCHANGED <<alive, at, using>>
    BY <1>3 DEF OwnerConnectFails, TypeOK
  <2>2. /\ \A q \in Objects : q # owner.obj => client'[q] = client[q] /\ client[q] # client[owner.obj]
        /\ client'[owner.obj] = None
        /\ \A b \in Clients : b # client[owner.obj] => paho'[b] = paho[b]
        /\ paho'[client[owner.obj]] = "gone"
        /\ client[owner.obj] \notin lost'
    <3>1. TypeOK /\ ClientInv
      OBVIOUS
    <3>. HIDE DEF ClientInv
    <3>. QED
      BY <2>1, <3>1, DestroyLeaves
  <2>3. \A q \in Objects : client'[q] # None => q \in alive' /\ paho'[client'[q]] \in Existing
    BY <2>1, <2>2 DEF TypeOK, DestroyClient, Idle, Clients
  <2>4. \A q, r \in Objects : client'[q] = client'[r] /\ client'[q] # None => q = r
    BY <2>1, <2>2 DEF TypeOK, DestroyClient, Idle, Clients
  <2>5. \A b \in Clients : paho'[b] \in Existing => \E q \in Objects : client'[q] = b
    BY <2>1, <2>2 DEF TypeOK, DestroyClient, Idle, Clients
  <2>6. \A b \in lost' : paho'[b] \in Existing
    BY <2>1, <2>2 DEF TypeOK, DestroyClient, Idle, Clients
  <2>7. \A v \in Threads : at'[v] \in InCall => paho'[using'[v]] # "none"
    BY <2>1, <2>2 DEF TypeOK, DestroyClient, Idle, Clients
  <2>8. owner'.at # "idle" => owner'.obj \in alive' /\ client'[owner'.obj] # None
    BY <2>1, <2>2 DEF TypeOK, DestroyClient, Idle, Clients
  <2>9. QED
    BY <2>3, <2>4, <2>5, <2>6, <2>7, <2>8
<1>4. ASSUME OwnerSubscribed
     PROVE  ClientInv'
  BY <1>4 DEF OwnerSubscribed, TypeOK, Clients, InCall, Idle
<1>5. ASSUME NEW o \in Objects, StartDisconnect(o)
     PROVE  ClientInv'
  <2>1. \A q \in Objects : client'[q] # None => q \in alive' /\ paho'[client'[q]] \in Existing
    BY <1>5 DEF StartDisconnect, Owns, TypeOK, Clients, InCall
  <2>2. \A q, r \in Objects : client'[q] = client'[r] /\ client'[q] # None => q = r
    BY <1>5 DEF StartDisconnect, Owns, TypeOK, Clients, InCall
  <2>3. \A b \in Clients : paho'[b] \in Existing => \E q \in Objects : client'[q] = b
    BY <1>5 DEF StartDisconnect, Owns, TypeOK, Clients, InCall
  <2>4. \A b \in lost' : paho'[b] \in Existing
    BY <1>5 DEF StartDisconnect, Owns, TypeOK, Clients, InCall
  <2>5. \A v \in Threads : at'[v] \in InCall => paho'[using'[v]] # "none"
    BY <1>5 DEF StartDisconnect, Owns, TypeOK, Clients, InCall
  <2>6. owner'.at # "idle" => owner'.obj \in alive' /\ client'[owner'.obj] # None
    BY <1>5 DEF StartDisconnect, Owns, TypeOK, Clients, InCall
  <2>7. QED
    BY <2>1, <2>2, <2>3, <2>4, <2>5, <2>6, <1>5 DEF StartDisconnect, Owns
<1>6. ASSUME FinishDisconnect
     PROVE  ClientInv'
  <2>1. /\ owner.obj \in Objects /\ client[owner.obj] # None /\ DestroyClient(owner.obj)
        /\ UNCHANGED <<alive, at, using>>
    BY <1>6 DEF FinishDisconnect, TypeOK
  <2>2. /\ \A q \in Objects : q # owner.obj => client'[q] = client[q] /\ client[q] # client[owner.obj]
        /\ client'[owner.obj] = None
        /\ \A b \in Clients : b # client[owner.obj] => paho'[b] = paho[b]
        /\ paho'[client[owner.obj]] = "gone"
        /\ client[owner.obj] \notin lost'
    <3>1. TypeOK /\ ClientInv
      OBVIOUS
    <3>. HIDE DEF ClientInv
    <3>. QED
      BY <2>1, <3>1, DestroyLeaves
  <2>3. \A q \in Objects : client'[q] # None => q \in alive' /\ paho'[client'[q]] \in Existing
    BY <2>1, <2>2 DEF TypeOK, DestroyClient, Idle, Clients
  <2>4. \A q, r \in Objects : client'[q] = client'[r] /\ client'[q] # None => q = r
    BY <2>1, <2>2 DEF TypeOK, DestroyClient, Idle, Clients
  <2>5. \A b \in Clients : paho'[b] \in Existing => \E q \in Objects : client'[q] = b
    BY <2>1, <2>2 DEF TypeOK, DestroyClient, Idle, Clients
  <2>6. \A b \in lost' : paho'[b] \in Existing
    BY <2>1, <2>2 DEF TypeOK, DestroyClient, Idle, Clients
  <2>7. \A v \in Threads : at'[v] \in InCall => paho'[using'[v]] # "none"
    BY <2>1, <2>2 DEF TypeOK, DestroyClient, Idle, Clients
  <2>8. owner'.at # "idle" => owner'.obj \in alive' /\ client'[owner'.obj] # None
    BY <2>1, <2>2 DEF TypeOK, DestroyClient, Idle, Clients
  <2>9. QED
    BY <2>3, <2>4, <2>5, <2>6, <2>7, <2>8
<1>7. ASSUME NEW o \in Objects, NEW p \in Objects, Move(o, p)
     PROVE  ClientInv'
  <2>1. \A q \in Objects : client'[q] # None => q \in alive' /\ paho'[client'[q]] \in Existing
    BY <1>7 DEF Move, Owns, TypeOK, Clients, InCall
  <2>2. \A q, r \in Objects : client'[q] = client'[r] /\ client'[q] # None => q = r
    BY <1>7 DEF Move, Owns, TypeOK, Clients, InCall
  <2>3. \A b \in Clients : paho'[b] \in Existing => \E q \in Objects : client'[q] = b
    BY <1>7 DEF Move, Owns, TypeOK, Clients, InCall
  <2>4. \A b \in lost' : paho'[b] \in Existing
    BY <1>7 DEF Move, Owns, TypeOK, Clients, InCall
  <2>5. \A v \in Threads : at'[v] \in InCall => paho'[using'[v]] # "none"
    BY <1>7 DEF Move, Owns, TypeOK, Clients, InCall
  <2>6. owner'.at # "idle" => owner'.obj \in alive' /\ client'[owner'.obj] # None
    BY <1>7 DEF Move, Owns, TypeOK, Clients, InCall
  <2>7. QED
    BY <2>1, <2>2, <2>3, <2>4, <2>5, <2>6, <1>7 DEF Move, Owns
<1>8. ASSUME NEW o \in Objects, Destruct(o)
     PROVE  ClientInv'
  BY <1>8 DEF Destruct, Owns, TypeOK, Clients, InCall
<1>9. ASSUME NEW c \in Clients, LoseConnection(c)
     PROVE  ClientInv'
  <2>1. \A q \in Objects : client'[q] # None => q \in alive' /\ paho'[client'[q]] \in Existing
    BY <1>9 DEF LoseConnection, TypeOK, Clients, InCall
  <2>2. \A q, r \in Objects : client'[q] = client'[r] /\ client'[q] # None => q = r
    BY <1>9 DEF LoseConnection, TypeOK, Clients, InCall
  <2>3. \A b \in Clients : paho'[b] \in Existing => \E q \in Objects : client'[q] = b
    BY <1>9 DEF LoseConnection, TypeOK, Clients, InCall
  <2>4. \A b \in lost' : paho'[b] \in Existing
    BY <1>9 DEF LoseConnection, TypeOK, Clients, InCall
  <2>5. \A v \in Threads : at'[v] \in InCall => paho'[using'[v]] # "none"
    BY <1>9 DEF LoseConnection, TypeOK, Clients, InCall
  <2>6. owner'.at # "idle" => owner'.obj \in alive' /\ client'[owner'.obj] # None
    BY <1>9 DEF LoseConnection, TypeOK, Clients, InCall
  <2>7. QED
    BY <2>1, <2>2, <2>3, <2>4, <2>5, <2>6, <1>9 DEF LoseConnection
<1>10. ASSUME NEW c \in Clients, ConnectionLost(c)
     PROVE  ClientInv'
  <2>1. \A q \in Objects : client'[q] # None => q \in alive' /\ paho'[client'[q]] \in Existing
    BY <1>10 DEF ConnectionLost, SpawnThread, TypeOK, Clients, InCall
  <2>2. \A q, r \in Objects : client'[q] = client'[r] /\ client'[q] # None => q = r
    BY <1>10 DEF ConnectionLost, SpawnThread, TypeOK, Clients, InCall
  <2>3. \A b \in Clients : paho'[b] \in Existing => \E q \in Objects : client'[q] = b
    BY <1>10 DEF ConnectionLost, SpawnThread, TypeOK, Clients, InCall
  <2>4. \A b \in lost' : paho'[b] \in Existing
    BY <1>10 DEF ConnectionLost, SpawnThread, TypeOK, Clients, InCall
  <2>5. \A v \in Threads : at'[v] \in InCall => paho'[using'[v]] # "none"
    BY <1>10 DEF ConnectionLost, SpawnThread, TypeOK, Clients, InCall
  <2>6. owner'.at # "idle" => owner'.obj \in alive' /\ client'[owner'.obj] # None
    BY <1>10 DEF ConnectionLost, SpawnThread, TypeOK, Clients, InCall
  <2>7. QED
    BY <2>1, <2>2, <2>3, <2>4, <2>5, <2>6, <1>10 DEF ConnectionLost, SpawnThread
<1>11. ASSUME NEW t \in Threads, CheckClient(t), OnLiveObject(t)
     PROVE  ClientInv'
  <2>1. CASE client[self[t]] = None
    <3>1. \A q \in Objects : client'[q] # None => q \in alive' /\ paho'[client'[q]] \in Existing
      BY <2>1, <1>11 DEF CheckClient, OnLiveObject, Stop, GoOn, TypeOK, Clients, InCall
    <3>2. \A q, r \in Objects : client'[q] = client'[r] /\ client'[q] # None => q = r
      BY <2>1, <1>11 DEF CheckClient, OnLiveObject, Stop, GoOn, TypeOK, Clients, InCall
    <3>3. \A b \in Clients : paho'[b] \in Existing => \E q \in Objects : client'[q] = b
      BY <2>1, <1>11 DEF CheckClient, OnLiveObject, Stop, GoOn, TypeOK, Clients, InCall
    <3>4. \A b \in lost' : paho'[b] \in Existing
      BY <2>1, <1>11 DEF CheckClient, OnLiveObject, Stop, GoOn, TypeOK, Clients, InCall
    <3>5. \A v \in Threads : at'[v] \in InCall => paho'[using'[v]] # "none"
      BY <2>1, <1>11 DEF CheckClient, OnLiveObject, Stop, GoOn, TypeOK, Clients, InCall
    <3>6. owner'.at # "idle" => owner'.obj \in alive' /\ client'[owner'.obj] # None
      BY <2>1, <1>11 DEF CheckClient, OnLiveObject, Stop, GoOn, TypeOK, Clients, InCall
    <3>7. QED
      BY <3>1, <3>2, <3>3, <3>4, <3>5, <3>6, <2>1, <1>11 DEF CheckClient, OnLiveObject, Stop, GoOn
  <2>2. CASE client[self[t]] # None
    <3>1. client[self[t]] \in Clients /\ paho[client[self[t]]] \in Existing
      BY <2>2, <1>11 DEF CheckClient, OnLiveObject, Stop, GoOn, TypeOK, Clients, InCall
    <3>2. \A q \in Objects : client'[q] # None => q \in alive' /\ paho'[client'[q]] \in Existing
      BY <2>2, <1>11 DEF CheckClient, OnLiveObject, Stop, GoOn, TypeOK, Clients, InCall
    <3>3. \A q, r \in Objects : client'[q] = client'[r] /\ client'[q] # None => q = r
      BY <2>2, <1>11 DEF CheckClient, OnLiveObject, Stop, GoOn, TypeOK, Clients, InCall
    <3>4. \A b \in Clients : paho'[b] \in Existing => \E q \in Objects : client'[q] = b
      BY <2>2, <1>11 DEF CheckClient, OnLiveObject, Stop, GoOn, TypeOK, Clients, InCall
    <3>5. \A b \in lost' : paho'[b] \in Existing
      BY <2>2, <1>11 DEF CheckClient, OnLiveObject, Stop, GoOn, TypeOK, Clients, InCall
    <3>6. \A v \in Threads : at'[v] \in InCall => paho'[using'[v]] # "none"
      BY <2>2, <1>11 DEF CheckClient, OnLiveObject, Stop, GoOn, TypeOK, Clients, InCall
    <3>7. owner'.at # "idle" => owner'.obj \in alive' /\ client'[owner'.obj] # None
      BY <2>2, <1>11 DEF CheckClient, OnLiveObject, Stop, GoOn, TypeOK, Clients, InCall
    <3>8. QED
      BY <3>1, <3>2, <3>3, <3>4, <3>5, <3>6, <3>7, <2>2, <1>11 DEF CheckClient, OnLiveObject, Stop, GoOn
  <2>3. QED
    BY <2>1, <2>2
<1>12. ASSUME NEW t \in Threads, StartConnect(t), OnLiveObject(t)
     PROVE  ClientInv'
  <2>1. CASE client[self[t]] = None
    <3>1. \A q \in Objects : client'[q] # None => q \in alive' /\ paho'[client'[q]] \in Existing
      BY <2>1, <1>12 DEF StartConnect, OnLiveObject, Stop, GoOn, TypeOK, Clients, InCall
    <3>2. \A q, r \in Objects : client'[q] = client'[r] /\ client'[q] # None => q = r
      BY <3>1, <2>1, <1>12 DEF StartConnect, OnLiveObject, Stop, GoOn, TypeOK, Clients, InCall
    <3>3. \A b \in Clients : paho'[b] \in Existing => \E q \in Objects : client'[q] = b
      BY <3>1, <2>1, <1>12 DEF StartConnect, OnLiveObject, Stop, GoOn, TypeOK, Clients, InCall
    <3>4. \A b \in lost' : paho'[b] \in Existing
      BY <3>1, <2>1, <1>12 DEF StartConnect, OnLiveObject, Stop, GoOn, TypeOK, Clients, InCall
    <3>5. \A v \in Threads : at'[v] \in InCall => paho'[using'[v]] # "none"
      BY <3>1, <2>1, <1>12 DEF StartConnect, OnLiveObject, Stop, GoOn, TypeOK, Clients, InCall
    <3>6. owner'.at # "idle" => owner'.obj \in alive' /\ client'[owner'.obj] # None
      BY <3>1, <2>1, <1>12 DEF StartConnect, OnLiveObject, Stop, GoOn, TypeOK, Clients, InCall
    <3>7. QED
      BY <3>1, <3>2, <3>3, <3>4, <3>5, <3>6, <2>1, <1>12 DEF StartConnect, OnLiveObject, Stop, GoOn
  <2>2. CASE client[self[t]] # None
    <3>1. client[self[t]] \in Clients /\ paho[client[self[t]]] \in Existing
      BY <2>2, <1>12 DEF StartConnect, OnLiveObject, Stop, GoOn, TypeOK, Clients, InCall
    <3>2. \A q \in Objects : client'[q] # None => q \in alive' /\ paho'[client'[q]] \in Existing
      BY <3>1, <2>2, <1>12 DEF StartConnect, OnLiveObject, Stop, GoOn, TypeOK, Clients, InCall
    <3>3. \A q, r \in Objects : client'[q] = client'[r] /\ client'[q] # None => q = r
      BY <3>1, <2>2, <1>12 DEF StartConnect, OnLiveObject, Stop, GoOn, TypeOK, Clients, InCall
    <3>4. \A b \in Clients : paho'[b] \in Existing => \E q \in Objects : client'[q] = b
      BY <3>1, <2>2, <1>12 DEF StartConnect, OnLiveObject, Stop, GoOn, TypeOK, Clients, InCall
    <3>5. \A b \in lost' : paho'[b] \in Existing
      BY <3>1, <2>2, <1>12 DEF StartConnect, OnLiveObject, Stop, GoOn, TypeOK, Clients, InCall
    <3>6. \A v \in Threads : at'[v] \in InCall => paho'[using'[v]] # "none"
      BY <3>1, <2>2, <1>12 DEF StartConnect, OnLiveObject, Stop, GoOn, TypeOK, Clients, InCall
    <3>7. owner'.at # "idle" => owner'.obj \in alive' /\ client'[owner'.obj] # None
      BY <3>1, <2>2, <1>12 DEF StartConnect, OnLiveObject, Stop, GoOn, TypeOK, Clients, InCall
    <3>8. QED
      BY <3>1, <3>2, <3>3, <3>4, <3>5, <3>6, <3>7, <2>2, <1>12 DEF StartConnect, OnLiveObject, Stop, GoOn
  <2>3. QED
    BY <2>1, <2>2
<1>13. ASSUME NEW t \in Threads, Connected(t), OnLiveObject(t)
     PROVE  ClientInv'
  <2>1. using[t] \in Clients /\ paho[using[t]] \in Existing
    BY <1>13 DEF Connected, OnLiveObject, EndCall, GoOn, TypeOK, Clients, InCall, PahoStates
  <2>2. \A q \in Objects : client'[q] # None => q \in alive' /\ paho'[client'[q]] \in Existing
    BY <2>1, <1>13 DEF Connected, OnLiveObject, EndCall, GoOn, TypeOK, Clients, InCall
  <2>3. \A q, r \in Objects : client'[q] = client'[r] /\ client'[q] # None => q = r
    BY <2>1, <1>13 DEF Connected, OnLiveObject, EndCall, GoOn, TypeOK, Clients, InCall
  <2>4. \A b \in Clients : paho'[b] \in Existing => \E q \in Objects : client'[q] = b
    BY <2>1, <1>13 DEF Connected, OnLiveObject, EndCall, GoOn, TypeOK, Clients, InCall
  <2>5. \A b \in lost' : paho'[b] \in Existing
    BY <2>1, <1>13 DEF Connected, OnLiveObject, EndCall, GoOn, TypeOK, Clients, InCall
  <2>6. \A v \in Threads : at'[v] \in InCall => paho'[using'[v]] # "none"
    BY <2>1, <1>13 DEF Connected, OnLiveObject, EndCall, GoOn, TypeOK, Clients, InCall
  <2>7. owner'.at # "idle" => owner'.obj \in alive' /\ client'[owner'.obj] # None
    BY <2>1, <1>13 DEF Connected, OnLiveObject, EndCall, GoOn, TypeOK, Clients, InCall
  <2>8. QED
    BY <2>1, <2>2, <2>3, <2>4, <2>5, <2>6, <2>7, <1>13 DEF Connected, OnLiveObject, EndCall, GoOn
<1>14. ASSUME NEW t \in Threads, ConnectFailed(t), OnLiveObject(t)
     PROVE  ClientInv'
  <2>1. using[t] \in Clients /\ paho[using[t]] \in Existing
    BY <1>14 DEF ConnectFailed, OnLiveObject, EndCall, GoOn, TypeOK, Clients, InCall, PahoStates
  <2>2. \A q \in Objects : client'[q] # None => q \in alive' /\ paho'[client'[q]] \in Existing
    BY <2>1, <1>14 DEF ConnectFailed, OnLiveObject, EndCall, GoOn, TypeOK, Clients, InCall
  <2>3. \A q, r \in Objects : client'[q] = client'[r] /\ client'[q] # None => q = r
    BY <2>1, <1>14 DEF ConnectFailed, OnLiveObject, EndCall, GoOn, TypeOK, Clients, InCall
  <2>4. \A b \in Clients : paho'[b] \in Existing => \E q \in Objects : client'[q] = b
    BY <2>1, <1>14 DEF ConnectFailed, OnLiveObject, EndCall, GoOn, TypeOK, Clients, InCall
  <2>5. \A b \in lost' : paho'[b] \in Existing
    BY <2>1, <1>14 DEF ConnectFailed, OnLiveObject, EndCall, GoOn, TypeOK, Clients, InCall
  <2>6. \A v \in Threads : at'[v] \in InCall => paho'[using'[v]] # "none"
    BY <2>1, <1>14 DEF ConnectFailed, OnLiveObject, EndCall, GoOn, TypeOK, Clients, InCall
  <2>7. owner'.at # "idle" => owner'.obj \in alive' /\ client'[owner'.obj] # None
    BY <2>1, <1>14 DEF ConnectFailed, OnLiveObject, EndCall, GoOn, TypeOK, Clients, InCall
  <2>8. QED
    BY <2>1, <2>2, <2>3, <2>4, <2>5, <2>6, <2>7, <1>14 DEF ConnectFailed, OnLiveObject, EndCall, GoOn
<1>15. ASSUME NEW t \in Threads, Resubscribe(t), OnLiveObject(t)
     PROVE  ClientInv'
  <2>1. CASE client[self[t]] = None
    <3>1. \A q \in Objects : client'[q] # None => q \in alive' /\ paho'[client'[q]] \in Existing
      BY <2>1, <1>15 DEF Resubscribe, OnLiveObject, Stop, GoOn, TypeOK, Clients, InCall
    <3>2. \A q, r \in Objects : client'[q] = client'[r] /\ client'[q] # None => q = r
      BY <3>1, <2>1, <1>15 DEF Resubscribe, OnLiveObject, Stop, GoOn, TypeOK, Clients, InCall
    <3>3. \A b \in Clients : paho'[b] \in Existing => \E q \in Objects : client'[q] = b
      BY <3>1, <2>1, <1>15 DEF Resubscribe, OnLiveObject, Stop, GoOn, TypeOK, Clients, InCall
    <3>4. \A b \in lost' : paho'[b] \in Existing
      BY <3>1, <2>1, <1>15 DEF Resubscribe, OnLiveObject, Stop, GoOn, TypeOK, Clients, InCall
    <3>5. \A v \in Threads : at'[v] \in InCall => paho'[using'[v]] # "none"
      BY <3>1, <2>1, <1>15 DEF Resubscribe, OnLiveObject, Stop, GoOn, TypeOK, Clients, InCall
    <3>6. owner'.at # "idle" => owner'.obj \in alive' /\ client'[owner'.obj] # None
      BY <3>1, <2>1, <1>15 DEF Resubscribe, OnLiveObject, Stop, GoOn, TypeOK, Clients, InCall
    <3>7. QED
      BY <3>1, <3>2, <3>3, <3>4, <3>5, <3>6, <2>1, <1>15 DEF Resubscribe, OnLiveObject, Stop, GoOn
  <2>2. CASE client[self[t]] # None
    <3>1. client[self[t]] \in Clients /\ paho[client[self[t]]] \in Existing
      BY <2>2, <1>15 DEF Resubscribe, OnLiveObject, Stop, GoOn, TypeOK, Clients, InCall
    <3>2. \A q \in Objects : client'[q] # None => q \in alive' /\ paho'[client'[q]] \in Existing
      BY <3>1, <2>2, <1>15 DEF Resubscribe, OnLiveObject, Stop, GoOn, TypeOK, Clients, InCall
    <3>3. \A q, r \in Objects : client'[q] = client'[r] /\ client'[q] # None => q = r
      BY <3>1, <2>2, <1>15 DEF Resubscribe, OnLiveObject, Stop, GoOn, TypeOK, Clients, InCall
    <3>4. \A b \in Clients : paho'[b] \in Existing => \E q \in Objects : client'[q] = b
      BY <3>1, <2>2, <1>15 DEF Resubscribe, OnLiveObject, Stop, GoOn, TypeOK, Clients, InCall
    <3>5. \A b \in lost' : paho'[b] \in Existing
      BY <3>1, <2>2, <1>15 DEF Resubscribe, OnLiveObject, Stop, GoOn, TypeOK, Clients, InCall
    <3>6. \A v \in Threads : at'[v] \in InCall => paho'[using'[v]] # "none"
      BY <3>1, <2>2, <1>15 DEF Resubscribe, OnLiveObject, Stop, GoOn, TypeOK, Clients, InCall
    <3>7. owner'.at # "idle" => owner'.obj \in alive' /\ client'[owner'.obj] # None
      BY <3>1, <2>2, <1>15 DEF Resubscribe, OnLiveObject, Stop, GoOn, TypeOK, Clients, InCall
    <3>8. QED
      BY <3>1, <3>2, <3>3, <3>4, <3>5, <3>6, <3>7, <2>2, <1>15 DEF Resubscribe, OnLiveObject, Stop, GoOn
  <2>3. QED
    BY <2>1, <2>2
<1>16. ASSUME NEW t \in Threads, Resubscribed(t), OnLiveObject(t)
     PROVE  ClientInv'
  <2>1. \A q \in Objects : client'[q] # None => q \in alive' /\ paho'[client'[q]] \in Existing
    BY <1>16 DEF Resubscribed, OnLiveObject, EndCall, Stop, TypeOK, Clients, InCall
  <2>2. \A q, r \in Objects : client'[q] = client'[r] /\ client'[q] # None => q = r
    BY <1>16 DEF Resubscribed, OnLiveObject, EndCall, Stop, TypeOK, Clients, InCall
  <2>3. \A b \in Clients : paho'[b] \in Existing => \E q \in Objects : client'[q] = b
    BY <1>16 DEF Resubscribed, OnLiveObject, EndCall, Stop, TypeOK, Clients, InCall
  <2>4. \A b \in lost' : paho'[b] \in Existing
    BY <1>16 DEF Resubscribed, OnLiveObject, EndCall, Stop, TypeOK, Clients, InCall
  <2>5. \A v \in Threads : at'[v] \in InCall => paho'[using'[v]] # "none"
    BY <1>16 DEF Resubscribed, OnLiveObject, EndCall, Stop, TypeOK, Clients, InCall
  <2>6. owner'.at # "idle" => owner'.obj \in alive' /\ client'[owner'.obj] # None
    BY <1>16 DEF Resubscribed, OnLiveObject, EndCall, Stop, TypeOK, Clients, InCall
  <2>7. QED
    BY <2>1, <2>2, <2>3, <2>4, <2>5, <2>6, <1>16 DEF Resubscribed, OnLiveObject, EndCall, Stop
<1>17. ASSUME NEW t \in Threads, Wake(t), OnLiveObject(t)
     PROVE  ClientInv'
  BY <1>17 DEF Wake, OnLiveObject, GoOn, TypeOK, Clients, InCall
<1>18. ASSUME NEW t \in Threads, UseFreed(t)
     PROVE  ClientInv'
  BY <1>18 DEF UseFreed, TypeOK, Clients, InCall
<1>19. CASE UNCHANGED vars
  BY <1>19 DEF vars
<1>20. QED
  BY <1>1, <1>2, <1>3, <1>4, <1>5, <1>6, <1>7, <1>8, <1>9, <1>10, <1>11, <1>12, <1>13, <1>14, <1>15, <1>16, <1>17, <1>18, <1>19
     DEF Next, OwnerCall, EndOwnerCall, Reconnect, Locking, Succeed

-----------------------------------------------------------------------------

\* Until a client is destroyed or moved under a thread or its callbacks, whatever
\* a thread or a callback reaches still exists.
FreedInv ==
  /\ undefined => misused
  /\ ~misused =>
       /\ \A t \in Threads : Running(t) => self[t] \in alive
       /\ \A t \in Threads : at[t] \in InCall => client[self[t]] = using[t]
       /\ \A c \in Clients : paho[c] \in Existing => context[c] \in alive /\ client[context[c]] = c

\* A misuse is never forgotten, and without one no step uses freed memory.
LEMMA FreedStep ==
  TypeOK /\ ThreadInv /\ ClientInv /\ FreedInv /\ [Next]_vars => FreedInv'
<1>. USE ObjectsAssumption
     DEF FreedInv, Existing, None, objectVars, pahoVars, threadVars, Running
<1>. SUFFICES ASSUME TypeOK, ThreadInv, ClientInv, FreedInv, [Next]_vars PROVE FreedInv'
  OBVIOUS
<1>1. ASSUME NEW o \in Objects, CreateClient(o)
     PROVE  FreedInv'
  <2>1. undefined' => misused'
    BY <1>1 DEF CreateClient, Owns, TypeOK, ThreadInv, ClientInv, Clients, InCall, UnderThread, Idle
  <2>2. ~misused' => \A v \in Threads : at'[v] # "none" => self'[v] \in alive'
    BY <1>1 DEF CreateClient, Owns, TypeOK, ThreadInv, ClientInv, Clients, InCall, UnderThread, Idle
  <2>3. ~misused' => \A v \in Threads : at'[v] \in InCall => client'[self'[v]] = using'[v]
    BY <1>1 DEF CreateClient, Owns, TypeOK, ThreadInv, ClientInv, Clients, InCall, UnderThread, Idle
  <2>4. ~misused' => \A b \in Clients : paho'[b] \in Existing => context'[b] \in alive' /\ client'[context'[b]] = b
    BY <1>1 DEF CreateClient, Owns, TypeOK, ThreadInv, ClientInv, Clients, InCall, UnderThread, Idle
  <2>5. QED
    BY <2>1, <2>2, <2>3, <2>4, <1>1 DEF CreateClient, Owns
<1>2. ASSUME OwnerConnected
     PROVE  FreedInv'
  BY <1>2 DEF OwnerConnected, TypeOK, ThreadInv, ClientInv, Clients, InCall, UnderThread
<1>3. ASSUME OwnerConnectFails
     PROVE  FreedInv'
  <2>1. undefined' => misused'
    BY <1>3 DEF OwnerConnectFails, DestroyClient, TypeOK, ThreadInv, ClientInv, Clients, InCall, UnderThread, Idle
  <2>2. ~misused' => \A v \in Threads : at'[v] # "none" => self'[v] \in alive'
    BY <1>3 DEF OwnerConnectFails, DestroyClient, TypeOK, ThreadInv, ClientInv, Clients, InCall, UnderThread, Idle
  <2>3. ~misused' => \A v \in Threads : at'[v] \in InCall => client'[self'[v]] = using'[v]
    BY <1>3 DEF OwnerConnectFails, DestroyClient, TypeOK, ThreadInv, ClientInv, Clients, InCall, UnderThread, Idle
  <2>4. ~misused' => \A b \in Clients : paho'[b] \in Existing => context'[b] \in alive' /\ client'[context'[b]] = b
    BY <1>3 DEF OwnerConnectFails, DestroyClient, TypeOK, ThreadInv, ClientInv, Clients, InCall, UnderThread, Idle
  <2>5. QED
    BY <2>1, <2>2, <2>3, <2>4, <1>3 DEF OwnerConnectFails, DestroyClient
<1>4. ASSUME OwnerSubscribed
     PROVE  FreedInv'
  BY <1>4 DEF OwnerSubscribed, TypeOK, ThreadInv, ClientInv, Clients, InCall, UnderThread, Idle
<1>5. ASSUME NEW o \in Objects, StartDisconnect(o)
     PROVE  FreedInv'
  <2>1. undefined' => misused'
    BY <1>5 DEF StartDisconnect, Owns, TypeOK, ThreadInv, ClientInv, Clients, InCall, UnderThread
  <2>2. ~misused' => \A v \in Threads : at'[v] # "none" => self'[v] \in alive'
    BY <1>5 DEF StartDisconnect, Owns, TypeOK, ThreadInv, ClientInv, Clients, InCall, UnderThread
  <2>3. ~misused' => \A v \in Threads : at'[v] \in InCall => client'[self'[v]] = using'[v]
    BY <1>5 DEF StartDisconnect, Owns, TypeOK, ThreadInv, ClientInv, Clients, InCall, UnderThread
  <2>4. ~misused' => \A b \in Clients : paho'[b] \in Existing => context'[b] \in alive' /\ client'[context'[b]] = b
    BY <1>5 DEF StartDisconnect, Owns, TypeOK, ThreadInv, ClientInv, Clients, InCall, UnderThread
  <2>5. QED
    BY <2>1, <2>2, <2>3, <2>4, <1>5 DEF StartDisconnect, Owns
<1>6. ASSUME FinishDisconnect
     PROVE  FreedInv'
  <2>1. undefined' => misused'
    BY <1>6 DEF FinishDisconnect, DestroyClient, TypeOK, ThreadInv, ClientInv, Clients, InCall, UnderThread, Idle
  <2>2. ~misused' => \A v \in Threads : at'[v] # "none" => self'[v] \in alive'
    BY <1>6 DEF FinishDisconnect, DestroyClient, TypeOK, ThreadInv, ClientInv, Clients, InCall, UnderThread, Idle
  <2>3. ~misused' => \A v \in Threads : at'[v] \in InCall => client'[self'[v]] = using'[v]
    BY <1>6 DEF FinishDisconnect, DestroyClient, TypeOK, ThreadInv, ClientInv, Clients, InCall, UnderThread, Idle
  <2>4. ~misused' => \A b \in Clients : paho'[b] \in Existing => context'[b] \in alive' /\ client'[context'[b]] = b
    BY <1>6 DEF FinishDisconnect, DestroyClient, TypeOK, ThreadInv, ClientInv, Clients, InCall, UnderThread, Idle
  <2>5. QED
    BY <2>1, <2>2, <2>3, <2>4, <1>6 DEF FinishDisconnect, DestroyClient
<1>7. ASSUME NEW o \in Objects, NEW p \in Objects, Move(o, p)
     PROVE  FreedInv'
  BY <1>7 DEF Move, Owns, TypeOK, ThreadInv, ClientInv, Clients, InCall, UnderThread
<1>8. ASSUME NEW o \in Objects, Destruct(o)
     PROVE  FreedInv'
  <2>1. undefined' => misused'
    BY <1>8 DEF Destruct, Owns, TypeOK, ThreadInv, ClientInv, Clients, InCall, UnderThread
  <2>2. ~misused' => \A v \in Threads : at'[v] # "none" => self'[v] \in alive'
    BY <1>8 DEF Destruct, Owns, TypeOK, ThreadInv, ClientInv, Clients, InCall, UnderThread
  <2>3. ~misused' => \A v \in Threads : at'[v] \in InCall => client'[self'[v]] = using'[v]
    BY <1>8 DEF Destruct, Owns, TypeOK, ThreadInv, ClientInv, Clients, InCall, UnderThread
  <2>4. ~misused' => \A b \in Clients : paho'[b] \in Existing => context'[b] \in alive' /\ client'[context'[b]] = b
    BY <1>8 DEF Destruct, Owns, TypeOK, ThreadInv, ClientInv, Clients, InCall, UnderThread
  <2>5. QED
    BY <2>1, <2>2, <2>3, <2>4, <1>8 DEF Destruct, Owns
<1>9. ASSUME NEW c \in Clients, LoseConnection(c)
     PROVE  FreedInv'
  <2>1. undefined' => misused'
    BY <1>9 DEF LoseConnection, TypeOK, ThreadInv, ClientInv, Clients, InCall, UnderThread
  <2>2. ~misused' => \A v \in Threads : at'[v] # "none" => self'[v] \in alive'
    BY <1>9 DEF LoseConnection, TypeOK, ThreadInv, ClientInv, Clients, InCall, UnderThread
  <2>3. ~misused' => \A v \in Threads : at'[v] \in InCall => client'[self'[v]] = using'[v]
    BY <1>9 DEF LoseConnection, TypeOK, ThreadInv, ClientInv, Clients, InCall, UnderThread
  <2>4. ~misused' => \A b \in Clients : paho'[b] \in Existing => context'[b] \in alive' /\ client'[context'[b]] = b
    BY <1>9 DEF LoseConnection, TypeOK, ThreadInv, ClientInv, Clients, InCall, UnderThread
  <2>5. QED
    BY <2>1, <2>2, <2>3, <2>4, <1>9 DEF LoseConnection
<1>10. ASSUME NEW c \in Clients, ConnectionLost(c)
     PROVE  FreedInv'
  <2>1. undefined' => misused'
    BY <1>10 DEF ConnectionLost, SpawnThread, TypeOK, ThreadInv, ClientInv, Clients, InCall, UnderThread
  <2>2. ~misused' => \A v \in Threads : at'[v] # "none" => self'[v] \in alive'
    BY <1>10 DEF ConnectionLost, SpawnThread, TypeOK, ThreadInv, ClientInv, Clients, InCall, UnderThread
  <2>3. ~misused' => \A v \in Threads : at'[v] \in InCall => client'[self'[v]] = using'[v]
    BY <1>10 DEF ConnectionLost, SpawnThread, TypeOK, ThreadInv, ClientInv, Clients, InCall, UnderThread
  <2>4. ~misused' => \A b \in Clients : paho'[b] \in Existing => context'[b] \in alive' /\ client'[context'[b]] = b
    BY <1>10 DEF ConnectionLost, SpawnThread, TypeOK, ThreadInv, ClientInv, Clients, InCall, UnderThread
  <2>5. QED
    BY <2>1, <2>2, <2>3, <2>4, <1>10 DEF ConnectionLost, SpawnThread
<1>11. ASSUME NEW t \in Threads, CheckClient(t), OnLiveObject(t)
     PROVE  FreedInv'
  <2>1. CASE client[self[t]] = None
    <3>1. undefined' => misused'
      BY <2>1, <1>11 DEF CheckClient, OnLiveObject, Stop, GoOn, TypeOK, ThreadInv, ClientInv, Clients, InCall, UnderThread
    <3>2. ~misused' => \A v \in Threads : at'[v] # "none" => self'[v] \in alive'
      BY <2>1, <1>11 DEF CheckClient, OnLiveObject, Stop, GoOn, TypeOK, ThreadInv, ClientInv, Clients, InCall, UnderThread
    <3>3. ~misused' => \A v \in Threads : at'[v] \in InCall => client'[self'[v]] = using'[v]
      BY <2>1, <1>11 DEF CheckClient, OnLiveObject, Stop, GoOn, TypeOK, ThreadInv, ClientInv, Clients, InCall, UnderThread
    <3>4. ~misused' => \A b \in Clients : paho'[b] \in Existing => context'[b] \in alive' /\ client'[context'[b]] = b
      BY <2>1, <1>11 DEF CheckClient, OnLiveObject, Stop, GoOn, TypeOK, ThreadInv, ClientInv, Clients, InCall, UnderThread
    <3>5. QED
      BY <3>1, <3>2, <3>3, <3>4, <2>1, <1>11 DEF CheckClient, OnLiveObject, Stop, GoOn
  <2>2. CASE client[self[t]] # None
    <3>1. undefined' => misused'
      BY <2>2, <1>11 DEF CheckClient, OnLiveObject, Stop, GoOn, TypeOK, ThreadInv, ClientInv, Clients, InCall, UnderThread
    <3>2. ~misused' => \A v \in Threads : at'[v] # "none" => self'[v] \in alive'
      BY <2>2, <1>11 DEF CheckClient, OnLiveObject, Stop, GoOn, TypeOK, ThreadInv, ClientInv, Clients, InCall, UnderThread
    <3>3. ~misused' => \A v \in Threads : at'[v] \in InCall => client'[self'[v]] = using'[v]
      BY <2>2, <1>11 DEF CheckClient, OnLiveObject, Stop, GoOn, TypeOK, ThreadInv, ClientInv, Clients, InCall, UnderThread
    <3>4. ~misused' => \A b \in Clients : paho'[b] \in Existing => context'[b] \in alive' /\ client'[context'[b]] = b
      BY <2>2, <1>11 DEF CheckClient, OnLiveObject, Stop, GoOn, TypeOK, ThreadInv, ClientInv, Clients, InCall, UnderThread
    <3>5. QED
      BY <3>1, <3>2, <3>3, <3>4, <2>2, <1>11 DEF CheckClient, OnLiveObject, Stop, GoOn
  <2>3. QED
    BY <2>1, <2>2
<1>12. ASSUME NEW t \in Threads, StartConnect(t), OnLiveObject(t)
     PROVE  FreedInv'
  <2>1. CASE client[self[t]] = None
    <3>1. undefined' => misused'
      BY <2>1, <1>12 DEF StartConnect, OnLiveObject, Stop, GoOn, TypeOK, ThreadInv, ClientInv, Clients, InCall, UnderThread
    <3>2. ~misused' => \A v \in Threads : at'[v] # "none" => self'[v] \in alive'
      BY <2>1, <1>12 DEF StartConnect, OnLiveObject, Stop, GoOn, TypeOK, ThreadInv, ClientInv, Clients, InCall, UnderThread
    <3>3. ~misused' => \A v \in Threads : at'[v] \in InCall => client'[self'[v]] = using'[v]
      BY <2>1, <1>12 DEF StartConnect, OnLiveObject, Stop, GoOn, TypeOK, ThreadInv, ClientInv, Clients, InCall, UnderThread
    <3>4. ~misused' => \A b \in Clients : paho'[b] \in Existing => context'[b] \in alive' /\ client'[context'[b]] = b
      BY <2>1, <1>12 DEF StartConnect, OnLiveObject, Stop, GoOn, TypeOK, ThreadInv, ClientInv, Clients, InCall, UnderThread
    <3>5. QED
      BY <3>1, <3>2, <3>3, <3>4, <2>1, <1>12 DEF StartConnect, OnLiveObject, Stop, GoOn
  <2>2. CASE client[self[t]] # None
    <3>1. undefined' => misused'
      BY <2>2, <1>12 DEF StartConnect, OnLiveObject, Stop, GoOn, TypeOK, ThreadInv, ClientInv, Clients, InCall, UnderThread
    <3>2. ~misused' => \A v \in Threads : at'[v] # "none" => self'[v] \in alive'
      BY <2>2, <1>12 DEF StartConnect, OnLiveObject, Stop, GoOn, TypeOK, ThreadInv, ClientInv, Clients, InCall, UnderThread
    <3>3. ~misused' => \A v \in Threads : at'[v] \in InCall => client'[self'[v]] = using'[v]
      BY <2>2, <1>12 DEF StartConnect, OnLiveObject, Stop, GoOn, TypeOK, ThreadInv, ClientInv, Clients, InCall, UnderThread
    <3>4. ~misused' => \A b \in Clients : paho'[b] \in Existing => context'[b] \in alive' /\ client'[context'[b]] = b
      BY <2>2, <1>12 DEF StartConnect, OnLiveObject, Stop, GoOn, TypeOK, ThreadInv, ClientInv, Clients, InCall, UnderThread
    <3>5. QED
      BY <3>1, <3>2, <3>3, <3>4, <2>2, <1>12 DEF StartConnect, OnLiveObject, Stop, GoOn
  <2>3. QED
    BY <2>1, <2>2
<1>13. ASSUME NEW t \in Threads, Connected(t), OnLiveObject(t)
     PROVE  FreedInv'
  <2>1. undefined' => misused'
    BY <1>13 DEF Connected, OnLiveObject, EndCall, GoOn, TypeOK, ThreadInv, ClientInv, Clients, InCall, UnderThread, PahoStates
  <2>2. ~misused' => \A v \in Threads : at'[v] # "none" => self'[v] \in alive'
    BY <1>13 DEF Connected, OnLiveObject, EndCall, GoOn, TypeOK, ThreadInv, ClientInv, Clients, InCall, UnderThread, PahoStates
  <2>3. ~misused' => \A v \in Threads : at'[v] \in InCall => client'[self'[v]] = using'[v]
    BY <1>13 DEF Connected, OnLiveObject, EndCall, GoOn, TypeOK, ThreadInv, ClientInv, Clients, InCall, UnderThread, PahoStates
  <2>4. ~misused' => \A b \in Clients : paho'[b] \in Existing => context'[b] \in alive' /\ client'[context'[b]] = b
    BY <1>13 DEF Connected, OnLiveObject, EndCall, GoOn, TypeOK, ThreadInv, ClientInv, Clients, InCall, UnderThread, PahoStates
  <2>5. QED
    BY <2>1, <2>2, <2>3, <2>4, <1>13 DEF Connected, OnLiveObject, EndCall, GoOn
<1>14. ASSUME NEW t \in Threads, ConnectFailed(t), OnLiveObject(t)
     PROVE  FreedInv'
  <2>1. undefined' => misused'
    BY <1>14 DEF ConnectFailed, OnLiveObject, EndCall, GoOn, TypeOK, ThreadInv, ClientInv, Clients, InCall, UnderThread, PahoStates
  <2>2. ~misused' => \A v \in Threads : at'[v] # "none" => self'[v] \in alive'
    BY <1>14 DEF ConnectFailed, OnLiveObject, EndCall, GoOn, TypeOK, ThreadInv, ClientInv, Clients, InCall, UnderThread, PahoStates
  <2>3. ~misused' => \A v \in Threads : at'[v] \in InCall => client'[self'[v]] = using'[v]
    BY <1>14 DEF ConnectFailed, OnLiveObject, EndCall, GoOn, TypeOK, ThreadInv, ClientInv, Clients, InCall, UnderThread, PahoStates
  <2>4. ~misused' => \A b \in Clients : paho'[b] \in Existing => context'[b] \in alive' /\ client'[context'[b]] = b
    BY <1>14 DEF ConnectFailed, OnLiveObject, EndCall, GoOn, TypeOK, ThreadInv, ClientInv, Clients, InCall, UnderThread, PahoStates
  <2>5. QED
    BY <2>1, <2>2, <2>3, <2>4, <1>14 DEF ConnectFailed, OnLiveObject, EndCall, GoOn
<1>15. ASSUME NEW t \in Threads, Resubscribe(t), OnLiveObject(t)
     PROVE  FreedInv'
  <2>1. CASE client[self[t]] = None
    <3>1. undefined' => misused'
      BY <2>1, <1>15 DEF Resubscribe, OnLiveObject, Stop, GoOn, TypeOK, ThreadInv, ClientInv, Clients, InCall, UnderThread
    <3>2. ~misused' => \A v \in Threads : at'[v] # "none" => self'[v] \in alive'
      BY <2>1, <1>15 DEF Resubscribe, OnLiveObject, Stop, GoOn, TypeOK, ThreadInv, ClientInv, Clients, InCall, UnderThread
    <3>3. ~misused' => \A v \in Threads : at'[v] \in InCall => client'[self'[v]] = using'[v]
      BY <2>1, <1>15 DEF Resubscribe, OnLiveObject, Stop, GoOn, TypeOK, ThreadInv, ClientInv, Clients, InCall, UnderThread
    <3>4. ~misused' => \A b \in Clients : paho'[b] \in Existing => context'[b] \in alive' /\ client'[context'[b]] = b
      BY <2>1, <1>15 DEF Resubscribe, OnLiveObject, Stop, GoOn, TypeOK, ThreadInv, ClientInv, Clients, InCall, UnderThread
    <3>5. QED
      BY <3>1, <3>2, <3>3, <3>4, <2>1, <1>15 DEF Resubscribe, OnLiveObject, Stop, GoOn
  <2>2. CASE client[self[t]] # None
    <3>1. undefined' => misused'
      BY <2>2, <1>15 DEF Resubscribe, OnLiveObject, Stop, GoOn, TypeOK, ThreadInv, ClientInv, Clients, InCall, UnderThread
    <3>2. ~misused' => \A v \in Threads : at'[v] # "none" => self'[v] \in alive'
      BY <2>2, <1>15 DEF Resubscribe, OnLiveObject, Stop, GoOn, TypeOK, ThreadInv, ClientInv, Clients, InCall, UnderThread
    <3>3. ~misused' => \A v \in Threads : at'[v] \in InCall => client'[self'[v]] = using'[v]
      BY <2>2, <1>15 DEF Resubscribe, OnLiveObject, Stop, GoOn, TypeOK, ThreadInv, ClientInv, Clients, InCall, UnderThread
    <3>4. ~misused' => \A b \in Clients : paho'[b] \in Existing => context'[b] \in alive' /\ client'[context'[b]] = b
      BY <2>2, <1>15 DEF Resubscribe, OnLiveObject, Stop, GoOn, TypeOK, ThreadInv, ClientInv, Clients, InCall, UnderThread
    <3>5. QED
      BY <3>1, <3>2, <3>3, <3>4, <2>2, <1>15 DEF Resubscribe, OnLiveObject, Stop, GoOn
  <2>3. QED
    BY <2>1, <2>2
<1>16. ASSUME NEW t \in Threads, Resubscribed(t), OnLiveObject(t)
     PROVE  FreedInv'
  <2>1. undefined' => misused'
    BY <1>16 DEF Resubscribed, OnLiveObject, EndCall, Stop, TypeOK, ThreadInv, ClientInv, Clients, InCall, UnderThread
  <2>2. ~misused' => \A v \in Threads : at'[v] # "none" => self'[v] \in alive'
    BY <1>16 DEF Resubscribed, OnLiveObject, EndCall, Stop, TypeOK, ThreadInv, ClientInv, Clients, InCall, UnderThread
  <2>3. ~misused' => \A v \in Threads : at'[v] \in InCall => client'[self'[v]] = using'[v]
    BY <1>16 DEF Resubscribed, OnLiveObject, EndCall, Stop, TypeOK, ThreadInv, ClientInv, Clients, InCall, UnderThread
  <2>4. ~misused' => \A b \in Clients : paho'[b] \in Existing => context'[b] \in alive' /\ client'[context'[b]] = b
    BY <1>16 DEF Resubscribed, OnLiveObject, EndCall, Stop, TypeOK, ThreadInv, ClientInv, Clients, InCall, UnderThread
  <2>5. QED
    BY <2>1, <2>2, <2>3, <2>4, <1>16 DEF Resubscribed, OnLiveObject, EndCall, Stop
<1>17. ASSUME NEW t \in Threads, Wake(t), OnLiveObject(t)
     PROVE  FreedInv'
  BY <1>17 DEF Wake, OnLiveObject, GoOn, TypeOK, ThreadInv, ClientInv, Clients, InCall, UnderThread
<1>18. ASSUME NEW t \in Threads, UseFreed(t)
     PROVE  FreedInv'
  <2>1. undefined' => misused'
    BY <1>18 DEF UseFreed, TypeOK, ThreadInv, ClientInv, Clients, InCall, UnderThread
  <2>2. ~misused' => \A v \in Threads : at'[v] # "none" => self'[v] \in alive'
    BY <1>18 DEF UseFreed, TypeOK, ThreadInv, ClientInv, Clients, InCall, UnderThread
  <2>3. ~misused' => \A v \in Threads : at'[v] \in InCall => client'[self'[v]] = using'[v]
    BY <1>18 DEF UseFreed, TypeOK, ThreadInv, ClientInv, Clients, InCall, UnderThread
  <2>4. ~misused' => \A b \in Clients : paho'[b] \in Existing => context'[b] \in alive' /\ client'[context'[b]] = b
    BY <1>18 DEF UseFreed, TypeOK, ThreadInv, ClientInv, Clients, InCall, UnderThread
  <2>5. QED
    BY <2>1, <2>2, <2>3, <2>4, <1>18 DEF UseFreed
<1>19. CASE UNCHANGED vars
  BY <1>19 DEF vars
<1>20. QED
  BY <1>1, <1>2, <1>3, <1>4, <1>5, <1>6, <1>7, <1>8, <1>9, <1>10, <1>11, <1>12, <1>13, <1>14, <1>15, <1>16, <1>17, <1>18, <1>19
     DEF Next, OwnerCall, EndOwnerCall, Reconnect, Locking, Succeed

-----------------------------------------------------------------------------
(* The invariants of every behaviour *)

\* The invariants hold at the start.
LEMMA InitInvs == Init => TypeOK /\ ThreadInv /\ LockInv /\ ClientInv /\ FreedInv
<1>. SUFFICES ASSUME Init PROVE TypeOK /\ ThreadInv /\ LockInv /\ ClientInv /\ FreedInv
  OBVIOUS
<1>1. TypeOK
  BY InitTypeOK
<1>2. ThreadInv
  BY DEF Init, ThreadInv, Running
<1>3. LockInv /\ FreedInv
  BY DEF Init, LockInv, ConnectsExclude, FreedInv, Running, InCall, Idle, Clients, Existing
<1>4. ClientInv
  BY DEF Init, ClientInv, InCall, Idle, None, Clients, Existing
<1>5. QED
  BY <1>1, <1>2, <1>3, <1>4

\* The invariants hold always.
LEMMA Invs == Spec => [](TypeOK /\ ThreadInv /\ LockInv /\ ClientInv /\ FreedInv)
<1>1. ASSUME TypeOK, ThreadInv, LockInv, ClientInv, FreedInv, [Next]_vars
      PROVE  (TypeOK /\ ThreadInv /\ LockInv /\ ClientInv /\ FreedInv)'
  BY <1>1, TypeStep, ThreadStep, LockStep, ClientStep, FreedStep
<1>2. QED
  BY <1>1, InitInvs, PTL DEF Spec

\* However losses, disconnects and moves interleave, an object has one reconnect
\* thread while its reconnecting_ is set and none otherwise.
THEOREM ReconnectCorrect == Spec => []OneReconnectThread
<1>1. ASSUME TypeOK, ThreadInv PROVE OneReconnectThread
  <2>1. ASSUME NEW o \in Objects PROVE o \in reconnecting <=> UnderThread(o)
    BY <1>1, ObjectsAssumption DEF ThreadInv, UnderThread, Running, None
  <2>2. ASSUME NEW o \in Objects, NEW t \in Threads, NEW u \in Threads, self[t] = o, self[u] = o
        PROVE  t = u
    BY <1>1, <2>2, ObjectsAssumption DEF ThreadInv, None
  <2>3. QED
    BY <2>1, <2>2 DEF OneReconnectThread
<1>2. QED
  BY <1>1, Invs, PTL

\* client_mtx_ keeps connect() and the reconnect thread of an object apart, on any
\* number of objects and threads.
THEOREM ExclusionCorrect == Spec => []ConnectsExclude
<1>1. LockInv => ConnectsExclude
  BY DEF LockInv
<1>2. QED
  BY <1>1, Invs, PTL

\* No sequence of calls leaks a Paho client or gives it two holders.
THEOREM AccountCorrect == Spec => []ClientsAccounted
<1>1. ASSUME TypeOK, ClientInv PROVE ClientsAccounted
  <2>1. \A o, p \in Objects : client[o] = client[p] /\ client[o] # None => o = p
    BY <1>1 DEF ClientInv
  <2>2. ASSUME NEW c \in Clients
        PROVE  paho[c] \in {"down", "up"} <=> \E o \in alive : client[o] = c
    BY <1>1 DEF ClientInv, TypeOK, Existing, None, Clients
  <2>3. QED
    BY <2>1, <2>2 DEF ClientsAccounted
<1>2. QED
  BY <1>1, Invs, PTL

\* Freed memory is used only after a client was destroyed or moved under a thread
\* or its callbacks, for any number of objects, clients and threads.
THEOREM FreedCorrect == Spec => []FreedOnlyByMisuse
<1>1. FreedInv => FreedOnlyByMisuse
  BY DEF FreedInv, FreedOnlyByMisuse
<1>2. QED
  BY <1>1, Invs, PTL

-----------------------------------------------------------------------------
(* The connections that nobody sees to *)

\* A client that is not created yet calls nobody back.
FreshInv == \A c \in Clients : paho[c] = "none" => context[c] = None

\* Only creating a client gives it an object, and no client is uncreated.
LEMMA FreshStep == TypeOK /\ ClientInv /\ FreshInv /\ [Next]_vars => FreshInv'
<1>. USE ObjectsAssumption
     DEF FreshInv, TypeOK, ClientInv, Existing, None, Clients, objectVars, pahoVars, threadVars
<1>. SUFFICES ASSUME TypeOK, ClientInv, FreshInv, [Next]_vars PROVE FreshInv'
  OBVIOUS
<1>1. ASSUME NEW o \in Objects, CreateClient(o) PROVE FreshInv'
  BY <1>1 DEF CreateClient
<1>2. CASE OwnerConnected
  BY <1>2 DEF OwnerConnected
<1>3. CASE OwnerConnectFails \/ FinishDisconnect
  BY <1>3 DEF OwnerConnectFails, FinishDisconnect, DestroyClient
<1>4. ASSUME NEW o \in Objects, StartDisconnect(o) PROVE FreshInv'
  BY <1>4 DEF StartDisconnect
<1>5. ASSUME NEW c \in Clients, LoseConnection(c) PROVE FreshInv'
  BY <1>5 DEF LoseConnection
<1>6. ASSUME NEW t \in Threads, Connected(t) \/ ConnectFailed(t), OnLiveObject(t) PROVE FreshInv'
  BY <1>6 DEF Connected, ConnectFailed, EndCall, OnLiveObject, InCall
<1>7. CASE UNCHANGED <<paho, context>>
  BY <1>7
<1>8. QED
  BY <1>1, <1>2, <1>3, <1>4, <1>5, <1>6, <1>7
     DEF Next, OwnerCall, EndOwnerCall, OwnerSubscribed, Move, Destruct, ConnectionLost,
         Reconnect, Locking, Succeed, CheckClient, StartConnect, Resubscribe, Resubscribed,
         Wake, UseFreed, OnLiveObject, vars

\* Nothing was misused, and what the invariants say then.
Sound ==
  /\ TypeOK /\ ThreadInv /\ ClientInv /\ FreedInv /\ FreshInv
  /\ ~misused

\* The client of an object calls that object back, and a client that an object's
\* callbacks come from is its client or destroyed.
LEMMA Holder ==
  ASSUME Sound
  PROVE  /\ \A o \in Objects : client[o] # None => context[client[o]] = o
         /\ \A c \in Clients :
              context[c] # None /\ client[context[c]] # c => paho[c] = "gone"
<1>. USE ObjectsAssumption
     DEF Sound, TypeOK, ClientInv, FreedInv, FreshInv, Existing, None, Clients, PahoStates
<1>1. ASSUME NEW o \in Objects, client[o] # None PROVE context[client[o]] = o
  <2>1. client[o] \in Clients /\ paho[client[o]] \in Existing
    BY <1>1
  <2>2. context[client[o]] \in Objects /\ client[context[client[o]]] = client[o]
    BY <2>1
  <2>3. QED
    BY <1>1, <2>2
<1>2. QED
  BY <1>1

\* The cases of a step, for one client.
LEMMA CaredStep ==
  ASSUME Sound, [Next]_vars, ~misused', NEW c \in Clients, Cared(c), ~Cared(c)'
  PROVE  \/ paho'[c] = "gone"
         \/ \E t \in Threads : at[t] = "subscribing" /\ self[t] = context[c]
<1>. USE ObjectsAssumption
     DEF Cared, Sound, TypeOK, Existing, None, Clients, objectVars, pahoVars, threadVars
<1>. DEFINE Goal == \/ paho'[c] = "gone"
                    \/ \E t \in Threads : at[t] = "subscribing" /\ self[t] = context[c]
<1>. SUFFICES Goal
  OBVIOUS
<1>1. ASSUME NEW o \in Objects, CreateClient(o) PROVE Goal
  BY <1>1 DEF CreateClient, Owns
<1>2. CASE OwnerConnected
  <2>1. context[c] = owner.obj => c = client[owner.obj] \/ paho[c] = "gone"
    BY <1>2, Holder DEF OwnerConnected, ClientInv
  <2>2. client[owner.obj] \in Clients /\ paho[client[owner.obj]] # "gone"
    BY <1>2 DEF OwnerConnected, ClientInv
  <2>3. QED
    BY <1>2, <2>1, <2>2 DEF OwnerConnected
<1>3. CASE OwnerConnectFails \/ FinishDisconnect
  <2>1. context[c] = owner.obj => c = client[owner.obj] \/ paho[c] = "gone"
    BY <1>3, Holder DEF OwnerConnectFails, FinishDisconnect, ClientInv
  <2>2. CASE context[c] = owner.obj /\ paho[c] # "gone"
    BY <1>3, <2>1, <2>2 DEF OwnerConnectFails, FinishDisconnect, DestroyClient
  <2>3. CASE paho[c] = "gone"
    BY <1>3, <2>3 DEF OwnerConnectFails, FinishDisconnect, DestroyClient
  <2>4. CASE context[c] # owner.obj /\ c = client[owner.obj]
    BY <1>3, <2>4 DEF OwnerConnectFails, FinishDisconnect, DestroyClient
  <2>5. CASE context[c] # owner.obj /\ c # client[owner.obj]
    <3>1. /\ paho'[c] = paho[c]
          /\ c \in lost => c \in lost'
          /\ context'[c] = context[c] /\ reconnecting' = reconnecting
      BY <1>3, <2>5 DEF OwnerConnectFails, FinishDisconnect, DestroyClient
    <3>2. QED
      BY <2>5, <3>1
  <2>6. QED
    BY <2>2, <2>3, <2>4, <2>5
<1>4. CASE OwnerSubscribed
  BY <1>4 DEF OwnerSubscribed
<1>5. ASSUME NEW o \in Objects, StartDisconnect(o) PROVE Goal
  <2>1. context[client[o]] = o
    BY <1>5, Holder DEF StartDisconnect
  <2>2. QED
    BY <1>5, <2>1 DEF StartDisconnect, Owns
<1>6. ASSUME NEW o \in Objects, NEW p \in Objects, Move(o, p) PROVE Goal
  BY <1>6 DEF Move
<1>7. ASSUME NEW o \in Objects, Destruct(o) PROVE Goal
  BY <1>7 DEF Destruct
<1>8. ASSUME NEW b \in Clients, LoseConnection(b) PROVE Goal
  BY <1>8 DEF LoseConnection
<1>9. ASSUME NEW b \in Clients, ConnectionLost(b) PROVE Goal
  <2>1. context[b] \in alive
    BY <1>9 DEF ConnectionLost, ClientInv, FreedInv
  <2>2. QED
    BY <1>9, <2>1 DEF ConnectionLost
<1>10. ASSUME NEW t \in Threads, client[self[t]] = None, Running(t), Stop(t),
              UNCHANGED <<paho, context, lost, owner>>
       PROVE  Goal
  <2>1. self[t] \in Objects
    BY <1>10 DEF ThreadInv
  <2>2. context[c] = self[t] => paho[c] = "gone"
    BY <1>10, <2>1, Holder
  <2>3. context[c] # self[t] => Cared(c)'
    BY <1>10 DEF Stop
  <2>4. QED
    BY <1>10, <2>2, <2>3
<1>11. ASSUME NEW t \in Threads, UNCHANGED <<paho, context, lost, owner, reconnecting>> PROVE Goal
  BY <1>11
<1>12. ASSUME NEW t \in Threads, Connected(t), OnLiveObject(t) PROVE Goal
  BY <1>12 DEF Connected, EndCall, GoOn, OnLiveObject
<1>13. ASSUME NEW t \in Threads, ConnectFailed(t), OnLiveObject(t) PROVE Goal
  <2>1. using[t] = client[self[t]] /\ using[t] # None /\ self[t] \in alive
    BY <1>13 DEF ConnectFailed, OnLiveObject, FreedInv, InCall
  <2>2. context[using[t]] = self[t]
    BY <2>1, Holder
  <2>3. self[t] \in reconnecting
    BY <1>13 DEF ConnectFailed, ThreadInv, Running
  <2>4. QED
    BY <1>13, <2>2, <2>3 DEF ConnectFailed, EndCall, GoOn, OnLiveObject
<1>14. ASSUME NEW t \in Threads, Resubscribed(t), OnLiveObject(t) PROVE Goal
  BY <1>14 DEF Resubscribed, Stop, OnLiveObject
<1>15. ASSUME NEW t \in Threads, CheckClient(t) \/ StartConnect(t) \/ Resubscribe(t), OnLiveObject(t)
       PROVE  Goal
  BY <1>10, <1>11, <1>15
     DEF CheckClient, StartConnect, Resubscribe, GoOn, OnLiveObject, Running
<1>16. ASSUME NEW t \in Threads, (Wake(t) /\ OnLiveObject(t)) \/ UseFreed(t) PROVE Goal
  <2>1. UNCHANGED <<paho, context, lost, owner, reconnecting>>
    BY <1>16 DEF Wake, GoOn, OnLiveObject, UseFreed
  <2>2. QED
    BY <1>11, <2>1
<1>17. CASE UNCHANGED vars
  BY <1>17 DEF vars
<1>18. QED
  BY <1>1, <1>2, <1>3, <1>4, <1>5, <1>6, <1>7, <1>8, <1>9, <1>12, <1>13, <1>14, <1>15, <1>16, <1>17
     DEF Next, OwnerCall, EndOwnerCall, Reconnect, Locking, Succeed

\* A misuse is never forgotten.
LEMMA MisuseStays == [Next]_vars /\ misused => misused'
BY DEF Next, OwnerCall, EndOwnerCall, CreateClient, OwnerConnected, OwnerConnectFails,
       OwnerSubscribed, StartDisconnect, FinishDisconnect, DestroyClient, Move, Destruct,
       LoseConnection, ConnectionLost, Reconnect, Locking, Succeed, OnLiveObject, UseFreed, vars

\* Until something is misused, only the end of a reconnect thread that had connected
\* leaves a connection that is down with nobody to see to it.
THEOREM LateLossCorrect == Spec => OnlyLateLossForgotten
<1>1. Init => FreshInv
  BY DEF Init, FreshInv
<1>2. ASSUME TypeOK, ThreadInv, ClientInv, FreedInv, FreshInv, [Next]_vars
      PROVE  [~misused' =>
               \A c \in Clients :
                 Cared(c) /\ ~Cared(c)' =>
                   \/ paho'[c] = "gone"
                   \/ \E t \in Threads : at[t] = "subscribing" /\ self[t] = context[c]]_vars
  <2>. SUFFICES ASSUME ~misused', NEW c \in Clients, Cared(c), ~Cared(c)'
                PROVE  \/ paho'[c] = "gone"
                       \/ \E t \in Threads : at[t] = "subscribing" /\ self[t] = context[c]
    OBVIOUS
  <2>1. Sound
    BY <1>2, MisuseStays DEF Sound
  <2>2. QED
    BY <1>2, <2>1, CaredStep
<1>3. Spec => []FreshInv
  BY <1>1, Invs, FreshStep, PTL DEF Spec
<1>4. QED
  BY <1>2, <1>3, Invs, PTL DEF Spec, OnlyLateLossForgotten

=============================================================================
