----------------------- MODULE RealtimeLifecycle_proofs -----------------------
(***************************************************************************)
(* For any number of sockets, requests and outages: a process closes its    *)
(* resources only when all admitted work is over, no socket stays on an     *)
(* adapter that was replaced, and a presence left over by a closed socket   *)
(* comes from a registration that was overtaken by the disconnect.          *)
(***************************************************************************)
EXTENDS RealtimeLifecycle, TLAPS

USE DEF process, gateway, presence, extractPresenceInput

\* The socket records keep their type whatever fields a step sets.
LEMMA SocketTypes ==
  \A r \in Socket :
    /\ [r EXCEPT !.connected = FALSE] \in Socket
    /\ \A p \in SocketStates :
         /\ [r EXCEPT !.pc = p] \in Socket
         /\ [r EXCEPT !.pc = p, !.connected = FALSE] \in Socket
         /\ [r EXCEPT !.pc = p, !.identified = TRUE] \in Socket
         /\ \A g \in Nat : [r EXCEPT !.pc = p, !.connected = TRUE, !.generation = g] \in Socket
BY DEF Socket

\* What the two ways of losing a connection do to the types.
LEMMA DisconnectTypes ==
  ASSUME TypeOK, NEW S \in SUBSET Sockets, Disconnected(S)
  PROVE  socket' \in [Sockets -> Socket] /\ cleanup' \subseteq Sockets
<1>1. \A s \in Sockets : socket[s] \in Socket /\ [socket[s] EXCEPT !.connected = FALSE] \in Socket
  BY SocketTypes DEF TypeOK
<1> QED
  BY <1>1 DEF Disconnected, TypeOK

LEMMA RefusedTypes ==
  ASSUME TypeOK, NEW s \in Sockets, NEW p \in SocketStates, Refused(s, p)
  PROVE  socket' \in [Sockets -> Socket] /\ cleanup' \subseteq Sockets
<1>1. socket' = [socket EXCEPT ![s] = [socket[s] EXCEPT !.pc = p, !.connected = FALSE]]
  BY DEF Refused, TypeOK
<1>2. [socket[s] EXCEPT !.pc = p, !.connected = FALSE] \in Socket
  BY SocketTypes DEF TypeOK
<1> QED
  BY <1>1, <1>2 DEF Refused, TypeOK

LEMMA StoreTypes ==
  ASSUME TypeOK, NEW S \in SUBSET Sockets, StoreReaches(S) \/ StoreMisses
  PROVE  /\ store' \in {"ready", "lost"}
         /\ redis' \in [up : BOOLEAN, sockets : SUBSET Sockets, outages : 0..MaxOutages]
BY DEF StoreReaches, StoreMisses, TypeOK

\* Type correctness of every variable, the base of the other proofs.
THEOREM TypeCorrect == Spec => []TypeOK
<1>1. Init => TypeOK
  BY BoundsAssumption DEF Init, TypeOK, Socket, SocketStates, Flight, NoFlight
<1>2. TypeOK /\ [Next]_vars => TypeOK'
  <2> SUFFICES ASSUME TypeOK, [Next]_vars PROVE TypeOK'
    OBVIOUS
  <2> USE DEF TypeOK
  <2>1. ASSUME NEW h \in Requests, AdmitRequest(h) \/ FinishRequest(h) PROVE TypeOK'
    BY <2>1 DEF AdmitRequest, FinishRequest
  <2>2. ASSUME NEW s \in Sockets, Handshake(s) PROVE TypeOK'
    <3>1. socket' = [socket EXCEPT ![s] = [socket[s] EXCEPT !.pc = "handshake"]]
      BY <2>2 DEF Handshake
    <3>2. socket' \in [Sockets -> Socket]
      BY <3>1, SocketTypes DEF SocketStates
    <3> QED
      BY <2>2, <3>2 DEF Handshake
  <2>3. ASSUME NEW s \in Sockets, Connect(s) PROVE TypeOK'
    <3>1. adapter.generation \in Nat
      OBVIOUS
    <3>2. socket' \in [Sockets -> Socket]
      BY <2>3, <3>1, SocketTypes DEF Connect, SocketStates
    <3> QED
      BY <2>3, <3>2 DEF Connect
  <2>4. ASSUME NEW s \in Sockets, Authenticate(s) PROVE TypeOK'
    <3>1. socket' = [socket EXCEPT ![s] =
                       [socket[s] EXCEPT !.pc = "joining", !.identified = TRUE]]
      BY <2>4 DEF Authenticate
    <3>2. socket' \in [Sockets -> Socket]
      BY <3>1, SocketTypes DEF SocketStates
    <3> QED
      BY <2>4, <3>2 DEF Authenticate
  <2>5. ASSUME NEW s \in Sockets, RejectConnection(s) PROVE TypeOK'
    BY <2>5, RefusedTypes DEF RejectConnection, SocketStates
  <2>6. ASSUME NEW s \in Sockets, RegisterSocket(s) PROVE TypeOK'
    <3>1. Reconciled \cup {s} \in SUBSET Sockets
      BY DEF Reconciled
    <3>2. /\ store' \in {"ready", "lost"}
          /\ redis' \in [up : BOOLEAN, sockets : SUBSET Sockets, outages : 0..MaxOutages]
      BY <2>6, <3>1, StoreTypes DEF RegisterSocket
    <3>3. \/ Refused(s, "open")
          \/ socket' = [socket EXCEPT ![s] = [socket[s] EXCEPT !.pc = "open"]] /\ UNCHANGED cleanup
      BY <2>6 DEF RegisterSocket
    <3>4. "open" \in SocketStates /\ [socket[s] EXCEPT !.pc = "open"] \in Socket
      BY SocketTypes DEF SocketStates
    <3>5. socket' \in [Sockets -> Socket] /\ cleanup' \subseteq Sockets
      BY <3>3, <3>4, RefusedTypes
    <3> QED
      BY <2>6, <3>2, <3>5 DEF RegisterSocket
  <2>7. ASSUME NEW s \in Sockets, ClientDisconnects(s) PROVE TypeOK'
    BY <2>7, DisconnectTypes DEF ClientDisconnects
  <2>8. ASSUME NEW s \in Sockets, UnregisterSocket(s) PROVE TypeOK'
    <3>1. Reconciled \ {s} \in SUBSET Sockets
      BY DEF Reconciled
    <3>2. /\ store' \in {"ready", "lost"}
          /\ redis' \in [up : BOOLEAN, sockets : SUBSET Sockets, outages : 0..MaxOutages]
      BY <2>8, <3>1, StoreTypes DEF UnregisterSocket
    <3> QED
      BY <2>8, <3>2 DEF UnregisterSocket
  <2>9. ASSUME NEW s \in Sockets, RefreshPresence(s) PROVE TypeOK'
    <3>1. Reconciled \cup {s} \in SUBSET Sockets
      BY DEF Reconciled
    <3>2. /\ store' \in {"ready", "lost"}
          /\ redis' \in [up : BOOLEAN, sockets : SUBSET Sockets, outages : 0..MaxOutages]
      BY <2>9, <3>1, StoreTypes DEF RefreshPresence
    <3> QED
      BY <2>9, <3>2 DEF RefreshPresence
  <2>10. ASSUME NEW s \in Sockets, StartCommand(s) \/ FinishCommand(s) PROVE TypeOK'
    BY <2>10 DEF StartCommand, FinishCommand
  <2>11. CASE CheckReadiness
    <3>1. socket' \in [Sockets -> Socket] /\ cleanup' \subseteq Sockets
      BY <2>11, DisconnectTypes DEF CheckReadiness, Connected
    <3>2. /\ adapter' \in [state : {"ready", "recovering", "unavailable", "destroying"},
                           generation : Nat]
          /\ recovery' \in Flight({"none", "disconnecting", "connecting"})
      BY <2>11, <3>1 DEF CheckReadiness, Flight
    <3> QED
      BY <2>11, <3>1, <3>2 DEF CheckReadiness
  <2>12. CASE ConnectAdapter
    BY <2>12 DEF ConnectAdapter, NoFlight, Flight
  <2>13. CASE InstallAdapter
    <3>1. adapter' \in [state : {"ready", "recovering", "unavailable", "destroying"},
                        generation : Nat]
      BY <2>13 DEF InstallAdapter
    <3>2. recovery' \in Flight({"none", "disconnecting", "connecting"})
      BY <2>13 DEF InstallAdapter, NoFlight, Flight
    <3> QED
      BY <2>13, <3>1, <3>2 DEF InstallAdapter
  <2>14. CASE Signal \/ StopSockets \/ SocketsStopped
    <3>1. stop' \in Flight({"none", "idle", "recovery", "cleanup", "done"})
      BY <2>14 DEF Signal, StopSockets, SocketsStopped, Flight
    <3>2. adapter' \in [state : {"ready", "recovering", "unavailable", "destroying"},
                        generation : Nat]
      BY <2>14 DEF Signal, StopSockets, SocketsStopped
    <3> QED
      BY <2>14, <3>1, <3>2 DEF Signal, StopSockets, SocketsStopped
  <2>15. CASE DisconnectSockets
    <3>1. socket' \in [Sockets -> Socket] /\ cleanup' \subseteq Sockets
      BY <2>15, DisconnectTypes DEF DisconnectSockets, Connected
    <3>2. stop' \in Flight({"none", "idle", "recovery", "cleanup", "done"})
      BY <2>15, <3>1 DEF DisconnectSockets, Flight
    <3> QED
      BY <2>15, <3>1, <3>2 DEF DisconnectSockets
  <2>16. CASE IntakeStopped \/ CloseApplication \/ ExitNonZero
    BY <2>16 DEF IntakeStopped, CloseApplication, ExitNonZero, Exited
  <2>17. CASE RedisFails \/ RedisReturns \/ RedisForgets
    <3>1. redis' \in [up : BOOLEAN, sockets : SUBSET Sockets, outages : 0..MaxOutages]
      <4>1. CASE RedisFails
        <5>1. redis.outages + 1 \in 0..MaxOutages
          BY <4>1, BoundsAssumption DEF RedisFails
        <5> QED
          BY <4>1, <5>1 DEF RedisFails
      <4>2. CASE RedisReturns \/ RedisForgets
        BY <4>2 DEF RedisReturns, RedisForgets
      <4> QED
        BY <2>17, <4>1, <4>2
    <3> QED
      BY <2>17, <3>1 DEF RedisFails, RedisReturns, RedisForgets
  <2>18. CASE UNCHANGED vars
    BY <2>18 DEF vars
  <2> QED
    BY <2>1, <2>2, <2>3, <2>4, <2>5, <2>6, <2>7, <2>8, <2>9, <2>10, <2>11,
       <2>12, <2>13, <2>14, <2>15, <2>16, <2>17, <2>18
       DEF Next, SocketArrives, SocketStep, SocketTask, ShutdownStep
<1> QED
  BY <1>1, <1>2, PTL DEF Spec

-----------------------------------------------------------------------------
\* A socket that is connected after a step was connected before it, on the same
\* adapter, unless the step admitted it; and the adapter's generation moves
\* only in CheckReadiness.
LEMMA ConnectionsKept ==
  ASSUME TypeOK, [Next]_vars, NEW s \in Sockets, socket'[s].connected
  PROVE  \/ socket[s].connected /\ socket'[s].generation = socket[s].generation
         \/ ~Draining /\ socket'[s].generation = adapter.generation
<1> USE DEF TypeOK, Socket
<1>1. ASSUME NEW r \in Sockets, Handshake(r) \/ Authenticate(r)
      PROVE  socket[s].connected /\ socket'[s].generation = socket[s].generation
  BY <1>1 DEF Handshake, Authenticate
<1>2. ASSUME NEW r \in Sockets, Connect(r)
      PROVE  \/ socket[s].connected /\ socket'[s].generation = socket[s].generation
             \/ ~Draining /\ socket'[s].generation = adapter.generation
  BY <1>2 DEF Connect, CanAdmitSockets
<1>3. ASSUME NEW r \in Sockets, NEW p, Refused(r, p)
      PROVE  socket[s].connected /\ socket'[s].generation = socket[s].generation
  BY <1>3 DEF Refused
<1>4. ASSUME NEW r \in Sockets, RegisterSocket(r)
      PROVE  socket[s].connected /\ socket'[s].generation = socket[s].generation
  BY <1>3, <1>4 DEF RegisterSocket
<1>5. ASSUME NEW S, Disconnected(S)
      PROVE  socket[s].connected /\ socket'[s].generation = socket[s].generation
  BY <1>5 DEF Disconnected
<1>6. CASE UNCHANGED socket
  BY <1>6
<1> QED
  BY <1>1, <1>2, <1>3, <1>4, <1>5, <1>6
     DEF Next, SocketArrives, SocketStep, SocketTask, ShutdownStep, AdmitRequest,
     FinishRequest, RejectConnection, ClientDisconnects, UnregisterSocket,
     RefreshPresence, StartCommand, FinishCommand, CheckReadiness, ConnectAdapter,
     InstallAdapter, Signal, StopSockets, DisconnectSockets, SocketsStopped,
     IntakeStopped, CloseApplication, ExitNonZero, RedisFails, RedisReturns,
     RedisForgets, vars

\* Replacing the adapter leaves no socket behind on the old one, and a socket
\* that was being admitted meanwhile does not slip in with the old generation.
THEOREM NoSocketIsLeftBehind == Spec => []OneAdapterGeneration
<1>1. Init => OneAdapterGeneration
  BY DEF Init, OneAdapterGeneration, Connected
<1>2. TypeOK /\ OneAdapterGeneration /\ [Next]_vars => OneAdapterGeneration'
  <2> SUFFICES ASSUME TypeOK, OneAdapterGeneration, [Next]_vars
               PROVE  OneAdapterGeneration'
    OBVIOUS
  <2>1. CASE CheckReadiness
    BY <2>1 DEF CheckReadiness, Disconnected, Connected, OneAdapterGeneration, TypeOK, Socket
  <2>2. CASE adapter'.generation = adapter.generation
    BY <2>2, ConnectionsKept DEF OneAdapterGeneration, Connected
  <2>3. CheckReadiness \/ adapter'.generation = adapter.generation
    BY DEF Next, SocketArrives, SocketStep, SocketTask, ShutdownStep, AdmitRequest,
       FinishRequest, Handshake, Connect, Authenticate, RejectConnection,
       RegisterSocket, ClientDisconnects, UnregisterSocket, RefreshPresence,
       StartCommand, FinishCommand, ConnectAdapter, InstallAdapter, Signal,
       StopSockets, DisconnectSockets, SocketsStopped, IntakeStopped,
       CloseApplication, ExitNonZero, RedisFails, RedisReturns, RedisForgets, vars,
       TypeOK
  <2> QED
    BY <2>1, <2>2, <2>3
<1> QED
  BY <1>1, <1>2, TypeCorrect, PTL DEF Spec

-----------------------------------------------------------------------------
\* The inductive invariant behind CloseIsQuiet: the stages of the shutdown, and
\* what each has made sure of.
Stages ==
  /\ stop.at # "none" => Draining
  /\ stop.at \in {"recovery", "cleanup", "done"} => Idle
  /\ stop.at \in {"cleanup", "done"} => Connected = {} /\ cleanup \subseteq stop.waits
  /\ stop.at = "done" => cleanup = {}
  /\ shutdown \in {"closing", "exited_0"} => stop.at = "done"

\* Nothing is admitted while the process drains, so idle stays idle.
LEMMA IdleStays ==
  ASSUME TypeOK, [Next]_vars, Draining, Idle
  PROVE  Idle'
<1> USE DEF TypeOK, Idle, SocketWork, HttpWork, Socket
<1>1. UNCHANGED http \/ \E h \in Requests : http' = [http EXCEPT ![h] = "done"]
  BY DEF Next, SocketArrives, SocketStep, SocketTask, ShutdownStep, AdmitRequest,
     FinishRequest, Handshake, Connect, Authenticate, RejectConnection,
     RegisterSocket, ClientDisconnects, UnregisterSocket, RefreshPresence,
     StartCommand, FinishCommand, CheckReadiness, ConnectAdapter, InstallAdapter,
     Signal, StopSockets, DisconnectSockets, SocketsStopped, IntakeStopped,
     CloseApplication, ExitNonZero, RedisFails, RedisReturns, RedisForgets, vars
<1>2. commands' \subseteq commands
  BY DEF Next, SocketArrives, SocketStep, SocketTask, ShutdownStep, AdmitRequest,
     FinishRequest, Handshake, Connect, Authenticate, RejectConnection,
     RegisterSocket, ClientDisconnects, UnregisterSocket, RefreshPresence,
     StartCommand, FinishCommand, CheckReadiness, ConnectAdapter, InstallAdapter,
     Signal, StopSockets, DisconnectSockets, SocketsStopped, IntakeStopped,
     CloseApplication, ExitNonZero, RedisFails, RedisReturns, RedisForgets, vars,
     CanAdmitSockets
<1>3. \A s \in Sockets : socket'[s].pc \notin {"authenticating", "joining"}
  <2>1. \A s \in Sockets : socket[s].pc \notin {"authenticating", "joining"}
    OBVIOUS
  <2>2. ASSUME NEW r \in Sockets, Connect(r)
        PROVE  \A s \in Sockets : socket'[s].pc \notin {"authenticating", "joining"}
    BY <2>1, <2>2 DEF Connect, CanAdmitSockets
  <2>3. ASSUME NEW S, Disconnected(S)
        PROVE  \A s \in Sockets : socket'[s].pc \notin {"authenticating", "joining"}
    BY <2>1, <2>3 DEF Disconnected
  <2>4. CASE UNCHANGED socket
    BY <2>1, <2>4
  <2> QED
    BY <2>1, <2>2, <2>3, <2>4
       DEF Next, SocketArrives, SocketStep, SocketTask, ShutdownStep, AdmitRequest,
       FinishRequest, Handshake, Authenticate, RejectConnection, RegisterSocket,
       ClientDisconnects, UnregisterSocket, RefreshPresence, StartCommand,
       FinishCommand, CheckReadiness, ConnectAdapter, InstallAdapter, Signal,
       StopSockets, DisconnectSockets, SocketsStopped, IntakeStopped,
       CloseApplication, ExitNonZero, RedisFails, RedisReturns, RedisForgets, vars,
       CanAdmitSockets
<1> QED
  BY <1>1, <1>2, <1>3

\* Without connections and without connections being admitted, no cleanup starts.
LEMMA CleanupShrinks ==
  ASSUME TypeOK, [Next]_vars, Draining, Idle, Connected = {}
  PROVE  Connected' = {} /\ cleanup' \subseteq cleanup
<1>1. Connected' = {}
  BY ConnectionsKept DEF Connected
<1>2. \A s \in Sockets : ~socket[s].connected /\ socket[s].pc \notin {"authenticating", "joining"}
  BY DEF Connected, Idle, SocketWork
<1>3. ASSUME NEW S, S \subseteq Connected, Disconnected(S) PROVE cleanup' \subseteq cleanup
  BY <1>3 DEF Disconnected
<1>4. cleanup' \subseteq cleanup
  BY <1>2, <1>3 DEF Next, SocketArrives, SocketStep, SocketTask, ShutdownStep,
     AdmitRequest, FinishRequest, Handshake, Connect, Authenticate,
     RejectConnection, RegisterSocket, ClientDisconnects, UnregisterSocket,
     RefreshPresence, StartCommand, FinishCommand, CheckReadiness, ConnectAdapter,
     InstallAdapter, Signal, StopSockets, DisconnectSockets, SocketsStopped,
     IntakeStopped, CloseApplication, ExitNonZero, RedisFails, RedisReturns,
     RedisForgets, vars, Draining
<1> QED
  BY <1>1, <1>4

\* app.close() begins, and the process exits with status 0, only when every
\* admitted request, connection and command is over and every socket is gone.
THEOREM ClosesQuietly == Spec => []CloseIsQuiet
<1>1. Init => Stages
  BY DEF Init, Stages, NoFlight
<1>2. TypeOK /\ Stages /\ [Next]_vars => Stages'
  <2> SUFFICES ASSUME TypeOK, Stages, [Next]_vars PROVE Stages'
    OBVIOUS
  <2>1. CASE Signal
    BY <2>1 DEF Signal, Stages, Draining
  <2>2. CASE StopSockets
    <3>1. Idle'
      BY <2>2, IdleStays DEF StopSockets, Draining
    <3> QED
      BY <2>2, <3>1 DEF StopSockets, Stages, Draining, TypeOK, Flight
  <2>3. CASE DisconnectSockets
    <3>1. Idle'
      BY <2>3, IdleStays DEF DisconnectSockets, Stages, Draining
    <3>2. Connected' = {}
      BY <2>3 DEF DisconnectSockets, Disconnected, Connected, TypeOK, Socket
    <3> QED
      BY <2>3, <3>1, <3>2 DEF DisconnectSockets, Stages, Draining
  <2>4. CASE SocketsStopped
    <3>1. Idle' /\ Connected' = {} /\ cleanup = {}
      BY <2>4, IdleStays, CleanupShrinks DEF SocketsStopped, Stages, Draining
    <3> QED
      BY <2>4, <3>1 DEF SocketsStopped, Stages, Draining
  <2>5. CASE IntakeStopped \/ CloseApplication \/ ExitNonZero
    <3>1. stop.at # "none" /\ Draining /\ Draining' => Stages'
      BY <2>5, IdleStays, CleanupShrinks DEF IntakeStopped, CloseApplication, ExitNonZero,
         Stages
    <3>2. stop.at = "none" => Stages'
      BY <2>5 DEF IntakeStopped, CloseApplication, ExitNonZero, Stages, Draining
    <3> QED
      BY <2>5, <3>1, <3>2 DEF IntakeStopped, CloseApplication, ExitNonZero, Draining
  <2>6. CASE UNCHANGED <<shutdown, stop>>
    <3>1. stop.at = "none" => Stages'
      BY <2>6 DEF Stages
    <3>2. stop.at # "none" => Stages'
      BY <2>6, IdleStays, CleanupShrinks DEF Stages, Draining
    <3> QED
      BY <3>1, <3>2
  <2> QED
    BY <2>1, <2>2, <2>3, <2>4, <2>5, <2>6
       DEF Next, SocketArrives, SocketStep, SocketTask, ShutdownStep, AdmitRequest,
       FinishRequest, Handshake, Connect, Authenticate, RejectConnection,
       RegisterSocket, ClientDisconnects, UnregisterSocket, RefreshPresence,
       StartCommand, FinishCommand, CheckReadiness, ConnectAdapter, InstallAdapter,
       RedisFails, RedisReturns, RedisForgets, vars
<1>3. Stages => CloseIsQuiet
  BY DEF Stages, CloseIsQuiet
<1> QED
  BY <1>1, <1>2, <1>3, TypeCorrect, PTL DEF Spec

-----------------------------------------------------------------------------
(***************************************************************************)
(* NoGhostSocket does not hold.  What follows shows that one step alone     *)
(* breaks it: nothing else leaves a presence without an owner.              *)
(***************************************************************************)
\* The presence service owns only sockets whose registration is over, and a
\* socket is registered only after it was identified: handleDisconnect will
\* start a cleanup for it.
Owned ==
  /\ \A s \in Sockets : socket[s].pc \in {"joining", "open"} => socket[s].identified
  /\ \A s \in local : socket[s].pc = "open"

LEMMA OwnedStays ==
  ASSUME TypeOK, Owned, [Next]_vars
  PROVE  Owned'
<1> USE DEF TypeOK, Socket, Owned
<1>1. ASSUME NEW r \in Sockets, Handshake(r) \/ Connect(r) \/ Authenticate(r) PROVE Owned'
  <2>1. UNCHANGED local /\ \A s \in Sockets \ {r} : socket'[s] = socket[s]
    BY <1>1 DEF Handshake, Connect, Authenticate
  <2>2. r \notin local
    BY <1>1 DEF Handshake, Connect, Authenticate
  <2>3. socket'[r].pc \in {"joining", "open"} => socket'[r].identified
    <3>1. CASE Handshake(r)
      BY <3>1 DEF Handshake
    <3>2. CASE Connect(r)
      BY <3>2 DEF Connect
    <3>3. CASE Authenticate(r)
      <4>1. socket' = [socket EXCEPT ![r] = [socket[r] EXCEPT !.pc = "joining",
                                                            !.identified = TRUE]]
        BY <3>3 DEF Authenticate
      <4> QED
        BY <4>1, Zenon
    <3> QED
      BY <1>1, <3>1, <3>2, <3>3
  <2> QED
    BY <2>1, <2>2, <2>3
<1>2. ASSUME NEW r \in Sockets, RejectConnection(r) PROVE Owned'
  BY <1>2 DEF RejectConnection, Refused
<1>3. ASSUME NEW r \in Sockets, RegisterSocket(r) PROVE Owned'
  <2>1. /\ local' = local \cup {r} /\ socket[r].pc = "joining"
        /\ \A s \in Sockets \ {r} : socket'[s] = socket[s]
        /\ socket'[r].pc = "open" /\ socket'[r].identified = socket[r].identified
    BY <1>3 DEF RegisterSocket, Refused
  <2> QED
    BY <2>1
<1>4. ASSUME NEW S, Disconnected(S), UNCHANGED local PROVE Owned'
  BY <1>4 DEF Disconnected
<1>5. CASE UNCHANGED socket /\ local' \subseteq local
  BY <1>5
<1> QED
  BY <1>1, <1>2, <1>3, <1>4, <1>5
     DEF Next, SocketArrives, SocketStep, SocketTask, ShutdownStep, AdmitRequest,
     FinishRequest, ClientDisconnects, UnregisterSocket, RefreshPresence,
     StartCommand, FinishCommand, CheckReadiness, ConnectAdapter, InstallAdapter,
     Signal, StopSockets, DisconnectSockets, SocketsStopped, IntakeStopped,
     CloseApplication, ExitNonZero, RedisFails, RedisReturns, RedisForgets, vars

\* A disconnection, a cleanup or a refusal never makes a ghost.
LEMMA GhostMoves ==
  ASSUME TypeOK, Owned, [Next]_vars, NEW s \in Sockets, ~Ghost(s), Ghost(s)'
  PROVE  RegisterSocket(s) /\ ~socket[s].connected
<1> USE DEF TypeOK, Socket, Owned, Ghost
<1>1. ASSUME NEW r \in Sockets,
             Handshake(r) \/ Connect(r) \/ Authenticate(r) \/ RejectConnection(r)
      PROVE  FALSE
  <2>1. UNCHANGED local /\ s # r
    BY <1>1 DEF Handshake, Connect, Authenticate, RejectConnection
  <2>2. socket'[s] = socket[s] /\ cleanup \subseteq cleanup'
    BY <1>1, <2>1 DEF Handshake, Connect, Authenticate, RejectConnection, Refused
  <2> QED
    BY <2>1, <2>2
<1>2. ASSUME NEW r \in Sockets, RegisterSocket(r)
      PROVE  RegisterSocket(s) /\ ~socket[s].connected
  <2>1. CASE r # s
    <3>1. local' = local \cup {r} /\ socket'[s] = socket[s] /\ cleanup \subseteq cleanup'
      BY <1>2, <2>1 DEF RegisterSocket, Refused
    <3> QED
      BY <2>1, <3>1
  <2>2. CASE r = s /\ socket[s].connected
    <3>1. socket[s].identified
      BY <1>2, <2>2 DEF RegisterSocket
    <3>2. socket'[s].connected \/ s \in cleanup'
      BY <1>2, <2>2, <3>1 DEF RegisterSocket, Refused
    <3> QED
      BY <3>2
  <2> QED
    BY <1>2, <2>1, <2>2
<1>3. ASSUME NEW S, Disconnected(S), UNCHANGED local PROVE FALSE
  <2>1. socket[s].identified
    BY <1>3
  <2>2. CASE s \in S
    BY <1>3, <2>1, <2>2 DEF Disconnected
  <2>3. CASE s \notin S
    BY <1>3, <2>3 DEF Disconnected
  <2> QED
    BY <2>2, <2>3
<1>4. ASSUME NEW r \in Sockets, UnregisterSocket(r) PROVE FALSE
  BY <1>4 DEF UnregisterSocket
<1>5. CASE UNCHANGED <<socket, local, cleanup>>
  BY <1>5
<1> QED
  BY <1>1, <1>2, <1>3, <1>4, <1>5
     DEF Next, SocketArrives, SocketStep, SocketTask, ShutdownStep, AdmitRequest,
     FinishRequest, ClientDisconnects, RefreshPresence, StartCommand,
     FinishCommand, CheckReadiness, ConnectAdapter, InstallAdapter, Signal,
     StopSockets, DisconnectSockets, SocketsStopped, IntakeStopped,
     CloseApplication, ExitNonZero, RedisFails, RedisReturns, RedisForgets, vars

\* The one way a presence loses its owner: handleConnection registers a socket
\* that was disconnected, and cleaned up, while it was joining its rooms.
\* Shutdown, adapter replacement, refused registrations and Redis outages never
\* do it, so a check of the connection in that handler would end it.
THEOREM GhostsComeFromLateRegistrations ==
  Spec => [][\A s \in Sockets : ~Ghost(s) /\ Ghost(s)' =>
               RegisterSocket(s) /\ ~socket[s].connected]_vars
<1>1. Init => Owned
  BY DEF Init, Owned
<1>2. TypeOK /\ Owned /\ [Next]_vars => Owned'
  BY OwnedStays
<1>3. TypeOK /\ Owned /\ [Next]_vars =>
        [\A s \in Sockets : ~Ghost(s) /\ Ghost(s)' =>
           RegisterSocket(s) /\ ~socket[s].connected]_vars
  BY GhostMoves
<1> QED
  BY <1>1, <1>2, <1>3, TypeCorrect, PTL DEF Spec

=============================================================================
