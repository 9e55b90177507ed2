-------------------------- MODULE RealtimeLifecycle --------------------------
(***************************************************************************)
(* One API process: the work it has admitted, the sockets of its realtime   *)
(* gateway, the gateway's Redis adapter, the presence its sockets have in   *)
(* Redis, and the graceful shutdown that drains all of it.                  *)
(*                                                                         *)
(* Handlers are asynchronous: what runs between two awaits is one action.   *)
(* The presence store queues its operations, so the registration and the    *)
(* cleanup of one socket take effect in the order in which they start.      *)
(*                                                                         *)
(* The sockets are those of one user, and presence is enabled for the user. *)
(* Left out: rooms and published events, typing, the management server, the *)
(* drain of queue workers, which the shutdown awaits beside the sockets and *)
(* which RepeatSchedules begins, and the closing of Redis clients.          *)
(***************************************************************************)
EXTENDS Naturals, FiniteSets

CONSTANTS
  Sockets,            \* connection attempts, one socket id each
  Requests,           \* HTTP requests
  AllowLocalFallback, \* presence may live on in memory: TRUE outside production
  MaxOutages,         \* bound of the model: how often Redis may fail
  MaxGeneration       \* bound of the model: adapters the gateway may go through

ASSUME FallbackAssumption == AllowLocalFallback \in BOOLEAN
ASSUME BoundsAssumption == MaxOutages \in Nat /\ MaxGeneration \in Nat

VARIABLES
  shutdown,    \* the shutdown coordinator
  http,        \* each HTTP request
  socket,      \* each socket, and its handleConnection
  commands,    \* the sockets with an admitted command in flight
  adapter,     \* adapterLifecycleState and adapterGeneration
  recovery,    \* the adapter replacement in flight
  stop,        \* the disconnection of all sockets for the shutdown
  cleanup,     \* presenceCleanup: sockets whose unregistration is under way
  local,       \* the sockets the presence service and its store own
  store,       \* whether the presence store is ready to use Redis
  redis        \* Redis: whether it answers, and its socket set of the user

process == <<shutdown, http>>
gateway == <<socket, commands, cleanup>>
presence == <<local, store, redis>>
vars == <<shutdown, http, socket, commands, adapter, recovery, stop, cleanup,
          local, store, redis>>

-----------------------------------------------------------------------------
Exited == {"exited_0", "exited_1"}
Running == shutdown \notin Exited
Draining == shutdown # "running"

SocketStates == {"none", "handshake", "authenticating", "joining", "open", "over"}
Socket == [pc : SocketStates, connected : BOOLEAN, identified : BOOLEAN,
           generation : Nat]

NoFlight == [at |-> "none", waits |-> {}]
Flight(states) == [at : states, waits : SUBSET Sockets]

\* Leases of tryAdmit that have not been released.
SocketWork == {s \in Sockets : socket[s].pc \in {"authenticating", "joining"}} \cup commands
HttpWork == {h \in Requests : http[h] = "admitted"}
Idle == SocketWork = {} /\ HttpWork = {}

CanAdmitSockets == adapter.state = "ready" /\ ~Draining

Init ==
  /\ shutdown = "running"
  /\ http = [h \in Requests |-> "none"]
  /\ socket = [s \in Sockets |-> [pc |-> "none", connected |-> FALSE,
                                  identified |-> FALSE, generation |-> 0]]
  /\ commands = {}
  /\ adapter = [state |-> "ready", generation |-> 1]
  /\ recovery = NoFlight
  /\ stop = NoFlight
  /\ cleanup = {}
  /\ local = {}
  /\ store = "ready"
  /\ redis = [up |-> TRUE, sockets |-> {}, outages |-> 0]

-----------------------------------------------------------------------------
(***************************************************************************)
(* HTTP requests.  The server and the guard turn work away while draining.  *)
(***************************************************************************)
AdmitRequest(h) ==
  /\ http[h] = "none"
  /\ ~Draining
  /\ http' = [http EXCEPT ![h] = "admitted"]
  /\ UNCHANGED <<shutdown, gateway, adapter, recovery, stop, presence>>

FinishRequest(h) ==
  /\ Running
  /\ http[h] = "admitted"
  /\ http' = [http EXCEPT ![h] = "done"]
  /\ UNCHANGED <<shutdown, gateway, adapter, recovery, stop, presence>>

-----------------------------------------------------------------------------
(***************************************************************************)
(* The presence store: an operation first restores a store that lost Redis, *)
(* which writes every owned socket back.                                    *)
(***************************************************************************)
Reconciled == IF store = "ready" THEN redis.sockets ELSE redis.sockets \cup local

\* The Redis half of an operation that leaves the user's set as given.
StoreReaches(sockets) ==
  /\ redis.up
  /\ store' = "ready"
  /\ redis' = [redis EXCEPT !.sockets = sockets]

StoreMisses ==
  /\ ~redis.up
  /\ store' = "lost"
  /\ UNCHANGED redis

\* client.data says whose presence it is.
extractPresenceInput(s) == socket[s].identified

\* Every socket in S loses its connection; handleDisconnect starts a cleanup
\* for the ones that were identified.
Disconnected(S) ==
  /\ socket' = [s \in Sockets |->
                  IF s \in S THEN [socket[s] EXCEPT !.connected = FALSE] ELSE socket[s]]
  /\ cleanup' = cleanup \cup {s \in S : extractPresenceInput(s)}

Connected == {s \in Sockets : socket[s].connected}

\* handleConnection gives up: client.disconnect(true), and the lease goes back.
Refused(s, pc) ==
  /\ socket' = [socket EXCEPT ![s].pc = pc, ![s].connected = FALSE]
  /\ cleanup' = IF socket[s].connected /\ extractPresenceInput(s)
                  THEN cleanup \cup {s} ELSE cleanup

-----------------------------------------------------------------------------
(***************************************************************************)
(* Sockets.                                                                 *)
(***************************************************************************)
\* The namespace middleware lets the handshake pass.
Handshake(s) ==
  /\ socket[s].pc = "none"
  /\ CanAdmitSockets
  /\ socket' = [socket EXCEPT ![s].pc = "handshake"]
  /\ UNCHANGED <<process, commands, cleanup, adapter, recovery, stop, presence>>

Connect(s) ==
  /\ Running
  /\ socket[s].pc = "handshake"
  /\ socket' = [socket EXCEPT ![s] =
       IF CanAdmitSockets
         THEN [@ EXCEPT !.pc = "authenticating", !.connected = TRUE,
                        !.generation = adapter.generation]
         ELSE [@ EXCEPT !.pc = "over"]]
  /\ UNCHANGED <<process, commands, cleanup, adapter, recovery, stop, presence>>

\* Admission is checked again after the authentication.
Authenticate(s) ==
  /\ Running
  /\ socket[s].pc = "authenticating"
  /\ CanAdmitSockets
  /\ socket[s].generation = adapter.generation
  /\ socket' = [socket EXCEPT ![s].pc = "joining", ![s].identified = TRUE]
  /\ UNCHANGED <<process, commands, cleanup, adapter, recovery, stop, presence>>

\* The credentials are bad, the second check fails, or the socket is identified
\* and joining its rooms or looking up the presence setting throws.
RejectConnection(s) ==
  /\ Running
  /\ socket[s].pc \in {"authenticating", "joining"}
  /\ Refused(s, "over")
  /\ UNCHANGED <<process, commands, adapter, recovery, stop, presence>>

\* Mutant: the presence service keeps the connection record, not the socket id.
RegisterRecord(s) ==
  /\ Running
  /\ socket[s].pc = "joining"
  /\ s \notin cleanup
  /\ local' = local \cup {socket[s]}
  /\ \/ /\ StoreReaches(Reconciled \cup {s})
        /\ socket' = [socket EXCEPT ![s].pc = "open"]
        /\ UNCHANGED cleanup
     \/ /\ StoreMisses
        /\ Refused(s, "open")
  /\ UNCHANGED <<process, commands, adapter, recovery, stop>>

\* The rooms are joined and the presence registered, after the socket was
\* identified: it may have been disconnected, and cleaned up, in the meantime.
RegisterSocket(s) ==
  /\ Running
  /\ socket[s].pc = "joining"
  /\ s \notin cleanup
  /\ local' = local \cup {s}
  /\ \/ /\ StoreReaches(Reconciled \cup {s})
        /\ socket' = [socket EXCEPT ![s].pc = "open"]
        /\ UNCHANGED cleanup
     \/ /\ StoreMisses
        /\ IF AllowLocalFallback
             THEN socket' = [socket EXCEPT ![s].pc = "open"] /\ UNCHANGED cleanup
             ELSE Refused(s, "open")
  /\ UNCHANGED <<process, commands, adapter, recovery, stop>>

ClientDisconnects(s) ==
  /\ Running
  /\ socket[s].connected
  /\ Disconnected({s})
  /\ UNCHANGED <<process, commands, adapter, recovery, stop, presence>>

\* unregisterSocket; what goes wrong in Redis is logged and forgotten.
UnregisterSocket(s) ==
  /\ Running
  /\ s \in cleanup
  /\ cleanup' = cleanup \ {s}
  /\ local' = local \ {s}
  /\ StoreReaches(Reconciled \ {s}) \/ StoreMisses
  /\ UNCHANGED <<process, socket, commands, adapter, recovery, stop>>

\* Mutant: the refresh only extends the life of a set that is there.
RefreshExtendsOnly(s) ==
  /\ Running
  /\ s \in local \ cleanup
  /\ StoreReaches(redis.sockets) \/ StoreMisses
  /\ UNCHANGED <<process, gateway, adapter, recovery, stop, local>>

\* The refresh timer: extends the life of the user's set, and puts back a
\* socket that is missing from it.
RefreshPresence(s) ==
  /\ Running
  /\ s \in local \ cleanup
  /\ StoreReaches(Reconciled \cup {s}) \/ StoreMisses
  /\ UNCHANGED <<process, gateway, adapter, recovery, stop, local>>

StartCommand(s) ==
  /\ socket[s].connected
  /\ socket[s].identified
  /\ s \notin commands
  /\ CanAdmitSockets
  /\ commands' = commands \cup {s}
  /\ UNCHANGED <<process, socket, cleanup, adapter, recovery, stop, presence>>

FinishCommand(s) ==
  /\ Running
  /\ s \in commands
  /\ commands' = commands \ {s}
  /\ UNCHANGED <<process, socket, cleanup, adapter, recovery, stop, presence>>

-----------------------------------------------------------------------------
(***************************************************************************)
(* The Redis adapter of the gateway: a failed readiness check replaces it,   *)
(* once no socket is left on the old one.                                   *)
(***************************************************************************)
\* Mutant: the sockets stay connected while the adapter is replaced.
CheckReadinessKeepsSockets ==
  /\ recovery.at = "none"
  /\ adapter.generation < MaxGeneration
  /\ \/ adapter.state = "ready" /\ ~redis.up /\ Running
     \/ adapter.state = "unavailable" /\ ~Draining
  /\ adapter' = [state |-> "recovering", generation |-> adapter.generation + 1]
  /\ recovery' = [at |-> "disconnecting", waits |-> cleanup]
  /\ UNCHANGED <<process, gateway, stop, presence>>

\* The drain is looked at before the ping: a check that was waiting for its
\* answer replaces the adapter although the shutdown has begun.
CheckReadiness ==
  /\ recovery.at = "none"
  /\ adapter.generation < MaxGeneration
  /\ \/ adapter.state = "ready" /\ ~redis.up /\ Running
     \/ adapter.state = "unavailable" /\ ~Draining
  /\ adapter' = [state |-> "recovering", generation |-> adapter.generation + 1]
  /\ Disconnected(Connected)
  /\ recovery' = [at |-> "disconnecting", waits |-> cleanup']
  /\ UNCHANGED <<process, commands, stop, presence>>

\* Mutant: a replacement that the shutdown overtook is left unsettled.
ConnectAdapterUnsettled ==
  /\ Running
  /\ recovery.at = "disconnecting"
  /\ recovery.waits \cap cleanup = {}
  /\ adapter.state # "destroying"
  /\ recovery' = [at |-> "connecting", waits |-> {}]
  /\ UNCHANGED <<process, gateway, adapter, stop, presence>>

\* The sockets are gone and their cleanups are done.
ConnectAdapter ==
  /\ Running
  /\ recovery.at = "disconnecting"
  /\ recovery.waits \cap cleanup = {}
  /\ recovery' = IF adapter.state = "destroying" THEN NoFlight
                 ELSE [at |-> "connecting", waits |-> {}]
  /\ UNCHANGED <<process, gateway, adapter, stop, presence>>

\* The candidate connects and answers, or it does not.
InstallAdapter ==
  /\ Running
  /\ recovery.at = "connecting"
  /\ recovery' = NoFlight
  /\ adapter' = [adapter EXCEPT !.state =
                   CASE @ = "destroying" -> @
                     [] @ # "destroying" /\ redis.up /\ ~Draining -> "ready"
                     [] OTHER -> "unavailable"]
  /\ UNCHANGED <<process, gateway, stop, presence>>

-----------------------------------------------------------------------------
(***************************************************************************)
(* The shutdown.                                                            *)
(***************************************************************************)
Signal ==
  /\ shutdown = "running"
  /\ shutdown' = "draining"
  /\ stop' = [at |-> "idle", waits |-> {}]
  /\ UNCHANGED <<http, gateway, adapter, recovery, presence>>

\* Mutant: the sockets are disconnected without waiting for admitted work.
StopSocketsAtOnce ==
  /\ shutdown = "draining"
  /\ stop.at = "idle"
  /\ adapter' = [adapter EXCEPT !.state = "destroying"]
  /\ stop' = [stop EXCEPT !.at = "recovery"]
  /\ UNCHANGED <<process, gateway, recovery, presence>>

\* waitForIdle is over: disconnectSocketsForShutdown begins.
StopSockets ==
  /\ shutdown = "draining"
  /\ stop.at = "idle"
  /\ Idle
  /\ adapter' = [adapter EXCEPT !.state = "destroying"]
  /\ stop' = [stop EXCEPT !.at = "recovery"]
  /\ UNCHANGED <<process, gateway, recovery, presence>>

DisconnectSockets ==
  /\ shutdown = "draining"
  /\ stop.at = "recovery"
  /\ recovery.at = "none"
  /\ Disconnected(Connected)
  /\ stop' = [at |-> "cleanup", waits |-> cleanup']
  /\ UNCHANGED <<process, commands, adapter, recovery, presence>>

SocketsStopped ==
  /\ shutdown = "draining"
  /\ stop.at = "cleanup"
  /\ stop.waits \cap cleanup = {}
  /\ stop' = [at |-> "done", waits |-> {}]
  /\ UNCHANGED <<process, gateway, adapter, recovery, presence>>

\* Every intake operation is over: app.close() may begin.
IntakeStopped ==
  /\ shutdown = "draining"
  /\ stop.at = "done"
  /\ HttpWork = {}
  /\ shutdown' = "closing"
  /\ UNCHANGED <<http, gateway, adapter, recovery, stop, presence>>

CloseApplication ==
  /\ shutdown = "closing"
  /\ shutdown' = "exited_0"
  /\ UNCHANGED <<http, gateway, adapter, recovery, stop, presence>>

\* The timeout, a failed close, or a second signal.
ExitNonZero ==
  /\ shutdown \in {"draining", "closing"}
  /\ shutdown' = "exited_1"
  /\ UNCHANGED <<http, gateway, adapter, recovery, stop, presence>>

-----------------------------------------------------------------------------
(***************************************************************************)
(* Redis.  The user's set lives as long as somebody refreshes it.           *)
(***************************************************************************)
RedisFails ==
  /\ redis.up
  /\ redis.outages < MaxOutages
  /\ redis' = [redis EXCEPT !.up = FALSE, !.outages = @ + 1]
  /\ UNCHANGED <<process, gateway, adapter, recovery, stop, local, store>>

RedisReturns ==
  /\ ~redis.up
  /\ redis' = [redis EXCEPT !.up = TRUE]
  /\ UNCHANGED <<process, gateway, adapter, recovery, stop, local, store>>

RedisForgets ==
  /\ redis.sockets # {}
  /\ redis.up => ~Running \/ local \ cleanup = {}
  /\ redis' = [redis EXCEPT !.sockets = {}]
  /\ UNCHANGED <<process, gateway, adapter, recovery, stop, local, store>>

-----------------------------------------------------------------------------
SocketStep(s) == \/ Connect(s) \/ Authenticate(s) \/ RejectConnection(s)
                 \/ RegisterSocket(s)

SocketArrives(s) == Handshake(s) \/ StartCommand(s) \/ ClientDisconnects(s)

SocketTask(s) == UnregisterSocket(s) \/ FinishCommand(s) \/ RefreshPresence(s)

ShutdownStep == \/ StopSockets \/ DisconnectSockets \/ SocketsStopped
                \/ IntakeStopped \/ CloseApplication

Next == \/ \E h \in Requests : AdmitRequest(h) \/ FinishRequest(h)
        \/ \E s \in Sockets : SocketArrives(s) \/ SocketStep(s) \/ SocketTask(s)
        \/ CheckReadiness \/ ConnectAdapter \/ InstallAdapter
        \/ Signal \/ ShutdownStep \/ ExitNonZero
        \/ RedisFails \/ RedisReturns \/ RedisForgets

Spec == Init /\ [][Next]_vars

\* Work that was begun goes on: a handler's next await returns, the refresh
\* timer fires, the shutdown takes its next step, Redis comes back.  Nothing
\* has to arrive, and the shutdown timeout is not relied upon.
FairSpec == /\ Spec
            /\ \A h \in Requests : WF_vars(FinishRequest(h))
            /\ \A s \in Sockets : /\ WF_vars(SocketStep(s))
                                  /\ WF_vars(UnregisterSocket(s))
                                  /\ WF_vars(FinishCommand(s))
                                  /\ WF_vars(RefreshPresence(s))
            /\ WF_vars(ConnectAdapter) /\ WF_vars(InstallAdapter)
            /\ WF_vars(ShutdownStep)
            /\ WF_vars(RedisReturns)

-----------------------------------------------------------------------------
TypeOK ==
  /\ shutdown \in {"running", "draining", "closing"} \cup Exited
  /\ http \in [Requests -> {"none", "admitted", "done"}]
  /\ socket \in [Sockets -> Socket]
  /\ commands \subseteq Sockets
  /\ adapter \in [state : {"ready", "recovering", "unavailable", "destroying"},
                  generation : Nat]
  /\ recovery \in Flight({"none", "disconnecting", "connecting"})
  /\ stop \in Flight({"none", "idle", "recovery", "cleanup", "done"})
  /\ cleanup \subseteq Sockets
  /\ local \subseteq Sockets
  /\ store \in {"ready", "lost"}
  /\ redis \in [up : BOOLEAN, sockets : SUBSET Sockets, outages : 0..MaxOutages]

\* The application closes its resources, and the process exits with status 0,
\* only when no admitted request, connection or command is still at work, no
\* socket is connected and no presence cleanup is pending, although sockets
\* were in every stage of their admission when the signal came.
CloseIsQuiet ==
  shutdown \in {"closing", "exited_0"} =>
    Idle /\ Connected = {} /\ cleanup = {}

\* No connected socket is left on an adapter that has been replaced.
OneAdapterGeneration ==
  \A s \in Connected : socket[s].generation = adapter.generation

\* A socket that is done with its handlers and not connected any more, and
\* that the presence service still owns and refreshes.
Ghost(s) ==
  /\ socket[s].pc \in {"open", "over"}
  /\ ~socket[s].connected
  /\ s \in local \ cleanup

\* A socket keeps its presence only while it is owned: what is not connected
\* any more and is done with its handlers is not refreshed.
NoGhostSocket == \A s \in Sockets : ~Ghost(s)

\* A shutdown ends by itself: its waits for the leases, for an adapter
\* replacement and for the cleanups never wait for each other.
ShutdownEnds == shutdown = "draining" ~> shutdown \in Exited

\* A socket that stays connected gets its presence in Redis back, whatever
\* Redis lost in an outage.
PresenceIsRestored ==
  \A s \in Sockets :
    socket[s].pc = "open" /\ socket[s].connected ~>
      s \in redis.sockets \/ ~socket[s].connected \/ ~Running

=============================================================================
