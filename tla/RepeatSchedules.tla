---------------------------- MODULE RepeatSchedules ----------------------------
(***************************************************************************)
(* The repeat jobs of the Maintenance Scheduler: BullmqService keeps the   *)
(* schedules that the code asks for (desired) and those it registered on   *)
(* the current connection (active), forgets the latter when the connection *)
(* closes and restores them when it is ready again.                        *)
(* (src/src/infrastructure/queue/bullmq.service.ts)                        *)
(*                                                                         *)
(* A step is a piece of code between two awaits.  restore runs as one      *)
(* shared "flight" that every caller joins.                                *)
(***************************************************************************)
EXTENDS Naturals

CONSTANTS
    Schedules,    \* repeat definitions (queue, job, interval)
    NoSchedule,   \* no add command is in flight
    MaxFaults,    \* bound on Redis restarts and failed connects
    MaxTimeouts   \* bound on add commands that fail on a live connection

ASSUME NoScheduleAssumption == NoSchedule \notin Schedules
ASSUME MaxFaultsAssumption == MaxFaults \in Nat
ASSUME MaxTimeoutsAssumption == MaxTimeouts \in Nat

VARIABLES
    redis,       \* the schedules that exist in Queue Redis
    conn,        \* status of the command connection
    broken,      \* TRUE: Redis went away and the close event is yet to come
    desired,     \* desiredRepeatRegistrations
    active,      \* repeatRegistrations
    flight,      \* repeatRestorationFlight: none, or what it awaits
    todo, adding,\* the flight's list of missing schedules and its current one
    reg,         \* each schedule's registerRepeatJob call at startup
    isShuttingDown,
    faults, timeouts

link == <<redis, conn, broken>>
flightVars == <<flight, todo, adding>>
bounds == <<faults, timeouts>>
vars == <<link, desired, active, flightVars, reg, isShuttingDown, bounds>>

Init ==
    /\ redis \in SUBSET Schedules
    /\ conn = "wait" /\ broken = FALSE
    /\ desired = {} /\ active = {}
    /\ flight = "none" /\ todo = {} /\ adding = NoSchedule
    /\ reg = [s \in Schedules |-> "idle"]
    /\ isShuttingDown = FALSE
    /\ faults = 0 /\ timeouts = 0

\* The process gave up starting: a registration was rejected.
StartFailed == \E s \in Schedules : reg[s] = "failed"

(***************************************************************************)
(* restoreDesiredRepeatRegistrations / executeRepeatRestoration            *)
(***************************************************************************)
\* ensureCommandConnectionReady on a connection in status c: ready passes, a
\* lazy connection is opened, anything else is an error.
EnsureReady(c) ==
    CASE c = "ready" -> "begin"
      [] c = "wait" -> "connect"
      [] OTHER -> "refused"

\* A caller joins the flight under way or starts one.
Join(c) ==
    /\ flight' = IF flight = "none" THEN EnsureReady(c) ELSE flight
    /\ conn' = IF flight = "none" /\ c = "wait" THEN "connecting" ELSE c
    /\ UNCHANGED <<todo, adding>>

\* Mutant: repeatRestorationFlight is not cleared.
LandLeaks(ok, registered) ==
    /\ todo' = {} /\ adding' = NoSchedule
    /\ reg' = [s \in Schedules |-> IF reg[s] = "waiting" THEN "done" ELSE reg[s]]
    /\ UNCHANGED flight

\* The flight ends and every registerRepeatJob that awaits it goes on: an error
\* is rethrown, otherwise the call ends once its own schedule is active.
Land(ok, registered) ==
    /\ flight' = "none" /\ todo' = {} /\ adding' = NoSchedule
    /\ reg' = [s \in Schedules |->
                 IF reg[s] # "waiting" THEN reg[s]
                 ELSE IF ~ok THEN "failed"
                 ELSE IF s \in registered THEN "done" ELSE "idle"]

\* The loops of executeRepeatRestoration: the rest of the list, then whatever
\* is still missing, until nothing is or the service shuts down.
GoOn(rest, registered) ==
    LET missing == IF rest # {} THEN rest ELSE desired \ registered
    IN  IF isShuttingDown THEN Land(FALSE, registered)
        ELSE IF missing = {} THEN Land(TRUE, registered)
        ELSE /\ flight' = "add"
             /\ todo' = missing
             /\ adding' \in missing
             /\ UNCHANGED reg

(***************************************************************************)
(* registerRepeatJob, called by the schedules' onModuleInit                *)
(***************************************************************************)
\* Mutant: the call does not look at isShuttingDown.
registerWhileClosing(s) ==
    /\ reg[s] = "idle" /\ ~StartFailed
    /\ desired' = desired \cup {s}
    /\ reg' = [reg EXCEPT ![s] = "waiting"]
    /\ Join(conn)
    /\ UNCHANGED <<redis, broken, active, isShuttingDown, bounds>>

registerRepeatJob(s) ==
    /\ reg[s] = "idle" /\ ~StartFailed
    /\ desired' = desired \cup {s}
    /\ IF isShuttingDown
       THEN reg' = [reg EXCEPT ![s] = "failed"] /\ UNCHANGED <<conn, flightVars>>
       ELSE reg' = [reg EXCEPT ![s] = "waiting"] /\ Join(conn)
    /\ UNCHANGED <<redis, broken, active, isShuttingDown, bounds>>

\* bootstrap fails, the process exits and is started again.
Restart ==
    /\ StartFailed
    /\ conn' = "wait" /\ broken' = FALSE
    /\ desired' = {} /\ active' = {}
    /\ flight' = "none" /\ todo' = {} /\ adding' = NoSchedule
    /\ reg' = [s \in Schedules |-> "idle"]
    /\ isShuttingDown' = FALSE
    /\ UNCHANGED <<redis, bounds>>

(***************************************************************************)
(* The flight                                                              *)
(***************************************************************************)
\* The connection was ready: the loops start.
Begin ==
    /\ flight = "begin"
    /\ GoOn({}, active)
    /\ UNCHANGED <<link, desired, active, isShuttingDown, bounds>>

Refused ==
    /\ flight = "refused"
    /\ Land(FALSE, active)
    /\ UNCHANGED <<link, desired, active, isShuttingDown, bounds>>

\* The ready handler joins the flight that opened the connection.
Connects ==
    /\ flight = "connect" /\ conn = "connecting"
    /\ conn' = "ready"
    /\ IF isShuttingDown THEN Land(FALSE, active)
       ELSE flight' = "begin" /\ UNCHANGED <<todo, adding, reg>>
    /\ UNCHANGED <<redis, broken, desired, active, isShuttingDown, bounds>>

ConnectFails ==
    /\ flight = "connect" /\ conn = "connecting"
    /\ faults < MaxFaults /\ faults' = faults + 1
    /\ conn' = "down"
    /\ Land(FALSE, active)
    /\ UNCHANGED <<redis, broken, desired, active, isShuttingDown, timeouts>>

AddSucceeds ==
    /\ flight = "add" /\ conn = "ready" /\ ~broken
    /\ redis' = redis \cup {adding}
    /\ active' = active \cup {adding}
    /\ GoOn(todo \ {adding}, active')
    /\ UNCHANGED <<conn, broken, desired, isShuttingDown, bounds>>

\* The command times out or is refused on a live connection.
AddFails ==
    /\ flight = "add" /\ conn = "ready"
    /\ timeouts < MaxTimeouts /\ timeouts' = timeouts + 1
    /\ redis' \in {redis, IF broken THEN redis ELSE redis \cup {adding}}
    /\ active' = active \ {adding}
    /\ Land(FALSE, active')
    /\ UNCHANGED <<conn, broken, desired, isShuttingDown, faults>>

(***************************************************************************)
(* The connection                                                          *)
(***************************************************************************)
\* Redis restarts, with its data or replaced by an empty one.
RedisRestarts ==
    /\ faults < MaxFaults /\ faults' = faults + 1
    /\ redis' \in {redis, {}}
    /\ broken' = (conn = "ready")
    /\ UNCHANGED <<conn, desired, active, flightVars, reg, isShuttingDown, timeouts>>

\* Mutant: the close handler keeps the registrations.
AfterCloseKept == active

\* What the close handler leaves of the active registrations.
AfterClose == {}

\* The close handler; the command in flight is rejected.
Closes ==
    /\ conn = "ready" /\ broken
    /\ conn' = "down" /\ broken' = FALSE
    /\ active' = AfterClose
    /\ IF flight \in {"begin", "add"} THEN Land(FALSE, active')
       ELSE UNCHANGED <<flightVars, reg>>
    /\ UNCHANGED <<redis, desired, isShuttingDown, bounds>>

\* Mutant: the ready handler restores nothing.
ReconnectsOnly ==
    /\ conn = "down"
    /\ conn' = "ready"
    /\ UNCHANGED <<redis, broken, desired, active, flightVars, reg, isShuttingDown, bounds>>

\* The ready handler after a reconnect.
Reconnects ==
    /\ conn = "down"
    /\ IF isShuttingDown \/ desired = {}
       THEN conn' = "ready" /\ UNCHANGED flightVars
       ELSE Join("ready")
    /\ UNCHANGED <<redis, broken, desired, active, reg, isShuttingDown, bounds>>

(***************************************************************************)
(* beginWorkerDrain sets the flag; shutdown awaits the flight, then closes *)
(* the connection.                                                         *)
(***************************************************************************)
BeginDrain ==
    /\ ~isShuttingDown /\ ~StartFailed
    /\ isShuttingDown' = TRUE
    /\ UNCHANGED <<link, desired, active, flightVars, reg, bounds>>

CloseConnection ==
    /\ isShuttingDown /\ flight = "none" /\ conn # "end"
    /\ conn' = "end" /\ broken' = FALSE /\ active' = {}
    /\ UNCHANGED <<redis, desired, flightVars, reg, isShuttingDown, bounds>>

FlightStep == Begin \/ Refused \/ Connects \/ AddSucceeds

Next ==
    \/ \E s \in Schedules : registerRepeatJob(s)
    \/ FlightStep \/ ConnectFails \/ AddFails
    \/ Restart \/ RedisRestarts \/ Closes \/ Reconnects
    \/ BeginDrain \/ CloseConnection

(***************************************************************************)
(* The event loop serves the flight and the connection's events, Redis is  *)
(* reachable again at some point, and a failed start is repeated.          *)
(***************************************************************************)
Fairness ==
    /\ WF_vars(FlightStep) /\ WF_vars(Closes) /\ WF_vars(Reconnects)
    /\ WF_vars(Restart) /\ WF_vars(CloseConnection)
    /\ \A s \in Schedules : WF_vars(registerRepeatJob(s))

Spec == Init /\ [][Next]_vars
FairSpec == Spec /\ Fairness

-----------------------------------------------------------------------------
TypeOK ==
    /\ redis \in SUBSET Schedules
    /\ conn \in {"wait", "connecting", "ready", "down", "end"}
    /\ broken \in BOOLEAN
    /\ desired \in SUBSET Schedules /\ active \in SUBSET Schedules
    /\ flight \in {"none", "connect", "begin", "refused", "add"}
    /\ todo \in SUBSET Schedules /\ adding \in Schedules \cup {NoSchedule}
    /\ reg \in [Schedules -> {"idle", "waiting", "done", "failed"}]
    /\ isShuttingDown \in BOOLEAN
    /\ faults \in 0..MaxFaults /\ timeouts \in 0..MaxTimeouts

\* What readiness reports as active does exist in Redis, except in the moment
\* between Redis going away and the close event: nothing registered on an
\* earlier connection is carried over to the next.
ActiveIsReal == ~broken => active \subseteq redis

\* Once shutdown has closed the connection no restoration is under way, so no
\* command is sent on it: neither a registration nor a late ready event starts
\* a flight after the flag is set and the last one was awaited.
ClosedIsQuiet == conn = "end" => flight = "none"

Restored == isShuttingDown \/ (desired = Schedules /\ desired \subseteq active)

\* As long as the service is not shutting down, every connection loss is
\* followed by a state in which all desired schedules are registered again,
\* whatever restarts and connects fail: unless an add command has failed on a
\* live connection.
RestoredUnlessTimedOut == []<>(Restored \/ timeouts > 0)

=============================================================================
