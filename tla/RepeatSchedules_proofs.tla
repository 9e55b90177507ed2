------------------------ MODULE RepeatSchedules_proofs ------------------------
(***************************************************************************)
(* For any set of repeat definitions and any number of faults: what        *)
(* readiness reports is in Redis, a connected service rests only when all  *)
(* schedules are restored, and a closed service stays quiet.               *)
(***************************************************************************)
EXTENDS RepeatSchedules, TLAPS

\* The inductive invariant.  ActiveIsReal needs that nothing is active without
\* a connection, because Redis may be replaced unnoticed while there is none;
\* ClosedIsQuiet needs that the flag is up once the connection is closed.
Inv ==
    /\ ActiveIsReal
    /\ conn # "ready" => active = {}
    /\ conn = "end" => isShuttingDown = TRUE /\ flight = "none"

\* A flight that adds has a schedule to add; TypeOK needs it to be inductive.
Typed == TypeOK /\ (flight = "add" => adding \in Schedules)

\* What a flight leaves when a step of it is over, whichever way it goes on.
LEMMA GoOnTyped ==
    ASSUME TypeOK, NEW rest \in SUBSET Schedules, NEW registered,
           GoOn(rest, registered)
    PROVE  /\ flight' \in {"none", "add"} /\ todo' \in SUBSET Schedules
           /\ adding' \in Schedules \cup {NoSchedule}
           /\ flight' = "add" => adding' \in Schedules
           /\ reg' \in [Schedules -> {"idle", "waiting", "done", "failed"}]
  BY DEF TypeOK, GoOn, Land

LEMMA LandTyped ==
    ASSUME TypeOK, NEW ok \in BOOLEAN, NEW registered, Land(ok, registered)
    PROVE  /\ flight' = "none" /\ todo' \in SUBSET Schedules
           /\ adding' \in Schedules \cup {NoSchedule}
           /\ reg' \in [Schedules -> {"idle", "waiting", "done", "failed"}]
  BY DEF TypeOK, Land

\* Type correctness of every variable, for any schedules and bounds.
THEOREM TypeCorrect == Spec => []TypeOK
<1>1. Init => Typed
  <2> SUFFICES ASSUME Init PROVE Typed
    OBVIOUS
  <2>1. faults \in 0..MaxFaults /\ timeouts \in 0..MaxTimeouts
    BY MaxFaultsAssumption, MaxTimeoutsAssumption DEF Init
  <2> QED
    BY <2>1 DEF Init, TypeOK, Typed
<1>2. Typed /\ [Next]_vars => Typed'
  <2> SUFFICES ASSUME Typed, [Next]_vars PROVE Typed'
    OBVIOUS
  <2>0. TypeOK
    BY DEF Typed
  <2> USE DEF Typed, TypeOK, link, flightVars, bounds
  <2>1. ASSUME NEW s \in Schedules, registerRepeatJob(s) PROVE Typed'
    BY <2>1 DEF registerRepeatJob, Join, EnsureReady
  <2>2. CASE Restart
    BY <2>2 DEF Restart
  <2>3. CASE Begin
    <3>1. GoOn({}, active)
      BY <2>3 DEF Begin
    <3> QED
      BY <2>0, <2>3, <3>1, GoOnTyped DEF Begin
  <2>3a. CASE Refused
    BY <2>0, <2>3a, LandTyped DEF Refused
  <2>4. CASE Connects
    BY <2>0, <2>4, LandTyped DEF Connects
  <2>5. CASE ConnectFails
    <3>1. faults' \in 0..MaxFaults
      BY <2>5, MaxFaultsAssumption DEF ConnectFails
    <3>2. Land(FALSE, active) /\ conn' = "down"
      BY <2>5 DEF ConnectFails
    <3> QED
      BY <2>0, <2>5, <3>1, <3>2, LandTyped DEF ConnectFails
  <2>6. CASE AddSucceeds
    <3>1. todo \ {adding} \in SUBSET Schedules /\ GoOn(todo \ {adding}, active')
      BY <2>6 DEF AddSucceeds
    <3>2. redis' \in SUBSET Schedules /\ active' \in SUBSET Schedules
      BY <2>6 DEF AddSucceeds
    <3> QED
      BY <2>0, <2>6, <3>1, <3>2, GoOnTyped DEF AddSucceeds
  <2>7. CASE AddFails
    <3>1. timeouts' \in 0..MaxTimeouts
      BY <2>7, MaxTimeoutsAssumption DEF AddFails
    <3>2. Land(FALSE, active')
      BY <2>7 DEF AddFails
    <3>3. redis' \in SUBSET Schedules /\ active' \in SUBSET Schedules
      BY <2>7 DEF AddFails
    <3> QED
      BY <2>0, <2>7, <3>1, <3>2, <3>3, LandTyped DEF AddFails
  <2>8. CASE RedisRestarts
    <3>1. broken' \in BOOLEAN
      BY <2>8 DEF RedisRestarts
    <3>2. faults' \in 0..MaxFaults /\ redis' \in SUBSET Schedules
      BY <2>8, MaxFaultsAssumption DEF RedisRestarts
    <3> QED
      BY <2>8, <3>1, <3>2 DEF RedisRestarts
  <2>9. CASE Closes
    BY <2>0, <2>9, LandTyped DEF Closes, AfterClose
  <2>10. CASE Reconnects
    BY <2>10 DEF Reconnects, Join, EnsureReady
  <2>11. CASE BeginDrain \/ CloseConnection
    BY <2>11 DEF BeginDrain, CloseConnection
  <2>12. CASE UNCHANGED vars
    BY <2>12 DEF vars
  <2> QED
    BY <2>1, <2>2, <2>3, <2>3a, <2>4, <2>5, <2>6, <2>7, <2>8, <2>9, <2>10, <2>11, <2>12
       DEF Next, FlightStep
<1> QED
  BY <1>1, <1>2, PTL DEF Spec, Typed

\* Inv holds in every state, for any schedules and any number of faults.
LEMMA InvHolds == Spec => []Inv
<1>1. Init => Inv
  BY DEF Init, Inv, ActiveIsReal
<1>2. Inv /\ [Next]_vars => Inv'
  <2> SUFFICES ASSUME Inv, [Next]_vars PROVE Inv'
    OBVIOUS
  <2> USE DEF Inv, ActiveIsReal, link, flightVars, bounds
  <2>1. ASSUME NEW s \in Schedules, registerRepeatJob(s) PROVE Inv'
    BY <2>1 DEF registerRepeatJob, Join, EnsureReady
  <2>2. CASE Restart
    BY <2>2 DEF Restart
  <2>3. CASE Begin
    BY <2>3 DEF Begin
  <2>3a. CASE Refused
    BY <2>3a DEF Refused, Land
  <2>4. CASE Connects
    BY <2>4 DEF Connects
  <2>5. CASE ConnectFails
    BY <2>5 DEF ConnectFails
  <2>6. CASE AddSucceeds
    BY <2>6 DEF AddSucceeds
  <2>7. CASE AddFails
    BY <2>7 DEF AddFails
  <2>8. CASE RedisRestarts
    BY <2>8 DEF RedisRestarts
  <2>9. CASE Closes
    BY <2>9 DEF Closes, AfterClose
  <2>10. CASE Reconnects
    BY <2>10 DEF Reconnects, Join, EnsureReady
  <2>11. CASE BeginDrain
    BY <2>11 DEF BeginDrain
  <2>12. CASE CloseConnection
    BY <2>12 DEF CloseConnection
  <2>13. CASE UNCHANGED vars
    BY <2>13 DEF vars
  <2> QED
    BY <2>1, <2>2, <2>3, <2>3a, <2>4, <2>5, <2>6, <2>7, <2>8, <2>9, <2>10, <2>11, <2>12,
       <2>13
       DEF Next, FlightStep
<1> QED
  BY <1>1, <1>2, PTL DEF Spec

\* What readiness reports as registered is in Redis: no registration outlives
\* the connection it was made on, however connects, adds and restarts fail.
THEOREM ActiveSchedulesAreReal == Spec => []ActiveIsReal
  BY InvHolds, PTL DEF Inv

\* After shutdown has closed the command connection no restoration starts.
THEOREM ClosedServiceIsQuiet == Spec => []ClosedIsQuiet
<1>1. Inv => ClosedIsQuiet
  BY DEF Inv, ClosedIsQuiet
<1> QED
  BY <1>1, InvHolds, PTL

-----------------------------------------------------------------------------
(***************************************************************************)
(* RestoredUnlessTimedOut says that schedules come back in the end.  Its   *)
(* safety half: the service never rests on a connection with one missing.  *)
(***************************************************************************)
\* A started service that is connected and restores nothing has every desired
\* schedule registered, as long as no add command has failed on a live
\* connection: the ready handler, the registrations and the shared flight leave
\* no gap between them.
RestsRestored ==
    conn = "ready" /\ flight = "none" /\ ~isShuttingDown /\ ~StartFailed /\ timeouts = 0
        => desired \subseteq active

\* It needs two facts: a flight that found the connection unusable was started
\* by a registration, which fails with it; and registered calls are desired.
RestInv ==
    /\ RestsRestored
    /\ flight = "refused" => \E s \in Schedules : reg[s] = "waiting"
    /\ \A s \in Schedules : reg[s] # "idle" => s \in desired

\* A flight that goes on ends well only when nothing desired is missing.
LEMMA GoOnEnds ==
    ASSUME TypeOK, NEW rest, NEW registered, GoOn(rest, registered)
    PROVE  /\ flight' \in {"none", "add"}
           /\ flight' = "none" => isShuttingDown \/ desired \subseteq registered
           /\ \A s \in Schedules : reg[s] = "idle" => reg'[s] = "idle"
           /\ \A s \in Schedules : reg[s] = "waiting" /\ reg'[s] = "idle" =>
                s \notin registered /\ desired \subseteq registered
  BY DEF TypeOK, GoOn, Land

LEMMA FailedLanding ==
    ASSUME TypeOK, NEW registered, Land(FALSE, registered)
    PROVE  /\ flight' = "none"
           /\ \A s \in Schedules : /\ reg[s] = "waiting" => reg'[s] = "failed"
                                   /\ reg[s] # "waiting" => reg'[s] = reg[s]
  BY DEF TypeOK, Land

LEMMA RestInvHolds == Spec => []RestInv
<1>1. Init => RestInv
  BY DEF Init, RestInv, RestsRestored
<1>2. TypeOK /\ RestInv /\ [Next]_vars => RestInv'
  <2> SUFFICES ASSUME TypeOK, RestInv, [Next]_vars PROVE RestInv'
    OBVIOUS
  <2> USE DEF RestInv, RestsRestored, StartFailed, link, flightVars, bounds
  <2>1. ASSUME NEW s \in Schedules, registerRepeatJob(s) PROVE RestInv'
    <3>1. CASE isShuttingDown
      BY <2>1, <3>1 DEF registerRepeatJob, TypeOK
    <3>2. CASE ~isShuttingDown
      <4>1. reg' = [reg EXCEPT ![s] = "waiting"] /\ desired' = desired \cup {s}
        BY <2>1, <3>2 DEF registerRepeatJob
      <4>2. flight' # "none"
        BY <2>1, <3>2 DEF registerRepeatJob, Join, EnsureReady
      <4> QED
        BY <4>1, <4>2 DEF TypeOK
    <3> QED
      BY <3>1, <3>2
  <2>2. CASE Restart
    BY <2>2 DEF Restart
  <2>3. CASE Begin
    <3>1. GoOn({}, active)
      BY <2>3 DEF Begin
    <3> QED
      BY <2>3, <3>1, GoOnEnds DEF Begin
  <2>4. CASE Refused
    <3>1. Land(FALSE, active)
      BY <2>4 DEF Refused
    <3>2. StartFailed'
      BY <2>4, <3>1, FailedLanding DEF Refused
    <3> QED
      BY <2>4, <3>1, <3>2, FailedLanding DEF Refused
  <2>5. CASE Connects
    <3>1. CASE isShuttingDown
      BY <2>5, <3>1, FailedLanding DEF Connects
    <3>2. CASE ~isShuttingDown
      BY <2>5, <3>2 DEF Connects
    <3> QED
      BY <3>1, <3>2
  <2>6. CASE ConnectFails
    BY <2>6, FailedLanding DEF ConnectFails
  <2>7. CASE AddSucceeds
    <3>1. GoOn(todo \ {adding}, active')
      BY <2>7 DEF AddSucceeds
    <3> QED
      BY <2>7, <3>1, GoOnEnds DEF AddSucceeds
  <2>8. CASE AddFails
    <3>1. timeouts' # 0
      BY <2>8 DEF AddFails, TypeOK
    <3>2. Land(FALSE, active')
      BY <2>8 DEF AddFails
    <3> QED
      BY <2>8, <3>1, <3>2, FailedLanding DEF AddFails
  <2>9. CASE RedisRestarts
    BY <2>9 DEF RedisRestarts
  <2>10. CASE Closes
    BY <2>10, FailedLanding DEF Closes
  <2>11. CASE Reconnects
    BY <2>11 DEF Reconnects, Join, EnsureReady
  <2>12. CASE BeginDrain \/ CloseConnection
    BY <2>12 DEF BeginDrain, CloseConnection
  <2>13. CASE UNCHANGED vars
    BY <2>13 DEF vars
  <2> QED
    BY <2>1, <2>2, <2>3, <2>4, <2>5, <2>6, <2>7, <2>8, <2>9, <2>10, <2>11, <2>12, <2>13
       DEF Next, FlightStep
<1> QED
  BY <1>1, <1>2, TypeCorrect, PTL DEF Spec

\* However close and ready events, registrations and flights overtake each
\* other, a connected service at rest has restored every desired schedule,
\* unless it is starting over, shutting down or an add command has timed out.
THEOREM RestingMeansRestored == Spec => []RestsRestored
<1>1. RestInv => RestsRestored
  BY DEF RestInv
<1> QED
  BY <1>1, RestInvHolds, PTL

\* A registration never has to join a second flight: the flight it awaits fails,
\* and the start with it, or it has registered the schedule.
THEOREM OneFlightPerRegistration ==
    Spec => [][\A s \in Schedules :
                 reg[s] = "waiting" /\ reg'[s] = "idle" => StartFailed]_vars
<1>1. TypeOK /\ RestInv /\ [Next]_vars =>
        [\A s \in Schedules :
           reg[s] = "waiting" /\ reg'[s] = "idle" => StartFailed]_vars
  <2> SUFFICES ASSUME TypeOK, RestInv, [Next]_vars, NEW s \in Schedules,
                      reg[s] = "waiting", reg'[s] = "idle"
               PROVE  StartFailed
    OBVIOUS
  <2> USE DEF link, flightVars, bounds
  <2>1. s \in desired
    BY DEF RestInv
  <2>2. ASSUME NEW rest, NEW registered, GoOn(rest, registered) PROVE FALSE
    BY <2>1, <2>2, GoOnEnds
  <2>3. ASSUME NEW registered, Land(FALSE, registered) PROVE FALSE
    BY <2>3, FailedLanding
  <2>4. ASSUME NEW r \in Schedules, registerRepeatJob(r) PROVE FALSE
    BY <2>4 DEF registerRepeatJob, TypeOK
  <2>5. CASE UNCHANGED reg
    BY <2>5
  <2>6. CASE Restart
    BY <2>6 DEF Restart
  <2> QED
    BY <2>2, <2>3, <2>4, <2>5, <2>6 DEF Next, FlightStep, Begin, Refused, Connects,
       ConnectFails, AddSucceeds, AddFails, RedisRestarts, Closes, Reconnects,
       BeginDrain, CloseConnection, vars
<1> QED
  BY <1>1, TypeCorrect, RestInvHolds, PTL DEF Spec

=============================================================================
