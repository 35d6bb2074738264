------------------------------ MODULE RobotApi ------------------------------
(***************************************************************************)
(* The handlers of POST /robots/{robot}/start and .../stop                 *)
(* (cmd/verisure-roborock/api.go).  net/http runs each request in a        *)
(* goroutine of its own, so a handler interleaves call by call with the    *)
(* controller and with other handlers on the same vacuum and store.        *)
(***************************************************************************)
EXTENDS Household, Store

CONSTANT Requests     \* requests that can be in progress at a time

VARIABLE requests     \* requests[r]: where handler r is, and its vacuum

Handlers == [at : {"none", "status", "run", "claim", "pause", "charge", "release"},
             robot : Vacuums]

ApiTypeOK == requests \in [Requests -> Handlers]

NoRequest == [at |-> "none", robot |-> 1]

ApiInit == requests = [r \in Requests |-> NoRequest]

Robot(r) == requests[r].robot
Continue(r, location) == requests' = [requests EXCEPT ![r].at = location]
Respond(r) == requests' = [requests EXCEPT ![r] = NoRequest]

\* start without rooms reads the status first; with rooms it does not.
Receive(r, v) ==
    /\ requests[r].at = "none"
    /\ \E location \in {"status", "run", "pause"} :
        requests' = [requests EXCEPT ![r] = [at |-> location, robot |-> v]]
    /\ UNCHANGED <<storeVars, householdVars>>

ApiStatus(r) ==
    /\ requests[r].at = "status"
    /\ Continue(r, "run") \/ (ReadFails /\ Respond(r))
    /\ UNCHANGED <<storeVars, householdVars>>

ApiRun(r) ==
    /\ requests[r].at = "run"
    /\ \/ BeginRun(Robot(r)) /\ Continue(r, "claim")
       \/ CallFails(BeginRun(Robot(r))) /\ Respond(r)
    /\ UNCHANGED <<storeVars, home>>

ApiClaim(r) ==
    /\ requests[r].at = "claim"
    /\ SetVacuumStartedByUs(Robot(r), TRUE)
    /\ Respond(r)
    /\ UNCHANGED householdVars

ApiPause(r) ==
    /\ requests[r].at = "pause"
    /\ \/ PauseRun(Robot(r)) /\ Continue(r, "charge")
       \/ CallFails(PauseRun(Robot(r))) /\ Respond(r)
    /\ UNCHANGED <<storeVars, home>>

ApiCharge(r) ==
    /\ requests[r].at = "charge"
    /\ \/ GoHome(Robot(r)) /\ Continue(r, "release")
       \/ CallFails(GoHome(Robot(r))) /\ Respond(r)
    /\ UNCHANGED <<storeVars, home>>

ApiRelease(r) ==
    /\ requests[r].at = "release"
    /\ SetVacuumStartedByUs(Robot(r), FALSE)
    /\ Respond(r)
    /\ UNCHANGED householdVars

Handle(r) ==
    \/ ApiStatus(r) \/ ApiRun(r) \/ ApiClaim(r)
    \/ ApiPause(r) \/ ApiCharge(r) \/ ApiRelease(r)
=============================================================================
