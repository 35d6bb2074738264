------------------------------- MODULE Service ------------------------------
(***************************************************************************)
(* The process (cmd/verisure-roborock): the controller, the HTTP handlers  *)
(* and the cookie goroutine on one store, in a household that changes by   *)
(* itself, with crashes, restarts and orderly shutdowns.                   *)
(***************************************************************************)
EXTENDS Controller, RobotApi

CONSTANT Reliable    \* the robots that are sure to answer at last

ASSUME ServiceAssumption == Reliable \subseteq Vacuums

vars == <<householdVars, storeVars, controllerVars, requests>>

Up      == pc # "down"
AtRest  == pc = "wait"

Init == HouseholdInit /\ StoreInit /\ ControllerInit /\ ApiInit

-----------------------------------------------------------------------------
(* The life of the process.                                                *)

\* Docker restarts the container, systemd the failed unit; the new process
\* knows what the file holds and nothing else.
Boot ==
    /\ pc = "down"
    /\ LoadStore
    /\ pc' = "start"
    /\ UNCHANGED <<householdVars, locals, lastAlarm, state, ctxDone, requests>>

\* Whatever the process had in memory is gone.
ProcessGone ==
    /\ pc' = "down" /\ LeaveLocals
    /\ lastAlarm' = Unknown /\ state' = StateIdle /\ ctxDone' = FALSE
    /\ requests' = [r \in Requests |-> NoRequest]
    /\ mem' = disk
    /\ UNCHANGED <<householdVars, disk>>

Crash == "crash" \in Events /\ Up /\ ProcessGone

\* SIGTERM or SIGINT: waits of the controller end, and its calls in flight may be
\* aborted (ControllerCallFails).  The handlers have the contexts of their requests.
Terminate ==
    /\ "shutdown" \in Events /\ Up /\ ~ctxDone
    /\ ctxDone' = TRUE
    /\ UNCHANGED <<householdVars, storeVars, pc, locals, lastAlarm, state, requests>>

\* Run returns; srv.Shutdown then waits a while for the handlers.
StopPolling ==
    /\ AtRest /\ ctxDone
    /\ GoTo("drain")
    /\ UNCHANGED <<householdVars, storeVars, requests>>

ExitProcess == pc = "drain" /\ ProcessGone

\* From its own goroutine, or after Run.
persistCookie ==
    /\ Up
    /\ SetVerisureCookie
    /\ UNCHANGED <<householdVars, controllerVars, requests>>

-----------------------------------------------------------------------------
ProcessNext ==
    \/ Boot \/ Crash \/ Terminate \/ StopPolling \/ ExitProcess \/ persistCookie

ControllerStep == ControllerNext /\ UNCHANGED requests

ApiNext ==
    /\ Up
    /\ \E r \in Requests :
        \/ pc # "drain" /\ \E v \in Vacuums : Receive(r, v)
        \/ Handle(r)
    /\ UNCHANGED controllerVars

WorldNext == HouseholdNext /\ UNCHANGED <<storeVars, controllerVars, requests>>

Next == ProcessNext \/ ControllerStep \/ ApiNext \/ WorldNext

\* The goroutines are scheduled and the supervisor restarts the process.
Scheduling ==
    /\ WF_vars(Boot)
    /\ WF_vars(ControllerStep)
    /\ WF_vars(StopPolling)
    /\ WF_vars(ExitProcess)

\* Whoever is asked again and again answers at last: Verisure, and a robot for
\* each kind of call.
VerisureAnswers == SF_vars(ReconcileFetch /\ UNCHANGED requests)

RobotAnswers(v) ==
    /\ SF_vars(vac = v /\ StartStatus /\ UNCHANGED requests)
    /\ SF_vars(vac = v /\ CleanSummary /\ UNCHANGED requests)
    /\ SF_vars(vac = v /\ StartCommand /\ UNCHANGED requests)
    /\ SF_vars(vac = v /\ Charge /\ UNCHANGED requests)

Spec     == Init /\ [][Next]_vars
FairSpec == Spec /\ Scheduling /\ VerisureAnswers /\ \A v \in Reliable : RobotAnswers(v)

-----------------------------------------------------------------------------
StartCalls == {"startStatus", "summary", "command", "claim"}
StopCalls  == {"stopStatus", "pause", "charge", "release"}

ModeFits ==
    /\ state = StateIdle => ~IsArmedAway(lastAlarm)
    /\ state # StateIdle => ~IsDisengaged(lastAlarm)

TypeOK == HouseholdTypeOK /\ StoreTypeOK /\ ControllerTypeOK /\ ApiTypeOK

\* Wherever the goroutine is, the alarm it last saw is the one that justifies
\* being there: it calls a robot to start it only under armed away, to stop it
\* only under a disengaged alarm, also on the paths reconcileOnStartup shares
\* with the poll loop (controller.go:174-178, 441-457).
Phases ==
    /\ pc \in StartCalls => IsArmedAway(lastAlarm) /\ vac \in Vacuums
    /\ pc \in StopCalls => IsDisengaged(lastAlarm) /\ vac \in Vacuums
    /\ pc = "onArmedAway" \/ loop = "arm" => IsArmedAway(lastAlarm)
    /\ pc = "onDisengaged" \/ loop = "disarm" => IsDisengaged(lastAlarm)
    /\ loop = "reconcile" /\ anyActive => IsArmedAway(lastAlarm)
    /\ pc \in {"wait", "storeAlarm"} => ModeFits
    /\ pc \in {"wait", "storeAlarm", "onArmedAway", "onDisengaged"} => loop = "none"
    /\ pc = "fetch" => loop = "reconcile"
    /\ pc \in {"down", "start", "fetch"} =>
          lastAlarm = Unknown /\ state = StateIdle /\ ~anyActive
    /\ pc \in {"down", "start"} => tries = 0

Running(v) == device[v] \in {Initiating, Cleaning, Paused}

\* A run the program began and does not know of: it goes on after the alarm is
\* disarmed.
Untracked(v) ==
    /\ ours[v] /\ Running(v) /\ ~startedByUs[v]
    /\ ~(pc = "claim" /\ vac = v)

\* The start call returns an error although the robot obeyed.
ObeyedUnanswered(v) ==
    pc = "command" /\ vac = v /\ (ctxDone \/ "lost_reply" \in Events)

\* The process dies before it has recorded the run, or before the record is saved.
DiesUnrecorded(v) ==
    Up /\ pc' = "down" /\ ~disk.startedByUs[v]

\* Where no operator interferes, the program loses track of a run of its own in no
\* other way than these: a start whose answer is lost or cut off by a shutdown, and
\* a death with the record not yet in the file.  No poll, no failed pause or dock,
\* no reconcile and no restart forgets one (controller.go:316-324, 356-387,
\* 424-459; store.go:32-51).
StaysTracked ==
    [][Requests = {} =>
          \A v \in Vacuums :
              ~Untracked(v) /\ Untracked(v)' => ObeyedUnanswered(v) \/ DiesUnrecorded(v)]_vars

\* The program begins a run only if the alarm, as it last saw it, was armed
\* away, or if an operator asked (controller.go:161-163, 174-175, 446-449).
StartJustified ==
    \A v \in Vacuums : ~ours[v] /\ ours'[v] =>
        \/ IsArmedAway(lastAlarm) /\ pc = "command" /\ vac = v
        \/ \E r \in Requests : requests[r].at = "run" /\ Robot(r) = v

StartsOnlyWhenArmed == [][StartJustified]_vars

\* The program interrupts a run only if the alarm, as it last saw it, was
\* disengaged, or if an operator asked (controller.go:153-156, 176-177, 441-444).
StopJustified ==
    \A v \in Vacuums : IsActiveClean(device[v]) /\ device'[v] = Paused =>
        \/ IsDisengaged(lastAlarm) /\ pc = "pause" /\ vac = v
        \/ \E r \in Requests : requests[r].at = "pause" /\ Robot(r) = v

StopsOnlyWhenDisengaged == [][StopJustified]_vars

\* The record that a run is ours, once made, is taken back only after a dock
\* command or a status that shows no run, and only when the alarm was seen
\* disengaged, or by an operator's stop, or by a death of the process while the
\* file lacks it because every save since has failed: not by a poll, a failed call
\* or a restart (controller.go:356-387, store.go:32-51, 106-114).
ReleaseJustified ==
    \A v \in Vacuums : startedByUs[v] /\ ~startedByUs'[v] =>
        \/ pc = "release" /\ vac = v /\ IsDisengaged(lastAlarm)
        \/ \E r \in Requests : requests[r].at = "release" /\ Robot(r) = v
        \/ DiesUnrecorded(v)

OwnershipKept == [][ReleaseJustified]_vars

\* No vacuum is started by the controller within the cooldown of its last
\* clean, on whichever path the start is reached (controller.go:268-288, 449).
CooldownRespected ==
    [][\A v \in Vacuums : pc = "command" /\ vac = v /\ ~ours[v] /\ ours'[v] => ~recent[v]]_vars

\* What GET /status shows: the store's copy, if it has one (main.go).
ShownAlarm == IF mem.alarmState = Unknown THEN lastAlarm ELSE mem.alarmState

\* Once the controller has read the alarm, /status shows what it read, also when
\* fetches fail, saves fail or the process is killed: it is out of date only while
\* a restarted process has not read the alarm itself (main.go:143-148,
\* controller.go:170, 407, 470).
StatusFollows == AtRest /\ lastAlarm # Unknown => ShownAlarm = lastAlarm

\* "pauses any vacuums it started" (README.md:6): where no operator interferes, the
\* snapshot the loops decide on is never out of date when they come to a vacuum.
\* The controller stops the vacuums recorded as started, starts those that are not,
\* and sends a recorded one out again only when it reconciles
\* (controller.go:183-209, 328-347, 437-459).
ActsOnRecord ==
    Requests = {} =>
        /\ pc \in StopCalls  => startedByUs[vac]
        /\ pc \in StartCalls => (startedByUs[vac] <=> loop = "reconcile")

\* Where the goroutine is within a tick, and within the body of a loop.
Section ==
    CASE pc \in {"wait", "drain", "down"}             -> 0
      [] pc = "storeAlarm"                            -> 1
      [] pc \in {"loop"} \cup StartCalls \cup StopCalls -> 2
      [] pc \in {"fetch", "onArmedAway", "onDisengaged"} -> 3
      [] pc = "start"                                 -> 4

Body ==
    CASE pc = "loop"                       -> 5
      [] pc \in {"startStatus", "stopStatus"} -> 4
      [] pc \in {"summary", "pause"}       -> 3
      [] pc \in {"command", "charge"}      -> 2
      [] pc \in {"claim", "release"}       -> 1
      [] OTHER                             -> 0

Shortens ==
    \/ Section' < Section
    \/ Section' = Section /\ vac' > vac
    \/ Section' = Section /\ vac' = vac /\ Body' < Body
    \/ pc' = pc /\ vac' = vac /\ tries' > tries

\* Every call the controller makes in a tick brings it closer to the end of the
\* tick: to a later section, a later vacuum, a later call or a later attempt.
\* Nothing the robots, the handlers or the household do throws it back
\* (controller.go:183-209, 366-379, 401-419).
TickShortens ==
    [][Section # 0 =>
          \/ Shortens
          \/ ~ControllerStep /\ UNCHANGED <<pc, vac, tries>>]_vars

\* Every tick of the controller ends, whatever the robots answer: the retry
\* loops are bounded (controller.go:366-379, 401-419).
TicksEnd == []<>(pc \in {"wait", "drain", "down"})

StaysUp == <>[]Up

Docks(v) ==
    StaysUp /\ <>[]IsDisengaged(home) => []<>(~startedByUs[v] \/ IsError(device[v]))

Starts(v) ==
    StaysUp /\ <>[]IsArmedAway(home) =>
        []<>(\/ startedByUs[v]
             \/ CooldownEnabled /\ recent[v]
             \/ ~Startable(device[v]))

\* Once the alarm stays disengaged, every vacuum recorded as ours is released,
\* unless it is in an error, even if a robot before it in the loop never answers:
\* the loops go on to the next vacuum (controller.go:153-156, 328-387, 501-529).
DocksOnDisarm == \A v \in Reliable : Docks(v)

\* Once the alarm stays armed away, every vacuum that could be started is
\* started, unless it cleaned within the cooldown, even if a robot before it in the
\* loop never answers (controller.go:157-164, 190-208).
StartsOnArm == \A v \in Reliable : Starts(v)

\* The vacuums a handler is working on.
AskedTo(calls) == {Robot(r) : r \in {q \in Requests : requests[q].at \in calls}}

\* The service implements the promise of AlarmAutomation: no interleaving, lost
\* reply, failed save, crash or restart makes it start a vacuum without having
\* seen the alarm armed away, or give one up without having seen it disengaged,
\* except for a vacuum an operator is asking it to start or to stop, and then it
\* does that and no more (controller.go, api.go:52-120, store.go:32-51).
Automation == INSTANCE AlarmAutomation WITH
    toStart <- AskedTo({"status", "run", "claim"}),
    toStop  <- AskedTo({"pause", "charge", "release"}),
    belief  <- lastAlarm,
    mode    <- state,
    resting <- AtRest,
    ledger  <- startedByUs,
    durable <- disk.startedByUs

KeepsThePromise == Automation!AutomationSpec

-----------------------------------------------------------------------------
(* What the documentation says and the code does not keep.                 *)

\* "On Disarmed -> pauses any vacuums it started and sends them back to dock"
\* (README.md:6), "a vacuum will never be left running unattended after a
\* crash" (README.md:250): at rest under a disengaged alarm, a run of ours that
\* goes on is at least recorded, so that the next poll ends it.
NothingLeftRunning ==
    AtRest /\ IsDisengaged(lastAlarm) =>
        \A v \in Vacuums :
            ours[v] /\ Running(v) =>
                \/ startedByUs[v]
                \/ \E r \in Requests : requests[r].at = "claim" /\ Robot(r) = v
=============================================================================
