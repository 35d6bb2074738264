----------------------------- MODULE Controller -----------------------------
(***************************************************************************)
(* The goroutine that runs Controller.Run (internal/controller): it        *)
(* reconciles once, then polls the alarm for ever and starts or docks the  *)
(* vacuums one after the other.                                            *)
(*                                                                         *)
(* One step is one call that another goroutine, a robot or a crash can get *)
(* in front of: a fetch of the alarm, a call to a robot, a setter of the   *)
(* store.  pc names the call the goroutine makes next; the other locals    *)
(* are those of the function it is in and hold their initial values        *)
(* elsewhere.  Waiting between polls and between retries takes no step:    *)
(* the goroutine may stay at its pc for any time.                          *)
(***************************************************************************)
EXTENDS Household, Store

CONSTANTS
    CooldownEnabled,        \* CLEAN_COOLDOWN_ENABLED
    MaxReconcileAttempts,   \* maxReconcileAttempts, 12 in the code
    MaxTries                \* attempts of withRetrySingle, 3 in the code

ASSUME ControllerAssumption ==
    /\ CooldownEnabled \in BOOLEAN
    /\ MaxReconcileAttempts \in Nat \ {0}
    /\ MaxTries \in Nat \ {0}

VARIABLES
    pc,          \* the next call of the goroutine
    loop,        \* the function whose loop over the vacuums is running
    vac,         \* index of that loop, N + 1 when it is over
    snapshot,    \* st.Vacuums[..].StartedByUs, read when that function began
    anyActive,   \* anyActive, or anyKnownStarted || anyStarted
    seen,        \* status reply stopVacuum decides on
    tries,       \* failed attempts of the retry loop that is running
    lastAlarm,   \* Controller.lastAlarm
    state,       \* Controller.state
    ctxDone      \* the root context is cancelled

locals         == <<loop, vac, snapshot, anyActive, seen, tries>>
controllerVars == <<pc, locals, lastAlarm, state, ctxDone>>

Locations == {"down", "start", "fetch", "loop", "storeAlarm", "wait",
              "onArmedAway", "onDisengaged",
              "startStatus", "summary", "command", "claim",
              "stopStatus", "pause", "charge", "release", "drain"}

Loops == {"none", "reconcile", "arm", "disarm"}

ControllerTypeOK ==
    /\ pc \in Locations
    /\ loop \in Loops
    /\ vac \in 1 .. N + 1
    /\ snapshot \in [Vacuums -> BOOLEAN]
    /\ anyActive \in BOOLEAN
    /\ seen \in DeviceStates \cup {NoReply}
    /\ tries \in Nat
    /\ tries < (IF pc = "fetch" THEN MaxReconcileAttempts ELSE MaxTries)
    /\ lastAlarm \in ArmStates
    /\ state \in ControlStates
    /\ ctxDone \in BOOLEAN

NoneStarted == [v \in Vacuums |-> FALSE]

LocalsInit ==
    /\ loop = "none" /\ vac = 1 /\ snapshot = NoneStarted
    /\ anyActive = FALSE /\ seen = NoReply /\ tries = 0

ControllerInit ==
    /\ pc = "down" /\ LocalsInit
    /\ lastAlarm = Unknown /\ state = StateIdle /\ ctxDone = FALSE

LeaveLocals ==
    /\ loop' = "none" /\ vac' = 1 /\ snapshot' = NoneStarted
    /\ anyActive' = FALSE /\ seen' = NoReply /\ tries' = 0

GoTo(location) ==
    /\ pc' = location
    /\ UNCHANGED <<locals, lastAlarm, state, ctxDone>>

\* The loop body is over for this vacuum.
NextVacuum(active) ==
    /\ pc' = "loop" /\ vac' = vac + 1
    /\ anyActive' = (anyActive \/ active)
    /\ seen' = NoReply /\ tries' = 0
    /\ UNCHANGED <<loop, snapshot, lastAlarm, state, ctxDone>>

EnterLoop(name) ==
    /\ pc' = "loop" /\ loop' = name /\ vac' = 1
    /\ snapshot' = startedByUs
    /\ UNCHANGED <<anyActive, seen, tries, lastAlarm, state, ctxDone>>

setState(s) ==
    /\ state' = s
    /\ SetControlState
    /\ UNCHANGED <<lastAlarm, ctxDone>>

\* A cancelled context ends the controller's call in flight with an error: a
\* command may have reached the robot by then.
ControllerCallFails(Effect) ==
    \/ CallFails(Effect)
    \/ ctxDone /\ (UNCHANGED robotVars \/ Effect)

ControllerReadFails == ReadFails \/ ctxDone

-----------------------------------------------------------------------------
(* reconcileOnStartup                                                      *)

ReconcileBegin ==
    /\ pc = "start"
    /\ pc' = "fetch" /\ loop' = "reconcile"
    /\ snapshot' = startedByUs
    /\ UNCHANGED <<vac, anyActive, seen, tries, lastAlarm, state, ctxDone>>
    /\ UNCHANGED <<storeVars, robotVars, home>>

ReconcileFetch ==
    /\ pc = "fetch"
    /\ lastAlarm' = home
    /\ pc' = "loop" /\ tries' = 0
    /\ UNCHANGED <<loop, vac, snapshot, anyActive, seen, state, ctxDone>>
    /\ UNCHANGED <<storeVars, robotVars, home>>

GiveUpReconcile ==
    /\ pc' = "wait" /\ LeaveLocals
    /\ UNCHANGED <<lastAlarm, state, ctxDone>>

ReconcileFetchFails ==
    /\ pc = "fetch" /\ ("verisure_error" \in Events \/ ctxDone)
    /\ \/ /\ tries = MaxReconcileAttempts - 1
          /\ GiveUpReconcile
       \/ /\ tries < MaxReconcileAttempts - 1
          /\ tries' = tries + 1
          /\ UNCHANGED <<pc, loop, vac, snapshot, anyActive, seen>>
          /\ UNCHANGED <<lastAlarm, state, ctxDone>>
    /\ UNCHANGED <<storeVars, robotVars, home>>

\* The wait before the next attempt ends because the context is cancelled.
ReconcileCancelled ==
    /\ pc = "fetch" /\ tries > 0 /\ ctxDone
    /\ GiveUpReconcile
    /\ UNCHANGED <<storeVars, robotVars, home>>

\* Mutant: an idle vacuum of ours is started whatever the alarm says.
ReconcileVacuumMutant ==
    /\ pc = "loop" /\ loop = "reconcile" /\ vac \in Vacuums /\ snapshot[vac]
    /\ \/ ControllerReadFails /\ NextVacuum(FALSE)
       \/ IsIdle(device[vac]) /\ GoTo("startStatus")
       \/ IsDisengaged(lastAlarm) /\ ~IsIdle(device[vac]) /\ GoTo("stopStatus")
       \/ /\ ~IsDisengaged(lastAlarm) /\ ~IsIdle(device[vac])
          /\ NextVacuum(IsActiveClean(device[vac]))
    /\ UNCHANGED <<storeVars, robotVars, home>>

\* The status call of the loop over the vacuums the file says we started.
ReconcileVacuum ==
    /\ pc = "loop" /\ loop = "reconcile" /\ vac \in Vacuums /\ snapshot[vac]
    /\ \/ ControllerReadFails /\ NextVacuum(FALSE)
       \/ IsDisengaged(lastAlarm) /\ GoTo("stopStatus")
       \/ /\ IsArmedAway(lastAlarm)
          /\ IsIdle(device[vac]) \/ IsError(device[vac])
          /\ GoTo("startStatus")
       \/ /\ IsArmedAway(lastAlarm)
          /\ IsActiveClean(device[vac])
          /\ NextVacuum(TRUE)
       \/ /\ ~IsDisengaged(lastAlarm)
          /\ IsArmedAway(lastAlarm) =>
                ~(IsIdle(device[vac]) \/ IsError(device[vac]) \/ IsActiveClean(device[vac]))
          /\ NextVacuum(FALSE)
    /\ UNCHANGED <<storeVars, robotVars, home>>

\* Mutant: the entries the snapshot shows as not started are written back.
EndReconcileMutant ==
    /\ pc = "loop" /\ loop = "reconcile" /\ vac = N + 1
    /\ state' = IF anyActive THEN StateCleaningActive
                ELSE IF IsArmedAway(lastAlarm) THEN StateArmedAway ELSE StateIdle
    /\ mem' = [mem EXCEPT !.startedByUs = [v \in Vacuums |-> @[v] /\ snapshot[v]]]
    /\ save
    /\ pc' = "storeAlarm"
    /\ LeaveLocals
    /\ UNCHANGED <<lastAlarm, ctxDone, robotVars, home>>

EndReconcile ==
    /\ pc = "loop" /\ loop = "reconcile" /\ vac = N + 1
    /\ setState(IF anyActive THEN StateCleaningActive
                ELSE IF IsArmedAway(lastAlarm) THEN StateArmedAway ELSE StateIdle)
    /\ pc' = "storeAlarm"
    /\ LeaveLocals
    /\ UNCHANGED <<robotVars, home>>

ReconcileStoreAlarm ==
    /\ pc = "storeAlarm"
    /\ SetAlarmState(lastAlarm)
    /\ GoTo("wait")
    /\ UNCHANGED <<robotVars, home>>

-----------------------------------------------------------------------------
(* poll.  A poll that fails, or that finds nothing to do, changes nothing. *)

\* Mutant: a poll acts on transitions only.
PollSameAlarmMutant ==
    /\ pc = "wait" /\ home = lastAlarm
    /\ GoTo("wait")
    /\ UNCHANGED <<storeVars, robotVars, home>>

PollSameAlarm ==
    /\ pc = "wait" /\ home = lastAlarm
    /\ \/ IsDisengaged(home) /\ hasStartedVacuums /\ GoTo("onDisengaged")
       \/ /\ IsArmedAway(home)
          /\ \/ state = StateArmedAway
             \/ state = StateCleaningActive /\ hasUnstartedVacuums
          /\ GoTo("onArmedAway")
    /\ UNCHANGED <<storeVars, robotVars, home>>

\* Mutant: the switch looks at the alarm before the transition.
PollNewAlarmStaleMutant ==
    /\ pc = "wait" /\ home # lastAlarm
    /\ lastAlarm' = home
    /\ SetAlarmState(home)
    /\ pc' = IF IsArmedAway(lastAlarm) THEN "onArmedAway"
             ELSE IF IsDisengaged(lastAlarm) THEN "onDisengaged" ELSE "wait"
    /\ UNCHANGED <<locals, state, ctxDone, robotVars, home>>

\* Mutant: the transition is not stored.
PollNewAlarmUnsavedMutant ==
    /\ pc = "wait" /\ home # lastAlarm
    /\ lastAlarm' = home
    /\ pc' = IF IsArmedAway(home) THEN "onArmedAway"
             ELSE IF IsDisengaged(home) THEN "onDisengaged" ELSE "wait"
    /\ UNCHANGED <<locals, state, ctxDone, storeVars, robotVars, home>>

PollNewAlarm ==
    /\ pc = "wait" /\ home # lastAlarm
    /\ lastAlarm' = home
    /\ SetAlarmState(home)
    /\ pc' = IF IsArmedAway(home) THEN "onArmedAway"
             ELSE IF IsDisengaged(home) THEN "onDisengaged" ELSE "wait"
    /\ UNCHANGED <<locals, state, ctxDone, robotVars, home>>

-----------------------------------------------------------------------------
(* onArmedAway and onDisengaged                                            *)

ArmedAwayBegin ==
    /\ pc = "onArmedAway" /\ EnterLoop("arm")
    /\ UNCHANGED <<storeVars, robotVars, home>>

DisengagedBegin ==
    /\ pc = "onDisengaged" /\ hasStartedVacuums /\ EnterLoop("disarm")
    /\ UNCHANGED <<storeVars, robotVars, home>>

DisengagedNothingActive ==
    /\ pc = "onDisengaged" /\ ~hasStartedVacuums
    /\ setState(StateIdle)
    /\ pc' = "wait"
    /\ UNCHANGED <<locals, robotVars, home>>

\* onArmedAway passes over the vacuums its snapshot says we started, the two
\* other loops over those it says we did not.
PassOver ==
    /\ pc = "loop" /\ vac \in Vacuums
    /\ snapshot[vac] = (loop = "arm")
    /\ NextVacuum(loop = "arm")
    /\ UNCHANGED <<storeVars, robotVars, home>>

\* Mutant: every vacuum is docked, recorded or not.
TurnToVacuumMutant ==
    /\ pc = "loop" /\ vac \in Vacuums
    /\ \/ loop = "arm" /\ ~snapshot[vac] /\ GoTo("startStatus")
       \/ loop = "disarm" /\ GoTo("stopStatus")
    /\ UNCHANGED <<storeVars, robotVars, home>>

TurnToVacuum ==
    /\ pc = "loop" /\ vac \in Vacuums
    /\ \/ loop = "arm" /\ ~snapshot[vac] /\ GoTo("startStatus")
       \/ loop = "disarm" /\ snapshot[vac] /\ GoTo("stopStatus")
    /\ UNCHANGED <<storeVars, robotVars, home>>

EndLoop ==
    /\ pc = "loop" /\ vac = N + 1
    /\ \/ loop = "arm" /\ setState(IF anyActive THEN StateCleaningActive ELSE StateArmedAway)
       \/ loop = "disarm" /\ setState(StateIdle)
    /\ pc' = "wait"
    /\ LeaveLocals
    /\ UNCHANGED <<robotVars, home>>

-----------------------------------------------------------------------------
(* maybeStartVacuum and startVacuum                                        *)

Startable(s) == IsIdle(s) \/ IsPaused(s)

StartStatus ==
    /\ pc = "startStatus"
    /\ \/ ~Startable(device[vac]) /\ NextVacuum(FALSE)
       \/ Startable(device[vac]) /\ GoTo(IF CooldownEnabled THEN "summary" ELSE "command")
    /\ UNCHANGED <<storeVars, robotVars, home>>

CleanSummary ==
    /\ pc = "summary"
    /\ \/ recent[vac] /\ NextVacuum(FALSE)
       \/ ~recent[vac] /\ GoTo("command")
    /\ UNCHANGED <<storeVars, robotVars, home>>

\* Mutant: a history that cannot be read counts as no recent clean.
StartReadFailsMutant ==
    /\ pc \in {"startStatus", "summary"} /\ ControllerReadFails
    /\ IF pc = "summary" THEN GoTo("command") ELSE NextVacuum(FALSE)
    /\ UNCHANGED <<storeVars, robotVars, home>>

\* Mutant: the loop ends at the first vacuum that cannot be read.
StartReadFailsBreakMutant ==
    /\ pc \in {"startStatus", "summary"} /\ ControllerReadFails
    /\ GiveUpReconcile
    /\ UNCHANGED <<storeVars, robotVars, home>>

\* Without a status or a history the vacuum is left alone until the next poll.
StartReadFails ==
    /\ pc \in {"startStatus", "summary"} /\ ControllerReadFails
    /\ NextVacuum(FALSE)
    /\ UNCHANGED <<storeVars, robotVars, home>>

StartCommand ==
    /\ pc = "command"
    /\ BeginRun(vac)
    /\ GoTo("claim")
    /\ UNCHANGED <<storeVars, home>>

StartCommandFails ==
    /\ pc = "command"
    /\ ControllerCallFails(BeginRun(vac))
    /\ NextVacuum(FALSE)
    /\ UNCHANGED <<storeVars, home>>

Claim ==
    /\ pc = "claim"
    /\ SetVacuumStartedByUs(vac, TRUE)
    /\ NextVacuum(TRUE)
    /\ UNCHANGED <<robotVars, home>>

-----------------------------------------------------------------------------
(* stopVacuum                                                              *)

StopStatus ==
    /\ pc = "stopStatus"
    /\ \E s \in {device[vac]} \cup (IF ControllerReadFails THEN {NoReply} ELSE {}) :
        /\ seen' = s
        /\ pc' = IF IsError(s) THEN "charge"
                 ELSE IF s = NoReply \/ IsActiveClean(s) \/ IsPaused(s) THEN "pause"
                 ELSE "release"
    /\ UNCHANGED <<loop, vac, snapshot, anyActive, tries, lastAlarm, state, ctxDone>>
    /\ UNCHANGED <<storeVars, robotVars, home>>

\* Mutant: one attempt too many.
AttemptFailsOnceMoreMutant(Exhausted) ==
    \/ tries = MaxTries /\ Exhausted
    \/ /\ tries < MaxTries
       /\ tries' = tries + 1
       /\ UNCHANGED <<pc, loop, vac, snapshot, anyActive, seen>>
       /\ UNCHANGED <<lastAlarm, state, ctxDone>>

\* Mutant: the attempts start again instead of ending.
AttemptFailsForeverMutant(Exhausted) ==
    /\ tries' = (tries + 1) % MaxTries
    /\ UNCHANGED <<pc, loop, vac, snapshot, anyActive, seen>>
    /\ UNCHANGED <<lastAlarm, state, ctxDone>>

\* A failed attempt of withRetrySingle; Exhausted is what follows the last one.
AttemptFails(Exhausted) ==
    \/ tries = MaxTries - 1 /\ Exhausted
    \/ /\ tries < MaxTries - 1
       /\ tries' = tries + 1
       /\ UNCHANGED <<pc, loop, vac, snapshot, anyActive, seen>>
       /\ UNCHANGED <<lastAlarm, state, ctxDone>>

ChargeNext ==
    /\ pc' = "charge" /\ tries' = 0
    /\ UNCHANGED <<loop, vac, snapshot, anyActive, seen, lastAlarm, state, ctxDone>>

Pause ==
    /\ pc = "pause"
    /\ PauseRun(vac)
    /\ ChargeNext
    /\ UNCHANGED <<storeVars, home>>

\* A pause that fails for good does not keep the dock command from being sent.
PauseFails ==
    /\ pc = "pause"
    /\ ControllerCallFails(PauseRun(vac))
    /\ AttemptFails(ChargeNext)
    /\ UNCHANGED <<storeVars, home>>

\* An accepted dock command does not release a vacuum that reported an error:
\* the error may be latched.
Charge ==
    /\ pc = "charge"
    /\ GoHome(vac)
    /\ IF IsError(seen) THEN NextVacuum(FALSE) ELSE GoTo("release")
    /\ UNCHANGED <<storeVars, home>>

\* Mutant: the vacuum is released even if no dock command was accepted.
ChargeFailsMutant ==
    /\ pc = "charge"
    /\ ControllerCallFails(GoHome(vac))
    /\ AttemptFails(GoTo("release"))
    /\ UNCHANGED <<storeVars, home>>

\* Mutant: the loop ends at the first vacuum that cannot be docked.
ChargeFailsBreakMutant ==
    /\ pc = "charge"
    /\ ControllerCallFails(GoHome(vac))
    /\ AttemptFails(GiveUpReconcile)
    /\ UNCHANGED <<storeVars, home>>

ChargeFails ==
    /\ pc = "charge"
    /\ ControllerCallFails(GoHome(vac))
    /\ AttemptFails(NextVacuum(FALSE))
    /\ UNCHANGED <<storeVars, home>>

\* The wait between two attempts ends because the context is cancelled.
RetryCancelled ==
    /\ ctxDone /\ tries > 0
    /\ \/ pc = "pause" /\ ChargeNext
       \/ pc = "charge" /\ NextVacuum(FALSE)
    /\ UNCHANGED <<storeVars, robotVars, home>>

Release ==
    /\ pc = "release"
    /\ SetVacuumStartedByUs(vac, FALSE)
    /\ NextVacuum(FALSE)
    /\ UNCHANGED <<robotVars, home>>

-----------------------------------------------------------------------------
ReconcileStep ==
    \/ ReconcileBegin \/ ReconcileFetch \/ ReconcileFetchFails \/ ReconcileCancelled
    \/ ReconcileVacuum \/ EndReconcile \/ ReconcileStoreAlarm

PollStep ==
    \/ PollSameAlarm \/ PollNewAlarm \/ ArmedAwayBegin \/ DisengagedBegin
    \/ DisengagedNothingActive \/ PassOver \/ TurnToVacuum \/ EndLoop

StartStep ==
    \/ StartStatus \/ CleanSummary \/ StartReadFails
    \/ StartCommand \/ StartCommandFails \/ Claim

StopStep ==
    \/ StopStatus \/ Pause \/ PauseFails \/ Charge \/ ChargeFails
    \/ RetryCancelled \/ Release

ControllerNext == ReconcileStep \/ PollStep \/ StartStep \/ StopStep
=============================================================================
