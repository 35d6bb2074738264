---------------------------- MODULE PromiseProofs ----------------------------
(***************************************************************************)
(* Service implements AlarmAutomation: for every number of vacuums, every  *)
(* set of events and any number of requests, each of its steps is one of   *)
(* the abstract specification or changes nothing there.                    *)
(***************************************************************************)
EXTENDS RunProofs

\* A step that changes nothing of what is promised.
Quiet == UNCHANGED <<lastAlarm, state, AtRest, startedByUs, disk.startedByUs, ours>>

\* Work on one vacuum, in terms of the service.
Touches(v) ==
    /\ UNCHANGED <<lastAlarm, state, AtRest>>
    /\ \E b \in BOOLEAN : ours' = [ours EXCEPT ![v] = b]
    /\ \E l \in BOOLEAN : startedByUs' = [startedByUs EXCEPT ![v] = l]
    /\ disk'.startedByUs \in {disk.startedByUs, startedByUs'}

LEMMA InitKeepsPromise == Init => Automation!AutomationInit
<1> SUFFICES ASSUME Init PROVE Automation!AutomationInit
  OBVIOUS
<1>1. lastAlarm = Unknown /\ state = StateIdle /\ pc = "down"
  BY DEF Init, ControllerInit
<1>2. /\ startedByUs = [v \in Vacuums |-> FALSE] /\ disk.startedByUs = startedByUs
      /\ ours = [v \in Vacuums |-> FALSE]
  BY DEF Init, HouseholdInit, StoreInit, NothingStored, startedByUs
<1>3. AtRest = FALSE
  BY <1>1 DEF AtRest
<1>4. AskedTo({"status", "run", "claim"}) = {} /\ AskedTo({"pause", "charge", "release"}) = {}
  BY DEF Init, ApiInit, NoRequest, AskedTo
<1> QED
  BY <1>1, <1>2, <1>3, <1>4 DEF Automation!AutomationInit, Unknown, Automation!Unknown, StateIdle,
     Automation!StateIdle, Vacuums, Automation!Vacuums

LEMMA QuietStutters == Quiet => UNCHANGED Automation!promiseVars
BY DEF Quiet, Automation!promiseVars

\* Handlers work on vacuums.
LEMMA AskedTyped ==
    ASSUME PhaseInv', NEW CONSTANT calls
    PROVE  AskedTo(calls)' \in SUBSET Automation!Vacuums
BY DEF PhaseInv, TypeOK, ApiTypeOK, Handlers, AskedTo, Robot, Vacuums, Automation!Vacuums

LEMMA AskedFor ==
    ASSUME NEW CONSTANT calls, NEW r \in Requests, requests[r].at \in calls
    PROVE  Robot(r) \in AskedTo(calls)
BY DEF AskedTo

\* What a setter may leave in the file.
LEMMA SaveMay ==
    ASSUME save \/ UNCHANGED disk
    PROVE  disk'.startedByUs \in {disk.startedByUs, startedByUs'}
BY DEF save, startedByUs

\* A step that touches neither the record nor a robot's run decides something.
LEMMA DecideStep ==
    ASSUME PhaseInv', UNCHANGED <<startedByUs, ours>>, save \/ UNCHANGED disk
    PROVE  Automation!Decide
<1>1. /\ lastAlarm' \in Automation!ArmStates /\ state' \in Automation!ControlStates
      /\ AtRest' \in BOOLEAN
  BY DEF PhaseInv, TypeOK, ControllerTypeOK, AtRest, ArmStates, ArmedAway, ArmedHome,
     Disarmed, Unknown, OtherArm, Automation!ArmStates, Automation!ArmedAway,
     Automation!ArmedHome, Automation!Disarmed, Automation!Unknown, Automation!OtherArm,
     ControlStates, StateIdle, StateArmedAway, StateCleaningActive,
     Automation!ControlStates, Automation!StateIdle, Automation!StateArmedAway,
     Automation!StateCleaningActive
<1>2. AtRest' => Automation!Agree(lastAlarm', state')
  BY DEF PhaseInv, Phases, ModeFits, AtRest, Automation!Agree, IsArmedAway, IsDisengaged,
     ArmedAway, ArmedHome, Disarmed, StateIdle, Automation!IsArmedAway,
     Automation!IsDisengaged, Automation!ArmedAway, Automation!ArmedHome,
     Automation!Disarmed, Automation!StateIdle
<1> QED
  BY <1>1, <1>2, SaveMay DEF Automation!Decide, Automation!MaySave

LEMMA TouchWorks == ASSUME NEW v \in Vacuums, Touches(v) PROVE Automation!WorkOn(v)
BY DEF Touches, Automation!WorkOn, Automation!MaySave

\* A command changes at most the run of its vacuum; a setter of the record at most
\* that vacuum's entry.
LEMMA CommandTouches ==
    ASSUME PhaseInv, NEW v \in Vacuums, BeginRun(v) \/ PauseRun(v) \/ GoHome(v) \/ UNCHANGED robotVars
    PROVE  /\ \E b \in BOOLEAN : ours' = [ours EXCEPT ![v] = b]
           /\ PauseRun(v) \/ GoHome(v) \/ UNCHANGED robotVars => (ours'[v] => ours[v])
<1>1. ours \in [Vacuums -> BOOLEAN]
  BY DEF PhaseInv, TypeOK, HouseholdTypeOK
<1>2. ours = [ours EXCEPT ![v] = ours[v]]
  BY <1>1
<1>3. ours' \in {ours, [ours EXCEPT ![v] = TRUE], [ours EXCEPT ![v] = FALSE]}
  BY DEF BeginRun, PauseRun, GoHome, robotVars
<1>4. \E b \in BOOLEAN : ours' = [ours EXCEPT ![v] = b]
  BY <1>1, <1>2, <1>3
<1>5. ASSUME PauseRun(v) \/ GoHome(v) \/ UNCHANGED robotVars
      PROVE  ours'[v] => ours[v]
  BY <1>1, <1>5 DEF PauseRun, GoHome, robotVars
<1> QED
  BY <1>4, <1>5

LEMMA RecordTouched ==
    ASSUME PhaseInv, NEW v \in Vacuums,
           UNCHANGED storeVars \/ \E b \in BOOLEAN : SetVacuumStartedByUs(v, b)
    PROVE  /\ \E l \in BOOLEAN : startedByUs' = [startedByUs EXCEPT ![v] = l]
           /\ disk'.startedByUs \in {disk.startedByUs, startedByUs'}
<1>1. mem \in StoredState
  BY DEF PhaseInv, TypeOK, StoreTypeOK
<1>2. CASE UNCHANGED storeVars
  <2>1. startedByUs \in [Vacuums -> BOOLEAN] /\ startedByUs' = startedByUs
    BY <1>1, <1>2 DEF StoredState, startedByUs, storeVars
  <2>2. startedByUs' = [startedByUs EXCEPT ![v] = startedByUs[v]]
    BY <2>1
  <2> QED
    BY <1>2, <2>1, <2>2 DEF storeVars
<1>3. ASSUME NEW b \in BOOLEAN, SetVacuumStartedByUs(v, b)
      PROVE  /\ \E l \in BOOLEAN : startedByUs' = [startedByUs EXCEPT ![v] = l]
             /\ disk'.startedByUs \in {disk.startedByUs, startedByUs'}
  <2>1. startedByUs' = [startedByUs EXCEPT ![v] = b]
    BY <1>1, <1>3 DEF SetVacuumStartedByUs, startedByUs, StoredState
  <2> QED
    BY <1>3, <2>1, SaveMay DEF SetVacuumStartedByUs
<1> QED
  BY <1>2, <1>3

-----------------------------------------------------------------------------
\* Under an armed-away alarm a vacuum is started and put on record.
LEMMA StartSimulates ==
    ASSUME PhaseInv, StartStep
    PROVE  Quiet \/ \E v \in Vacuums : Automation!StartVacuum(v)
<1>a. pc \in StartCalls /\ IsArmedAway(lastAlarm) /\ vac \in Vacuums
  BY DEF StartStep, StartStatus, CleanSummary, StartReadFails, StartCommand,
     StartCommandFails, Claim, StartCalls, PhaseInv, Phases
<1>b. UNCHANGED <<lastAlarm, state, AtRest>>
  BY <1>a DEF StartStep, StartStatus, CleanSummary, StartReadFails, StartCommand,
     StartCommandFails, Claim, GoTo, NextVacuum, AtRest, StartCalls
<1>c. mem \in StoredState
  BY DEF PhaseInv, TypeOK, StoreTypeOK
<1>1. CASE StartStatus \/ CleanSummary \/ StartReadFails
  BY <1>1, <1>b DEF StartStatus, CleanSummary, StartReadFails, Quiet, storeVars, robotVars,
     startedByUs
<1>2. CASE StartCommand \/ StartCommandFails \/ Claim
  <2>1. /\ BeginRun(vac) \/ UNCHANGED robotVars
        /\ UNCHANGED storeVars \/ SetVacuumStartedByUs(vac, TRUE)
    BY <1>2 DEF StartCommand, StartCommandFails, Claim, ControllerCallFails, CallFails
  <2>2. Touches(vac)
    BY <1>a, <1>b, <2>1, CommandTouches, RecordTouched DEF Touches
  <2>3. startedByUs[vac] => startedByUs'[vac]
    BY <1>a, <1>c, <2>1 DEF SetVacuumStartedByUs, startedByUs, StoredState, storeVars
  <2>4. Automation!IsArmedAway(lastAlarm)
    BY <1>a DEF IsArmedAway, ArmedAway, Automation!IsArmedAway, Automation!ArmedAway
  <2> QED
    BY <1>a, <2>2, <2>3, <2>4, TouchWorks DEF Automation!StartVacuum
<1> QED
  BY <1>1, <1>2 DEF StartStep

\* Under a disengaged alarm a run is given up and struck from the record.
LEMMA StopSimulates ==
    ASSUME PhaseInv, StopStep
    PROVE  Quiet \/ \E v \in Vacuums : Automation!DockVacuum(v)
<1>a. pc \in StopCalls /\ IsDisengaged(lastAlarm) /\ vac \in Vacuums
  BY DEF StopStep, StopStatus, Pause, PauseFails, Charge, ChargeFails, RetryCancelled,
     Release, StopCalls, PhaseInv, Phases
<1>b. UNCHANGED <<lastAlarm, state, AtRest>>
  BY <1>a DEF StopStep, StopStatus, Pause, PauseFails, Charge, ChargeFails, RetryCancelled,
     Release, ChargeNext, AttemptFails, GoTo, NextVacuum, AtRest, StopCalls
<1>c. mem \in StoredState
  BY DEF PhaseInv, TypeOK, StoreTypeOK
<1>1. CASE StopStatus \/ RetryCancelled
  BY <1>1, <1>b DEF StopStatus, RetryCancelled, Quiet, storeVars, robotVars, startedByUs
<1>2. CASE Pause \/ PauseFails \/ Charge \/ ChargeFails \/ Release
  <2>1. /\ PauseRun(vac) \/ GoHome(vac) \/ UNCHANGED robotVars
        /\ UNCHANGED storeVars \/ SetVacuumStartedByUs(vac, FALSE)
    BY <1>2 DEF Pause, PauseFails, Charge, ChargeFails, Release, ControllerCallFails,
       CallFails
  <2>2. Touches(vac) /\ (ours'[vac] => ours[vac])
    BY <1>a, <1>b, <2>1, CommandTouches, RecordTouched DEF Touches
  <2>3. startedByUs'[vac] => startedByUs[vac]
    BY <1>a, <1>c, <2>1 DEF SetVacuumStartedByUs, startedByUs, StoredState, storeVars
  <2>4. Automation!IsDisengaged(lastAlarm)
    BY <1>a DEF IsDisengaged, ArmedHome, Disarmed, Automation!IsDisengaged,
       Automation!ArmedHome, Automation!Disarmed
  <2> QED
    BY <1>a, <2>2, <2>3, <2>4, TouchWorks DEF Automation!DockVacuum
<1> QED
  BY <1>1, <1>2 DEF StopStep

LEMMA DecidingSimulates ==
    ASSUME PhaseInv, PhaseInv', ReconcileStep \/ PollStep
    PROVE  Automation!Decide
<1>1. /\ UNCHANGED <<robotVars, home>>
      /\ UNCHANGED storeVars \/ SetControlState \/ \E a \in ArmStates : SetAlarmState(a)
  BY ControllerStepOutside DEF ReconcileStep, ReconcileBegin, ReconcileFetch,
     ReconcileFetchFails, ReconcileCancelled, ReconcileVacuum, EndReconcile,
     ReconcileStoreAlarm, setState, PollStep, PollSameAlarm, PollNewAlarm, ArmedAwayBegin,
     DisengagedBegin, DisengagedNothingActive, PassOver, TurnToVacuum, EndLoop,
     PhaseInv, TypeOK, ControllerTypeOK, HouseholdTypeOK
<1>2. mem \in StoredState
  BY DEF PhaseInv, TypeOK, StoreTypeOK
<1>3. UNCHANGED <<startedByUs, ours>>
  BY <1>1, <1>2 DEF storeVars, SetControlState, SetAlarmState, startedByUs, StoredState,
     robotVars
<1>4. save \/ UNCHANGED disk
  BY <1>1 DEF storeVars, SetControlState, SetAlarmState
<1> QED
  BY <1>3, <1>4, DecideStep

\* A handler starts or stops the vacuum it was asked for, under any alarm.
LEMMA ApiSimulates ==
    ASSUME PhaseInv, ApiNext
    PROVE  Quiet \/ \E v \in Vacuums : Automation!StartVacuum(v) \/ Automation!DockVacuum(v)
<1> PICK r \in Requests : (\E v \in Vacuums : Receive(r, v)) \/ Handle(r)
  BY DEF ApiNext
<1>a. UNCHANGED <<lastAlarm, state, AtRest>> /\ Robot(r) \in Vacuums
  BY DEF ApiNext, controllerVars, AtRest, PhaseInv, TypeOK, ApiTypeOK, Handlers, Robot
<1>b. mem \in StoredState
  BY DEF PhaseInv, TypeOK, StoreTypeOK
<1>1. CASE (\E v \in Vacuums : Receive(r, v)) \/ ApiStatus(r)
  BY <1>1, <1>a DEF Receive, ApiStatus, Quiet, storeVars, householdVars, startedByUs
<1>2. CASE ApiRun(r) \/ ApiClaim(r)
  <2>1. /\ BeginRun(Robot(r)) \/ UNCHANGED robotVars
        /\ UNCHANGED storeVars \/ SetVacuumStartedByUs(Robot(r), TRUE)
        /\ requests[r].at \in {"status", "run", "claim"}
    BY <1>2 DEF ApiRun, ApiClaim, CallFails, householdVars, robotVars
  <2>2. Touches(Robot(r))
    BY <1>a, <2>1, CommandTouches, RecordTouched DEF Touches
  <2>3. startedByUs[Robot(r)] => startedByUs'[Robot(r)]
    BY <1>a, <1>b, <2>1 DEF SetVacuumStartedByUs, startedByUs, StoredState, storeVars
  <2>4. Robot(r) \in AskedTo({"status", "run", "claim"})
    BY <2>1, AskedFor
  <2> QED
    BY <1>a, <2>2, <2>3, <2>4, TouchWorks DEF Automation!StartVacuum
<1>3. CASE ApiPause(r) \/ ApiCharge(r) \/ ApiRelease(r)
  <2>1. /\ PauseRun(Robot(r)) \/ GoHome(Robot(r)) \/ UNCHANGED robotVars
        /\ UNCHANGED storeVars \/ SetVacuumStartedByUs(Robot(r), FALSE)
        /\ requests[r].at \in {"pause", "charge", "release"}
    BY <1>3 DEF ApiPause, ApiCharge, ApiRelease, CallFails, householdVars, robotVars
  <2>2. Touches(Robot(r)) /\ (ours'[Robot(r)] => ours[Robot(r)])
    BY <1>a, <2>1, CommandTouches, RecordTouched DEF Touches
  <2>3. startedByUs'[Robot(r)] => startedByUs[Robot(r)]
    BY <1>a, <1>b, <2>1 DEF SetVacuumStartedByUs, startedByUs, StoredState, storeVars
  <2>4. Robot(r) \in AskedTo({"pause", "charge", "release"})
    BY <2>1, AskedFor
  <2> QED
    BY <1>a, <2>2, <2>3, <2>4, TouchWorks DEF Automation!DockVacuum
<1> QED
  BY <1>1, <1>2, <1>3 DEF Handle

LEMMA WorldSimulates ==
    ASSUME PhaseInv, WorldNext
    PROVE  Quiet \/ \E v \in Vacuums : Automation!RunEnds(v)
<1>a. UNCHANGED <<lastAlarm, state, AtRest, startedByUs, disk.startedByUs>>
  BY DEF WorldNext, controllerVars, storeVars, AtRest, startedByUs
<1>1. CASE UNCHANGED ours
  BY <1>1, <1>a DEF Quiet
<1>2. ASSUME NEW v \in Vacuums, FinishClean(v) \/ BeFreed(v)
      PROVE  Automation!RunEnds(v)
  BY <1>2, <1>a DEF FinishClean, BeFreed, Automation!RunEnds
<1> QED
  BY <1>1, <1>2 DEF WorldNext, HouseholdNext, ChangeAlarm, FinishInitiating, ReachDock,
     ExpireCooldown, StartByHand, GetStuck, robotVars

LEMMA ProcessSimulates ==
    ASSUME PhaseInv, PhaseInv', ProcessNext
    PROVE  Quiet \/ Automation!Restart \/ Automation!Decide
<1> USE DEF AtRest, startedByUs
<1>1. CASE Boot
  <2>1. /\ pc = "down" /\ pc' = "start" /\ mem' = disk
        /\ UNCHANGED <<lastAlarm, state, ours, disk>>
    BY <1>1 DEF Boot, LoadStore, householdVars
  <2>2. lastAlarm = Unknown /\ state = StateIdle
    BY <2>1 DEF PhaseInv, Phases
  <2> QED
    BY <2>1, <2>2 DEF Automation!Restart, Unknown, Automation!Unknown, StateIdle,
       Automation!StateIdle
<1>2. CASE Crash \/ ExitProcess
  BY <1>2 DEF Crash, ExitProcess, ProcessGone, householdVars, Automation!Restart, Unknown,
     Automation!Unknown, StateIdle, Automation!StateIdle
<1>3. CASE Terminate
  BY <1>3 DEF Terminate, Quiet, householdVars, storeVars
<1>4. CASE StopPolling \/ persistCookie
  <2>1. UNCHANGED <<mem, ours>> /\ (save \/ UNCHANGED disk)
    BY <1>4 DEF StopPolling, persistCookie, SetVerisureCookie, householdVars, storeVars
  <2> QED
    BY <2>1, DecideStep
<1> QED
  BY <1>1, <1>2, <1>3, <1>4 DEF ProcessNext

\* Every step of the service is a step of AlarmAutomation or changes nothing there.
LEMMA StepSimulates ==
    PhaseInv /\ PhaseInv' /\ [Next]_vars =>
        [Automation!AutomationNext]_(Automation!automationVars)
<1> SUFFICES ASSUME PhaseInv, PhaseInv', [Next]_vars
             PROVE  Automation!AutomationNext \/ UNCHANGED Automation!automationVars
  OBVIOUS
<1> SUFFICES Automation!AutomationNext
  OBVIOUS
<1>a. Vacuums = Automation!Vacuums
  BY DEF Vacuums, Automation!Vacuums
<1>b. /\ AskedTo({"status", "run", "claim"})' \in SUBSET Automation!Vacuums
      /\ AskedTo({"pause", "charge", "release"})' \in SUBSET Automation!Vacuums
  BY AskedTyped
<1>c. \/ Automation!Decide \/ Automation!Restart \/ UNCHANGED Automation!promiseVars
      \/ \E v \in Vacuums :
          Automation!StartVacuum(v) \/ Automation!DockVacuum(v) \/ Automation!RunEnds(v)
  <2>1. CASE ControllerStep
    BY <2>1, StartSimulates, StopSimulates, DecidingSimulates, QuietStutters
       DEF ControllerStep, ControllerNext
  <2>2. CASE ApiNext
    BY <2>2, ApiSimulates, QuietStutters
  <2>3. CASE WorldNext
    BY <2>3, WorldSimulates, QuietStutters
  <2>4. CASE ProcessNext
    BY <2>4, ProcessSimulates, QuietStutters
  <2>5. CASE UNCHANGED vars
    <3>1. Quiet
      BY <2>5 DEF vars, householdVars, storeVars, controllerVars, Quiet, AtRest, startedByUs
    <3> QED
      BY <3>1, QuietStutters
  <2> QED
    BY <2>1, <2>2, <2>3, <2>4, <2>5 DEF Next
<1> QED
  BY <1>a, <1>b, <1>c DEF Automation!AutomationNext

\* The service implements AlarmAutomation, whatever its household, the network, the
\* file system and the operators do: it begins a run only having seen the alarm
\* armed away and forgets one only having seen it disengaged, except for the vacuum
\* a handler is just starting or stopping for an operator
\* (controller.go:143-217, 309-387; api.go:52-120; store.go:32-51).
THEOREM PromiseKept == Spec => KeepsThePromise
<1>1. PhaseInv /\ PhaseInv' /\ [Next]_vars =>
        [Automation!AutomationNext]_(Automation!automationVars)
  BY StepSimulates
<1> QED
  BY InitKeepsPromise, <1>1, PhaseInvHolds, PTL
     DEF Spec, KeepsThePromise, Automation!AutomationSpec
=============================================================================
