------------------------------ MODULE RunProofs -----------------------------
(***************************************************************************)
(* Theorems about Service that hold under some sets of events only, for    *)
(* every number of vacuums: the cooldown, and how the program may lose     *)
(* track of a run it began.                                                *)
(***************************************************************************)
EXTENDS ServiceProofs

\* Every variable of the service keeps its type whatever the household does and
\* however often the process is killed: no loop of the controller leaves its vacuums
\* and no retry count its bound (controller.go:126-150, 405-432, 500-515).
THEOREM ServiceTyped == Spec => []TypeOK
<1>1. TypeOK /\ Phases => TypeOK
  OBVIOUS
<1> QED
  BY <1>1, PhasesHold, PTL

LEMMA PhaseInvHolds == Spec => []PhaseInv
<1>1. TypeOK /\ Phases => PhaseInv
  BY DEF PhaseInv
<1> QED
  BY <1>1, PhasesHold, PTL

-----------------------------------------------------------------------------
(* The cooldown                                                            *)

RestingStates == {Idle, Charging, Paused}

CooldownInv ==
    /\ pc \in {"summary", "command"} => device[vac] \in RestingStates
    /\ pc = "command" => ~recent[vac]

\* A robot at rest stays at rest and cleans nothing, whatever the others do.
LEMMA WorldKeepsRest ==
    ASSUME HouseholdTypeOK, "manual" \notin Events, HouseholdNext, NEW v \in Vacuums,
           device[v] \in RestingStates
    PROVE  device'[v] \in RestingStates /\ (recent'[v] => recent[v])
<1> USE DEF HouseholdTypeOK, RestingStates, robotVars, Idle, Charging, Paused, Cleaning,
            Returning, Stuck, Initiating
<1>1. CASE ChangeAlarm
  BY <1>1 DEF ChangeAlarm
<1>2. ASSUME NEW w \in Vacuums,
             \/ FinishInitiating(w) \/ FinishClean(w) \/ ReachDock(w)
             \/ ExpireCooldown(w) \/ StartByHand(w) \/ GetStuck(w) \/ BeFreed(w)
      PROVE  device'[v] \in RestingStates /\ (recent'[v] => recent[v])
  BY <1>2 DEF FinishInitiating, FinishClean, ReachDock, ExpireCooldown,
              StartByHand, GetStuck, BeFreed
<1> QED
  BY <1>1, <1>2 DEF HouseholdNext

\* Only a status leads to the summary, and only a summary to the command.
LEMMA OnTheWay ==
    ASSUME PhaseInv, ControllerNext, pc' \in {"summary", "command"}
    PROVE  StartStatus \/ CleanSummary
<1> USE DEF GoTo, NextVacuum, LeaveLocals
<1>1. CASE ReconcileStep
  BY <1>1 DEF ReconcileStep, ReconcileBegin, ReconcileFetch, ReconcileFetchFails,
     GiveUpReconcile, ReconcileCancelled, ReconcileVacuum, EndReconcile, ReconcileStoreAlarm
<1>2. CASE PollStep
  BY <1>2 DEF PollStep, PollSameAlarm, PollNewAlarm, ArmedAwayBegin, DisengagedBegin,
     DisengagedNothingActive, PassOver, TurnToVacuum, EndLoop, EnterLoop
<1>3. CASE StopStep
  BY <1>3 DEF StopStep, StopStatus, Pause, PauseFails, Charge, ChargeFails,
     RetryCancelled, Release, ChargeNext, AttemptFails
<1>4. CASE StartStep
  BY <1>4 DEF StartStep, StartReadFails, StartCommand, StartCommandFails, Claim
<1> QED
  BY <1>1, <1>2, <1>3, <1>4 DEF ControllerNext

LEMMA CooldownStep ==
    ASSUME CooldownEnabled, "manual" \notin Events, Requests = {},
           PhaseInv, CooldownInv, [Next]_vars
    PROVE  CooldownInv'
<1>a. HouseholdTypeOK
  BY DEF PhaseInv, TypeOK
<1>b. pc \in {"summary", "command", "startStatus"} => vac \in Vacuums
  BY DEF PhaseInv, Phases, StartCalls
<1>1. CASE ControllerStep /\ pc' \in {"summary", "command"}
  <2>1. StartStatus \/ CleanSummary
    BY <1>1, OnTheWay DEF ControllerStep
  <2>2. CASE StartStatus
    <3>1. pc' = "summary" /\ UNCHANGED <<vac, device>> /\ Startable(device[vac])
      BY <1>1, <2>2 DEF StartStatus, GoTo, NextVacuum, locals, robotVars
    <3>2. device[vac] \in RestingStates
      BY <3>1, <2>2, <1>a, <1>b DEF StartStatus, HouseholdTypeOK, DeviceStates, Startable, IsIdle,
         IsPaused, RestingStates, Initiating, Idle, Cleaning, Returning, Charging, Paused, Stuck
    <3> QED
      BY <3>1, <3>2 DEF CooldownInv
  <2>3. CASE CleanSummary
    BY <1>1, <2>3 DEF CleanSummary, GoTo, NextVacuum, locals, robotVars, CooldownInv
  <2> QED
    BY <2>1, <2>2, <2>3
<1>2. CASE WorldNext
  BY <1>2, <1>a, <1>b, WorldKeepsRest DEF WorldNext, controllerVars, locals, CooldownInv
<1>3. CASE ApiNext
  BY <1>3 DEF ApiNext
<1>4. CASE ProcessNext \/ UNCHANGED vars
  BY <1>4 DEF ProcessNext, Boot, Crash, ExitProcess, ProcessGone, Terminate, StopPolling,
     persistCookie, GoTo, vars, householdVars, controllerVars, locals, CooldownInv
<1>5. pc' \notin {"summary", "command"} => CooldownInv'
  BY DEF CooldownInv
<1> QED
  BY <1>1, <1>2, <1>3, <1>4, <1>5 DEF Next

\* Unless someone starts a robot past the program, the controller starts none
\* within the cooldown of its last clean: what it read of the history still holds
\* when it sends the command (controller.go:268-288, 449).
THEOREM CooldownKept ==
    ASSUME CooldownEnabled, "manual" \notin Events, Requests = {}
    PROVE  Spec => CooldownRespected
<1>1. Init => CooldownInv
  BY DEF Init, ControllerInit, CooldownInv
<1>2. PhaseInv /\ CooldownInv /\ [Next]_vars => CooldownInv'
  BY CooldownStep
<1>3. CooldownInv =>
        [\A v \in Vacuums : pc = "command" /\ vac = v /\ ~ours[v] /\ ours'[v] => ~recent[v]]_vars
  BY DEF CooldownInv
<1> QED
  BY <1>1, <1>2, <1>3, PhaseInvHolds, PTL DEF Spec, CooldownRespected

-----------------------------------------------------------------------------
(* The runs the program began                                              *)

\* A run of ours is on its way or in an error, and a robot that is being released
\* is on no such run: the states in which a clean ends by itself or is started by
\* hand are not among them.
RunInv ==
    /\ \A v \in Vacuums : device[v] # Initiating
    /\ \A v \in Vacuums : ours[v] => device[v] \in {Cleaning, Paused, Stuck}
    /\ pc = "release" => ~(ours[vac] /\ Running(vac))

LEMMA InitRuns == Init => RunInv
BY DEF Init, HouseholdInit, ControllerInit, RunInv, Charging, Initiating

\* What a command does to the runs of all robots, obeyed or not.
LEMMA CommandRuns ==
    ASSUME HouseholdTypeOK, RunInv, "slow_start" \notin Events, NEW w \in Vacuums,
           BeginRun(w) \/ PauseRun(w) \/ GoHome(w) \/ UNCHANGED robotVars,
           NEW v \in Vacuums
    PROVE  /\ device'[v] # Initiating
           /\ ours'[v] => device'[v] \in {Cleaning, Paused, Stuck}
           /\ ours'[v] /\ Running(v)' =>
                 (ours[v] /\ Running(v)) \/ (v = w /\ BeginRun(w) /\ ~UNCHANGED robotVars)
<1> USE DEF HouseholdTypeOK, RunInv, Running, robotVars, DeviceStates, IsError, IsActiveClean,
            Idle, Charging, Paused, Cleaning, Returning, Stuck, Initiating
<1>1. CASE UNCHANGED robotVars
  BY <1>1
<1>2. CASE BeginRun(w) /\ ~UNCHANGED robotVars
  BY <1>2 DEF BeginRun
<1>3. CASE PauseRun(w)
  BY <1>3 DEF PauseRun
<1>4. CASE GoHome(w)
  BY <1>4 DEF GoHome
<1> QED
  BY <1>1, <1>2, <1>3, <1>4

\* Left to themselves, the robots begin no run of ours.
LEMMA WorldRuns ==
    ASSUME HouseholdTypeOK, RunInv, HouseholdNext, NEW v \in Vacuums
    PROVE  /\ device'[v] # Initiating
           /\ ours'[v] => device'[v] \in {Cleaning, Paused, Stuck}
           /\ ours'[v] /\ Running(v)' => ours[v] /\ Running(v)
<1> USE DEF HouseholdTypeOK, RunInv, Running, robotVars, Idle, Charging, Paused, Cleaning,
            Returning, Stuck, Initiating
<1>1. CASE ChangeAlarm
  BY <1>1 DEF ChangeAlarm
<1>2. ASSUME NEW w \in Vacuums,
             \/ FinishInitiating(w) \/ FinishClean(w) \/ ReachDock(w)
             \/ ExpireCooldown(w) \/ StartByHand(w) \/ GetStuck(w) \/ BeFreed(w)
      PROVE  /\ device'[v] # Initiating
             /\ ours'[v] => device'[v] \in {Cleaning, Paused, Stuck}
             /\ ours'[v] /\ Running(v)' => ours[v] /\ Running(v)
  BY <1>2 DEF FinishInitiating, FinishClean, ReachDock, ExpireCooldown,
              StartByHand, GetStuck, BeFreed
<1> QED
  BY <1>1, <1>2 DEF HouseholdNext

\* Only a status that shows no run and an accepted dock command lead to a release.
LEMMA BeforeRelease ==
    ASSUME ControllerNext, pc' = "release"
    PROVE  StopStatus \/ Charge
<1> USE DEF GoTo, NextVacuum, LeaveLocals
<1>1. CASE ReconcileStep
  BY <1>1 DEF ReconcileStep, ReconcileBegin, ReconcileFetch, ReconcileFetchFails,
     GiveUpReconcile, ReconcileCancelled, ReconcileVacuum, EndReconcile, ReconcileStoreAlarm
<1>2. CASE PollStep
  BY <1>2 DEF PollStep, PollSameAlarm, PollNewAlarm, ArmedAwayBegin, DisengagedBegin,
     DisengagedNothingActive, PassOver, TurnToVacuum, EndLoop, EnterLoop
<1>3. CASE StartStep
  BY <1>3 DEF StartStep, StartStatus, CleanSummary, StartReadFails, StartCommand,
     StartCommandFails, Claim
<1>4. CASE StopStep
  BY <1>4 DEF StopStep, Pause, PauseFails, ChargeFails, RetryCancelled, Release, ChargeNext,
     AttemptFails
<1> QED
  BY <1>1, <1>2, <1>3, <1>4 DEF ControllerNext

LEMMA ReleaseFindsNoRun ==
    ASSUME PhaseInv, RunInv, ControllerNext, pc' = "release"
    PROVE  ~(ours'[vac'] /\ Running(vac)')
<1>a. HouseholdTypeOK
  BY DEF PhaseInv, TypeOK
<1>1. CASE StopStatus
  <2>1. pc = "stopStatus" /\ vac \in Vacuums
    BY <1>1 DEF StopStatus, PhaseInv, Phases, StopCalls
  <2>2. vac' = vac /\ UNCHANGED robotVars /\ ~Running(vac)
    BY <1>1, <2>1, <1>a
       DEF StopStatus, RunInv, HouseholdTypeOK, DeviceStates, Running, IsError,
           IsActiveClean, IsPaused, NoReply, Initiating, Idle, Cleaning, Returning,
           Charging, Paused, Stuck
  <2> QED
    BY <2>2 DEF Running, robotVars
<1>2. CASE Charge
  <2>1. vac \in Vacuums /\ vac' = vac /\ GoHome(vac)
    BY <1>2 DEF Charge, GoTo, NextVacuum, locals, PhaseInv, Phases, StopCalls
  <2>2. ~(ours'[vac] /\ device'[vac] \in {Initiating, Cleaning, Paused})
    BY <2>1, <1>a DEF GoHome, RunInv, HouseholdTypeOK, IsError, robotVars, Initiating,
       Cleaning, Paused, Stuck, Returning, Charging, Idle
  <2> QED
    BY <2>1, <2>2 DEF Running
<1> QED
  BY <1>1, <1>2, BeforeRelease

LEMMA RunStep ==
    ASSUME "slow_start" \notin Events, Requests = {}, PhaseInv, RunInv, [Next]_vars
    PROVE  RunInv'
<1>a. HouseholdTypeOK /\ (pc = "release" => vac \in Vacuums)
  BY DEF PhaseInv, TypeOK, Phases, StopCalls
<1>1. CASE ControllerStep
  <2>1. \/ UNCHANGED robotVars
        \/ vac \in Vacuums /\ (BeginRun(vac) \/ PauseRun(vac) \/ GoHome(vac))
    BY <1>1, ControllerEffects DEF ControllerStep
  <2>2. /\ \A v \in Vacuums : device'[v] # Initiating
        /\ \A v \in Vacuums : ours'[v] => device'[v] \in {Cleaning, Paused, Stuck}
    <3>1. CASE UNCHANGED robotVars
      BY <3>1 DEF RunInv, robotVars
    <3>2. CASE vac \in Vacuums /\ (BeginRun(vac) \/ PauseRun(vac) \/ GoHome(vac))
      BY <3>2, <1>a, CommandRuns
    <3> QED
      BY <2>1, <3>1, <3>2
  <2> QED
    BY <1>1, <2>2, ReleaseFindsNoRun DEF ControllerStep, RunInv, Running
<1>2. CASE WorldNext
  <2>1. UNCHANGED <<pc, vac>> /\ HouseholdNext
    BY <1>2 DEF WorldNext, controllerVars, locals
  <2> QED
    BY <1>a, <2>1, WorldRuns DEF RunInv, Running
<1>3. CASE ApiNext
  BY <1>3 DEF ApiNext
<1>4. CASE ProcessNext \/ UNCHANGED vars
  <2>1. UNCHANGED <<device, ours>> /\ (pc' = "release" => UNCHANGED <<pc, vac>>)
    BY <1>4 DEF ProcessNext, Boot, Crash, ExitProcess, ProcessGone, Terminate, StopPolling,
       GoTo, persistCookie, vars, householdVars, controllerVars, locals
  <2> QED
    BY <2>1 DEF RunInv, Running
<1> QED
  BY <1>1, <1>2, <1>3, <1>4 DEF Next

LEMMA ControllerTracks ==
    ASSUME "slow_start" \notin Events, PhaseInv, RunInv, ControllerStep,
           NEW v \in Vacuums, ~Untracked(v), Untracked(v)'
    PROVE  ObeyedUnanswered(v)
<1>a. HouseholdTypeOK /\ mem \in StoredState /\ lastAlarm \in ArmStates
  BY DEF PhaseInv, TypeOK, StoreTypeOK, ControllerTypeOK
<1>b. ~startedByUs'[v] /\ ours'[v] /\ Running(v)' /\ ~(pc' = "claim" /\ vac' = v)
  BY DEF Untracked
<1>c. /\ UNCHANGED storeVars \/ SetControlState => UNCHANGED startedByUs
      /\ \A a \in ArmStates : SetAlarmState(a) => UNCHANGED startedByUs
      /\ \A w \in Vacuums, b \in BOOLEAN : SetVacuumStartedByUs(w, b) =>
            startedByUs' = [startedByUs EXCEPT ![w] = b]
  BY <1>a DEF storeVars, SetControlState, SetAlarmState, SetVacuumStartedByUs, startedByUs,
     StoredState
<1>1. CASE pc = "claim"
  <2>1. Claim /\ vac \in Vacuums
    BY <1>1 DEF ControllerStep, ControllerNext, ReconcileStep, ReconcileBegin,
       ReconcileFetch, ReconcileFetchFails, ReconcileCancelled, ReconcileVacuum,
       EndReconcile, ReconcileStoreAlarm, PollStep, PollSameAlarm, PollNewAlarm,
       ArmedAwayBegin, DisengagedBegin, DisengagedNothingActive, PassOver, TurnToVacuum,
       EndLoop, StartStep, StartStatus, CleanSummary, StartReadFails, StartCommand,
       StartCommandFails, StopStep, StopStatus, Pause, PauseFails, Charge, ChargeFails,
       RetryCancelled, Release, PhaseInv, Phases, StartCalls
  <2>2. UNCHANGED robotVars /\ startedByUs' = [startedByUs EXCEPT ![vac] = TRUE]
    BY <2>1, <1>c DEF Claim
  <2>3. startedByUs \in [Vacuums -> BOOLEAN]
    BY <1>a DEF startedByUs, StoredState
  <2> QED
    BY <1>b, <2>1, <2>2, <2>3 DEF Untracked, Running, robotVars
<1>2. CASE pc # "claim"
  <2>1. ours[v] /\ Running(v) => startedByUs[v]
    BY <1>2 DEF Untracked
  <2>2. CASE UNCHANGED robotVars /\ UNCHANGED startedByUs
    BY <1>b, <2>1, <2>2 DEF Running, robotVars
  <2>3. CASE /\ vac \in Vacuums /\ UNCHANGED startedByUs
             /\ PauseRun(vac) \/ GoHome(vac)
    <3>1. ~(BeginRun(vac) /\ ~UNCHANGED robotVars)
      BY <2>3, <1>a DEF PauseRun, GoHome, BeginRun, HouseholdTypeOK, robotVars, IsActiveClean,
         IsError, Cleaning, Paused, Returning, Charging, Stuck, Initiating
    <3> QED
      BY <1>a, <1>b, <2>1, <2>3, <3>1, CommandRuns
  <2>4. CASE pc = "release" /\ UNCHANGED robotVars /\ vac \in Vacuums
             /\ startedByUs' = [startedByUs EXCEPT ![vac] = FALSE]
    BY <1>a, <1>b, <2>1, <2>4 DEF RunInv, Running, robotVars, startedByUs, StoredState
  <2>5. CASE pc = "command" /\ vac \in Vacuums /\ BeginRun(vac) /\ UNCHANGED startedByUs
    <3>1. StartCommand \/ StartCommandFails
      BY <2>5 DEF ControllerStep, ControllerNext, ReconcileStep, ReconcileBegin,
         ReconcileFetch, ReconcileFetchFails, ReconcileCancelled, ReconcileVacuum,
         EndReconcile, ReconcileStoreAlarm, PollStep, PollSameAlarm, PollNewAlarm,
         ArmedAwayBegin, DisengagedBegin, DisengagedNothingActive, PassOver, TurnToVacuum,
         EndLoop, StartStep, StartStatus, CleanSummary, StartReadFails, Claim, StopStep,
         StopStatus, Pause, PauseFails, Charge, ChargeFails, RetryCancelled, Release
    <3>2. v = vac /\ ~UNCHANGED robotVars
      BY <1>a, <1>b, <2>1, <2>5, CommandRuns
    <3>3. ~StartCommand
      BY <1>b, <3>2 DEF StartCommand, GoTo, locals
    <3> QED
      BY <2>5, <3>1, <3>2, <3>3 DEF StartCommandFails, ControllerCallFails, CallFails,
         ObeyedUnanswered
  <2> QED
    BY <1>2, <1>c, <2>2, <2>3, <2>4, <2>5, ControllerEffects DEF ControllerStep
<1> QED
  BY <1>1, <1>2

LEMMA TrackedStep ==
    ASSUME "slow_start" \notin Events, Requests = {}, PhaseInv, RunInv, Forgotten,
           [Next]_vars, NEW v \in Vacuums, ~Untracked(v), Untracked(v)'
    PROVE  ObeyedUnanswered(v) \/ DiesUnrecorded(v)
<1>a. ~startedByUs'[v] /\ ours'[v] /\ Running(v)' /\ ~(pc' = "claim" /\ vac' = v)
  BY DEF Untracked
<1>1. CASE ControllerStep
  BY <1>1, ControllerTracks
<1>2. CASE WorldNext
  <2>1. UNCHANGED <<pc, vac, startedByUs>> /\ ours[v] /\ Running(v)
    BY <1>a, <1>2, WorldRuns DEF WorldNext, storeVars, startedByUs, controllerVars, locals,
       PhaseInv, TypeOK
  <2> QED
    BY <1>a, <2>1 DEF Untracked
<1>3. CASE ApiNext
  BY <1>3 DEF ApiNext
<1>4. CASE Crash \/ ExitProcess
  BY <1>a, <1>4 DEF Crash, ExitProcess, ProcessGone, Up, startedByUs, DiesUnrecorded
<1>5. CASE Boot \/ Terminate \/ StopPolling \/ persistCookie \/ UNCHANGED vars
  <2>1. /\ UNCHANGED <<device, ours, startedByUs>>
        /\ pc = "claim" => UNCHANGED <<pc, vac>>
    BY <1>5 DEF Boot, LoadStore, Forgotten, Terminate, StopPolling, AtRest, persistCookie,
       SetVerisureCookie, vars, householdVars, storeVars, startedByUs, controllerVars, locals
  <2> QED
    BY <1>a, <2>1 DEF Untracked, Running
<1> QED
  BY <1>1, <1>2, <1>3, <1>4, <1>5 DEF Next, ProcessNext

\* For any number of vacuums, whatever calls fail, however often the process is
\* stopped or killed and saves fail: where robots begin to clean at once, the
\* program loses track of a run of its own only through a start whose answer it
\* never gets, or by dying with the record not yet in the file
\* (controller.go:316-324, 356-387; store.go:32-51).
THEOREM RunsTracked ==
    ASSUME "slow_start" \notin Events
    PROVE  Spec => StaysTracked
<1>1. Init => RunInv /\ Forgotten
  BY InitRuns DEF Init, StoreInit, Forgotten
<1>2. Requests = {} /\ PhaseInv /\ RunInv /\ Forgotten /\ [Next]_vars => (RunInv /\ Forgotten)'
  BY RunStep, ForgottenStep
<1>3. Requests = {} /\ PhaseInv /\ RunInv /\ Forgotten /\ [Next]_vars =>
        [\A v \in Vacuums :
            ~Untracked(v) /\ Untracked(v)' => ObeyedUnanswered(v) \/ DiesUnrecorded(v)]_vars
  BY TrackedStep
<1>4. CASE Requests = {}
  <2>1. Requests = {} /\ PhaseInv /\ RunInv /\ Forgotten /\ [Next]_vars =>
          [Requests = {} =>
              \A v \in Vacuums :
                  ~Untracked(v) /\ Untracked(v)' => ObeyedUnanswered(v) \/ DiesUnrecorded(v)]_vars
    BY <1>3
  <2> QED
    BY <1>1, <1>2, <1>4, <2>1, PhaseInvHolds, PTL DEF Spec, StaysTracked
<1>5. CASE Requests # {}
  <2>1. [Requests = {} =>
            \A v \in Vacuums :
                ~Untracked(v) /\ Untracked(v)' => ObeyedUnanswered(v) \/ DiesUnrecorded(v)]_vars
    BY <1>5
  <2> QED
    BY <2>1, PTL DEF StaysTracked
<1> QED
  BY <1>4, <1>5
=============================================================================
