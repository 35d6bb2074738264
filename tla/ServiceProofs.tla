---------------------------- MODULE ServiceProofs ---------------------------
(***************************************************************************)
(* Theorems about Service for every number of vacuums, every set of events *)
(* and every number of concurrent requests.                                *)
(***************************************************************************)
EXTENDS Service, TLAPS

-----------------------------------------------------------------------------
(* What the operators the actions share do to the state.                   *)

\* A command leaves the robots in a state a robot can be in, obeyed or not.
LEMMA CommandTypes ==
    ASSUME HouseholdTypeOK, NEW v \in Vacuums,
           BeginRun(v) \/ PauseRun(v) \/ GoHome(v) \/ UNCHANGED robotVars,
           UNCHANGED home
    PROVE  HouseholdTypeOK'
<1> USE DEF HouseholdTypeOK, robotVars
<1>1. CASE BeginRun(v)
  BY <1>1 DEF BeginRun, DeviceStates
<1>2. CASE PauseRun(v)
  BY <1>2 DEF PauseRun, DeviceStates
<1>3. CASE GoHome(v)
  BY <1>3 DEF GoHome, DeviceStates
<1>4. CASE UNCHANGED robotVars
  BY <1>4
<1> QED
  BY <1>1, <1>2, <1>3, <1>4

\* A setter of the store leaves a state that can be stored, saved or not.
LEMMA SetterTypes ==
    ASSUME StoreTypeOK,
           \/ \E v \in Vacuums, b \in BOOLEAN : SetVacuumStartedByUs(v, b)
           \/ \E a \in ArmStates : SetAlarmState(a)
           \/ SetControlState \/ SetVerisureCookie
    PROVE  StoreTypeOK'
<1> USE DEF StoreTypeOK, StoredState, save
<1>1. ASSUME NEW v \in Vacuums, NEW b \in BOOLEAN, SetVacuumStartedByUs(v, b)
      PROVE  StoreTypeOK'
  BY <1>1 DEF SetVacuumStartedByUs
<1>2. ASSUME NEW a \in ArmStates, SetAlarmState(a)
      PROVE  StoreTypeOK'
  BY <1>2 DEF SetAlarmState
<1>3. CASE SetControlState \/ SetVerisureCookie
  BY <1>3 DEF SetControlState, SetVerisureCookie
<1> QED
  BY <1>1, <1>2, <1>3

-----------------------------------------------------------------------------
(* Type correctness and the phases of the controller.                      *)

PhaseInv == TypeOK /\ Phases

LEMMA InitPhaseInv == Init => PhaseInv
<1> SUFFICES ASSUME Init PROVE PhaseInv
  OBVIOUS
<1> USE DomainAssumption, ControllerAssumption
<1>1. HouseholdTypeOK
  BY DEF Init, HouseholdInit, HouseholdTypeOK, DeviceStates
<1>2. StoreTypeOK
  BY DEF Init, StoreInit, StoreTypeOK, StoredState, NothingStored, ArmStates
<1>3. ControllerTypeOK
  <2>1. vac \in 1 .. N + 1 /\ tries \in Nat /\ tries < MaxTries
    BY DEF Init, ControllerInit, LocalsInit
  <2> QED
    BY <2>1 DEF Init, ControllerInit, LocalsInit, NoneStarted, ControllerTypeOK,
                Locations, Loops, ArmStates, ControlStates
<1>4. ApiTypeOK
  BY DEF Init, ApiInit, ApiTypeOK, Handlers, NoRequest, Vacuums
<1>5. Phases
  BY DEF Init, ControllerInit, LocalsInit, Phases, StartCalls, StopCalls
<1> QED
  BY <1>1, <1>2, <1>3, <1>4, <1>5 DEF PhaseInv, TypeOK

\* The controller's steps keep the robots and the store well-typed.
LEMMA ControllerStepOutside ==
    ASSUME PhaseInv, ControllerNext
    PROVE  HouseholdTypeOK' /\ StoreTypeOK'
<1>1. ASSUME UNCHANGED <<storeVars, robotVars, home>>
      PROVE  HouseholdTypeOK' /\ StoreTypeOK'
  BY <1>1 DEF PhaseInv, TypeOK, HouseholdTypeOK, StoreTypeOK, storeVars, robotVars
<1>2. ASSUME UNCHANGED <<robotVars, home>>,
             \/ \E v \in Vacuums, b \in BOOLEAN : SetVacuumStartedByUs(v, b)
             \/ \E a \in ArmStates : SetAlarmState(a)
             \/ SetControlState
      PROVE  HouseholdTypeOK' /\ StoreTypeOK'
  <2>1. HouseholdTypeOK'
    BY <1>2 DEF PhaseInv, TypeOK, HouseholdTypeOK, robotVars
  <2> QED
    BY <1>2, <2>1, SetterTypes DEF PhaseInv, TypeOK
<1>3. ASSUME UNCHANGED <<storeVars, home>>, vac \in Vacuums,
             BeginRun(vac) \/ PauseRun(vac) \/ GoHome(vac) \/ UNCHANGED robotVars
      PROVE  HouseholdTypeOK' /\ StoreTypeOK'
  <2>1. StoreTypeOK'
    BY <1>3 DEF PhaseInv, TypeOK, StoreTypeOK, storeVars
  <2> QED
    BY <1>3, <2>1, CommandTypes DEF PhaseInv, TypeOK
<1>4. pc \in StartCalls \cup StopCalls => vac \in Vacuums
  BY DEF PhaseInv, Phases
<1>5. home \in ArmStates /\ lastAlarm \in ArmStates
  BY DEF PhaseInv, TypeOK, HouseholdTypeOK, ControllerTypeOK
<1>6. CASE ReconcileBegin \/ ReconcileFetch \/ ReconcileFetchFails \/ ReconcileCancelled \/ ReconcileVacuum
  BY <1>1, <1>6 DEF ReconcileBegin, ReconcileFetch, ReconcileFetchFails, ReconcileCancelled, ReconcileVacuum
<1>7. CASE PollSameAlarm \/ ArmedAwayBegin \/ DisengagedBegin \/ PassOver \/ TurnToVacuum
  BY <1>1, <1>7 DEF PollSameAlarm, ArmedAwayBegin, DisengagedBegin, PassOver, TurnToVacuum
<1>8. CASE StartStatus \/ CleanSummary \/ StartReadFails \/ StopStatus \/ RetryCancelled
  BY <1>1, <1>8 DEF StartStatus, CleanSummary, StartReadFails, StopStatus, RetryCancelled
<1>9. CASE EndReconcile
  BY <1>2, <1>5, <1>9 DEF EndReconcile, setState
<1>10. CASE EndLoop
  BY <1>2, <1>5, <1>10 DEF EndLoop, setState
<1>11. CASE DisengagedNothingActive
  BY <1>2, <1>5, <1>11 DEF DisengagedNothingActive, setState
<1>12. CASE ReconcileStoreAlarm
  BY <1>2, <1>5, <1>12 DEF ReconcileStoreAlarm
<1>13. CASE PollNewAlarm
  BY <1>2, <1>5, <1>13 DEF PollNewAlarm
<1>14. CASE Claim \/ Release
  BY <1>2, <1>4, <1>14 DEF Claim, Release, StartCalls, StopCalls
<1>15. CASE StartCommand
  BY <1>3, <1>4, <1>15 DEF StartCommand, StartCalls, StopCalls
<1>16. CASE StartCommandFails
  BY <1>3, <1>4, <1>16 DEF StartCommandFails, ControllerCallFails, CallFails, StartCalls, StopCalls
<1>17. CASE Pause
  BY <1>3, <1>4, <1>17 DEF Pause, StartCalls, StopCalls
<1>18. CASE PauseFails
  BY <1>3, <1>4, <1>18 DEF PauseFails, ControllerCallFails, CallFails, StartCalls, StopCalls
<1>19. CASE Charge
  BY <1>3, <1>4, <1>19 DEF Charge, StartCalls, StopCalls
<1>20. CASE ChargeFails
  BY <1>3, <1>4, <1>20 DEF ChargeFails, ControllerCallFails, CallFails, StartCalls, StopCalls
<1> QED
  BY <1>6, <1>7, <1>8, <1>9, <1>10, <1>11, <1>12, <1>13, <1>14, <1>15, <1>16, <1>17, <1>18, <1>19, <1>20
     DEF ControllerNext, ReconcileStep, PollStep, StartStep, StopStep

\* The controller's steps keep its own variables well-typed.
LEMMA ControllerStepTypes ==
    ASSUME PhaseInv, ControllerNext
    PROVE  ControllerTypeOK'
<1>a. ControllerTypeOK /\ startedByUs \in [Vacuums -> BOOLEAN] /\ home \in ArmStates
  BY DEF PhaseInv, TypeOK, StoreTypeOK, StoredState, startedByUs, HouseholdTypeOK
<1>b. /\ 1 \in 1 .. N + 1
      /\ \A v \in Vacuums : v + 1 \in 1 .. N + 1
      /\ 0 \in Nat /\ 0 < MaxTries /\ 0 < MaxReconcileAttempts
  BY DomainAssumption, ControllerAssumption DEF Vacuums
<1>c. NoneStarted \in [Vacuums -> BOOLEAN]
  BY DEF NoneStarted
<1>d. /\ pc \in StartCalls \cup StopCalls => vac \in Vacuums
      /\ pc \in {"down", "start"} => tries = 0
  BY DEF PhaseInv, Phases
<1>e. vac \in Vacuums => device[vac] \in DeviceStates
  BY DEF PhaseInv, TypeOK, HouseholdTypeOK
<1> HIDE DEF NoneStarted, Vacuums, ArmStates, DeviceStates, NoReply
<1> USE <1>a, <1>b, <1>c, <1>d, <1>e, ControllerAssumption
    DEF ControllerTypeOK, Locations, Loops, StartCalls, StopCalls, GoTo, NextVacuum,
        EnterLoop, LeaveLocals, setState, locals, ControlStates
<1>1. CASE ReconcileBegin
  BY <1>1 DEF ReconcileBegin
<1>2. CASE ReconcileFetch
  BY <1>2 DEF ReconcileFetch
<1>3. CASE ReconcileFetchFails
  <2>g. pc = "fetch"
    BY <1>3 DEF ReconcileFetchFails
  <2>1. CASE GiveUpReconcile
    BY <2>g, <2>1 DEF GiveUpReconcile
  <2>2. CASE tries < MaxReconcileAttempts - 1 /\ tries' = tries + 1
           /\ UNCHANGED <<pc, loop, vac, snapshot, anyActive, seen, lastAlarm, state, ctxDone>>
    BY <2>g, <2>2
  <2> QED
    BY <1>3, <2>1, <2>2 DEF ReconcileFetchFails
<1>4. CASE ReconcileCancelled
  BY <1>4 DEF ReconcileCancelled, GiveUpReconcile
<1>5. CASE ReconcileVacuum
  <2>g. pc = "loop" /\ loop = "reconcile" /\ vac \in Vacuums
    BY <1>5 DEF ReconcileVacuum
  <2>1. CASE NextVacuum(FALSE)
    BY <2>g, <2>1
  <2>2. CASE IsDisengaged(lastAlarm) /\ GoTo("stopStatus")
    BY <2>g, <2>2
  <2>3. CASE IsArmedAway(lastAlarm) /\ GoTo("startStatus")
    BY <2>g, <2>3
  <2>4. CASE IsArmedAway(lastAlarm) /\ NextVacuum(TRUE)
    BY <2>g, <2>4
  <2> QED
    BY <1>5, <2>1, <2>2, <2>3, <2>4 DEF ReconcileVacuum
<1>6. CASE EndReconcile
  BY <1>6 DEF EndReconcile
<1>7. CASE ReconcileStoreAlarm
  BY <1>7 DEF ReconcileStoreAlarm
<1>8. CASE PollSameAlarm
  BY <1>8 DEF PollSameAlarm
<1>9. CASE PollNewAlarm
  BY <1>9 DEF PollNewAlarm
<1>10. CASE ArmedAwayBegin
  BY <1>10 DEF ArmedAwayBegin
<1>11. CASE DisengagedBegin
  BY <1>11 DEF DisengagedBegin
<1>12. CASE DisengagedNothingActive
  BY <1>12 DEF DisengagedNothingActive
<1>13. CASE PassOver
  BY <1>13 DEF PassOver
<1>14. CASE TurnToVacuum
  BY <1>14 DEF TurnToVacuum
<1>15. CASE EndLoop
  BY <1>15 DEF EndLoop
<1>16. CASE StartStatus
  BY <1>16 DEF StartStatus
<1>17. CASE CleanSummary
  BY <1>17 DEF CleanSummary
<1>18. CASE StartReadFails
  BY <1>18 DEF StartReadFails
<1>19. CASE StartCommand
  BY <1>19 DEF StartCommand
<1>20. CASE StartCommandFails
  BY <1>20 DEF StartCommandFails
<1>21. CASE Claim
  BY <1>21 DEF Claim
<1>22. CASE StopStatus
  BY <1>22 DEF StopStatus
<1>23. CASE Pause
  BY <1>23 DEF Pause, ChargeNext
<1>24. CASE PauseFails
  <2>g. pc = "pause"
    BY <1>24 DEF PauseFails
  <2>1. CASE ChargeNext
    BY <2>g, <2>1 DEF ChargeNext
  <2>2. CASE tries < MaxTries - 1 /\ tries' = tries + 1
           /\ UNCHANGED <<pc, loop, vac, snapshot, anyActive, seen, lastAlarm, state, ctxDone>>
    BY <2>g, <2>2
  <2> QED
    BY <1>24, <2>1, <2>2 DEF PauseFails, AttemptFails
<1>25. CASE Charge
  BY <1>25 DEF Charge
<1>26. CASE ChargeFails
  <2>g. pc = "charge"
    BY <1>26 DEF ChargeFails
  <2>1. CASE NextVacuum(FALSE)
    BY <2>g, <2>1
  <2>2. CASE tries < MaxTries - 1 /\ tries' = tries + 1
           /\ UNCHANGED <<pc, loop, vac, snapshot, anyActive, seen, lastAlarm, state, ctxDone>>
    BY <2>g, <2>2
  <2> QED
    BY <1>26, <2>1, <2>2 DEF ChargeFails, AttemptFails
<1>27. CASE RetryCancelled
  <2>1. CASE pc = "pause" /\ ChargeNext
    BY <2>1 DEF ChargeNext
  <2>2. CASE pc = "charge" /\ NextVacuum(FALSE)
    BY <2>2
  <2> QED
    BY <1>27, <2>1, <2>2 DEF RetryCancelled
<1>28. CASE Release
  BY <1>28 DEF Release
<1> QED
  BY <1>1, <1>2, <1>3, <1>4, <1>5, <1>6, <1>7, <1>8, <1>9, <1>10,
     <1>11, <1>12, <1>13, <1>14, <1>15, <1>16, <1>17, <1>18, <1>19, <1>20,
     <1>21, <1>22, <1>23, <1>24, <1>25, <1>26, <1>27, <1>28
     DEF ControllerNext, ReconcileStep, PollStep, StartStep, StopStep

\* The controller's steps keep it in phase with the alarm.
LEMMA ControllerStepPhases ==
    ASSUME PhaseInv, ControllerNext
    PROVE  Phases'
<1>a. Phases /\ state \in ControlStates /\ lastAlarm \in ArmStates /\ anyActive \in BOOLEAN
  BY DEF PhaseInv, TypeOK, ControllerTypeOK
<1> USE <1>a
    DEF Phases, ModeFits, StartCalls, StopCalls, GoTo, NextVacuum, EnterLoop,
        LeaveLocals, setState, locals, IsArmedAway, IsDisengaged, ArmedAway, ArmedHome,
        Disarmed, Unknown, ControlStates, StateIdle, StateArmedAway, StateCleaningActive
<1>1. CASE ReconcileBegin
  BY <1>1 DEF ReconcileBegin
<1>2. CASE ReconcileFetch
  BY <1>2 DEF ReconcileFetch
<1>3. CASE ReconcileFetchFails
  <2>g. pc = "fetch"
    BY <1>3 DEF ReconcileFetchFails
  <2>1. CASE GiveUpReconcile
    BY <2>g, <2>1 DEF GiveUpReconcile
  <2>2. CASE tries < MaxReconcileAttempts - 1 /\ tries' = tries + 1
           /\ UNCHANGED <<pc, loop, vac, snapshot, anyActive, seen, lastAlarm, state, ctxDone>>
    BY <2>g, <2>2
  <2> QED
    BY <1>3, <2>1, <2>2 DEF ReconcileFetchFails
<1>4. CASE ReconcileCancelled
  BY <1>4 DEF ReconcileCancelled, GiveUpReconcile
<1>5. CASE ReconcileVacuum
  <2>g. pc = "loop" /\ loop = "reconcile" /\ vac \in Vacuums
    BY <1>5 DEF ReconcileVacuum
  <2>1. CASE NextVacuum(FALSE)
    BY <2>g, <2>1
  <2>2. CASE IsDisengaged(lastAlarm) /\ GoTo("stopStatus")
    BY <2>g, <2>2
  <2>3. CASE IsArmedAway(lastAlarm) /\ GoTo("startStatus")
    BY <2>g, <2>3
  <2>4. CASE IsArmedAway(lastAlarm) /\ NextVacuum(TRUE)
    BY <2>g, <2>4
  <2> QED
    BY <1>5, <2>1, <2>2, <2>3, <2>4 DEF ReconcileVacuum
<1>6. CASE EndReconcile
  BY <1>6 DEF EndReconcile
<1>7. CASE ReconcileStoreAlarm
  BY <1>7 DEF ReconcileStoreAlarm
<1>8. CASE PollSameAlarm
  BY <1>8 DEF PollSameAlarm
<1>9. CASE PollNewAlarm
  BY <1>9 DEF PollNewAlarm
<1>10. CASE ArmedAwayBegin
  BY <1>10 DEF ArmedAwayBegin
<1>11. CASE DisengagedBegin
  BY <1>11 DEF DisengagedBegin
<1>12. CASE DisengagedNothingActive
  BY <1>12 DEF DisengagedNothingActive
<1>13. CASE PassOver
  BY <1>13 DEF PassOver
<1>14. CASE TurnToVacuum
  BY <1>14 DEF TurnToVacuum
<1>15. CASE EndLoop
  BY <1>15 DEF EndLoop
<1>16. CASE StartStatus
  BY <1>16 DEF StartStatus
<1>17. CASE CleanSummary
  BY <1>17 DEF CleanSummary
<1>18. CASE StartReadFails
  BY <1>18 DEF StartReadFails
<1>19. CASE StartCommand
  BY <1>19 DEF StartCommand
<1>20. CASE StartCommandFails
  BY <1>20 DEF StartCommandFails
<1>21. CASE Claim
  BY <1>21 DEF Claim
<1>22. CASE StopStatus
  BY <1>22 DEF StopStatus
<1>23. CASE Pause
  BY <1>23 DEF Pause, ChargeNext
<1>24. CASE PauseFails
  <2>g. pc = "pause"
    BY <1>24 DEF PauseFails
  <2>1. CASE ChargeNext
    BY <2>g, <2>1 DEF ChargeNext
  <2>2. CASE tries < MaxTries - 1 /\ tries' = tries + 1
           /\ UNCHANGED <<pc, loop, vac, snapshot, anyActive, seen, lastAlarm, state, ctxDone>>
    BY <2>g, <2>2
  <2> QED
    BY <1>24, <2>1, <2>2 DEF PauseFails, AttemptFails
<1>25. CASE Charge
  BY <1>25 DEF Charge
<1>26. CASE ChargeFails
  <2>g. pc = "charge"
    BY <1>26 DEF ChargeFails
  <2>1. CASE NextVacuum(FALSE)
    BY <2>g, <2>1
  <2>2. CASE tries < MaxTries - 1 /\ tries' = tries + 1
           /\ UNCHANGED <<pc, loop, vac, snapshot, anyActive, seen, lastAlarm, state, ctxDone>>
    BY <2>g, <2>2
  <2> QED
    BY <1>26, <2>1, <2>2 DEF ChargeFails, AttemptFails
<1>27. CASE RetryCancelled
  <2>1. CASE pc = "pause" /\ ChargeNext
    BY <2>1 DEF ChargeNext
  <2>2. CASE pc = "charge" /\ NextVacuum(FALSE)
    BY <2>2
  <2> QED
    BY <1>27, <2>1, <2>2 DEF RetryCancelled
<1>28. CASE Release
  BY <1>28 DEF Release
<1> QED
  BY <1>1, <1>2, <1>3, <1>4, <1>5, <1>6, <1>7, <1>8, <1>9, <1>10,
     <1>11, <1>12, <1>13, <1>14, <1>15, <1>16, <1>17, <1>18, <1>19, <1>20,
     <1>21, <1>22, <1>23, <1>24, <1>25, <1>26, <1>27, <1>28
     DEF ControllerNext, ReconcileStep, PollStep, StartStep, StopStep

\* What the world, the handlers and the life of the process do.
LEMMA WorldStepTypes ==
    ASSUME PhaseInv, HouseholdNext
    PROVE  HouseholdTypeOK'
<1>a. HouseholdTypeOK /\ Reported \subseteq ArmStates
  BY DomainAssumption DEF PhaseInv, TypeOK
<1> USE <1>a DEF HouseholdTypeOK, DeviceStates, robotVars
<1>1. CASE ChangeAlarm
  BY <1>1 DEF ChangeAlarm
<1>2. ASSUME NEW v \in Vacuums,
             \/ FinishInitiating(v) \/ FinishClean(v) \/ ReachDock(v)
             \/ ExpireCooldown(v) \/ StartByHand(v) \/ GetStuck(v) \/ BeFreed(v)
      PROVE  HouseholdTypeOK'
  BY <1>2 DEF FinishInitiating, FinishClean, ReachDock, ExpireCooldown,
              StartByHand, GetStuck, BeFreed
<1> QED
  BY <1>1, <1>2 DEF HouseholdNext

LEMMA ApiStepTypes ==
    ASSUME PhaseInv, ApiNext
    PROVE  HouseholdTypeOK' /\ StoreTypeOK' /\ ApiTypeOK'
<1>a. HouseholdTypeOK /\ StoreTypeOK /\ ApiTypeOK
  BY DEF PhaseInv, TypeOK
<1>b. NoRequest \in Handlers
  BY DomainAssumption DEF NoRequest, Handlers, Vacuums
<1>c. ASSUME UNCHANGED householdVars PROVE HouseholdTypeOK'
  BY <1>a, <1>c DEF HouseholdTypeOK, householdVars
<1>d. ASSUME UNCHANGED storeVars PROVE StoreTypeOK'
  BY <1>a, <1>d DEF StoreTypeOK, storeVars
<1>1. PICK r \in Requests : (\E v \in Vacuums : Receive(r, v)) \/ Handle(r)
  BY DEF ApiNext
<1>2. Robot(r) \in Vacuums
  BY <1>a DEF ApiTypeOK, Handlers, Robot
<1>3. ASSUME NEW at \in {"none", "status", "run", "claim", "pause", "charge", "release"},
             Continue(r, at)
      PROVE  ApiTypeOK'
  BY <1>a, <1>3 DEF Continue, ApiTypeOK, Handlers
<1>4. ASSUME Respond(r) PROVE ApiTypeOK'
  BY <1>a, <1>b, <1>4 DEF Respond, ApiTypeOK
<1>5. ASSUME NEW v \in Vacuums, Receive(r, v)
      PROVE  HouseholdTypeOK' /\ StoreTypeOK' /\ ApiTypeOK'
  <2>1. ApiTypeOK'
    BY <1>a, <1>5 DEF Receive, ApiTypeOK, Handlers
  <2> QED
    BY <1>5, <1>c, <1>d, <2>1 DEF Receive
<1>6. CASE ApiStatus(r)
  BY <1>6, <1>3, <1>4, <1>c, <1>d DEF ApiStatus
<1>7. CASE ApiRun(r) \/ ApiPause(r) \/ ApiCharge(r)
  <2>1. HouseholdTypeOK'
    BY <1>7, <1>a, <1>2, CommandTypes DEF ApiRun, ApiPause, ApiCharge, CallFails
  <2>2. ApiTypeOK'
    BY <1>7, <1>3, <1>4 DEF ApiRun, ApiPause, ApiCharge
  <2> QED
    BY <1>7, <2>1, <2>2, <1>d DEF ApiRun, ApiPause, ApiCharge
<1>8. CASE ApiClaim(r) \/ ApiRelease(r)
  <2>1. StoreTypeOK'
    BY <1>8, <1>a, <1>2, SetterTypes DEF ApiClaim, ApiRelease
  <2> QED
    BY <1>8, <2>1, <1>4, <1>c DEF ApiClaim, ApiRelease
<1> QED
  BY <1>1, <1>5, <1>6, <1>7, <1>8 DEF Handle

LEMMA ProcessStepInv ==
    ASSUME PhaseInv, ProcessNext
    PROVE  PhaseInv'
<1>a. /\ HouseholdTypeOK /\ StoreTypeOK /\ ControllerTypeOK /\ ApiTypeOK
      /\ Phases
  BY DEF PhaseInv, TypeOK
<1>b. NoRequest \in Handlers
  BY DomainAssumption DEF NoRequest, Handlers, Vacuums
<1>c. /\ 1 \in 1 .. N + 1 /\ 0 \in Nat /\ 0 < MaxTries
      /\ NoneStarted \in [Vacuums -> BOOLEAN]
  BY DomainAssumption, ControllerAssumption DEF NoneStarted
<1>d. ASSUME UNCHANGED householdVars PROVE HouseholdTypeOK'
  BY <1>a, <1>d DEF HouseholdTypeOK, householdVars
<1>e. ASSUME UNCHANGED requests PROVE ApiTypeOK'
  BY <1>a, <1>e DEF ApiTypeOK
<1>f. ASSUME UNCHANGED storeVars PROVE StoreTypeOK'
  BY <1>a, <1>f DEF StoreTypeOK, storeVars
<1> USE DEF ControllerTypeOK, Locations, ArmStates, ControlStates, locals, Up, AtRest
<1>1. CASE Boot
  <2>1. StoreTypeOK'
    BY <1>1, <1>a DEF Boot, LoadStore, StoreTypeOK
  <2>2. ControllerTypeOK'
    BY <1>1, <1>a DEF Boot
  <2>3. Phases'
    BY <1>1, <1>a DEF Boot, Phases, StartCalls, StopCalls, ModeFits
  <2> QED
    BY <1>1, <1>d, <1>e, <2>1, <2>2, <2>3 DEF Boot, PhaseInv, TypeOK
<1>2. CASE ProcessGone
  <2>1. StoreTypeOK'
    BY <1>2, <1>a DEF ProcessGone, StoreTypeOK
  <2>2. ControllerTypeOK'
    BY <1>2, <1>a, <1>c DEF ProcessGone, LeaveLocals, Loops
  <2>3. Phases'
    BY <1>2, <1>a DEF ProcessGone, LeaveLocals, Phases, StartCalls, StopCalls, ModeFits
  <2>4. ApiTypeOK'
    BY <1>2, <1>b DEF ProcessGone, ApiTypeOK
  <2> QED
    BY <1>2, <1>d, <2>1, <2>2, <2>3, <2>4 DEF ProcessGone, PhaseInv, TypeOK
<1>3. CASE Terminate
  <2>1. ControllerTypeOK'
    BY <1>3, <1>a DEF Terminate
  <2>2. Phases'
    BY <1>3, <1>a DEF Terminate, Phases, ModeFits
  <2> QED
    BY <1>3, <1>d, <1>e, <1>f, <2>1, <2>2 DEF Terminate, PhaseInv, TypeOK
<1>4. CASE StopPolling
  <2>1. ControllerTypeOK'
    BY <1>4, <1>a DEF StopPolling, GoTo
  <2>2. Phases'
    BY <1>4, <1>a DEF StopPolling, GoTo, Phases, ModeFits, StartCalls, StopCalls
  <2> QED
    BY <1>4, <1>d, <1>e, <1>f, <2>1, <2>2 DEF StopPolling, PhaseInv, TypeOK
<1>5. CASE persistCookie
  <2>1. StoreTypeOK'
    BY <1>5, <1>a, SetterTypes DEF persistCookie
  <2>2. ControllerTypeOK' /\ Phases'
    BY <1>5, <1>a DEF persistCookie, controllerVars, Phases, ModeFits
  <2> QED
    BY <1>5, <1>d, <1>e, <2>1, <2>2 DEF persistCookie, PhaseInv, TypeOK
<1> QED
  BY <1>1, <1>2, <1>3, <1>4, <1>5 DEF ProcessNext, Crash, ExitProcess

LEMMA NextPhaseInv ==
    ASSUME PhaseInv, [Next]_vars
    PROVE  PhaseInv'
<1>a. ASSUME UNCHANGED controllerVars PROVE ControllerTypeOK' /\ Phases'
  BY <1>a DEF PhaseInv, TypeOK, ControllerTypeOK, Phases, ModeFits, controllerVars, locals
<1>b. ASSUME UNCHANGED requests PROVE ApiTypeOK'
  BY <1>b DEF PhaseInv, TypeOK, ApiTypeOK
<1>c. ASSUME UNCHANGED storeVars PROVE StoreTypeOK'
  BY <1>c DEF PhaseInv, TypeOK, StoreTypeOK, storeVars
<1>d. ASSUME UNCHANGED householdVars PROVE HouseholdTypeOK'
  BY <1>d DEF PhaseInv, TypeOK, HouseholdTypeOK, householdVars
<1>1. CASE ProcessNext
  BY <1>1, ProcessStepInv
<1>2. CASE ControllerStep
  BY <1>2, <1>b, ControllerStepOutside, ControllerStepTypes, ControllerStepPhases
     DEF ControllerStep, PhaseInv, TypeOK
<1>3. CASE ApiNext
  BY <1>3, <1>a, ApiStepTypes DEF ApiNext, PhaseInv, TypeOK
<1>4. CASE WorldNext
  BY <1>4, <1>a, <1>b, <1>c, WorldStepTypes DEF WorldNext, PhaseInv, TypeOK
<1>5. CASE UNCHANGED vars
  BY <1>5, <1>a, <1>b, <1>c, <1>d DEF vars, PhaseInv, TypeOK
<1> QED
  BY <1>1, <1>2, <1>3, <1>4, <1>5 DEF Next

\* Every variable keeps its type and the controller stays in phase with the
\* alarm, whatever fails and whoever interferes.
THEOREM PhasesHold == Spec => [](TypeOK /\ Phases)
<1>1. Init => PhaseInv
  BY InitPhaseInv
<1>2. PhaseInv /\ [Next]_vars => PhaseInv'
  BY NextPhaseInv
<1>3. PhaseInv <=> TypeOK /\ Phases
  BY DEF PhaseInv
<1> QED
  BY <1>1, <1>2, <1>3, PTL DEF Spec

-----------------------------------------------------------------------------
(* What a step may do to the robots and to the ledger.                     *)

\* A controller step either leaves robots and store alone, or writes a setting,
\* or makes one call for the vacuum it has turned to.
LEMMA ControllerEffects ==
    ASSUME PhaseInv, ControllerNext
    PROVE  \/ UNCHANGED <<storeVars, robotVars>>
           \/ /\ UNCHANGED robotVars
              /\ SetControlState \/ \E a \in ArmStates : SetAlarmState(a)
           \/ /\ vac \in Vacuums /\ UNCHANGED <<lastAlarm, state>> /\ ~AtRest /\ ~AtRest'
              /\ \/ /\ pc = "command" /\ IsArmedAway(lastAlarm) /\ UNCHANGED storeVars
                    /\ BeginRun(vac) \/ UNCHANGED robotVars
                 \/ /\ pc = "pause" /\ IsDisengaged(lastAlarm) /\ UNCHANGED storeVars
                    /\ PauseRun(vac) \/ UNCHANGED robotVars
                 \/ /\ pc = "charge" /\ IsDisengaged(lastAlarm) /\ UNCHANGED storeVars
                    /\ GoHome(vac) \/ UNCHANGED robotVars
                 \/ /\ pc = "claim" /\ IsArmedAway(lastAlarm) /\ UNCHANGED robotVars
                    /\ SetVacuumStartedByUs(vac, TRUE)
                 \/ /\ pc = "release" /\ IsDisengaged(lastAlarm) /\ UNCHANGED robotVars
                    /\ SetVacuumStartedByUs(vac, FALSE)
<1>a. home \in ArmStates /\ lastAlarm \in ArmStates
  BY DEF PhaseInv, TypeOK, HouseholdTypeOK, ControllerTypeOK
<1>b. /\ pc \in StartCalls => IsArmedAway(lastAlarm) /\ vac \in Vacuums
      /\ pc \in StopCalls => IsDisengaged(lastAlarm) /\ vac \in Vacuums
  BY DEF PhaseInv, Phases
<1>1. CASE ReconcileBegin \/ ReconcileFetch \/ ReconcileFetchFails \/ ReconcileCancelled
           \/ ReconcileVacuum \/ PollSameAlarm \/ ArmedAwayBegin \/ DisengagedBegin
           \/ PassOver \/ TurnToVacuum \/ StartStatus \/ CleanSummary \/ StartReadFails
           \/ StopStatus \/ RetryCancelled
  BY <1>1 DEF ReconcileBegin, ReconcileFetch, ReconcileFetchFails, ReconcileCancelled,
     ReconcileVacuum, PollSameAlarm, ArmedAwayBegin, DisengagedBegin, PassOver,
     TurnToVacuum, StartStatus, CleanSummary, StartReadFails, StopStatus, RetryCancelled
<1>2. CASE EndReconcile \/ EndLoop \/ DisengagedNothingActive
  BY <1>2 DEF EndReconcile, EndLoop, DisengagedNothingActive, setState
<1>3. CASE ReconcileStoreAlarm \/ PollNewAlarm
  BY <1>3, <1>a DEF ReconcileStoreAlarm, PollNewAlarm
<1> USE <1>b DEF StartCalls, StopCalls, AtRest, GoTo, NextVacuum
<1>4. CASE StartCommand \/ StartCommandFails
  BY <1>4 DEF StartCommand, StartCommandFails, ControllerCallFails, CallFails
<1>5. CASE Pause \/ PauseFails
  BY <1>5 DEF Pause, PauseFails, ChargeNext, AttemptFails, ControllerCallFails, CallFails
<1>6. CASE Charge \/ ChargeFails
  BY <1>6 DEF Charge, ChargeFails, AttemptFails, ControllerCallFails, CallFails
<1>7. CASE Claim \/ Release
  BY <1>7 DEF Claim, Release
<1> QED
  BY <1>1, <1>2, <1>3, <1>4, <1>5, <1>6, <1>7
     DEF ControllerNext, ReconcileStep, PollStep, StartStep, StopStep

\* The same for the handlers.
LEMMA ApiEffects ==
    ASSUME PhaseInv, ApiNext
    PROVE  \E r \in Requests :
           \/ UNCHANGED <<storeVars, robotVars>>
           \/ /\ Robot(r) \in Vacuums
              /\ \/ /\ requests[r].at = "run" /\ UNCHANGED storeVars
                    /\ BeginRun(Robot(r)) \/ UNCHANGED robotVars
                 \/ /\ requests[r].at = "pause" /\ UNCHANGED storeVars
                    /\ PauseRun(Robot(r)) \/ UNCHANGED robotVars
                 \/ /\ requests[r].at = "charge" /\ UNCHANGED storeVars
                    /\ GoHome(Robot(r)) \/ UNCHANGED robotVars
                 \/ /\ requests[r].at = "claim" /\ UNCHANGED robotVars
                    /\ SetVacuumStartedByUs(Robot(r), TRUE)
                 \/ /\ requests[r].at = "release" /\ UNCHANGED robotVars
                    /\ SetVacuumStartedByUs(Robot(r), FALSE)
<1>1. PICK r \in Requests : (\E v \in Vacuums : Receive(r, v)) \/ Handle(r)
  BY DEF ApiNext
<1>2. Robot(r) \in Vacuums
  BY DEF PhaseInv, TypeOK, ApiTypeOK, Handlers, Robot
<1>3. CASE \E v \in Vacuums : Receive(r, v)
  BY <1>3 DEF Receive, robotVars, householdVars
<1>4. CASE ApiStatus(r)
  BY <1>4 DEF ApiStatus, robotVars, householdVars
<1>5. CASE ApiRun(r) \/ ApiPause(r) \/ ApiCharge(r)
  BY <1>2, <1>5 DEF ApiRun, ApiPause, ApiCharge, CallFails
<1>6. CASE ApiClaim(r) \/ ApiRelease(r)
  BY <1>2, <1>6 DEF ApiClaim, ApiRelease, robotVars, householdVars
<1> QED
  BY <1>1, <1>3, <1>4, <1>5, <1>6 DEF Handle

\* Which effect can change what, for one vacuum v: only a start begins a run,
\* only a pause interrupts one, and both only for the vacuum they are for.
LEMMA CommandEffects ==
    ASSUME HouseholdTypeOK, NEW v \in Vacuums, NEW w \in Vacuums
    PROVE  /\ BeginRun(w) \/ UNCHANGED robotVars =>
                /\ (ours'[v] # ours[v] => v = w)
                /\ (device'[v] # device[v] => v = w)
                /\ (device'[v] = Paused => device[v] = Paused)
                /\ (ours[v] => ours'[v])
           /\ PauseRun(w) \/ UNCHANGED robotVars =>
                /\ ours' = ours
                /\ (device'[v] # device[v] => v = w)
           /\ GoHome(w) \/ UNCHANGED robotVars =>
                /\ (ours'[v] # ours[v] => v = w)
                /\ (ours'[v] => ours[v])
                /\ (device'[v] = Paused => device[v] = Paused)
<1> USE DEF HouseholdTypeOK, robotVars, DeviceStates
<1>1. ASSUME BeginRun(w) \/ UNCHANGED robotVars
      PROVE  /\ (ours'[v] # ours[v] => v = w)
             /\ (device'[v] # device[v] => v = w)
             /\ (device'[v] = Paused => device[v] = Paused)
             /\ (ours[v] => ours'[v])
  BY <1>1 DEF BeginRun, Cleaning, Initiating, Paused
<1>2. ASSUME PauseRun(w) \/ UNCHANGED robotVars
      PROVE  ours' = ours /\ (device'[v] # device[v] => v = w)
  BY <1>2 DEF PauseRun
<1>3. ASSUME GoHome(w) \/ UNCHANGED robotVars
      PROVE  /\ (ours'[v] # ours[v] => v = w)
             /\ (ours'[v] => ours[v])
             /\ (device'[v] = Paused => device[v] = Paused)
  BY <1>3 DEF GoHome, Returning, Paused
<1> QED
  BY <1>1, <1>2, <1>3

\* Left to themselves, the robots neither begin a run of ours nor pause.
LEMMA WorldEffects ==
    ASSUME HouseholdTypeOK, HouseholdNext, NEW v \in Vacuums
    PROVE  /\ ours'[v] => ours[v]
           /\ device'[v] = Paused => device[v] = Paused
<1> USE DEF HouseholdTypeOK, robotVars, Paused, Cleaning, Returning, Charging, Stuck, Idle
<1>1. CASE ChangeAlarm
  BY <1>1 DEF ChangeAlarm
<1>2. ASSUME NEW w \in Vacuums,
             \/ FinishInitiating(w) \/ FinishClean(w) \/ ReachDock(w)
             \/ ExpireCooldown(w) \/ StartByHand(w) \/ GetStuck(w) \/ BeFreed(w)
      PROVE  (ours'[v] => ours[v]) /\ (device'[v] = Paused => device[v] = Paused)
  BY <1>2 DEF FinishInitiating, FinishClean, ReachDock, ExpireCooldown,
              StartByHand, GetStuck, BeFreed
<1> QED
  BY <1>1, <1>2 DEF HouseholdNext

LEMMA StepsJustified ==
    ASSUME PhaseInv, [Next]_vars
    PROVE  StartJustified /\ StopJustified
<1> SUFFICES ASSUME NEW v \in Vacuums
             PROVE  /\ ~ours[v] /\ ours'[v] =>
                         \/ IsArmedAway(lastAlarm) /\ pc = "command" /\ vac = v
                         \/ \E r \in Requests : requests[r].at = "run" /\ Robot(r) = v
                    /\ IsActiveClean(device[v]) /\ device'[v] = Paused =>
                         \/ IsDisengaged(lastAlarm) /\ pc = "pause" /\ vac = v
                         \/ \E r \in Requests : requests[r].at = "pause" /\ Robot(r) = v
  BY DEF StartJustified, StopJustified
<1>a. HouseholdTypeOK
  BY DEF PhaseInv, TypeOK
<1>b. ~(IsActiveClean(device[v]) /\ device[v] = Paused)
  BY DEF IsActiveClean, Paused, Cleaning
<1>c. ASSUME UNCHANGED robotVars
      PROVE  ours'[v] = ours[v] /\ device'[v] = device[v]
  BY <1>c DEF robotVars
<1>1. CASE ControllerStep
  BY <1>1, <1>a, <1>b, <1>c, ControllerEffects, CommandEffects DEF ControllerStep
<1>2. CASE ApiNext
  BY <1>2, <1>a, <1>b, <1>c, ApiEffects, CommandEffects
<1>3. CASE WorldNext
  BY <1>3, <1>a, <1>b, WorldEffects DEF WorldNext
<1>4. CASE ProcessNext \/ UNCHANGED vars
  <2>1. UNCHANGED householdVars
    BY <1>4 DEF ProcessNext, Boot, Crash, ExitProcess, ProcessGone, Terminate,
                StopPolling, persistCookie, vars
  <2> QED
    BY <1>b, <1>c, <2>1 DEF householdVars, robotVars
<1> QED
  BY <1>1, <1>2, <1>3, <1>4 DEF Next

\* The program starts a vacuum only under an armed-away alarm, as it last saw
\* it, or on request.
THEOREM StartsJustified == Spec => StartsOnlyWhenArmed
<1>1. PhaseInv /\ [Next]_vars => [StartJustified]_vars
  BY StepsJustified
<1>2. TypeOK /\ Phases => PhaseInv
  BY DEF PhaseInv
<1> QED
  BY <1>1, <1>2, PhasesHold, PTL DEF Spec, StartsOnlyWhenArmed

\* The program interrupts a clean only under a disengaged alarm, as it last saw
\* it, or on request: whether or not the clean was its own.
THEOREM StopsJustified == Spec => StopsOnlyWhenDisengaged
<1>1. PhaseInv /\ [Next]_vars => [StopJustified]_vars
  BY StepsJustified
<1>2. TypeOK /\ Phases => PhaseInv
  BY DEF PhaseInv
<1> QED
  BY <1>1, <1>2, PhasesHold, PTL DEF Spec, StopsOnlyWhenDisengaged

-----------------------------------------------------------------------------
(* The ledger: what the program remembers of the runs it began.            *)

\* A process that is not running holds nothing the file does not.
Forgotten == pc = "down" => mem = disk

LEMMA ForgottenStep ==
    ASSUME Forgotten, PhaseInv, [Next]_vars
    PROVE  Forgotten'
<1>1. CASE ControllerStep
  <2>1. pc' # "down"
    BY <1>1 DEF ControllerStep, ControllerNext, ReconcileStep, ReconcileBegin, ReconcileFetch,
       ReconcileFetchFails, GiveUpReconcile, ReconcileCancelled, ReconcileVacuum,
       EndReconcile, ReconcileStoreAlarm, PollStep, PollSameAlarm, PollNewAlarm,
       ArmedAwayBegin, DisengagedBegin, DisengagedNothingActive, PassOver, TurnToVacuum,
       EndLoop, EnterLoop, StartStep, StartStatus, CleanSummary, StartReadFails,
       StartCommand, StartCommandFails, Claim, StopStep, StopStatus, Pause, PauseFails,
       Charge, ChargeFails, RetryCancelled, Release, ChargeNext, AttemptFails, GoTo,
       NextVacuum
  <2> QED
    BY <2>1 DEF Forgotten
<1>2. CASE ApiNext
  BY <1>2 DEF ApiNext, Up, controllerVars, Forgotten
<1>3. CASE Boot \/ Crash \/ ExitProcess
  BY <1>3 DEF Boot, Crash, ExitProcess, ProcessGone, Forgotten
<1>4. CASE Terminate \/ StopPolling \/ persistCookie
  BY <1>4 DEF Terminate, StopPolling, persistCookie, Up, GoTo, controllerVars, Forgotten
<1>5. CASE WorldNext \/ UNCHANGED vars
  BY <1>5 DEF WorldNext, vars, storeVars, controllerVars, Forgotten
<1> QED
  BY <1>1, <1>2, <1>3, <1>4, <1>5 DEF Next, ProcessNext

LEMMA ReleaseStep ==
    ASSUME Forgotten, PhaseInv, [Next]_vars
    PROVE  ReleaseJustified
<1> SUFFICES ASSUME NEW v \in Vacuums, startedByUs[v], ~startedByUs'[v]
             PROVE  \/ pc = "release" /\ vac = v /\ IsDisengaged(lastAlarm)
                    \/ \E r \in Requests : requests[r].at = "release" /\ Robot(r) = v
                    \/ DiesUnrecorded(v)
  BY DEF ReleaseJustified
<1>a. mem \in StoredState
  BY DEF PhaseInv, TypeOK, StoreTypeOK
<1>b. mem' # mem
  BY DEF startedByUs
<1>c. ~UNCHANGED storeVars /\ ~SetControlState /\ ~SetVerisureCookie
  BY <1>b DEF storeVars, SetControlState, SetVerisureCookie
<1>d. \A a \in ArmStates : ~SetAlarmState(a)
  BY <1>a DEF SetAlarmState, startedByUs, StoredState
<1>e. ASSUME NEW w \in Vacuums, NEW b \in BOOLEAN, SetVacuumStartedByUs(w, b)
      PROVE  w = v /\ ~b
  BY <1>a, <1>e DEF SetVacuumStartedByUs, startedByUs, StoredState
<1>1. CASE ControllerStep
  BY <1>1, <1>c, <1>d, <1>e, ControllerEffects DEF ControllerStep
<1>2. CASE ApiNext
  BY <1>2, <1>c, <1>e, ApiEffects
<1>3. CASE Crash \/ ExitProcess
  BY <1>3 DEF Crash, ExitProcess, ProcessGone, Up, DiesUnrecorded, startedByUs
<1>4. CASE Boot \/ Terminate \/ StopPolling \/ persistCookie
  BY <1>4, <1>b, <1>c DEF Boot, LoadStore, Terminate, StopPolling, persistCookie, Forgotten
<1>5. CASE WorldNext \/ UNCHANGED vars
  BY <1>5, <1>c DEF WorldNext, vars
<1> QED
  BY <1>1, <1>2, <1>3, <1>4, <1>5 DEF Next, ProcessNext

\* Whatever fails, nothing takes back the record that a run is ours but a release by
\* the controller that saw the alarm disengaged, an operator's stop, or a death of
\* the process before a save has brought the record into the file: no failed call,
\* no poll and no restart loses what was saved (controller.go:356-387,
\* store.go:32-51, 106-114).
THEOREM OwnershipSurvives == Spec => OwnershipKept
<1>1. Init => Forgotten
  BY DEF Init, StoreInit, Forgotten
<1>2. Forgotten /\ PhaseInv /\ [Next]_vars => Forgotten'
  BY ForgottenStep
<1>3. Forgotten /\ PhaseInv /\ [Next]_vars => [ReleaseJustified]_vars
  BY ReleaseStep
<1>4. TypeOK /\ Phases => PhaseInv
  BY DEF PhaseInv
<1> QED
  BY <1>1, <1>2, <1>3, <1>4, PhasesHold, PTL DEF Spec, OwnershipKept
=============================================================================
