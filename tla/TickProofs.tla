------------------------------ MODULE TickProofs ------------------------------
(***************************************************************************)
(* Theorems about Service for every set of events: every tick gets shorter *)
(* with every call, /status follows the alarm once it has been read, and   *)
(* the loops never decide on a record that is out of date unless a handler *)
(* changed it.  And one for the events under which no run is forgotten.    *)
(***************************************************************************)
EXTENDS RunProofs

-----------------------------------------------------------------------------
(* The length of a tick                                                    *)

LEMMA InLoop ==
    ASSUME pc \in {"loop"} \cup StartCalls \cup StopCalls
    PROVE  Section = 2
BY DEF Section, StartCalls, StopCalls

\* A loop that turns to the next vacuum.
LEMMA NextVacuumShortens ==
    ASSUME PhaseInv, pc \in {"loop"} \cup StartCalls \cup StopCalls,
           NEW active, NextVacuum(active)
    PROVE  Shortens
<1>1. vac \in Int
  BY DEF PhaseInv, TypeOK, ControllerTypeOK
<1>2. Section = 2
  BY InLoop
<1>3. vac' > vac /\ Section' = 2
  BY <1>1 DEF NextVacuum, Section, StartCalls, StopCalls
<1> QED
  BY <1>2, <1>3 DEF Shortens

\* A loop body that goes on to a later call for the same vacuum.
LEMMA CallShortens ==
    ASSUME pc \in {"loop"} \cup StartCalls \cup StopCalls,
           pc' \in StartCalls \cup StopCalls, vac' = vac, Body' < Body
    PROVE  Shortens
<1>1. Section = 2
  BY InLoop
<1>2. Section' = 2
  BY DEF Section, StartCalls, StopCalls
<1> QED
  BY <1>1, <1>2 DEF Shortens

LEMMA AttemptShortens ==
    ASSUME PhaseInv, pc' = pc, vac' = vac, tries' = tries + 1
    PROVE  Shortens
BY DEF PhaseInv, TypeOK, ControllerTypeOK, Shortens

LEMMA ReconcileShortens ==
    ASSUME PhaseInv, ReconcileStep
    PROVE  Shortens
<1>1. CASE ReconcileBegin
  BY <1>1 DEF ReconcileBegin, Section, Shortens, StartCalls, StopCalls
<1>2. CASE ReconcileFetch
  BY <1>2 DEF ReconcileFetch, Section, Shortens, StartCalls, StopCalls
<1>3. CASE pc = "fetch" /\ GiveUpReconcile
  BY <1>3 DEF GiveUpReconcile, Section, Shortens, StartCalls, StopCalls
<1>4. CASE ReconcileFetchFails /\ ~GiveUpReconcile
  BY <1>4, AttemptShortens DEF ReconcileFetchFails
<1>5. CASE ReconcileVacuum
  <2>1. CASE \E active \in BOOLEAN : NextVacuum(active)
    BY <1>5, <2>1, NextVacuumShortens DEF ReconcileVacuum
  <2>2. CASE GoTo("startStatus") \/ GoTo("stopStatus")
    BY <1>5, <2>2, CallShortens
       DEF ReconcileVacuum, GoTo, locals, Body, StartCalls, StopCalls
  <2> QED
    BY <1>5, <2>1, <2>2 DEF ReconcileVacuum
<1>6. CASE EndReconcile
  BY <1>6 DEF EndReconcile, Section, Shortens, StartCalls, StopCalls
<1>7. CASE ReconcileStoreAlarm
  BY <1>7 DEF ReconcileStoreAlarm, GoTo, Section, Shortens, StartCalls, StopCalls
<1> QED
  BY <1>1, <1>2, <1>3, <1>4, <1>5, <1>6, <1>7
     DEF ReconcileStep, ReconcileFetchFails, ReconcileCancelled

LEMMA PollShortens ==
    ASSUME PhaseInv, Section # 0, PollStep
    PROVE  Shortens
<1>1. CASE PollSameAlarm \/ PollNewAlarm
  BY <1>1 DEF PollSameAlarm, PollNewAlarm, Section, StartCalls, StopCalls
<1>2. CASE ArmedAwayBegin \/ DisengagedBegin \/ DisengagedNothingActive
  BY <1>2 DEF ArmedAwayBegin, DisengagedBegin, DisengagedNothingActive, EnterLoop,
     Section, Shortens, StartCalls, StopCalls
<1>3. CASE PassOver
  BY <1>3, NextVacuumShortens DEF PassOver
<1>4. CASE TurnToVacuum
  BY <1>4, CallShortens DEF TurnToVacuum, GoTo, locals, Body, StartCalls, StopCalls
<1>5. CASE EndLoop
  BY <1>5 DEF EndLoop, Section, Shortens, StartCalls, StopCalls
<1> QED
  BY <1>1, <1>2, <1>3, <1>4, <1>5 DEF PollStep

LEMMA StartShortens ==
    ASSUME PhaseInv, StartStep
    PROVE  Shortens
<1>1. pc \in StartCalls
  BY DEF StartStep, StartCalls, StartStatus, CleanSummary, StartReadFails, StartCommand,
         StartCommandFails, Claim
<1>2. CASE \E active \in BOOLEAN : NextVacuum(active)
  BY <1>1, <1>2, NextVacuumShortens
<1>3. CASE \/ pc = "startStatus" /\ (GoTo("summary") \/ GoTo("command"))
           \/ pc = "summary" /\ GoTo("command")
           \/ pc = "command" /\ GoTo("claim")
  BY <1>3, CallShortens DEF GoTo, locals, Body, StartCalls, StopCalls
<1> QED
  BY <1>2, <1>3 DEF StartStep, StartStatus, CleanSummary, StartReadFails, StartCommand,
     StartCommandFails, Claim

LEMMA StopShortens ==
    ASSUME PhaseInv, StopStep
    PROVE  Shortens
<1>1. pc \in StopCalls
  BY DEF StopStep, StopCalls, StopStatus, Pause, PauseFails, Charge, ChargeFails,
         RetryCancelled, Release
<1>2. CASE \E active \in BOOLEAN : NextVacuum(active)
  BY <1>1, <1>2, NextVacuumShortens
<1>3. CASE StopStatus
  BY <1>3, CallShortens DEF StopStatus, Body, StartCalls, StopCalls
<1>4. CASE \/ pc = "pause" /\ ChargeNext
           \/ pc = "charge" /\ GoTo("release")
  BY <1>4, CallShortens DEF ChargeNext, GoTo, locals, Body, StartCalls, StopCalls
<1>5. CASE pc' = pc /\ vac' = vac /\ tries' = tries + 1
  BY <1>5, AttemptShortens
<1> QED
  BY <1>2, <1>3, <1>4, <1>5 DEF StopStep, Pause, PauseFails, Charge, ChargeFails, AttemptFails,
     RetryCancelled, Release

\* What is not a step of the controller leaves its tick alone or ends it.
LEMMA OthersLeaveTick ==
    ASSUME PhaseInv, Section # 0, ProcessNext \/ ApiNext \/ WorldNext \/ UNCHANGED vars
    PROVE  Shortens \/ UNCHANGED <<pc, vac, tries>>
<1>1. CASE Crash \/ ExitProcess
  <2>1. Section \in 0 .. 4
    BY DEF PhaseInv, TypeOK, ControllerTypeOK, Section, Locations, StartCalls, StopCalls
  <2>2. Section' = 0
    BY <1>1 DEF Crash, ExitProcess, ProcessGone, Section, StartCalls, StopCalls
  <2> QED
    BY <2>1, <2>2 DEF Shortens
<1>2. CASE Boot \/ StopPolling
  BY <1>2 DEF Boot, StopPolling, AtRest, Section, StartCalls, StopCalls
<1>3. CASE Terminate \/ persistCookie \/ ApiNext \/ WorldNext \/ UNCHANGED vars
  BY <1>3 DEF Terminate, persistCookie, ApiNext, WorldNext, vars, controllerVars, locals
<1> QED
  BY <1>1, <1>2, <1>3 DEF ProcessNext

\* For any number of vacuums, attempts, requests and whatever goes wrong, every
\* call of a tick brings the controller closer to its end, so that a tick makes a
\* bounded number of calls (controller.go:183-209, 366-379, 401-419).
THEOREM TicksBounded == Spec => TickShortens
<1>1. ASSUME PhaseInv, [Next]_vars, Section # 0
      PROVE  Shortens \/ (~ControllerStep /\ UNCHANGED <<pc, vac, tries>>)
  <2>1. CASE ControllerStep
    BY <1>1, <2>1, ReconcileShortens, PollShortens, StartShortens, StopShortens
       DEF ControllerStep, ControllerNext
  <2>2. CASE ~ControllerStep
    BY <1>1, <2>2, OthersLeaveTick DEF Next
  <2> QED
    BY <2>1, <2>2
<1>2. PhaseInv /\ [Next]_vars =>
        [Section # 0 => Shortens \/ (~ControllerStep /\ UNCHANGED <<pc, vac, tries>>)]_vars
  BY <1>1
<1> QED
  BY <1>2, PhaseInvHolds, PTL DEF Spec, TickShortens

-----------------------------------------------------------------------------
(* GET /status while fetches fail                                          *)

Settled == pc \in {"wait", "onArmedAway", "onDisengaged"} \/ loop \in {"arm", "disarm"}

FollowInv == Settled /\ lastAlarm # Unknown => ShownAlarm = lastAlarm

LEMMA FollowKept ==
    ASSUME FollowInv, UNCHANGED lastAlarm, mem'.alarmState = mem.alarmState,
           Settled' => Settled
    PROVE  FollowInv'
BY DEF FollowInv, ShownAlarm

\* The reconcile loops settle nothing before they store the alarm, and a poll
\* stores it as it sees it.
LEMMA ControllerFollows ==
    ASSUME PhaseInv, FollowInv, ControllerNext
    PROVE  FollowInv'
<1>a. mem \in StoredState /\ home \in ArmStates /\ lastAlarm \in ArmStates
  BY DEF PhaseInv, TypeOK, StoreTypeOK, HouseholdTypeOK, ControllerTypeOK
<1>b. /\ pc = "fetch" => loop = "reconcile" /\ lastAlarm = Unknown
      /\ pc \in {"wait", "storeAlarm", "onArmedAway", "onDisengaged"} => loop = "none"
  BY DEF PhaseInv, Phases
<1> USE DEF Settled
<1>1. CASE ReconcileBegin \/ ReconcileFetch
  BY <1>1, <1>b DEF ReconcileBegin, ReconcileFetch, FollowInv
<1>2. CASE ReconcileFetchFails \/ ReconcileCancelled
  <2>1. lastAlarm' = Unknown
    BY <1>2, <1>b DEF ReconcileFetchFails, ReconcileCancelled, GiveUpReconcile
  <2> QED
    BY <2>1 DEF FollowInv
<1>3. CASE ReconcileVacuum \/ PollSameAlarm \/ ArmedAwayBegin \/ DisengagedBegin
           \/ PassOver \/ TurnToVacuum
  <2>1. UNCHANGED <<lastAlarm, storeVars>> /\ (Settled' => Settled)
    BY <1>3, <1>b DEF ReconcileVacuum, PollSameAlarm, ArmedAwayBegin, DisengagedBegin,
       PassOver, TurnToVacuum, GoTo, NextVacuum, EnterLoop, locals
  <2> QED
    BY <2>1, FollowKept DEF storeVars
<1>4. CASE StartStep \/ StopStep
  <2>1. UNCHANGED <<lastAlarm, loop>> /\ pc' \notin {"wait", "onArmedAway", "onDisengaged"}
    BY <1>4 DEF StartStep, StopStep, StartStatus, CleanSummary, StartReadFails,
       StartCommand, StartCommandFails, Claim, StopStatus, Pause, PauseFails, Charge,
       ChargeFails, RetryCancelled, Release, GoTo, NextVacuum, ChargeNext, AttemptFails,
       locals
  <2>2. UNCHANGED storeVars \/ \E b \in BOOLEAN : SetVacuumStartedByUs(vac, b)
    BY <1>4 DEF StartStep, StopStep, StartStatus, CleanSummary, StartReadFails,
       StartCommand, StartCommandFails, Claim, StopStatus, Pause, PauseFails, Charge,
       ChargeFails, RetryCancelled, Release
  <2>3. mem'.alarmState = mem.alarmState
    BY <2>2, <1>a DEF SetVacuumStartedByUs, storeVars, StoredState
  <2> QED
    BY <2>1, <2>3, FollowKept
<1>5. CASE EndReconcile \/ EndLoop \/ DisengagedNothingActive
  <2>1. UNCHANGED <<lastAlarm, mem>> /\ (Settled' => Settled)
    BY <1>5 DEF EndReconcile, EndLoop, DisengagedNothingActive, setState,
       SetControlState, LeaveLocals, locals
  <2> QED
    BY <2>1, FollowKept
<1>6. CASE ReconcileStoreAlarm \/ PollNewAlarm
  BY <1>6, <1>a DEF ReconcileStoreAlarm, PollNewAlarm, SetAlarmState, FollowInv,
     ShownAlarm, StoredState, GoTo, locals
<1> QED
  BY <1>1, <1>2, <1>3, <1>4, <1>5, <1>6
     DEF ControllerNext, ReconcileStep, PollStep

LEMMA OthersFollow ==
    ASSUME PhaseInv, FollowInv, ProcessNext \/ ApiNext \/ WorldNext \/ UNCHANGED vars
    PROVE  FollowInv'
<1>a. mem \in StoredState
  BY DEF PhaseInv, TypeOK, StoreTypeOK
<1> USE DEF Settled
<1>1. CASE Boot \/ Crash \/ ExitProcess
  <2>1. lastAlarm' = Unknown
    BY <1>1 DEF Boot, Crash, ExitProcess, ProcessGone, PhaseInv, Phases
  <2> QED
    BY <2>1 DEF FollowInv
<1>2. CASE Terminate \/ persistCookie \/ WorldNext \/ UNCHANGED vars
  BY <1>2, FollowKept DEF Terminate, persistCookie, SetVerisureCookie, WorldNext, vars,
     controllerVars, storeVars, locals
<1>3. CASE StopPolling
  BY <1>3, FollowKept DEF StopPolling, AtRest, GoTo, locals, storeVars
<1>4. CASE ApiNext
  <2>1. PICK r \in Requests : (\E v \in Vacuums : Receive(r, v)) \/ Handle(r)
    BY <1>4 DEF ApiNext
  <2>2. UNCHANGED storeVars \/ \E b \in BOOLEAN : SetVacuumStartedByUs(Robot(r), b)
    BY <2>1 DEF Receive, Handle, ApiStatus, ApiRun, ApiClaim, ApiPause, ApiCharge, ApiRelease
  <2>3. mem'.alarmState = mem.alarmState
    BY <2>2, <1>a DEF SetVacuumStartedByUs, storeVars, StoredState
  <2> QED
    BY <1>4, <2>3, FollowKept DEF ApiNext, controllerVars, locals
<1> QED
  BY <1>1, <1>2, <1>3, <1>4 DEF ProcessNext

\* Whatever fails, and for any number of vacuums and handlers, /status shows between
\* two polls the alarm the controller acts on as soon as it has read one
\* (main.go:143-148, controller.go:170, 407, 470).
THEOREM StatusFollowsAlarm == Spec => []StatusFollows
<1>1. Init => FollowInv
  BY DEF Init, ControllerInit, FollowInv
<1>2. PhaseInv /\ FollowInv /\ [Next]_vars => FollowInv'
  BY ControllerFollows, OthersFollow DEF Next, ControllerStep
<1>3. FollowInv => StatusFollows
  BY DEF FollowInv, StatusFollows, Settled, AtRest
<1> QED
  BY <1>1, <1>2, <1>3, PhaseInvHolds, PTL DEF Spec

-----------------------------------------------------------------------------
(* The record the loops decide on                                          *)

\* The snapshot agrees with the record of every vacuum the loop has not passed.
\* The location says which entry of the snapshot led to it.
RecordInv ==
    /\ loop # "none" => \A v \in Vacuums : v >= vac => snapshot[v] = startedByUs[v]
    /\ pc \in StopCalls  => snapshot[vac]
    /\ pc \in StartCalls => (snapshot[vac] <=> loop = "reconcile")
    /\ pc \in {"loop"} \cup StartCalls \cup StopCalls => loop # "none"
    /\ pc \in {"down", "start"} => loop = "none"

LEMMA RecordKept ==
    ASSUME RecordInv, UNCHANGED <<loop, vac, snapshot, startedByUs>>,
           pc' \in StopCalls => pc \in StopCalls, pc' \in StartCalls => pc \in StartCalls,
           pc' = "loop" => pc \in {"loop", "fetch"}, pc = "fetch" => loop # "none",
           pc' \in {"down", "start"} => pc \in {"down", "start"}
    PROVE  RecordInv'
BY DEF RecordInv

\* A loop that begins has just read the record.
LEMMA SnapshotTaken ==
    ASSUME snapshot' = startedByUs, UNCHANGED startedByUs, pc' \in {"fetch", "loop"},
           loop' # "none"
    PROVE  RecordInv'
BY DEF RecordInv, StartCalls, StopCalls

\* The record of a vacuum is written last of all that is done about it.
LEMMA VacuumPassed ==
    ASSUME PhaseInv, RecordInv, NEW active, NextVacuum(active), loop # "none",
           \/ startedByUs' = startedByUs
           \/ vac \in Vacuums /\ \E b \in BOOLEAN : SetVacuumStartedByUs(vac, b)
    PROVE  RecordInv'
<1>1. vac \in 1 .. N + 1 /\ mem \in StoredState /\ N \in Nat
  BY DomainAssumption DEF PhaseInv, TypeOK, ControllerTypeOK, StoreTypeOK
<1>2. ASSUME NEW v \in Vacuums, v >= vac + 1 PROVE startedByUs'[v] = startedByUs[v]
  BY <1>1, <1>2 DEF SetVacuumStartedByUs, StoredState, startedByUs, Vacuums
<1>3. /\ pc' = "loop" /\ vac' = vac + 1 /\ UNCHANGED <<loop, snapshot>>
  BY DEF NextVacuum
<1>4. ASSUME NEW v \in Vacuums, v >= vac' PROVE snapshot'[v] = startedByUs'[v]
  <2>1. v >= vac /\ v >= vac + 1
    BY <1>1, <1>3, <1>4 DEF Vacuums
  <2> QED
    BY <1>2, <1>3, <2>1 DEF RecordInv
<1> QED
  BY <1>3, <1>4 DEF RecordInv, StartCalls, StopCalls

LEMMA LoopsKeepRecord ==
    ASSUME PhaseInv, RecordInv, ReconcileStep \/ PollStep
    PROVE  RecordInv'
<1>1. CASE ReconcileBegin \/ ArmedAwayBegin \/ DisengagedBegin
  BY <1>1, SnapshotTaken
     DEF ReconcileBegin, ArmedAwayBegin, DisengagedBegin, EnterLoop, storeVars, startedByUs,
         StartCalls, StopCalls
<1>2. CASE ReconcileFetch \/ PollSameAlarm \/ PollNewAlarm \/ DisengagedNothingActive
           \/ ReconcileStoreAlarm
  <2>1. /\ UNCHANGED <<loop, vac, snapshot>>
        /\ pc' \notin StartCalls \cup StopCalls \cup {"down", "start"}
        /\ pc' = "loop" => pc = "fetch"
        /\ pc = "fetch" => loop # "none"
    BY <1>2 DEF ReconcileFetch, PollSameAlarm, PollNewAlarm, DisengagedNothingActive,
       ReconcileStoreAlarm, GoTo, locals, setState, StartCalls, StopCalls, PhaseInv, Phases
  <2>2. UNCHANGED startedByUs
    BY <1>2 DEF ReconcileFetch, PollSameAlarm, PollNewAlarm, DisengagedNothingActive,
       ReconcileStoreAlarm, setState, SetControlState, SetAlarmState, storeVars, startedByUs,
       PhaseInv, TypeOK, StoreTypeOK, StoredState
  <2> QED
    BY <2>1, <2>2, RecordKept
<1>3. CASE ReconcileFetchFails \/ ReconcileCancelled \/ EndReconcile \/ EndLoop
  <2>1. CASE LeaveLocals /\ pc' \in {"wait", "storeAlarm"}
    BY <2>1 DEF LeaveLocals, RecordInv, StartCalls, StopCalls
  <2>2. CASE UNCHANGED <<pc, loop, vac, snapshot, storeVars>>
    BY <2>2, RecordKept DEF storeVars, startedByUs, PhaseInv, Phases
  <2> QED
    BY <1>3, <2>1, <2>2 DEF ReconcileFetchFails, ReconcileCancelled, EndReconcile, EndLoop,
       GiveUpReconcile
<1>4. CASE \/ ReconcileVacuum \/ PassOver \/ TurnToVacuum
  <2>1. pc = "loop" /\ loop # "none" /\ vac \in Vacuums /\ UNCHANGED startedByUs
    BY <1>4 DEF ReconcileVacuum, PassOver, TurnToVacuum, storeVars, startedByUs, PhaseInv,
       TypeOK, ControllerTypeOK, RecordInv
  <2>2. CASE \E active : NextVacuum(active)
    BY <2>1, <2>2, VacuumPassed
  <2>3. CASE ReconcileVacuum /\ (GoTo("startStatus") \/ GoTo("stopStatus"))
    BY <2>1, <2>3 DEF ReconcileVacuum, GoTo, locals, RecordInv, StartCalls, StopCalls
  <2>4. CASE TurnToVacuum
    BY <2>1, <2>4 DEF TurnToVacuum, GoTo, locals, RecordInv, StartCalls, StopCalls
  <2> QED
    BY <1>4, <2>2, <2>3, <2>4 DEF ReconcileVacuum, PassOver
<1> QED
  BY <1>1, <1>2, <1>3, <1>4 DEF ReconcileStep, PollStep

LEMMA CallsKeepRecord ==
    ASSUME PhaseInv, RecordInv, StartStep \/ StopStep
    PROVE  RecordInv'
<1>1. pc \in StartCalls \cup StopCalls
  BY DEF StartStep, StopStep, StartCalls, StopCalls, StartStatus, CleanSummary, StartReadFails,
     StartCommand, StartCommandFails, Claim, StopStatus, Pause, PauseFails, Charge,
     ChargeFails, RetryCancelled, Release
<1>2. loop # "none" /\ vac \in Vacuums
  BY <1>1 DEF RecordInv, PhaseInv, Phases
<1>3. \/ storeVars' = storeVars
      \/ \E b \in BOOLEAN : SetVacuumStartedByUs(vac, b) /\ NextVacuum(b)
  BY DEF StartStep, StopStep, StartStatus, CleanSummary, StartReadFails,
     StartCommand, StartCommandFails, Claim, StopStatus, Pause, PauseFails, Charge,
     ChargeFails, RetryCancelled, Release
<1>4. CASE \E active : NextVacuum(active)
  BY <1>2, <1>3, <1>4, VacuumPassed DEF storeVars, startedByUs
<1>5. CASE /\ storeVars' = storeVars /\ UNCHANGED <<loop, vac, snapshot>>
           /\ \/ pc \in StartCalls /\ pc' \in StartCalls
              \/ pc \in StopCalls /\ pc' \in StopCalls
  BY <1>5, RecordKept DEF storeVars, startedByUs, StartCalls, StopCalls, PhaseInv, Phases
<1>6. CASE StartStep /\ ~ \E active : NextVacuum(active)
  BY <1>3, <1>5, <1>6
     DEF StartStep, StartStatus, CleanSummary, StartReadFails, StartCommand,
         StartCommandFails, Claim, GoTo, locals, StartCalls
<1>7. CASE StopStep /\ ~ \E active : NextVacuum(active)
  BY <1>3, <1>5, <1>7
     DEF StopStep, StopStatus, Pause, PauseFails, Charge, ChargeFails, AttemptFails, ChargeNext,
         RetryCancelled, Release, GoTo, locals, StopCalls
<1> QED
  BY <1>4, <1>6, <1>7

LEMMA OthersKeepRecord ==
    ASSUME Requests = {}, PhaseInv, RecordInv,
           ProcessNext \/ ApiNext \/ WorldNext \/ UNCHANGED vars
    PROVE  RecordInv'
<1>1. CASE Boot
  BY <1>1 DEF Boot, locals, RecordInv, PhaseInv, TypeOK, Phases, StartCalls, StopCalls
<1>2. CASE Crash \/ ExitProcess
  BY <1>2 DEF Crash, ExitProcess, ProcessGone, LeaveLocals, RecordInv, StartCalls, StopCalls
<1>3. CASE ApiNext
  BY <1>3 DEF ApiNext
<1>4. CASE Terminate \/ StopPolling \/ persistCookie \/ WorldNext \/ UNCHANGED vars
  <2>1. UNCHANGED <<loop, vac, snapshot, startedByUs>> /\ (pc' = pc \/ pc' = "drain")
    BY <1>4 DEF Terminate, StopPolling, GoTo, persistCookie, SetVerisureCookie, WorldNext, vars,
       storeVars, controllerVars, locals, startedByUs
  <2> QED
    BY <2>1, RecordKept DEF StartCalls, StopCalls, PhaseInv, Phases
<1> QED
  BY <1>1, <1>2, <1>3, <1>4 DEF ProcessNext

\* Where no operator interferes, the controller stops the vacuums on record as
\* started and starts the others, whatever the alarm did since the loop began,
\* whatever fails, and across crashes and failed saves
\* (controller.go:183-209, 328-347, 437-459; README.md:6).
THEOREM RecordActedOn == Spec => []ActsOnRecord
<1>1. Init => RecordInv
  BY DEF Init, ControllerInit, LocalsInit, RecordInv, StartCalls, StopCalls
<1>2. Requests = {} /\ PhaseInv /\ RecordInv /\ [Next]_vars => RecordInv'
  BY LoopsKeepRecord, CallsKeepRecord, OthersKeepRecord DEF Next, ControllerStep, ControllerNext
<1>3. PhaseInv /\ RecordInv => ActsOnRecord
  <2> SUFFICES ASSUME PhaseInv, RecordInv, pc \in StartCalls \cup StopCalls
               PROVE  snapshot[vac] = startedByUs[vac]
    BY DEF ActsOnRecord, RecordInv
  <2>1. vac \in Vacuums /\ vac >= vac
    BY DEF PhaseInv, Phases, Vacuums
  <2> QED
    BY <2>1 DEF RecordInv
<1>4. CASE Requests = {}
  BY <1>1, <1>2, <1>3, <1>4, PhaseInvHolds, PTL DEF Spec
<1>5. CASE Requests # {}
  <2>1. ActsOnRecord
    BY <1>5 DEF ActsOnRecord
  <2> QED
    BY <2>1, PTL
<1> QED
  BY <1>4, <1>5

-----------------------------------------------------------------------------
(* Where no run is forgotten                                               *)

\* Nobody kills or stops the process, and every run of ours is tracked.
KeepsTrack ==
    /\ ~ctxDone /\ pc # "drain"
    /\ pc = "down" => \A v \in Vacuums : ~ours[v]
    /\ \A v \in Vacuums : ~Untracked(v)

LEMMA InitTracks == Init => KeepsTrack
BY DEF Init, HouseholdInit, ControllerInit, KeepsTrack, Untracked

LEMMA KeepsTrackStep ==
    ASSUME {"crash", "lost_reply", "shutdown", "slow_start"} \cap Events = {},
           Requests = {}, PhaseInv, RunInv, Forgotten, KeepsTrack, [Next]_vars
    PROVE  KeepsTrack'
<1>1. CASE ControllerStep
  <2>1. ~ctxDone' /\ pc' \notin {"drain", "down"}
    <3> USE DEF GoTo, NextVacuum
    <3>1. CASE ReconcileStep
      BY <3>1 DEF KeepsTrack, ReconcileStep, ReconcileBegin, ReconcileFetch,
         ReconcileFetchFails, GiveUpReconcile, ReconcileCancelled, ReconcileVacuum,
         EndReconcile, ReconcileStoreAlarm, setState
    <3>2. CASE PollStep
      BY <3>2 DEF KeepsTrack, PollStep, PollSameAlarm, PollNewAlarm, ArmedAwayBegin,
         DisengagedBegin, DisengagedNothingActive, PassOver, TurnToVacuum, EndLoop,
         EnterLoop, setState
    <3>3. CASE StartStep
      <4>1. UNCHANGED ctxDone
        BY <3>3 DEF StartStep, StartStatus, CleanSummary, StartReadFails, StartCommand,
           StartCommandFails, Claim
      <4>2. pc' \notin {"drain", "down"}
        BY <3>3 DEF StartStep, StartStatus, CleanSummary, StartReadFails, StartCommand,
           StartCommandFails, Claim
      <4> QED
        BY <4>1, <4>2 DEF KeepsTrack
    <3>4. CASE StopStep
      <4>1. UNCHANGED ctxDone
        BY <3>4 DEF StopStep, StopStatus, Pause, PauseFails, Charge, ChargeFails,
           RetryCancelled, Release, ChargeNext, AttemptFails
      <4>2. pc' \notin {"drain", "down"}
        BY <3>4 DEF StopStep, StopStatus, Pause, PauseFails, Charge, ChargeFails,
           RetryCancelled, Release, ChargeNext, AttemptFails
      <4> QED
        BY <4>1, <4>2 DEF KeepsTrack
    <3> QED
      BY <1>1, <3>1, <3>2, <3>3, <3>4 DEF ControllerStep, ControllerNext
  <2>2. ASSUME NEW v \in Vacuums PROVE ~Untracked(v)'
    BY <2>1, TrackedStep DEF KeepsTrack, ObeyedUnanswered, DiesUnrecorded
  <2> QED
    BY <2>1, <2>2 DEF KeepsTrack
<1>2. CASE WorldNext
  <2>1. UNCHANGED <<pc, ctxDone>> /\ HouseholdNext
    BY <1>2 DEF WorldNext, controllerVars
  <2>2. ASSUME NEW v \in Vacuums PROVE ~Untracked(v)' /\ (ours'[v] => ours[v])
    BY <2>1, TrackedStep, WorldEffects
       DEF KeepsTrack, ObeyedUnanswered, DiesUnrecorded, Up, PhaseInv, TypeOK
  <2> QED
    BY <2>1, <2>2 DEF KeepsTrack
<1>3. CASE ApiNext
  BY <1>3 DEF ApiNext
<1>4. CASE ProcessNext \/ UNCHANGED vars
  <2>1. Boot \/ persistCookie \/ UNCHANGED vars
    BY <1>4 DEF ProcessNext, Crash, Terminate, StopPolling, ExitProcess, KeepsTrack
  <2>2. UNCHANGED <<ours, ctxDone>> /\ pc' # "drain" /\ (pc' = "down" => pc = "down")
    BY <2>1 DEF Boot, persistCookie, vars, householdVars, controllerVars, KeepsTrack
  <2>3. ASSUME NEW v \in Vacuums PROVE ~Untracked(v)'
    BY <2>2, TrackedStep DEF KeepsTrack, ObeyedUnanswered, DiesUnrecorded, Up
  <2> QED
    BY <2>2, <2>3 DEF KeepsTrack
<1> QED
  BY <1>1, <1>2, <1>3, <1>4 DEF Next

\* Where the process is neither killed nor told to stop, no operator interferes, and
\* robots answer the commands they obey and begin to clean at once, the promise of
\* the README is kept whether or not saves succeed: at rest under a disengaged alarm
\* every run of ours is one the next poll ends
\* (README.md:6, 250; controller.go:316-324, 356-387).
THEOREM NoRunForgotten ==
    ASSUME {"crash", "lost_reply", "shutdown", "slow_start"} \cap Events = {},
           Requests = {}
    PROVE  Spec => []NothingLeftRunning
<1>1. Init => RunInv /\ Forgotten /\ KeepsTrack
  BY InitRuns, InitTracks DEF Init, StoreInit, Forgotten
<1>2. PhaseInv /\ RunInv /\ Forgotten /\ KeepsTrack /\ [Next]_vars =>
        (RunInv /\ Forgotten /\ KeepsTrack)'
  BY RunStep, ForgottenStep, KeepsTrackStep
<1>3. KeepsTrack => NothingLeftRunning
  BY DEF KeepsTrack, Untracked, NothingLeftRunning, AtRest
<1> QED
  BY <1>1, <1>2, <1>3, PhaseInvHolds, PTL DEF Spec
=============================================================================
