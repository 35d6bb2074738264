--------------------------- MODULE AlarmAutomation --------------------------
(***************************************************************************)
(* What the service promises, without saying how it talks to anything: it  *)
(* holds a belief about the alarm, starts a vacuum only while it believes  *)
(* the alarm is armed away or somebody asks for that vacuum, keeps a       *)
(* ledger of the vacuums it started, and strikes one from it only while it *)
(* believes that somebody is home or has been asked to stop that vacuum.   *)
(* The ledger has a durable copy, which may lag behind and is all that a   *)
(* restart leaves.                                                         *)
(***************************************************************************)
EXTENDS Domain

VARIABLES
    toStart,   \* the vacuums somebody is asking it to start
    toStop,    \* the vacuums somebody is asking it to stop
    belief,    \* the alarm state last observed
    mode,      \* idle, armed_away or cleaning_active
    resting,   \* the service waits for the next observation
    ledger,    \* the vacuums it knows it started
    durable,   \* the ledger a restart would find
    ours       \* the vacuums that are on a run the service began

promiseVars    == <<belief, mode, resting, ledger, durable, ours>>
automationVars == <<toStart, toStop, promiseVars>>

\* A service at rest is in a mode its belief allows.
Agree(b, m) ==
    /\ m = StateIdle => ~IsArmedAway(b)
    /\ m # StateIdle => ~IsDisengaged(b)

AutomationInit ==
    /\ toStart = {} /\ toStop = {}
    /\ belief = Unknown /\ mode = StateIdle /\ resting = FALSE
    /\ ledger = [v \in Vacuums |-> FALSE] /\ durable = ledger
    /\ ours = [v \in Vacuums |-> FALSE]

-----------------------------------------------------------------------------
MaySave == durable' \in {durable, ledger'}

\* The service observes the alarm, changes its mode, or comes to rest.
Decide ==
    /\ belief' \in ArmStates /\ mode' \in ControlStates /\ resting' \in BOOLEAN
    /\ resting' => Agree(belief', mode')
    /\ MaySave
    /\ UNCHANGED <<ledger, ours>>

\* It works on one vacuum: nothing but that vacuum changes.
WorkOn(v) ==
    /\ UNCHANGED <<belief, mode, resting>>
    /\ \E b, l \in BOOLEAN :
        /\ ours' = [ours EXCEPT ![v] = b]
        /\ ledger' = [ledger EXCEPT ![v] = l]
    /\ MaySave

StartVacuum(v) ==
    /\ IsArmedAway(belief) \/ v \in toStart
    /\ WorkOn(v)
    /\ ledger[v] => ledger'[v]

DockVacuum(v) ==
    /\ IsDisengaged(belief) \/ v \in toStop
    /\ WorkOn(v)
    /\ ours'[v] => ours[v]
    /\ ledger'[v] => ledger[v]

\* A run ends by itself, or is given up by the robot.
RunEnds(v) ==
    /\ ours' = [ours EXCEPT ![v] = FALSE]
    /\ UNCHANGED <<belief, mode, resting, ledger, durable>>

Restart ==
    /\ belief' = Unknown /\ mode' = StateIdle /\ resting' = FALSE
    /\ ledger' = durable
    /\ UNCHANGED <<durable, ours>>

\* Who asks for what is up to them.
AutomationNext ==
    /\ toStart' \in SUBSET Vacuums /\ toStop' \in SUBSET Vacuums
    /\ \/ Decide
       \/ Restart
       \/ \E v \in Vacuums : StartVacuum(v) \/ DockVacuum(v) \/ RunEnds(v)
       \/ UNCHANGED promiseVars

AutomationSpec == AutomationInit /\ [][AutomationNext]_automationVars
=============================================================================
