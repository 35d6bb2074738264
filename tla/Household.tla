----------------------------- MODULE Household ------------------------------
(***************************************************************************)
(* Everything the program acts on and cannot see directly: the alarm panel *)
(* and the robots.  The program reaches them only through the calls below, *)
(* each of which can fail with or without effect.                          *)
(***************************************************************************)
EXTENDS Domain

VARIABLES
    home,     \* the true state of the alarm
    device,   \* device[v]: the state robot v would report now
    recent,   \* recent[v]: robot v ended a clean within the cooldown
    ours      \* ours[v]: the run robot v is on was begun by the program

robotVars     == <<device, recent, ours>>
householdVars == <<home, device, recent, ours>>

DeviceStates == {Initiating, Idle, Cleaning, Returning, Charging, Paused, Stuck}

HouseholdTypeOK ==
    /\ home \in ArmStates
    /\ device \in [Vacuums -> DeviceStates]
    /\ recent \in [Vacuums -> BOOLEAN]
    /\ ours \in [Vacuums -> BOOLEAN]

\* A new installation: the robots stand in their docks, whatever they did
\* before was not the program's doing.
HouseholdInit ==
    /\ home \in Reported
    /\ device = [v \in Vacuums |-> Charging]
    /\ recent \in [Vacuums -> BOOLEAN]
    /\ ours = [v \in Vacuums |-> FALSE]

-----------------------------------------------------------------------------
(* What a robot does when a command reaches it.                            *)

\* app_start, app_resume or app_segment_clean: a robot in an error accepts the
\* command and stays where it is.
BeginRun(v) ==
    /\ UNCHANGED recent
    /\ IF IsError(device[v])
       THEN UNCHANGED <<device, ours>>
       ELSE /\ \E s \in {Cleaning} \cup
                        (IF "slow_start" \in Events THEN {Initiating} ELSE {}) :
                    device' = [device EXCEPT ![v] = s]
            /\ ours' = [ours EXCEPT ![v] = TRUE]

\* app_pause interrupts a run and does nothing otherwise.
PauseRun(v) ==
    /\ device' = [device EXCEPT ![v] = IF IsActiveClean(@) THEN Paused ELSE @]
    /\ UNCHANGED <<recent, ours>>

\* app_charge ends a run, which enters the cleaning history; a robot in an
\* error cannot drive home, one in its dock has no way to go.
GoHome(v) ==
    IF IsError(device[v]) \/ device[v] \in {Charging, Returning}
    THEN UNCHANGED robotVars
    ELSE /\ device' = [device EXCEPT ![v] = Returning]
         /\ recent' = [recent EXCEPT ![v] = @ \/ device[v] # Idle]
         /\ ours' = [ours EXCEPT ![v] = FALSE]

\* A command whose reply is an error: the robot did nothing, or it obeyed and
\* only the reply was lost.
CallFails(Effect) ==
    \/ "refused_call" \in Events /\ UNCHANGED robotVars
    \/ "lost_reply" \in Events /\ Effect

\* A read (status, clean summary) whose reply is an error.
ReadFails == {"refused_call", "lost_reply"} \cap Events # {}

-----------------------------------------------------------------------------
(* What happens without the program.                                       *)

ChangeAlarm ==
    /\ "arm" \in Events
    /\ home' \in Reported \ {home}
    /\ UNCHANGED robotVars

FinishInitiating(v) ==
    /\ device[v] = Initiating
    /\ device' = [device EXCEPT ![v] = Cleaning]
    /\ UNCHANGED <<home, recent, ours>>

FinishClean(v) ==
    /\ "finish" \in Events
    /\ device[v] = Cleaning
    /\ device' = [device EXCEPT ![v] = Returning]
    /\ recent' = [recent EXCEPT ![v] = TRUE]
    /\ ours' = [ours EXCEPT ![v] = FALSE]
    /\ UNCHANGED home

ReachDock(v) ==
    /\ device[v] = Returning
    /\ device' = [device EXCEPT ![v] = Charging]
    /\ UNCHANGED <<home, recent, ours>>

ExpireCooldown(v) ==
    /\ "expire" \in Events
    /\ recent[v]
    /\ recent' = [recent EXCEPT ![v] = FALSE]
    /\ UNCHANGED <<home, device, ours>>

StartByHand(v) ==
    /\ "manual" \in Events
    /\ device[v] \in {Idle, Charging}
    /\ device' = [device EXCEPT ![v] = Cleaning]
    /\ UNCHANGED <<home, recent, ours>>

GetStuck(v) ==
    /\ "stuck" \in Events
    /\ device[v] \in {Cleaning, Returning}
    /\ device' = [device EXCEPT ![v] = Stuck]
    /\ UNCHANGED <<home, recent, ours>>

BeFreed(v) ==
    /\ device[v] = Stuck
    /\ device' = [device EXCEPT ![v] = Idle]
    /\ ours' = [ours EXCEPT ![v] = FALSE]
    /\ UNCHANGED <<home, recent>>

HouseholdNext ==
    \/ ChangeAlarm
    \/ \E v \in Vacuums :
        \/ FinishInitiating(v) \/ FinishClean(v) \/ ReachDock(v)
        \/ ExpireCooldown(v) \/ StartByHand(v) \/ GetStuck(v) \/ BeFreed(v)
=============================================================================
