------------------------------- MODULE Domain -------------------------------
(***************************************************************************)
(* The vocabulary shared by every component: the alarm states Verisure     *)
(* reports, the numeric robot states a status reply carries, the           *)
(* controller's own states, and the things outside the program that an     *)
(* instance lets happen.                                                   *)
(***************************************************************************)
EXTENDS Integers

CONSTANTS
    N,        \* number of configured vacuums
    Reported, \* alarm states Verisure may report
    Events    \* the faults and the habits of the household that may occur

(***************************************************************************)
(* What may happen around the program.                                     *)
(*   verisure_error  a fetch of the alarm state fails                      *)
(*   refused_call    a call to a robot fails and the robot did nothing     *)
(*   lost_reply      a call to a robot fails but the robot obeyed          *)
(*   save_error      the state file cannot be written                      *)
(*   crash           the process is killed at any point                    *)
(*   shutdown        SIGTERM cancels the root context                      *)
(*   arm             someone changes the alarm                             *)
(*   finish          a robot ends its clean by itself                      *)
(*   expire          the cooldown of a finished clean runs out             *)
(*   manual          someone starts a robot with its button or its app     *)
(*   stuck           a robot gets into an error and is freed later         *)
(*   slow_start      a robot reports "initiating" before it cleans         *)
(***************************************************************************)
AllEvents == {"verisure_error", "refused_call", "lost_reply", "save_error",
              "crash", "shutdown", "arm", "finish", "expire", "manual",
              "stuck", "slow_start"}

Vacuums == 1 .. N

-----------------------------------------------------------------------------
(* Alarm states: statusType strings, "" before the first answer.           *)

ArmedAway == "ARMED_AWAY"
ArmedHome == "ARMED_HOME"
Disarmed  == "DISARMED"
Unknown   == ""
OtherArm  == "OTHER"      \* any statusType the program has no name for

ArmStates == {ArmedAway, ArmedHome, Disarmed, Unknown, OtherArm}

ASSUME DomainAssumption ==
    /\ N \in Nat \ {0}
    /\ Reported \subseteq ArmStates
    /\ Events \subseteq AllEvents

IsArmedAway(a)  == a = ArmedAway
IsDisengaged(a) == a \in {Disarmed, ArmedHome}

-----------------------------------------------------------------------------
(* Robot states: the numbers of get_status.                                *)

Initiating == 1
Idle       == 3
Cleaning   == 5
Returning  == 6
Charging   == 8
Paused     == 10
Stuck      == 12

VacuumStateIDs == (1 .. 15) \cup {17, 18, 100}

IsActiveClean(s) == s \in {Cleaning, 11, 17, 18}
IsPaused(s)      == s = Paused
IsError(s)       == s \in {Stuck, 9}
IsInTransit(s)   == s \in {Returning, 15}
IsIdle(s)        == s \in {Idle, 2, Charging, 100}

NoReply == 0              \* a status call that returned an error

-----------------------------------------------------------------------------
(* Controller states, by the names they are persisted under.               *)

StateIdle           == "idle"
StateArmedAway      == "armed_away"
StateCleaningActive == "cleaning_active"

ControlStates == {StateIdle, StateArmedAway, StateCleaningActive}
=============================================================================
