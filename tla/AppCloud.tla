------------------------------- MODULE AppCloud -------------------------------
(***************************************************************************)
(* SpacedRoborockAppRunner, roborockAppVacuum and PythonRoborockAppRunner  *)
(* of internal/roborock/app_cloud_client.go: the goroutines that command   *)
(* robots through the Roborock cloud take turns, one turn per Interval,    *)
(* and try a rate-limited command again.                                   *)
(*                                                                         *)
(* Time is counted in ticks.  A timer may fire late, never early; a helper *)
(* process is killed when its timeout has passed.                          *)
(***************************************************************************)
EXTENDS Naturals, Sequences

CONSTANTS
    Callers,         \* goroutines that use the runner
    Interval,        \* MinInterval, in ticks
    HelperTimeout,   \* Timeout of the helper process, in ticks
    Backoff          \* roborockAppRateLimitBackoff, in ticks

Nobody == "nobody"

ASSUME AppCloudAssumption ==
    /\ Nobody \notin Callers
    /\ Interval \in Nat \ {0} /\ HelperTimeout \in Nat \ {0}
    /\ Backoff \in Seq(Nat \ {0})

VARIABLES
    age,       \* ticks since lastRun; Interval also when there was no run
    turn,      \* who holds SpacedRoborockAppRunner.mu
    at,        \* per caller, what it is doing
    timer,     \* per caller, ticks left of what it is waiting for
    left,      \* per caller, control commands its operation still has to run
    tries      \* per caller, retries of the current command

appVars == <<age, turn, at, timer, left, tries>>

\* StartOrResume and CleanRooms set the suction, the mode and the water first.
CommandsOf(operation) == IF operation = "start" THEN 4 ELSE 1

AppTypeOK ==
    /\ age \in 0 .. Interval
    /\ turn \in Callers \cup {Nobody}
    /\ at \in [Callers -> {"idle", "queue", "waiting", "control", "read", "backoff"}]
    /\ timer \in [Callers -> Nat]
    /\ left \in [Callers -> 0 .. 4]
    /\ tries \in [Callers -> 0 .. Len(Backoff)]

AppInit ==
    /\ age = Interval /\ turn = Nobody
    /\ at = [c \in Callers |-> "idle"] /\ timer = [c \in Callers |-> 0]
    /\ left = [c \in Callers |-> 0] /\ tries = [c \in Callers |-> 0]

-----------------------------------------------------------------------------
Enter(c, location, ticks) ==
    at' = [at EXCEPT ![c] = location] /\ timer' = [timer EXCEPT ![c] = ticks]

\* The operation is over, with or without success.
End(c) ==
    /\ Enter(c, "idle", 0)
    /\ left' = [left EXCEPT ![c] = 0] /\ tries' = [tries EXCEPT ![c] = 0]

\* Reads take no turn.
Operate(c, operation) ==
    /\ at[c] = "idle"
    /\ IF operation = "read"
         THEN Enter(c, "read", HelperTimeout) /\ UNCHANGED left
         ELSE Enter(c, "queue", 0) /\ left' = [left EXCEPT ![c] = CommandsOf(operation)]
    /\ UNCHANGED <<age, turn, tries>>

-----------------------------------------------------------------------------
(* waitForTurn                                                             *)

\* Mutant: the mutex is not held while waiting.
TakeMutexMutant(c) ==
    /\ at[c] = "queue" /\ turn = Nobody
    /\ Enter(c, "waiting", Interval - age)
    /\ UNCHANGED <<age, turn, left, tries>>

TakeMutex(c) ==
    /\ at[c] = "queue" /\ turn = Nobody
    /\ turn' = c
    /\ Enter(c, "waiting", Interval - age)
    /\ UNCHANGED <<age, left, tries>>

GrantTurn(c) ==
    /\ at[c] = "waiting" /\ timer[c] = 0
    /\ age' = 0 /\ turn' = Nobody
    /\ Enter(c, "control", HelperTimeout)
    /\ UNCHANGED <<left, tries>>

\* Mutant: a cancelled wait keeps the mutex.
CancelWaitMutant(c) ==
    /\ at[c] = "waiting" /\ timer[c] > 0
    /\ End(c)
    /\ UNCHANGED <<age, turn>>

CancelWait(c) ==
    /\ at[c] = "waiting" /\ timer[c] > 0
    /\ turn' = Nobody /\ End(c)
    /\ UNCHANGED age

-----------------------------------------------------------------------------
(* The helper process and commandWithParamsRateLimitRetry                  *)

CommandSucceeds(c) ==
    /\ at[c] = "control"
    /\ IF left[c] = 1
         THEN End(c)
         ELSE /\ Enter(c, "queue", 0) /\ left' = [left EXCEPT ![c] = @ - 1]
              /\ tries' = [tries EXCEPT ![c] = 0]
    /\ UNCHANGED <<age, turn>>

\* Mutant: one retry too many.
RateLimitedMutant(c) ==
    /\ at[c] = "control"
    /\ IF tries[c] <= Len(Backoff)
         THEN /\ Enter(c, "backoff", Backoff[1])
              /\ tries' = [tries EXCEPT ![c] = @ + 1] /\ UNCHANGED left
         ELSE End(c)
    /\ UNCHANGED <<age, turn>>

RateLimited(c) ==
    /\ at[c] = "control"
    /\ IF tries[c] < Len(Backoff)
         THEN /\ Enter(c, "backoff", Backoff[tries[c] + 1])
              /\ tries' = [tries EXCEPT ![c] = @ + 1] /\ UNCHANGED left
         ELSE End(c)
    /\ UNCHANGED <<age, turn>>

\* A read that ends, or a command that fails, is cancelled or timed out.
HelperEnds(c) ==
    /\ at[c] \in {"control", "read"}
    /\ End(c)
    /\ UNCHANGED <<age, turn>>

\* Mutant: every try counts its retries anew.
TryAgainMutant(c) ==
    /\ at[c] = "backoff" /\ timer[c] = 0
    /\ Enter(c, "queue", 0) /\ tries' = [tries EXCEPT ![c] = 0]
    /\ UNCHANGED <<age, turn, left>>

TryAgain(c) ==
    /\ at[c] = "backoff" /\ timer[c] = 0
    /\ Enter(c, "queue", 0)
    /\ UNCHANGED <<age, turn, left, tries>>

CancelBackoff(c) ==
    /\ at[c] = "backoff" /\ timer[c] > 0
    /\ End(c)
    /\ UNCHANGED <<age, turn>>

-----------------------------------------------------------------------------
Helping(c) == at[c] \in {"control", "read"}

Tick ==
    /\ \A c \in Callers : Helping(c) => timer[c] > 0
    /\ age' = IF age < Interval THEN age + 1 ELSE Interval
    /\ timer' = [c \in Callers |-> IF timer[c] > 0 THEN timer[c] - 1 ELSE 0]
    /\ UNCHANGED <<turn, at, left, tries>>

GoesOn(c) ==
    GrantTurn(c) \/ CommandSucceeds(c) \/ RateLimited(c) \/ HelperEnds(c) \/ TryAgain(c)

AppNext ==
    \/ \E c \in Callers :
        \/ \E operation \in {"read", "start", "pause"} : Operate(c, operation)
        \/ TakeMutex(c) \/ GoesOn(c)
        \/ CancelWait(c) \/ CancelBackoff(c)
    \/ Tick

AppSpec == AppInit /\ [][AppNext]_appVars

\* Time passes, timers fire, helpers end or are killed, and the mutex is fair.
FairApp ==
    /\ AppSpec
    /\ WF_appVars(Tick)
    /\ \A c \in Callers : WF_appVars(GoesOn(c)) /\ SF_appVars(TakeMutex(c))

-----------------------------------------------------------------------------
\* No two turns are granted within the interval, whoever waits, gives up or is
\* cancelled: the mutex is held while waiting (app_cloud_client.go:66-100).
TurnsSpaced ==
    [][\A c \in Callers : at[c] = "waiting" /\ at'[c] = "control" => age = Interval]_appVars

\* Two helpers that run at once were started an interval apart, so that what is
\* left of the timeout of the one is at least that much shorter
\* (app_cloud_client.go:66-100, main.go:81).
HelpersApart ==
    \A c, d \in Callers :
        at[c] = "control" /\ at[d] = "control" /\ c # d =>
            timer[c] + Interval <= timer[d] \/ timer[d] + Interval <= timer[c]

\* Where an operation is in running one command.
Stage(location) ==
    CASE location = "backoff" -> 4
      [] location = "queue"   -> 3
      [] location = "waiting" -> 2
      [] location \in {"control", "read"} -> 1
      [] location = "idle"    -> 0

\* The operation has a command less to run, or a retry, or a stage.
Shortens(c) ==
    \/ left'[c] < left[c]
    \/ left'[c] = left[c] /\ tries'[c] > tries[c]
    \/ left'[c] = left[c] /\ tries'[c] = tries[c] /\ Stage(at'[c]) < Stage(at[c])

\* An operation that moves comes closer to its end, and no other caller, nor the
\* time that passes, throws it back (app_cloud_client.go:66-100, 215-236).
OperationsShorten ==
    [][\A c \in Callers : at[c] # "idle" =>
           \/ Shortens(c)
           \/ <<at[c], left[c], tries[c]>>' = <<at[c], left[c], tries[c]>>]_appVars

\* Every operation ends: a rate limit is met with a bounded number of retries,
\* and a cancelled wait gives the mutex back (app_cloud_client.go:66-100, 215-236).
OperationsEnd == \A c \in Callers : at[c] # "idle" ~> at[c] = "idle"

\* "control commands are serialized and spaced by 30 seconds" (README.md:252,
\* app_cloud_client.go:42): no two of them run at the same time.
Serialized ==
    \A c, d \in Callers : at[c] = "control" /\ at[d] = "control" => c = d
=============================================================================
