------------------------------ MODULE AppProofs ------------------------------
(***************************************************************************)
(* The turns of the app cloud are spaced for any number of callers, any    *)
(* interval and any list of backoffs: what is left of the wait of the      *)
(* caller that holds the mutex covers what is missing of the interval, and *)
(* nobody else is waiting.                                                 *)
(***************************************************************************)
EXTENDS AppCloud, SequenceTheorems, TLAPS

\* The caller that waits holds the mutex, and its timer fires no earlier than the
\* interval is over.
WaitInv ==
    /\ \A c \in Callers : at[c] = "waiting" => turn = c /\ timer[c] + age >= Interval
    /\ turn # Nobody => at[turn] = "waiting"

\* Whoever is about to run a control command has one left.
CommandInv == \A c \in Callers : at[c] \notin {"idle", "read"} => left[c] >= 1

AppInv == AppTypeOK /\ WaitInv /\ CommandInv

LEMMA InitTurns == AppInit => AppInv
BY AppCloudAssumption, LenProperties DEF AppInit, AppInv, AppTypeOK, WaitInv, CommandInv, Nobody

\* A caller that goes on to something else than waiting, and did not wait before.
LEMMA EnterKeeps ==
    ASSUME AppInv, NEW c \in Callers, NEW ticks \in Nat,
           NEW location \in {"idle", "queue", "control", "read", "backoff"},
           Enter(c, location, ticks), at[c] # "waiting", UNCHANGED <<age, turn>>,
           left' \in [Callers -> 0 .. 4], tries' \in [Callers -> 0 .. Len(Backoff)],
           CommandInv'
    PROVE  AppInv'
<1>1. AppTypeOK'
  BY DEF AppInv, AppTypeOK, Enter
<1>2. ASSUME NEW d \in Callers, at'[d] = "waiting"
      PROVE  turn' = d /\ timer'[d] + age' >= Interval'
  <2>1. d # c /\ at[d] = "waiting" /\ timer'[d] = timer[d]
    BY <1>2 DEF AppInv, AppTypeOK, Enter
  <2> QED
    BY <2>1 DEF AppInv, WaitInv
<1>3. turn' # Nobody => at'[turn'] = "waiting"
  BY DEF AppInv, AppTypeOK, WaitInv, Enter
<1> QED
  BY <1>1, <1>2, <1>3 DEF AppInv, WaitInv

\* The holder of the mutex that stops waiting gives it back.
LEMMA LeaveKeeps ==
    ASSUME AppInv, NEW c \in Callers, NEW ticks \in Nat, NEW location \in {"idle", "control"},
           Enter(c, location, ticks), at[c] = "waiting", turn' = Nobody,
           age' \in 0 .. Interval,
           left' \in [Callers -> 0 .. 4], tries' \in [Callers -> 0 .. Len(Backoff)],
           CommandInv'
    PROVE  AppInv'
<1>1. AppTypeOK'
  BY DEF AppInv, AppTypeOK, Enter
<1>2. ASSUME NEW d \in Callers PROVE at'[d] # "waiting"
  BY DEF AppInv, AppTypeOK, WaitInv, Enter
<1> QED
  BY <1>1, <1>2 DEF AppInv, WaitInv

LEMMA OperateKeeps ==
    ASSUME AppInv, NEW c \in Callers, NEW operation \in {"read", "start", "pause"},
           Operate(c, operation)
    PROVE  AppInv'
<1>1. CommandsOf(operation) \in 1 .. 4
  BY DEF CommandsOf
<1>2. left' \in [Callers -> 0 .. 4]
  <2>1. left \in [Callers -> 0 .. 4]
    BY DEF AppInv, AppTypeOK
  <2>2. left' = left \/ left' = [left EXCEPT ![c] = CommandsOf(operation)]
    BY DEF Operate
  <2> QED
    BY <1>1, <2>1, <2>2
<1>3. tries' \in [Callers -> 0 .. Len(Backoff)]
  BY DEF Operate, AppInv, AppTypeOK
<1>4. CommandInv'
  <2>1. ASSUME NEW d \in Callers, d # c
        PROVE  at'[d] = at[d] /\ left'[d] = left[d]
    BY <2>1 DEF Operate, Enter, AppInv, AppTypeOK
  <2>2. at'[c] = "read" \/ left'[c] = CommandsOf(operation)
    BY DEF Operate, Enter, AppInv, AppTypeOK
  <2> QED
    BY <1>1, <2>1, <2>2 DEF AppInv, CommandInv
<1> QED
  BY <1>2, <1>3, <1>4, EnterKeeps, AppCloudAssumption DEF Operate

\* Whoever takes the mutex waits for the rest of the interval.
LEMMA TakeMutexKeeps ==
    ASSUME AppInv, NEW c \in Callers, TakeMutex(c)
    PROVE  AppInv'
<1>1. age \in 0 .. Interval /\ Interval \in Nat /\ Interval - age \in Nat
  BY AppCloudAssumption DEF AppInv, AppTypeOK
<1>2. AppTypeOK'
  BY <1>1 DEF TakeMutex, Enter, AppInv, AppTypeOK
<1>3. ASSUME NEW d \in Callers, at'[d] = "waiting"
      PROVE  turn' = d /\ timer'[d] + age' >= Interval
  <2>1. d = c
    BY <1>3, AppCloudAssumption DEF TakeMutex, Enter, AppInv, AppTypeOK, WaitInv
  <2> QED
    BY <1>1, <2>1 DEF TakeMutex, Enter, AppInv, AppTypeOK
<1>4. at'[c] = "waiting"
  BY DEF TakeMutex, Enter, AppInv, AppTypeOK
<1>5. CommandInv'
  BY DEF TakeMutex, Enter, AppInv, AppTypeOK, CommandInv
<1> QED
  BY <1>2, <1>3, <1>4, <1>5 DEF AppInv, WaitInv, TakeMutex

LEMMA EndKeeps ==
    ASSUME AppInv, NEW c \in Callers, End(c)
    PROVE  /\ left' \in [Callers -> 0 .. 4]
           /\ tries' \in [Callers -> 0 .. Len(Backoff)]
           /\ Enter(c, "idle", 0)
           /\ CommandInv'
BY AppCloudAssumption, LenProperties DEF End, Enter, AppInv, AppTypeOK, CommandInv

\* The turn: the timer has fired, so the interval is over.
LEMMA TurnKeeps ==
    ASSUME AppInv, NEW c \in Callers, GrantTurn(c) \/ CancelWait(c)
    PROVE  AppInv'
<1>1. CASE GrantTurn(c)
  <2>1. left' \in [Callers -> 0 .. 4] /\ tries' \in [Callers -> 0 .. Len(Backoff)]
    BY <1>1 DEF GrantTurn, AppInv, AppTypeOK
  <2>2. CommandInv'
    BY <1>1 DEF GrantTurn, Enter, AppInv, AppTypeOK, CommandInv
  <2> QED
    BY <1>1, <2>1, <2>2, LeaveKeeps, AppCloudAssumption DEF GrantTurn
<1>2. CASE CancelWait(c)
  <2>1. age' \in 0 .. Interval
    BY <1>2 DEF CancelWait, AppInv, AppTypeOK
  <2> QED
    BY <1>2, <2>1, EndKeeps, LeaveKeeps DEF CancelWait
<1> QED
  BY <1>1, <1>2

LEMMA HelperKeeps ==
    ASSUME AppInv, NEW c \in Callers,
           \/ CommandSucceeds(c) \/ RateLimited(c) \/ HelperEnds(c)
           \/ TryAgain(c) \/ CancelBackoff(c)
    PROVE  AppInv'
<1>1. at[c] # "waiting" /\ UNCHANGED <<age, turn>>
  BY DEF CommandSucceeds, RateLimited, HelperEnds, TryAgain, CancelBackoff
<1>2. CASE End(c)
  BY <1>1, <1>2, EndKeeps, EnterKeeps
<1>3. CASE CommandSucceeds(c) /\ left[c] # 1
  <2>1. left[c] \in 2 .. 4
    <3>1. at[c] = "control"
      BY <1>3 DEF CommandSucceeds
    <3>2. left[c] >= 1
      BY <3>1 DEF AppInv, CommandInv
    <3>3. left[c] \in 0 .. 4
      BY DEF AppInv, AppTypeOK
    <3> QED
      BY <1>3, <3>2, <3>3
  <2>2. /\ Enter(c, "queue", 0)
        /\ left' = [left EXCEPT ![c] = @ - 1] /\ tries' = [tries EXCEPT ![c] = 0]
    BY <1>3 DEF CommandSucceeds
  <2>3. left' \in [Callers -> 0 .. 4] /\ tries' \in [Callers -> 0 .. Len(Backoff)]
    BY <2>1, <2>2, LenProperties, AppCloudAssumption DEF AppInv, AppTypeOK
  <2>4. CommandInv'
    BY <1>3, <2>1, <2>2 DEF CommandSucceeds, Enter, AppInv, AppTypeOK, CommandInv
  <2> QED
    BY <1>1, <2>2, <2>3, <2>4, EnterKeeps
<1>4. CASE RateLimited(c) /\ tries[c] < Len(Backoff)
  <2>1. tries[c] + 1 \in 1 .. Len(Backoff) /\ Len(Backoff) \in Nat
    BY <1>4, LenProperties, AppCloudAssumption DEF AppInv, AppTypeOK
  <2>2. Backoff[tries[c] + 1] \in Nat
    BY <2>1, ElementOfSeq, AppCloudAssumption
  <2>3. /\ Enter(c, "backoff", Backoff[tries[c] + 1])
        /\ tries' = [tries EXCEPT ![c] = @ + 1] /\ left' = left
    BY <1>4 DEF RateLimited
  <2>4. left' \in [Callers -> 0 .. 4] /\ tries' \in [Callers -> 0 .. Len(Backoff)]
    BY <2>1, <2>3 DEF AppInv, AppTypeOK
  <2>5. CommandInv'
    BY <1>4, <2>3 DEF RateLimited, Enter, AppInv, AppTypeOK, CommandInv
  <2> QED
    BY <1>1, <2>2, <2>3, <2>4, <2>5, EnterKeeps
<1>5. CASE TryAgain(c)
  <2>1. left' \in [Callers -> 0 .. 4] /\ tries' \in [Callers -> 0 .. Len(Backoff)]
    BY <1>5 DEF TryAgain, AppInv, AppTypeOK
  <2>2. CommandInv'
    BY <1>5 DEF TryAgain, Enter, AppInv, AppTypeOK, CommandInv
  <2> QED
    BY <1>1, <1>5, <2>1, <2>2, EnterKeeps DEF TryAgain
<1> QED
  BY <1>2, <1>3, <1>4, <1>5 DEF CommandSucceeds, RateLimited, HelperEnds, CancelBackoff

\* Time takes from the timer what it gives to the age.
LEMMA TickKeeps ==
    ASSUME AppInv, Tick
    PROVE  AppInv'
<1>1. Interval \in Nat /\ age \in 0 .. Interval /\ timer \in [Callers -> Nat]
  BY AppCloudAssumption DEF AppInv, AppTypeOK
<1>2. AppTypeOK'
  BY <1>1 DEF Tick, AppInv, AppTypeOK
<1>3. ASSUME NEW c \in Callers, at[c] = "waiting"
      PROVE  turn = c /\ timer'[c] + age' >= Interval
  BY <1>1, <1>3 DEF Tick, AppInv, WaitInv
<1> QED
  BY <1>2, <1>3 DEF Tick, AppInv, WaitInv, CommandInv

LEMMA AppStep == AppInv /\ [AppNext]_appVars => AppInv'
<1> SUFFICES ASSUME AppInv, [AppNext]_appVars PROVE AppInv'
  OBVIOUS
<1>1. CASE Tick
  BY <1>1, TickKeeps
<1>2. ASSUME NEW c \in Callers,
             \/ \E operation \in {"read", "start", "pause"} : Operate(c, operation)
             \/ TakeMutex(c) \/ GoesOn(c) \/ CancelWait(c) \/ CancelBackoff(c)
      PROVE  AppInv'
  BY <1>2, OperateKeeps, TakeMutexKeeps, TurnKeeps, HelperKeeps DEF GoesOn
<1>3. CASE UNCHANGED appVars
  BY <1>3 DEF appVars, AppInv, AppTypeOK, WaitInv, CommandInv
<1> QED
  BY <1>1, <1>2, <1>3 DEF AppNext

LEMMA AppInvHolds == AppSpec => []AppInv
BY InitTurns, AppStep, PTL DEF AppSpec

-----------------------------------------------------------------------------
\* No retry goes past the list of backoffs and no operation past its four commands,
\* however often the cloud refuses one (app_cloud_client.go:215-236).
THEOREM AppTyped == AppSpec => []AppTypeOK
<1>1. AppInv => AppTypeOK
  BY DEF AppInv
<1> QED
  BY AppInvHolds, <1>1, PTL

\* For any number of goroutines and any interval, two turns are never granted
\* within the interval (app_cloud_client.go:66-100).
THEOREM TurnsKeptApart == AppSpec => TurnsSpaced
<1>1. AppInv /\ [AppNext]_appVars =>
        [\A c \in Callers : at[c] = "waiting" /\ at'[c] = "control" => age = Interval]_appVars
  <2> SUFFICES ASSUME AppInv, AppNext, NEW c \in Callers, at[c] = "waiting",
                      at'[c] = "control"
               PROVE  age = Interval
    BY DEF AppInv
  <2>1. Interval \in Nat /\ age \in 0 .. Interval /\ turn = c
    BY AppCloudAssumption DEF AppInv, AppTypeOK, WaitInv
  <2>2. CASE Tick
    BY <2>2 DEF Tick
  <2>3. CASE GrantTurn(c)
    BY <2>1, <2>3 DEF GrantTurn, AppInv, AppTypeOK, WaitInv
  <2>4. CASE CancelWait(c)
    BY <2>4 DEF CancelWait, End, Enter, AppInv, AppTypeOK
  <2>5. CASE TakeMutex(c) \/ GoesOn(c) \/ CancelBackoff(c)
             \/ \E operation \in {"read", "start", "pause"} : Operate(c, operation)
    BY <2>3, <2>5 DEF TakeMutex, GoesOn, CommandSucceeds, RateLimited, HelperEnds, TryAgain,
       CancelBackoff, Operate
  <2>6. ASSUME NEW d \in Callers, d # c,
               \/ \E operation \in {"read", "start", "pause"} : Operate(d, operation)
               \/ TakeMutex(d) \/ GoesOn(d) \/ CancelWait(d) \/ CancelBackoff(d)
        PROVE  at'[c] = at[c]
    BY <2>6 DEF Operate, TakeMutex, GoesOn, GrantTurn, CancelWait, CommandSucceeds,
       RateLimited, HelperEnds, TryAgain, CancelBackoff, End, Enter, AppInv, AppTypeOK
  <2> QED
    BY <2>2, <2>3, <2>4, <2>5, <2>6 DEF AppNext
<1> QED
  BY AppInvHolds, <1>1, PTL DEF AppSpec, TurnsSpaced

-----------------------------------------------------------------------------
(* How far apart the helpers are.                                          *)

\* A helper runs no longer than its timeout, counted from the last turn or
\* earlier: what is left of it and the time since that turn fit into it.
HelperInv ==
    /\ \A c \in Callers : at[c] = "control" => timer[c] + age <= HelperTimeout
    /\ HelpersApart

\* Nobody becomes a helper, and time stands still.
LEMMA NoHelperKeeps ==
    ASSUME AppInv, HelperInv, NEW c \in Callers, NEW ticks, NEW location, location # "control",
           Enter(c, location, ticks), UNCHANGED age
    PROVE  HelperInv'
<1>1. ASSUME NEW d \in Callers, at'[d] = "control"
      PROVE  at[d] = "control" /\ timer'[d] = timer[d]
  BY <1>1 DEF Enter, AppInv, AppTypeOK
<1> QED
  BY <1>1 DEF HelperInv, HelpersApart

\* Whoever gets a turn gets it an interval after the last one, at which every other
\* helper had been started.
LEMMA GrantKeepsApart ==
    ASSUME AppInv, HelperInv, NEW c \in Callers, GrantTurn(c)
    PROVE  HelperInv'
<1>1. /\ Interval \in Nat /\ HelperTimeout \in Nat
      /\ age = Interval /\ age' = 0 /\ timer'[c] = HelperTimeout
  BY AppCloudAssumption DEF GrantTurn, Enter, AppInv, AppTypeOK, WaitInv
<1>2. ASSUME NEW d \in Callers, at'[d] = "control", d # c
      PROVE  /\ at[d] = "control" /\ timer'[d] = timer[d] /\ timer[d] \in Nat
             /\ timer[d] + Interval <= HelperTimeout
  BY <1>1, <1>2 DEF GrantTurn, Enter, AppInv, AppTypeOK, HelperInv
<1>3. ASSUME NEW d \in Callers, at'[d] = "control"
      PROVE  timer'[d] + age' <= HelperTimeout
  BY <1>1, <1>2, <1>3
<1>4. ASSUME NEW d \in Callers, NEW e \in Callers,
             at'[d] = "control", at'[e] = "control", d # e
      PROVE  timer'[d] + Interval <= timer'[e] \/ timer'[e] + Interval <= timer'[d]
  BY <1>1, <1>2, <1>4 DEF HelperInv, HelpersApart
<1> QED
  BY <1>3, <1>4 DEF HelperInv, HelpersApart

\* Time takes a tick from every helper, and none has run out.
LEMMA TickKeepsApart ==
    ASSUME AppInv, HelperInv, Tick
    PROVE  HelperInv'
<1>1. ASSUME NEW c \in Callers, at'[c] = "control"
      PROVE  /\ at[c] = "control" /\ timer[c] \in Nat /\ timer[c] > 0
             /\ timer'[c] = timer[c] - 1
  BY <1>1 DEF Tick, Helping, AppInv, AppTypeOK
<1>2. Interval \in Nat /\ HelperTimeout \in Nat /\ age \in Nat /\ age' \in Nat
      /\ age' <= age + 1
  BY AppCloudAssumption DEF Tick, AppInv, AppTypeOK
<1>3. ASSUME NEW c \in Callers, at'[c] = "control"
      PROVE  timer'[c] + age' <= HelperTimeout
  BY <1>1, <1>2, <1>3 DEF HelperInv
<1>4. ASSUME NEW d \in Callers, NEW e \in Callers,
             at'[d] = "control", at'[e] = "control", d # e
      PROVE  timer'[d] + Interval <= timer'[e] \/ timer'[e] + Interval <= timer'[d]
  BY <1>1, <1>2, <1>4 DEF HelperInv, HelpersApart
<1> QED
  BY <1>3, <1>4 DEF HelperInv, HelpersApart, Tick

LEMMA HelperStep == AppInv /\ HelperInv /\ [AppNext]_appVars => HelperInv'
<1> SUFFICES ASSUME AppInv, HelperInv, [AppNext]_appVars PROVE HelperInv'
  OBVIOUS
<1>1. CASE Tick
  BY <1>1, TickKeepsApart
<1>2. ASSUME NEW c \in Callers, GrantTurn(c) PROVE HelperInv'
  BY <1>2, GrantKeepsApart
<1>3. ASSUME NEW c \in Callers, NEW operation \in {"read", "start", "pause"},
             Operate(c, operation)
      PROVE  HelperInv'
  BY <1>3, NoHelperKeeps DEF Operate
<1>4. ASSUME NEW c \in Callers,
             \/ TakeMutex(c) \/ CancelWait(c) \/ CancelBackoff(c) \/ CommandSucceeds(c)
             \/ RateLimited(c) \/ HelperEnds(c) \/ TryAgain(c)
      PROVE  HelperInv'
  BY <1>4, NoHelperKeeps
     DEF TakeMutex, CancelWait, CancelBackoff, CommandSucceeds, RateLimited, HelperEnds,
         TryAgain, End
<1>5. CASE UNCHANGED appVars
  BY <1>5 DEF appVars, HelperInv, HelpersApart
<1> QED
  BY <1>1, <1>2, <1>3, <1>4, <1>5 DEF AppNext, GoesOn

LEMMA HelperInvHolds == AppSpec => []HelperInv
<1>1. AppInit => HelperInv
  BY DEF AppInit, HelperInv, HelpersApart
<1> QED
  BY <1>1, HelperStep, AppInvHolds, PTL DEF AppSpec

\* For any number of goroutines, any interval and any timeout of the helper, the
\* control commands that run at once were started an interval apart
\* (app_cloud_client.go:66-100, main.go:81).
THEOREM HelpersKeptApart == AppSpec => []HelpersApart
<1>1. HelperInv => HelpersApart
  BY DEF HelperInv
<1> QED
  BY HelperInvHolds, <1>1, PTL

\* Although control commands do overlap, no three of them do as long as the helper
\* is given less than two intervals: with the default timeout it is given 40 of
\* 60 seconds (main.go:81, config.go:161, app_cloud_client.go:40).
THEOREM AtMostTwoHelpers ==
    ASSUME HelperTimeout < 2 * Interval
    PROVE  AppSpec => [](\A c, d, e \in Callers :
                            at[c] = "control" /\ at[d] = "control" /\ at[e] = "control" =>
                                c = d \/ d = e \/ c = e)
<1>1. AppInv /\ HelperInv =>
        \A c, d, e \in Callers :
            at[c] = "control" /\ at[d] = "control" /\ at[e] = "control" =>
                c = d \/ d = e \/ c = e
  <2> SUFFICES ASSUME AppInv, HelperInv, NEW c \in Callers, NEW d \in Callers,
                      NEW e \in Callers,
                      at[c] = "control", at[d] = "control", at[e] = "control",
                      c # d, d # e, c # e
               PROVE  FALSE
    OBVIOUS
  <2>1. Interval \in Nat /\ HelperTimeout \in Nat /\ age \in Nat
        /\ timer[c] \in Nat /\ timer[d] \in Nat /\ timer[e] \in Nat
    BY AppCloudAssumption DEF AppInv, AppTypeOK
  <2>2. timer[c] <= HelperTimeout /\ timer[d] <= HelperTimeout /\ timer[e] <= HelperTimeout
    BY <2>1 DEF HelperInv
  <2>3. /\ timer[c] + Interval <= timer[d] \/ timer[d] + Interval <= timer[c]
        /\ timer[d] + Interval <= timer[e] \/ timer[e] + Interval <= timer[d]
        /\ timer[c] + Interval <= timer[e] \/ timer[e] + Interval <= timer[c]
    BY DEF HelperInv, HelpersApart
  <2> QED
    BY <2>1, <2>2, <2>3
<1> QED
  BY AppInvHolds, HelperInvHolds, <1>1, PTL

-----------------------------------------------------------------------------
(* The length of an operation.                                             *)

\* A read has no command to run and nothing to try again.
ReadInv ==
    \A c \in Callers : at[c] \in {"idle", "read"} => left[c] = 0 /\ tries[c] = 0

LEMMA OthersStay ==
    ASSUME AppInv, NEW c \in Callers, NEW location, NEW ticks, Enter(c, location, ticks)
    PROVE  /\ at'[c] = location
           /\ \A d \in Callers : d # c => at'[d] = at[d]
BY DEF Enter, AppInv, AppTypeOK

LEMMA ReadStep == AppInv /\ ReadInv /\ [AppNext]_appVars => ReadInv'
<1> SUFFICES ASSUME AppInv, ReadInv, [AppNext]_appVars PROVE ReadInv'
  OBVIOUS
<1>1. CASE Tick \/ UNCHANGED appVars
  BY <1>1 DEF Tick, appVars, ReadInv
<1>2. ASSUME NEW c \in Callers, End(c) PROVE ReadInv'
  BY <1>2 DEF End, Enter, AppInv, AppTypeOK, ReadInv
<1>3. ASSUME NEW c \in Callers, NEW location \in {"queue", "waiting", "control", "backoff"},
             NEW ticks, Enter(c, location, ticks),
             \A d \in Callers : d # c => left'[d] = left[d] /\ tries'[d] = tries[d]
      PROVE  ReadInv'
  BY <1>3, OthersStay DEF ReadInv
<1>4. ASSUME NEW c \in Callers, NEW operation \in {"read", "start", "pause"},
             Operate(c, operation)
      PROVE  ReadInv'
  BY <1>4 DEF Operate, Enter, AppInv, AppTypeOK, ReadInv
<1>5. ASSUME NEW c \in Callers, TakeMutex(c) \/ GoesOn(c) \/ CancelWait(c) \/ CancelBackoff(c)
      PROVE  ReadInv'
  BY <1>2, <1>3, <1>5
     DEF TakeMutex, GoesOn, GrantTurn, CancelWait, CancelBackoff, CommandSucceeds, RateLimited,
         HelperEnds, TryAgain, AppInv, AppTypeOK
<1> QED
  BY <1>1, <1>4, <1>5 DEF AppNext

LEMMA ReadInvHolds == AppSpec => []ReadInv
<1>1. AppInit => ReadInv
  BY DEF AppInit, ReadInv
<1> QED
  BY <1>1, ReadStep, AppInvHolds, PTL DEF AppSpec

\* Whatever a caller does in its operation, it has less to do afterwards.
LEMMA OwnStepShortens ==
    ASSUME AppInv, ReadInv, NEW c \in Callers,
           TakeMutex(c) \/ GoesOn(c) \/ CancelWait(c) \/ CancelBackoff(c)
    PROVE  Shortens(c)
<1>1. left[c] \in Nat /\ tries[c] \in Nat
  BY DEF AppInv, AppTypeOK
<1>2. at[c] \notin {"idle", "read"} => left[c] >= 1
  BY DEF AppInv, CommandInv
<1>3. CASE End(c)
  <2>1. at'[c] = "idle" /\ left'[c] = 0 /\ tries'[c] = 0
    BY <1>3 DEF End, Enter, AppInv, AppTypeOK
  <2>2. CASE at[c] = "read"
    BY <2>1, <2>2 DEF ReadInv, Shortens, Stage
  <2>3. at[c] # "idle"
    BY DEF TakeMutex, GoesOn, GrantTurn, CancelWait, CancelBackoff, CommandSucceeds,
           RateLimited, HelperEnds, TryAgain
  <2> QED
    BY <1>1, <1>2, <2>1, <2>2, <2>3 DEF Shortens
<1>4. CASE TakeMutex(c) \/ GrantTurn(c) \/ TryAgain(c)
  BY <1>4, OthersStay DEF TakeMutex, GrantTurn, TryAgain, Shortens, Stage
<1>5. CASE CommandSucceeds(c) /\ left[c] # 1
  BY <1>1, <1>5 DEF CommandSucceeds, Shortens, AppInv, AppTypeOK
<1>6. CASE RateLimited(c) /\ tries[c] < Len(Backoff)
  BY <1>1, <1>6 DEF RateLimited, Shortens, AppInv, AppTypeOK
<1> QED
  BY <1>3, <1>4, <1>5, <1>6
     DEF GoesOn, CommandSucceeds, RateLimited, HelperEnds, CancelWait, CancelBackoff

\* For any number of goroutines, any interval and any list of backoffs, an
\* operation only ever comes closer to its end (app_cloud_client.go:66-100,
\* 215-236).
THEOREM OperationsBounded == AppSpec => OperationsShorten
<1>1. ASSUME AppInv, ReadInv, [AppNext]_appVars, NEW c \in Callers, at[c] # "idle"
      PROVE  \/ Shortens(c)
             \/ <<at[c], left[c], tries[c]>>' = <<at[c], left[c], tries[c]>>
  <2>1. CASE Tick \/ UNCHANGED appVars
    BY <2>1 DEF Tick, appVars
  <2>2. CASE TakeMutex(c) \/ GoesOn(c) \/ CancelWait(c) \/ CancelBackoff(c)
    BY <1>1, <2>2, OwnStepShortens
  <2>3. ASSUME NEW d \in Callers, d # c,
               \/ \E operation \in {"read", "start", "pause"} : Operate(d, operation)
               \/ TakeMutex(d) \/ GoesOn(d) \/ CancelWait(d) \/ CancelBackoff(d)
        PROVE  at'[c] = at[c] /\ left'[c] = left[c] /\ tries'[c] = tries[c]
    BY <1>1, <2>3 DEF Operate, TakeMutex, GoesOn, GrantTurn, CancelWait, CommandSucceeds,
       RateLimited, HelperEnds, TryAgain, CancelBackoff, End, Enter, AppInv, AppTypeOK
  <2>4. ~ \E operation \in {"read", "start", "pause"} : Operate(c, operation)
    BY <1>1 DEF Operate
  <2> QED
    BY <1>1, <2>1, <2>2, <2>3, <2>4 DEF AppNext
<1>2. AppInv /\ ReadInv /\ [AppNext]_appVars =>
        [\A c \in Callers : at[c] # "idle" =>
            \/ Shortens(c)
            \/ <<at[c], left[c], tries[c]>>' = <<at[c], left[c], tries[c]>>]_appVars
  BY <1>1
<1> QED
  BY AppInvHolds, ReadInvHolds, <1>2, PTL DEF AppSpec, OperationsShorten
=============================================================================
