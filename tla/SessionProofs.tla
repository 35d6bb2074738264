----------------------------- MODULE SessionProofs ----------------------------
(***************************************************************************)
(* Why no SMS is sent that a cookie would have made unnecessary: a client  *)
(* that is not authenticated holds no session, the state file never knows  *)
(* better than the process, and a login only gets as far as the SMS when   *)
(* Verisure no longer trusts the client.                                   *)
(***************************************************************************)
EXTENDS VerisureSession, TLAPS

LoginLocations == {"login", "sms", "drain", "await", "validate", "trust"}

LoginNeeded ==
    /\ pc \in LoginLocations => ~authed
    /\ ~authed /\ pc # "trust" => jar.access # "good"
    /\ pc = "sms" => jar.trust # "good" /\ pendingMFA = NoBase

FileLags ==
    /\ saved.access = "good" => jar.access = "good"
    /\ saved.trust = "good" => jar.trust = "good"

SessionInv == SessionTypeOK /\ LoginNeeded /\ FileLags

LEMMA InitSessionInv == SessionInit => SessionInv
<1> SUFFICES ASSUME SessionInit PROVE SessionInv
  OBVIOUS
<1>1. EmptyJar \in Jars /\ EmptyJar.access = "absent" /\ EmptyJar.trust = "absent"
  BY DEF EmptyJar, Jars, CookieStates
<1>3. SessionTypeOK
  BY <1>1 DEF SessionInit, SessionTypeOK, Giids, NoCode, Bases
<1> QED
  BY <1>1, <1>3 DEF SessionInit, SessionInv, LoginNeeded, FileLags, LoginLocations

\* A call that returns, or goes on after a login, is in no login.
LEMMA ReturnKeeps ==
    ASSUME SessionInv, NEW outcome \in {"none", "ok", "error"}, Return(outcome),
           UNCHANGED <<authed, giid, jar, saved, serving>>,
           ~authed => jar.access # "good",
           loginBase' \in Bases, pendingMFA' \in Bases \cup {NoBase},
           mfaCh' \in Codes \cup {NoCode}, sms' \in {"none", "unused", "spent"}
    PROVE  SessionInv'
BY DEF SessionInv, SessionTypeOK, LoginNeeded, FileLags, LoginLocations, Return, Bases

\* The session was refused, so that forgetting it loses nothing.
LEMMA LogInAgainKeeps ==
    ASSUME SessionInv, jar.access # "good",
           NEW for \in {"discover", "fetch"}, LogInAgain(for),
           UNCHANGED <<pendingMFA, mfaCh, jar, saved, sms, serving>>
    PROVE  SessionInv'
<1>1. authed' = FALSE /\ giid' \in Giids /\ base' \in Bases /\ pc' = "login"
  BY DEF LogInAgain, Giids, Bases
<1>2. SessionTypeOK'
  BY <1>1 DEF SessionInv, SessionTypeOK, LogInAgain
<1> QED
  BY <1>1, <1>2 DEF SessionInv, LoginNeeded, FileLags, LoginLocations

LEMMA OtherServer == \A b \in Bases : other(b) \in Bases
BY DEF Bases, other

LEMMA WrongServerKeeps ==
    ASSUME SessionInv, pc \in {"discover", "fetch"}, WrongServer,
           UNCHANGED <<pendingMFA, mfaCh, jar, saved, sms, serving>>
    PROVE  SessionInv'
<1>1. ~authed => jar.access # "good"
  BY DEF SessionInv, LoginNeeded
<1>2. CASE GoOn(pc, other(base)) /\ UNCHANGED <<authed, giid, loginBase>>
  BY <1>2, OtherServer
     DEF SessionInv, SessionTypeOK, LoginNeeded, FileLags, LoginLocations, GoOn
<1>3. CASE Return("error") /\ UNCHANGED <<authed, giid, loginBase>>
  BY <1>1, <1>3, ReturnKeeps DEF SessionInv, SessionTypeOK
<1> QED
  BY <1>2, <1>3 DEF WrongServer

LEMMA ReadsKeep ==
    ASSUME SessionInv, ArmState \/ discoverGIID \/ fetchArmState
    PROVE  SessionInv'
<1>1. CASE ArmState
  BY <1>1 DEF SessionInv, SessionTypeOK, LoginNeeded, FileLags, LoginLocations, ArmState,
              GoOn, clientVars, Bases
<1>2. pc \in {"discover", "fetch"} => (~authed => jar.access # "good")
  BY DEF SessionInv, LoginNeeded
<1>3. CASE discoverGIID
  <2>1. CASE /\ giid' = FirstGiid /\ loginBase' = base /\ GoOn("fetch", base)
             /\ UNCHANGED authed
    BY <1>3, <2>1, SessionAssumption
       DEF SessionInv, SessionTypeOK, LoginNeeded, FileLags, LoginLocations,
           discoverGIID, GoOn, Giids
  <2>2. CASE WrongServer
    BY <1>3, <2>2, WrongServerKeeps DEF discoverGIID
  <2>3. CASE Unauthorized /\ LogInAgain("discover")
    BY <1>3, <2>3, LogInAgainKeeps DEF discoverGIID, Unauthorized
  <2>4. CASE Return("error") /\ UNCHANGED <<authed, giid, loginBase>>
    BY <1>2, <1>3, <2>4, ReturnKeeps DEF discoverGIID, SessionInv, SessionTypeOK
  <2> QED
    BY <1>3, <2>1, <2>2, <2>3, <2>4 DEF discoverGIID, GraphqlFails, Fails
<1>4. CASE fetchArmState
  <2>1. CASE Return("ok") /\ loginBase' = base /\ UNCHANGED <<authed, giid>>
    BY <1>2, <1>4, <2>1, ReturnKeeps DEF fetchArmState, SessionInv, SessionTypeOK
  <2>2. CASE WrongServer
    BY <1>4, <2>2, WrongServerKeeps DEF fetchArmState
  <2>3. CASE Unauthorized /\ LogInAgain("fetch")
    BY <1>4, <2>3, LogInAgainKeeps DEF fetchArmState, Unauthorized
  <2>4. CASE Return("error") /\ UNCHANGED <<authed, giid, loginBase>>
    BY <1>2, <1>4, <2>4, ReturnKeeps DEF fetchArmState, SessionInv, SessionTypeOK
  <2> QED
    BY <1>4, <2>1, <2>2, <2>3, <2>4 DEF fetchArmState, GraphqlFails, Fails
<1> QED
  BY <1>1, <1>3, <1>4

LEMMA LoginKeeps ==
    ASSUME SessionInv, ResumeMFA \/ Login \/ sendSMS
    PROVE  SessionInv'
<1>1. pc \in {"login", "sms"} => ~authed /\ jar.access # "good"
  BY DEF SessionInv, LoginNeeded, LoginLocations
<1>2. CASE ResumeMFA
  BY <1>2 DEF SessionInv, SessionTypeOK, LoginNeeded, FileLags, LoginLocations, ResumeMFA,
              clientVars
<1>3. CASE Login
  <2>1. CASE /\ jar.trust = "good" /\ jar' = [jar EXCEPT !.access = "good"]
             /\ loginBase' = base /\ GoOn("trust", base)
    BY <1>1, <1>3, <2>1
       DEF SessionInv, SessionTypeOK, LoginNeeded, FileLags, LoginLocations,
           Login, GoOn, Jars, CookieStates
  <2>2. CASE jar.trust # "good" /\ GoOn("sms", base) /\ UNCHANGED <<jar, loginBase>>
    BY <1>1, <1>3, <2>2
       DEF SessionInv, SessionTypeOK, LoginNeeded, FileLags, LoginLocations, Login, GoOn
  <2>3. CASE GoOn("login", Fallback) /\ UNCHANGED <<jar, loginBase>>
    BY <1>1, <1>3, <2>3
       DEF SessionInv, SessionTypeOK, LoginNeeded, FileLags, LoginLocations, Login, GoOn, Bases
  <2>4. CASE Return("error") /\ UNCHANGED <<jar, loginBase>>
    BY <1>1, <1>3, <2>4, ReturnKeeps DEF Login, SessionInv, SessionTypeOK
  <2> QED
    BY <1>3, <2>1, <2>2, <2>3, <2>4 DEF Login
<1>4. CASE sendSMS
  <2>1. Outdated(mfaCh) \in Codes \cup {NoCode}
    BY DEF Outdated, Codes, SessionInv, SessionTypeOK
  <2>2. mfaCh' \in Codes \cup {NoCode} /\ sms' \in {"none", "unused", "spent"}
    BY <1>4, <2>1 DEF sendSMS, SessionInv, SessionTypeOK
  <2>3. CASE GoOn("drain", base) /\ pendingMFA' = base
    BY <1>1, <1>4, <2>2, <2>3
       DEF SessionInv, SessionTypeOK, LoginNeeded, FileLags, LoginLocations, sendSMS, GoOn
  <2>4. CASE Return("error") /\ UNCHANGED pendingMFA
    BY <1>1, <1>4, <2>2, <2>4, ReturnKeeps DEF sendSMS, SessionInv, SessionTypeOK
  <2> QED
    BY <1>4, <2>3, <2>4 DEF sendSMS
<1> QED
  BY <1>2, <1>3, <1>4

LEMMA ValidateKeeps ==
    ASSUME SessionInv,
           DrainCode \/ ReceiveCode \/ ValidateAccepted \/ ValidateFails \/ requestTrust
    PROVE  SessionInv'
<1> USE DEF SessionInv, SessionTypeOK, LoginNeeded, FileLags, LoginLocations, clientVars
<1>1. CASE DrainCode
  BY <1>1 DEF DrainCode, GoOn
<1>2. CASE ReceiveCode
  BY <1>2 DEF ReceiveCode
<1>3. CASE ValidateAccepted
  <2>1. /\ jar' \in Jars /\ jar'.trust = jar.trust /\ jar'.access = "good"
        /\ UNCHANGED <<giid, mfaCh, saved, serving>>
        /\ sms' = "spent" /\ loginBase' = base /\ pendingMFA' = NoBase /\ pc = "validate"
    BY <1>3 DEF ValidateAccepted, finishLogin, Jars, CookieStates
  <2>2. CASE finishLogin
    BY <2>1, <2>2 DEF finishLogin, GoOn
  <2>3. CASE GoOn("trust", base) /\ UNCHANGED <<authed, giid>>
    BY <2>1, <2>3 DEF GoOn
  <2> QED
    BY <1>3, <2>2, <2>3 DEF ValidateAccepted
<1>4. CASE ValidateFails
  <2>1. /\ pc = "validate" /\ Return("error")
        /\ UNCHANGED <<authed, giid, loginBase, mfaCh, jar, saved, serving>>
        /\ pendingMFA' \in Bases \cup {NoBase} /\ sms' \in {"none", "unused", "spent"}
    BY <1>4 DEF ValidateFails, AfterFailure
  <2> QED
    BY <2>1, ReturnKeeps
<1>5. CASE requestTrust
  <2>1. /\ jar' \in Jars /\ jar'.access = jar.access
        /\ jar.trust = "good" => jar'.trust = "good"
    BY <1>5 DEF requestTrust, Jars, CookieStates
  <2> QED
    BY <1>5, <2>1 DEF requestTrust, finishLogin, GoOn
<1> QED
  BY <1>1, <1>2, <1>3, <1>4, <1>5

LEMMA OthersKeep ==
    ASSUME SessionInv,
           \/ SubmitMFACode \/ persistCookie \/ Untrust \/ Expire \/ MoveAccount
           \/ UNCHANGED sessionVars
    PROVE  SessionInv'
<1> USE DEF SessionInv, SessionTypeOK, LoginNeeded, FileLags, LoginLocations,
            clientVars, callVars
<1>1. CASE SubmitMFACode
  BY <1>1 DEF SubmitMFACode
<1>2. CASE persistCookie
  BY <1>2 DEF persistCookie
<1>3. CASE Expire
  <2>1. /\ jar' \in Jars /\ jar'.access = "bad" /\ jar'.trust = jar.trust
        /\ saved' \in Jars /\ saved'.access # "good" /\ saved'.trust = saved.trust
    BY <1>3 DEF Expire, Refuse, Jars, CookieStates
  <2> QED
    BY <1>3, <2>1 DEF Expire
<1>4. CASE Untrust
  <2>1. /\ jar' \in Jars /\ jar'.access = jar.access /\ jar'.trust # "good"
        /\ saved' \in Jars /\ saved'.access = saved.access /\ saved'.trust # "good"
    BY <1>4 DEF Untrust, Refuse, Jars, CookieStates
  <2> QED
    BY <1>4, <2>1 DEF Untrust
<1>5. CASE MoveAccount
  BY <1>5, OtherServer DEF MoveAccount
<1>6. CASE UNCHANGED sessionVars
  BY <1>6 DEF sessionVars
<1> QED
  BY <1>1, <1>2, <1>3, <1>4, <1>5, <1>6

\* What the file lacks, the new process lacks: with an empty file it knows that
\* it must log in, with any other it tries the cookies first.
LEMMA RestartKeeps == ASSUME SessionInv, Restart PROVE SessionInv'
<1>1. saved' = EmptyJar => saved'.access # "good"
  BY DEF EmptyJar
<1>2. /\ jar' = saved /\ saved' = saved /\ authed' = (saved # EmptyJar)
      /\ giid' = ConfiguredGiid /\ loginBase' = Default /\ base' = Default
      /\ pendingMFA' = NoBase /\ mfaCh' = NoCode
      /\ UNCHANGED <<sms, serving>>
      /\ pc' = "idle" /\ resumed' = FALSE /\ retry' = "no" /\ code' = NoCode
      /\ last' = "none"
  BY DEF Restart, Return
<1>3. SessionTypeOK'
  BY <1>2 DEF SessionInv, SessionTypeOK, Giids, Bases
<1> QED
  BY <1>1, <1>2, <1>3 DEF SessionInv, LoginNeeded, FileLags, LoginLocations

LEMMA NextKeeps == SessionInv /\ [SessionNext]_sessionVars => SessionInv'
BY ReadsKeep, LoginKeeps, ValidateKeeps, OthersKeep, RestartKeeps
   DEF SessionNext, CallStep, Setback

LEMMA SessionInvHolds == SessionSpec => []SessionInv
BY InitSessionInv, NextKeeps, PTL DEF SessionSpec

-----------------------------------------------------------------------------
\* Every variable keeps its type and no arm state is asked of an unknown
\* installation, whatever fails, moves or restarts (client.go:187-218).
THEOREM SessionTyped == SessionSpec => []SessionTypeOK
<1>1. SessionInv => SessionTypeOK
  BY DEF SessionInv
<1> QED
  BY SessionInvHolds, <1>1, PTL

\* Whatever fails, expires, moves or restarts, and however often, an SMS is only
\* sent to a client without a session and without a trust token that Verisure
\* would still honour (client.go:184-186, 248-264, 424-455; main.go:206-233).
THEOREM NoNeedlessSMS == SessionSpec => []SMSNeeded
<1>1. SessionInv => SMSNeeded
  BY DEF SessionInv, LoginNeeded, FileLags, LoginLocations, SMSNeeded
<1> QED
  BY SessionInvHolds, <1>1, PTL

-----------------------------------------------------------------------------
(* The server of a code.                                                   *)

\* A pending flow has sent its SMS, and the call that goes through it does so with
\* the server of the flow.
FlowInv ==
    /\ SessionTypeOK
    /\ pendingMFA # NoBase => sms # "none"
    /\ CodeGoesToItsServer

LEMMA NoBaseIsNone == NoBase \notin Bases
BY DEF NoBase, Bases, Default, Fallback

LEMMA FlowStep == FlowInv /\ SessionTypeOK' /\ [SessionNext]_sessionVars => FlowInv'
<1> SUFFICES ASSUME FlowInv, SessionTypeOK', [SessionNext]_sessionVars
             PROVE  /\ pendingMFA' # NoBase => sms' # "none"
                    /\ CodeGoesToItsServer'
  BY DEF FlowInv
<1> USE NoBaseIsNone DEF FlowInv, CodeGoesToItsServer, clientVars, callVars
<1>1. CASE ArmState \/ ResumeMFA \/ DrainCode \/ ReceiveCode
  BY <1>1 DEF ArmState, ResumeMFA, DrainCode, ReceiveCode, GoOn, SessionTypeOK
<1>2. CASE discoverGIID \/ fetchArmState
  BY <1>2 DEF discoverGIID, fetchArmState, WrongServer, LogInAgain, GraphqlFails, Fails,
              GoOn, Return
<1>3. CASE Login
  BY <1>3 DEF Login, GoOn, Return
<1>4. CASE sendSMS
  BY <1>4 DEF sendSMS, GoOn, Return
<1>5. CASE ValidateAccepted \/ requestTrust
  BY <1>5 DEF ValidateAccepted, requestTrust, finishLogin, GoOn
<1>6. CASE ValidateFails
  BY <1>6 DEF ValidateFails, AfterFailure, Return
<1>7. CASE SubmitMFACode \/ persistCookie \/ Untrust \/ Expire \/ MoveAccount
  BY <1>7 DEF SubmitMFACode, persistCookie, Untrust, Expire, MoveAccount
<1>8. CASE Restart
  BY <1>8 DEF Restart, Return
<1>9. CASE UNCHANGED sessionVars
  BY <1>9 DEF sessionVars
<1> QED
  BY <1>1, <1>2, <1>3, <1>4, <1>5, <1>6, <1>7, <1>8, <1>9
     DEF SessionNext, CallStep, Setback

\* Whichever call began the MFA flow and whatever failed in between, a code is
\* only asked for once one was sent, and it goes to the server that sent it
\* (client.go:248-264, 377-426).
THEOREM CodesReachTheirServer == SessionSpec => []CodeGoesToItsServer
<1>1. SessionInit => FlowInv
  <2>1. SessionInit => SessionTypeOK
    BY InitSessionInv DEF SessionInv
  <2> QED
    BY <2>1 DEF SessionInit, FlowInv, CodeGoesToItsServer
<1>2. FlowInv => CodeGoesToItsServer
  BY DEF FlowInv
<1> QED
  BY <1>1, <1>2, FlowStep, SessionTyped, PTL DEF SessionSpec

-----------------------------------------------------------------------------
(* The length of a call.                                                   *)

\* A call that ends has nothing left, and every other one something.
LEMMA CallLeftPositive ==
    ASSUME SessionTypeOK
    PROVE  /\ CallLeft \in 0 .. 33
           /\ pc # "idle" => CallLeft >= 1
BY DEF SessionTypeOK, CallLeft, LoginsLeft, StepsLeft

\* A login less outweighs all the steps of one.
LEMMA LeftOrder ==
    ASSUME NEW a \in 0 .. 2, NEW b \in 0 .. 2, NEW s \in 0 .. 11, NEW t \in 0 .. 11,
           (a < b /\ t >= 1) \/ (a = b /\ s < t)
    PROVE  11 * a + s < 11 * b + t
OBVIOUS

LEMMA ReturnShortens ==
    ASSUME SessionTypeOK, pc # "idle", NEW outcome, Return(outcome)
    PROVE  CallLeft' < CallLeft
BY CallLeftPositive DEF Return, CallLeft

\* A query that goes on at the other server may not do so again.
LEMMA WrongServerShortens ==
    ASSUME SessionTypeOK, pc \in {"discover", "fetch"}, WrongServer
    PROVE  CallLeft' < CallLeft
<1>1. CASE base = loginBase /\ GoOn(pc, other(base)) /\ UNCHANGED loginBase
  <2>1. other(base) # base
    BY DEF SessionTypeOK, Bases, other, Default, Fallback
  <2> QED
    BY <1>1, <2>1 DEF SessionTypeOK, GoOn, CallLeft, LoginsLeft, StepsLeft
<1>2. CASE Return("error")
  BY <1>2, ReturnShortens
<1> QED
  BY <1>1, <1>2 DEF WrongServer

\* A login that follows a refusal is one of the two the call has left.
LEMMA LogInAgainShortens ==
    ASSUME SessionTypeOK,
           \/ pc = "discover" /\ retry = "no" /\ LogInAgain("discover")
           \/ pc = "fetch" /\ retry # "fetch" /\ LogInAgain("fetch")
    PROVE  CallLeft' < CallLeft
<1>1. /\ pc \in {"discover", "fetch"} /\ pc' = "login" /\ base' = Default
      /\ \/ retry = "no" /\ retry' \in {"discover", "fetch"}
         \/ retry = "discover" /\ retry' = "fetch"
  BY DEF SessionTypeOK, LogInAgain
<1>2. StepsLeft' = 11 /\ StepsLeft \in 1 .. 4
  BY <1>1 DEF StepsLeft
<1>3. \/ LoginsLeft = 2 /\ LoginsLeft' = 1
      \/ LoginsLeft = 2 /\ LoginsLeft' = 0
      \/ LoginsLeft = 1 /\ LoginsLeft' = 0
  BY <1>1 DEF LoginsLeft
<1>4. CallLeft' = 11 * LoginsLeft' + StepsLeft' /\ CallLeft = 11 * LoginsLeft + StepsLeft
  BY <1>1 DEF CallLeft
<1>5. CASE LoginsLeft = 2 /\ LoginsLeft' = 1
  BY <1>2, <1>4, <1>5
<1>6. CASE LoginsLeft = 2 /\ LoginsLeft' = 0
  BY <1>2, <1>4, <1>6
<1>7. CASE LoginsLeft = 1 /\ LoginsLeft' = 0
  BY <1>2, <1>4, <1>7
<1> QED
  BY <1>3, <1>5, <1>6, <1>7

LEMMA QueryShortens ==
    ASSUME SessionTypeOK, discoverGIID \/ fetchArmState
    PROVE  CallLeft' < CallLeft
<1>1. CASE discoverGIID
  <2>1. CASE giid' = FirstGiid /\ loginBase' = base /\ GoOn("fetch", base)
    BY <1>1, <2>1 DEF SessionTypeOK, discoverGIID, GoOn, CallLeft, LoginsLeft, StepsLeft
  <2> QED
    BY <1>1, <2>1, ReturnShortens, WrongServerShortens, LogInAgainShortens
       DEF discoverGIID, GraphqlFails, Fails
<1>2. CASE fetchArmState
  BY <1>2, ReturnShortens, WrongServerShortens, LogInAgainShortens
     DEF fetchArmState, GraphqlFails, Fails
<1> QED
  BY <1>1, <1>2

LEMMA LoginShortens ==
    ASSUME SessionTypeOK,
           \/ ResumeMFA \/ Login \/ sendSMS \/ DrainCode \/ ReceiveCode
           \/ ValidateAccepted \/ ValidateFails \/ requestTrust
    PROVE  CallLeft' < CallLeft
<1>1. ASSUME Return("error"), pc # "idle" PROVE CallLeft' < CallLeft
  BY <1>1, ReturnShortens
<1>2. ASSUME retry' = retry, pc # "idle", pc' # "idle",
             StepsLeft' < StepsLeft, StepsLeft \in 0 .. 11, StepsLeft' \in 0 .. 11
      PROVE  CallLeft' < CallLeft
  <2>1. LoginsLeft' = LoginsLeft /\ LoginsLeft \in 0 .. 2
    BY <1>2 DEF SessionTypeOK, LoginsLeft
  <2>2. 11 * LoginsLeft' + StepsLeft' < 11 * LoginsLeft + StepsLeft
    BY <1>2, <2>1, LeftOrder
  <2> QED
    BY <1>2, <2>2 DEF CallLeft
<1> USE DEF SessionTypeOK, GoOn, StepsLeft, Default, Fallback, Bases
<1>3. CASE ResumeMFA
  BY <1>2, <1>3 DEF ResumeMFA
<1>4. CASE Login
  BY <1>1, <1>2, <1>4 DEF Login
<1>5. CASE sendSMS
  BY <1>1, <1>2, <1>5 DEF sendSMS
<1>6. CASE DrainCode \/ ReceiveCode
  BY <1>2, <1>6 DEF DrainCode, ReceiveCode
<1>7. CASE ValidateAccepted \/ requestTrust
  BY <1>2, <1>7 DEF ValidateAccepted, requestTrust, finishLogin
<1>8. CASE ValidateFails
  BY <1>1, <1>8 DEF ValidateFails
<1> QED
  BY <1>3, <1>4, <1>5, <1>6, <1>7, <1>8

\* Whatever Verisure answers and whatever happens meanwhile, every step of a call
\* brings it closer to its end, so that no call takes more than thirty-three
\* steps of its own (client.go:173-224, 533-571).
THEOREM CallsBounded == SessionSpec => CallsShorten
<1>1. ASSUME SessionTypeOK, SessionTypeOK', [SessionNext]_sessionVars, pc # "idle"
      PROVE  CallLeft' <= CallLeft /\ (CallStep => CallLeft' < CallLeft)
  <2>4. CallLeft \in Nat /\ CallLeft' \in Nat
    BY <1>1, CallLeftPositive DEF SessionTypeOK, CallLeft, LoginsLeft, StepsLeft
  <2>1. CASE CallStep
    <3>1. ~ArmState
      BY <1>1 DEF ArmState
    <3>2. CallLeft' < CallLeft
      BY <1>1, <2>1, <3>1, QueryShortens, LoginShortens DEF CallStep
    <3> QED
      BY <2>4, <3>2
  <2>2. CASE Restart /\ ~CallStep
    BY <1>1, <2>4, <2>2, ReturnShortens DEF Restart
  <2>3. CASE /\ ~CallStep
             /\ \/ SubmitMFACode \/ persistCookie \/ Untrust \/ Expire \/ MoveAccount
                \/ UNCHANGED sessionVars
    <3>1. UNCHANGED <<pc, base, retry, loginBase>>
      BY <2>3 DEF SubmitMFACode, persistCookie, Untrust, Expire, MoveAccount, sessionVars,
                  clientVars, callVars
    <3>2. CallLeft' = CallLeft
      BY <3>1 DEF CallLeft, LoginsLeft, StepsLeft
    <3> QED
      BY <2>4, <2>3, <3>2
  <2> QED
    BY <1>1, <2>1, <2>2, <2>3 DEF SessionNext, Setback
<1>2. SessionTypeOK /\ SessionTypeOK' /\ [SessionNext]_sessionVars =>
        [pc # "idle" => /\ CallLeft' <= CallLeft
                        /\ CallStep => CallLeft' < CallLeft]_sessionVars
  BY <1>1
<1> QED
  BY <1>2, SessionTyped, PTL DEF SessionSpec, CallsShorten
=============================================================================
