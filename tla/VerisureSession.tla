--------------------------- MODULE VerisureSession --------------------------
(***************************************************************************)
(* Client.ArmState of internal/verisure: the session with Verisure, the    *)
(* login with an SMS code, and what of it survives a restart.              *)
(*                                                                         *)
(* One call of ArmState runs at a time (Client.mu is held throughout, also *)
(* while it waits for a code), so pc and the locals belong to that call.   *)
(* One step is one request to Verisure or one operation on the code        *)
(* channel; POST /mfa-code, persistCookie, an expiry and a crash get in    *)
(* between.  Two automation servers answer for Verisure; the cookies of    *)
(* one are always set for the other too (propagateCookies, setCookieOnAll).*)
(***************************************************************************)
EXTENDS Naturals

CONSTANTS
    ConfiguredGiid,    \* VERISURE_GIID, or NoGiid
    FirstGiid,         \* the first installation Verisure lists
    SessionEvents      \* what may go wrong: see below

NoGiid == "none"

(***************************************************************************)
(*   outage      a request fails and had no effect                         *)
(*   lost_reply  a request fails after it had its effect                   *)
(*   typo        the operator submits a code Verisure will refuse          *)
(*   untrust     Verisure no longer honours a trust token                  *)
(*   crash       the process is killed and starts again                    *)
(*   move        the account moves between the automation servers          *)
(***************************************************************************)
ASSUME SessionAssumption ==
    /\ FirstGiid # NoGiid
    /\ SessionEvents \subseteq {"outage", "lost_reply", "typo", "untrust", "crash", "move"}

Default  == "automation01"    \* defaultLoginBase
Fallback == "automation02"    \* fallbackLoginBase
Bases    == {Default, Fallback}
NoBase   == "nil"

other(b) == IF b = Default THEN Fallback ELSE Default

VARIABLES
    authed,        \* Client.authed
    giid,          \* Client.giid
    loginBase,     \* Client.loginBase
    pendingMFA,    \* Client.pendingMFA.loginBase, or NoBase
    mfaCh,         \* Client.mfaCh, a channel of capacity one
    pc,            \* next request or channel operation of the call
    base,          \* the server that request goes to
    resumed,       \* this login took up a pending MFA flow
    retry,         \* which 401 the call has logged in again for
    code,          \* the code validateMFALocked received
    last,          \* how the last call ended
    jar,           \* the cookies of the process
    saved,         \* the cookies in the state file
    sms,           \* the code of the last SMS: none sent, unused, or spent
    serving        \* the server that has the account

callVars    == <<pc, base, resumed, retry, code, last>>
clientVars  == <<authed, giid, loginBase, pendingMFA>>
sessionVars == <<clientVars, mfaCh, callVars, jar, saved, sms, serving>>

\* "right" is the code of the last SMS, whatever its number.
Codes   == {"right", "wrong"}
NoCode  == "empty"

\* A cookie is absent, honoured by Verisure, or refused.
CookieStates == {"absent", "good", "bad"}
Jars         == [access : CookieStates, trust : CookieStates]
EmptyJar     == [access |-> "absent", trust |-> "absent"]

Giids == {NoGiid, ConfiguredGiid, FirstGiid}

\* Every variable has its type, and the arm state is only asked of a known
\* installation, though each expiry forgets it (client.go:207-218).
SessionTypeOK ==
    /\ authed \in BOOLEAN /\ giid \in Giids
    /\ loginBase \in Bases /\ base \in Bases /\ pendingMFA \in Bases \cup {NoBase}
    /\ mfaCh \in Codes \cup {NoCode} /\ code \in Codes \cup {NoCode}
    /\ pc \in {"idle", "login", "sms", "drain", "await", "validate", "trust",
               "discover", "fetch"}
    /\ resumed \in BOOLEAN
    /\ retry \in {"no", "discover", "fetch"}
    /\ last \in {"none", "ok", "error"}
    /\ jar \in Jars /\ saved \in Jars
    /\ sms \in {"none", "unused", "spent"}
    /\ pc = "fetch" => giid # NoGiid
    /\ serving \in Bases

\* NewClient: a client with any cookie restored takes itself for authenticated.
SessionInit ==
    /\ authed = FALSE /\ giid = ConfiguredGiid
    /\ loginBase = Default /\ pendingMFA = NoBase
    /\ mfaCh = NoCode
    /\ pc = "idle" /\ base = Default /\ resumed = FALSE /\ retry = "no" /\ code = NoCode
    /\ last = "none"
    /\ jar = EmptyJar /\ saved = EmptyJar
    /\ sms = "none" /\ serving = Default

-----------------------------------------------------------------------------
(* How a call goes on and ends.                                            *)

GoOn(location, server) ==
    /\ pc' = location /\ base' = server
    /\ UNCHANGED <<resumed, retry, code, last>>

Return(outcome) ==
    /\ pc' = "idle" /\ base' = Default /\ resumed' = FALSE /\ retry' = "no"
    /\ code' = NoCode /\ last' = outcome

Outage    == "outage" \in SessionEvents
LostReply == "lost_reply" \in SessionEvents
Fails     == (Outage \/ LostReply) /\ Return("error")

\* A 401 or 403: the session is forgotten, the giid with it, and the call logs
\* in again, once for discovery and once for the arm state.
LogInAgain(for) ==
    /\ authed' = FALSE /\ giid' = NoGiid
    /\ pc' = "login" /\ base' = Default /\ retry' = for
    /\ UNCHANGED <<resumed, code, last, loginBase>>

-----------------------------------------------------------------------------
(* ArmState                                                                *)

ArmState ==
    /\ pc = "idle"
    /\ IF ~authed THEN GoOn("login", Default)
       ELSE GoOn(IF giid = NoGiid THEN "discover" ELSE "fetch", loginBase)
    /\ UNCHANGED <<clientVars, mfaCh, jar, saved, sms, serving>>

\* What graphql may get: an answer, a 401 or 403, or SYS_00004.
Answered     == jar.access = "good" /\ base = serving
Unauthorized == jar.access # "good"

\* On SYS_00004 the other server is asked, after that the query fails.
WrongServer ==
    /\ base # serving
    /\ IF base = loginBase THEN GoOn(pc, other(base)) ELSE Return("error")
    /\ UNCHANGED <<authed, giid, loginBase>>

GraphqlFails == Fails /\ UNCHANGED <<authed, giid, loginBase>>

\* Mutant: every failed discovery forgets the session.
discoverGIIDForgetfulMutant ==
    /\ pc = "discover"
    /\ \/ Answered /\ giid' = FirstGiid /\ loginBase' = base /\ GoOn("fetch", base)
          /\ UNCHANGED authed
       \/ WrongServer
       \/ (Unauthorized \/ Outage \/ LostReply) /\ retry = "no" /\ LogInAgain("discover")
       \/ Unauthorized /\ retry # "no" /\ Return("error") /\ UNCHANGED <<authed, giid, loginBase>>
       \/ retry # "no" /\ GraphqlFails
    /\ UNCHANGED <<pendingMFA, mfaCh, jar, saved, sms, serving>>

\* Mutant: a refused discovery always logs in again.
discoverGIIDEndlessMutant ==
    /\ pc = "discover"
    /\ \/ Answered /\ giid' = FirstGiid /\ loginBase' = base /\ GoOn("fetch", base)
          /\ UNCHANGED authed
       \/ WrongServer
       \/ Unauthorized /\ LogInAgain("discover")
       \/ GraphqlFails
    /\ UNCHANGED <<pendingMFA, mfaCh, jar, saved, sms, serving>>

discoverGIID ==
    /\ pc = "discover"
    /\ \/ Answered /\ giid' = FirstGiid /\ loginBase' = base /\ GoOn("fetch", base)
          /\ UNCHANGED authed
       \/ WrongServer
       \/ Unauthorized /\ retry = "no" /\ LogInAgain("discover")
       \/ Unauthorized /\ retry # "no" /\ Return("error") /\ UNCHANGED <<authed, giid, loginBase>>
       \/ GraphqlFails
    /\ UNCHANGED <<pendingMFA, mfaCh, jar, saved, sms, serving>>

\* Mutant: the server that answered is not remembered.
fetchArmStateForgetfulMutant ==
    /\ pc = "fetch"
    /\ \/ Answered /\ Return("ok") /\ UNCHANGED <<authed, giid, loginBase>>
       \/ WrongServer
       \/ Unauthorized /\ retry # "fetch" /\ LogInAgain("fetch")
       \/ Unauthorized /\ retry = "fetch" /\ Return("error") /\ UNCHANGED <<authed, giid, loginBase>>
       \/ GraphqlFails
    /\ UNCHANGED <<pendingMFA, mfaCh, jar, saved, sms, serving>>

fetchArmState ==
    /\ pc = "fetch"
    /\ \/ Answered /\ Return("ok") /\ loginBase' = base /\ UNCHANGED <<authed, giid>>
       \/ WrongServer
       \/ Unauthorized /\ retry # "fetch" /\ LogInAgain("fetch")
       \/ Unauthorized /\ retry = "fetch" /\ Return("error") /\ UNCHANGED <<authed, giid, loginBase>>
       \/ GraphqlFails
    /\ UNCHANGED <<pendingMFA, mfaCh, jar, saved, sms, serving>>

-----------------------------------------------------------------------------
(* loginLocked                                                             *)

\* Mutant: the flow is taken up with the server the client logged in to last.
ResumeMFAMutant ==
    /\ pc = "login" /\ pendingMFA # NoBase
    /\ pc' = "drain" /\ base' = loginBase /\ resumed' = TRUE
    /\ UNCHANGED <<retry, code, last>>
    /\ UNCHANGED <<clientVars, mfaCh, jar, saved, sms, serving>>

ResumeMFA ==
    /\ pc = "login" /\ pendingMFA # NoBase
    /\ pc' = "drain" /\ base' = pendingMFA /\ resumed' = TRUE
    /\ UNCHANGED <<retry, code, last>>
    /\ UNCHANGED <<clientVars, mfaCh, jar, saved, sms, serving>>

\* POST /auth/login: a trusted client gets a session at once; if the first
\* server does not accept the login, the second is asked.
Login ==
    /\ pc = "login" /\ pendingMFA = NoBase
    /\ \/ /\ jar.trust = "good"
          /\ jar' = [jar EXCEPT !.access = "good"] /\ loginBase' = base
          /\ GoOn("trust", base)
       \/ jar.trust # "good" /\ GoOn("sms", base) /\ UNCHANGED <<jar, loginBase>>
       \/ /\ Outage \/ LostReply
          /\ IF base = Default THEN GoOn("login", Fallback) ELSE Return("error")
          /\ UNCHANGED <<jar, loginBase>>
    /\ UNCHANGED <<authed, giid, pendingMFA, mfaCh, saved, sms, serving>>

\* A new SMS makes every code submitted before a wrong one.
Outdated(c) == IF c = "right" THEN "wrong" ELSE c

sendSMS ==
    /\ pc = "sms"
    /\ \/ /\ sms' = "unused" /\ mfaCh' = Outdated(mfaCh)
          /\ \/ pendingMFA' = base /\ GoOn("drain", base)
             \/ LostReply /\ Return("error") /\ UNCHANGED pendingMFA
       \/ Outage /\ Return("error") /\ UNCHANGED <<sms, mfaCh, pendingMFA>>
    /\ UNCHANGED <<authed, giid, loginBase, jar, saved, serving>>

-----------------------------------------------------------------------------
(* validateMFALocked                                                       *)

DrainCode ==
    /\ pc = "drain"
    /\ mfaCh' = NoCode /\ GoOn("await", base)
    /\ UNCHANGED <<clientVars, jar, saved, sms, serving>>

ReceiveCode ==
    /\ pc = "await" /\ mfaCh # NoCode
    /\ code' = mfaCh /\ mfaCh' = NoCode
    /\ pc' = "validate" /\ UNCHANGED <<base, resumed, retry, last>>
    /\ UNCHANGED <<clientVars, jar, saved, sms, serving>>

\* Mutant: the call asks for the arm state as soon as it is logged in again.
finishLoginHastyMutant ==
    /\ authed' = TRUE
    /\ GoOn(IF giid = NoGiid /\ retry # "fetch" THEN "discover" ELSE "fetch", base)
    /\ UNCHANGED giid

finishLogin ==
    /\ authed' = TRUE
    /\ GoOn(IF giid = NoGiid THEN "discover" ELSE "fetch", base)
    /\ UNCHANGED giid

Accepted == code = "right" /\ sms = "unused"

ValidateAccepted ==
    /\ pc = "validate" /\ Accepted
    /\ jar' = [jar EXCEPT !.access = "good"]
    /\ sms' = "spent" /\ loginBase' = base /\ pendingMFA' = NoBase
    /\ IF resumed THEN finishLogin ELSE GoOn("trust", base) /\ UNCHANGED <<authed, giid>>
    /\ UNCHANGED <<mfaCh, saved, serving>>

\* Mutant: a refused code does not end the flow.
ValidateFailsMutant ==
    /\ pc = "validate"
    /\ \/ ~Accepted /\ UNCHANGED <<pendingMFA, sms>>
       \/ Outage /\ UNCHANGED <<pendingMFA, sms>>
       \/ LostReply /\ UNCHANGED pendingMFA
          /\ sms' = IF Accepted THEN "spent" ELSE sms
    /\ Return("error")
    /\ UNCHANGED <<authed, giid, loginBase, mfaCh, jar, saved, serving>>

AfterFailure == IF resumed THEN NoBase ELSE pendingMFA

\* A refusal (HTTP 4xx) ends the flow.  Any other failure ends it as well when
\* it was resumed; otherwise the flow stays pending.
ValidateFails ==
    /\ pc = "validate"
    /\ \/ ~Accepted /\ pendingMFA' = NoBase /\ UNCHANGED sms
       \/ Outage /\ pendingMFA' = AfterFailure /\ UNCHANGED sms
       \/ LostReply /\ pendingMFA' = AfterFailure
          /\ sms' = IF Accepted THEN "spent" ELSE sms
    /\ Return("error")
    /\ UNCHANGED <<authed, giid, loginBase, mfaCh, jar, saved, serving>>

\* Errors are not fatal: the session works without the token.
requestTrust ==
    /\ pc = "trust"
    /\ \/ jar' = [jar EXCEPT !.trust = "good"]
       \/ (Outage \/ LostReply) /\ UNCHANGED jar
    /\ finishLogin
    /\ UNCHANGED <<loginBase, pendingMFA, mfaCh, saved, sms, serving>>

-----------------------------------------------------------------------------
(* The other goroutines, Verisure, and the process.                        *)

\* POST /mfa-code: a code that finds the channel full is dropped.
SubmitMFACode ==
    /\ \E c \in Codes :
        /\ c = "wrong" => "typo" \in SessionEvents
        /\ c = "right" => sms # "none"
        /\ mfaCh' = IF mfaCh = NoCode THEN c ELSE mfaCh
    /\ UNCHANGED <<clientVars, callVars, jar, saved, sms, serving>>

persistCookie ==
    /\ jar # EmptyJar
    /\ saved' = jar
    /\ UNCHANGED <<clientVars, mfaCh, callVars, jar, sms, serving>>

Refuse(c) == IF c = "good" THEN "bad" ELSE c

\* From now on Verisure answers 401 or 403 to the session.
Expire ==
    /\ jar.access = "good"
    /\ jar' = [jar EXCEPT !.access = "bad"]
    /\ saved' = [saved EXCEPT !.access = Refuse(@)]
    /\ UNCHANGED <<clientVars, mfaCh, callVars, sms, serving>>

Untrust ==
    /\ "untrust" \in SessionEvents
    /\ jar' = [jar EXCEPT !.trust = Refuse(@)]
    /\ saved' = [saved EXCEPT !.trust = Refuse(@)]
    /\ UNCHANGED <<clientVars, mfaCh, callVars, sms, serving>>

MoveAccount ==
    /\ "move" \in SessionEvents
    /\ serving' = other(serving)
    /\ UNCHANGED <<clientVars, mfaCh, callVars, jar, saved, sms>>

\* The new process restores the cookies and the configured giid.
Restart ==
    /\ "crash" \in SessionEvents
    /\ jar' = saved /\ authed' = (saved # EmptyJar)
    /\ giid' = ConfiguredGiid /\ loginBase' = Default
    /\ pendingMFA' = NoBase /\ mfaCh' = NoCode
    /\ Return("none")
    /\ UNCHANGED <<saved, sms, serving>>

-----------------------------------------------------------------------------
CallStep ==
    \/ ArmState \/ discoverGIID \/ fetchArmState \/ ResumeMFA \/ Login \/ sendSMS
    \/ DrainCode \/ ReceiveCode \/ ValidateAccepted \/ ValidateFails \/ requestTrust

Setback == Expire \/ MoveAccount \/ Restart

SessionNext == CallStep \/ SubmitMFACode \/ persistCookie \/ Untrust \/ Setback

SessionSpec == SessionInit /\ [][SessionNext]_sessionVars

\* The operator submits the code of the SMS when the client waits for it.
OperatorAnswers ==
    /\ pc = "await" /\ mfaCh = NoCode /\ sms # "none"
    /\ mfaCh' = "right"
    /\ UNCHANGED <<clientVars, callVars, jar, saved, sms, serving>>

\* The call goes on, and whatever is asked again and again is answered at last.
FairSession ==
    /\ SessionSpec
    /\ WF_sessionVars(CallStep)
    /\ SF_sessionVars(discoverGIID /\ pc' = "fetch")
    /\ SF_sessionVars(fetchArmState /\ last' = "ok")
    /\ SF_sessionVars((discoverGIID \/ fetchArmState) /\ pc' = "login")
    /\ SF_sessionVars((discoverGIID \/ fetchArmState) /\ pc' = pc /\ base' # base)
    /\ SF_sessionVars(Login /\ pc' \in {"trust", "sms"})
    /\ SF_sessionVars(sendSMS /\ pc' = "drain")
    /\ SF_sessionVars(ValidateAccepted)
    /\ SF_sessionVars(OperatorAnswers)

-----------------------------------------------------------------------------
\* An SMS is about to be sent only if no cookie would do instead, neither in
\* the process nor in the state file: no failed request, restart or trust request
\* that got no answer costs the operator an SMS a session or a trust token would
\* have spared ("a transient 503/network error must not clear the MFA session and
\* force another SMS", client.go:184-186; client.go:204-221, 248-264, 424-455;
\* main.go:206-233).  That an SMS is not sent twice is not claimed.
SMSNeeded ==
    pc = "sms" =>
        /\ ~authed /\ pendingMFA = NoBase
        /\ jar.access # "good" /\ jar.trust # "good"
        /\ saved.access # "good" /\ saved.trust # "good"

\* The operator is only asked for a code that was sent, and it is validated by
\* the server that sent it, also when a call takes up the flow another call
\* began, with the other server, before the code came (client.go:248-264,
\* 377-426).
CodeGoesToItsServer ==
    pc \in {"drain", "await", "validate"} => base = pendingMFA /\ sms # "none"

\* What a call still has before it: the steps of one login and one query, some of
\* which may be tried at two servers, and the same again for every refused
\* session that it may still log in again for.
StepsLeft ==
    CASE pc = "idle"     -> 0
      [] pc = "fetch"    -> IF base = loginBase THEN 2 ELSE 1
      [] pc = "discover" -> IF base = loginBase THEN 4 ELSE 3
      [] pc = "trust"    -> 5
      [] pc = "validate" -> 6
      [] pc = "await"    -> 7
      [] pc = "drain"    -> 8
      [] pc = "sms"      -> 9
      [] pc = "login"    -> IF base = Default THEN 11 ELSE 10

LoginsLeft == CASE retry = "no" -> 2 [] retry = "discover" -> 1 [] retry = "fetch" -> 0

CallLeft == IF pc = "idle" THEN 0 ELSE 11 * LoginsLeft + StepsLeft

\* Every step brings a call closer to its end, whatever is answered, and no
\* expiry, code, move or restart throws it back: a call takes at most
\* thirty-three steps, three logins among them (client.go:173-224, 533-571).
CallsShorten ==
    [][pc # "idle" => /\ CallLeft' <= CallLeft
                      /\ CallStep => CallLeft' < CallLeft]_sessionVars

\* Every call ends or waits for the operator, however often Verisure refuses the
\* sessions it has just begun: it logs in again a bounded number of times
\* (client.go:187-221).
CallsEnd == []<>(pc \in {"idle", "await"})

\* Sessions expire, the account moves and the process restarts now and then.
Steady == <>[][~Setback]_sessionVars

\* However requests fail and codes are mistyped, the alarm is read again and
\* again as long as the operator answers when asked: no MFA flow is stuck, and
\* neither is a client on the server without the account (client.go:248-347,
\* 533-571).
PollingRecovers == Steady => []<>(pc = "idle" /\ last = "ok")

\* Wherever the account moved, the client stays with a server that has it, the
\* one that did the login or the other one (client.go:314, 340, 559-563).
FollowsAccount == Steady => <>[](pc = "idle" => loginBase = serving)

-----------------------------------------------------------------------------
(* What the documentation says and the code does not keep.                 *)

\* The configured installation is the one watched ("can be hardcoded in
\* VERISURE_GIID to skip discovery", ARCHITECTURE.md:550).
WatchesConfigured ==
    pc = "fetch" /\ ConfiguredGiid # NoGiid => giid = ConfiguredGiid
=============================================================================
