------------------------------- MODULE Startup ------------------------------
(***************************************************************************)
(* run() of cmd/verisure-roborock up to the controller: which              *)
(* configurations start, the credentials for the Xiaomi cloud (from the    *)
(* environment, the cache file or a password login), and the vacuums that  *)
(* are built with them.  Any error ends the process; the supervisor starts *)
(* it again.                                                               *)
(*                                                                         *)
(* One step is one request to Xiaomi or one access to the cache file.  A   *)
(* session of the account is a name: its two secrets, ssecurity and        *)
(* serviceToken, work only together.                                       *)
(***************************************************************************)
EXTENDS Config

CONSTANTS
    Sessions,        \* sessions of the Xiaomi account
    Environments,    \* [control, entries, imported]: what may be configured
    DeviceLists,     \* what the Xiaomi account may list, in its order
    AppDevices,      \* what the Roborock account lists
    StartupEvents    \* what may go wrong: see below

NoSession == "none"

(***************************************************************************)
(* imported is the session the XIAOMI_ variables hold, or NoSession.  What *)
(* may go wrong:                                                           *)
(*   outage      a request to Xiaomi fails                                 *)
(*   no_cookie   the last page of a login sets no serviceToken cookie      *)
(*   save_error  the cache file cannot be written                          *)
(*   crash       the process is stopped or killed                          *)
(*   expire      Xiaomi ends a session                                     *)
(*   lease       robots get other addresses                                *)
(***************************************************************************)
DIDs == {d.did : d \in UNION {{list[k] : k \in DOMAIN list} : list \in DeviceLists}}

ASSUME StartupAssumption ==
    /\ NoSession \notin Sessions
    /\ \A env \in Environments : env.imported \in Sessions \cup {NoSession}
    /\ Unset \notin DIDs /\ NoDevice \notin DIDs
    /\ \A list \in DeviceLists : DOMAIN list \subseteq Nat
    /\ \A env \in Environments : \A i \in DOMAIN env.entries : NameOf(env, i) # Unset
    \* A DID of Xiaomi is neither an address nor a name, and not a Roborock DUID.
    /\ \A env \in Environments : \A i \in DOMAIN env.entries :
        LET e == env.entries[i] IN
        /\ e.host \notin DIDs /\ NameOf(env, i) \notin DIDs
        /\ e.did \in DIDs => BackendOf(env, e) = "xiaomi"
    /\ StartupEvents \subseteq {"outage", "no_cookie", "save_error", "crash", "expire", "lease"}

VARIABLES
    environment,   \* the configuration, as long as nobody edits it
    pc,            \* where run() is
    auth,          \* ssecurity and serviceToken of the CloudClient
    cookie,        \* the serviceToken cookie in its jar
    again,         \* the devices are listed for the second time
    cached,        \* the cache file, or an incomplete pair
    vacuums,       \* per entry of a running process, its store key and robot
    honoured,      \* the sessions Xiaomi accepts
    devices        \* what it lists

processVars == <<pc, auth, cookie, again, vacuums>>
startupVars == <<environment, processVars, cached, honoured, devices>>

Auth     == [ssecurity : Sessions \cup {NoSession}, serviceToken : Sessions \cup {NoSession}]
NoAuth   == [ssecurity |-> NoSession, serviceToken |-> NoSession]
Of(s)    == [ssecurity |-> s, serviceToken |-> s]
Valid(a) == a.ssecurity # NoSession /\ a.serviceToken # NoSession

Imported == environment.imported

Works(a) == \E s \in honoured : a = Of(s)

\* Every variable has its type, and incomplete credentials are neither saved
\* nor used (cloud.go:82, 167-170, 339-347).
StartupTypeOK ==
    /\ environment \in Environments
    /\ pc \in {"down", "auth", "sign", "post", "token", "save", "list", "run"}
    /\ auth \in Auth /\ cached \in Auth
    /\ cookie \in Sessions \cup {NoSession}
    /\ again \in BOOLEAN
    /\ honoured \subseteq Sessions
    /\ devices \in DeviceLists
    /\ pc \in {"save", "list"} => Valid(auth)
    /\ cached = NoAuth \/ Valid(cached)

StartupInit ==
    /\ environment \in Environments
    /\ pc = "down" /\ auth = NoAuth /\ cookie = NoSession /\ again = FALSE
    /\ vacuums = <<>>
    /\ cached = NoAuth
    /\ honoured = {Imported} \ {NoSession}
    /\ devices \in DeviceLists

-----------------------------------------------------------------------------
GoOn(location) == pc' = location /\ UNCHANGED <<auth, cookie, again, vacuums>>

Exit ==
    /\ pc' = "down" /\ auth' = NoAuth /\ cookie' = NoSession /\ again' = FALSE
    /\ vacuums' = <<>>

Robot(v) ==
    CASE v.backend = "xiaomi"   -> matchCloudDevice(v, devices)
      [] v.backend = "roborock" -> select_device(Selector(v), AppDevices)
      [] v.backend = "local"    -> v.host

\* The vacuums main.go builds once Xiaomi has listed its devices, if it must.
Built ==
    [i \in Scanned(environment) |->
        LET v == VacuumConfig(environment, i) IN
        [key |-> StoreKey(v, devices), robot |-> Robot(v)]]

XiaomiEntries == Uses(environment, "xiaomi")

AllMatch ==
    \A i \in XiaomiEntries :
        matchCloudDevice(VacuumConfig(environment, i), devices) # NoDevice

\* An environment that does not load ends the process at once, each time.
Boot ==
    /\ pc = "down" /\ Loads(environment)
    /\ IF XiaomiEntries = {}
         THEN /\ pc' = "run" /\ vacuums' = Built
              /\ UNCHANGED <<auth, cookie, again>>
         ELSE GoOn("auth")
    /\ UNCHANGED <<environment, cached, honoured, devices>>

-----------------------------------------------------------------------------
(* authenticateXiaomi                                                      *)

Saved == cached' = auth'
SaveFails == "save_error" \in StartupEvents /\ UNCHANGED cached

\* A failed save is only logged.
UseEnvironment ==
    /\ pc = "auth" /\ Imported # NoSession
    /\ auth' = Of(Imported) /\ pc' = "list"
    /\ Saved \/ SaveFails
    /\ UNCHANGED <<environment, cookie, again, vacuums, honoured, devices>>

\* Mutant: the password login comes before the cache.
UseCacheMutant ==
    /\ pc = "auth" /\ Imported = NoSession /\ Valid(cached)
    /\ GoOn("sign")
    /\ UNCHANGED <<environment, cached, honoured, devices>>

UseCache ==
    /\ pc = "auth" /\ Imported = NoSession /\ Valid(cached)
    /\ auth' = cached /\ pc' = "list"
    /\ UNCHANGED <<environment, cookie, again, vacuums, cached, honoured, devices>>

NoCredentials ==
    /\ pc = "auth" /\ Imported = NoSession /\ ~Valid(cached)
    /\ GoOn("sign")
    /\ UNCHANGED <<environment, cached, honoured, devices>>

-----------------------------------------------------------------------------
(* loginAndCacheXiaomi                                                     *)

\* Captcha, a wrong password, an outage: whatever fails, the process ends.
LoginFails ==
    /\ pc \in {"sign", "post", "token"}
    /\ "outage" \in StartupEvents
    /\ Exit
    /\ UNCHANGED <<environment, cached, honoured, devices>>

fetchLoginInfo ==
    /\ pc = "sign"
    /\ GoOn("post")
    /\ UNCHANGED <<environment, cached, honoured, devices>>

Known == {Imported, auth.ssecurity, auth.serviceToken, cookie, cached.ssecurity,
          cached.serviceToken}

\* The answer holds the secret of a new session.
postCredentials ==
    /\ pc = "post"
    /\ \E s \in Sessions \ Known :
        /\ auth' = [auth EXCEPT !.ssecurity = s]
        /\ honoured' = honoured \cap Known
    /\ pc' = "token"
    /\ UNCHANGED <<environment, cookie, again, vacuums, cached, devices>>

\* Mutant: a missing cookie is no error.
fetchServiceTokenMutant ==
    /\ pc = "token"
    /\ \/ /\ auth' = [auth EXCEPT !.serviceToken = auth.ssecurity]
          /\ cookie' = auth.ssecurity
          /\ honoured' = honoured \cup {auth.ssecurity}
       \/ /\ "no_cookie" \in StartupEvents
          /\ auth' = [auth EXCEPT !.serviceToken = cookie]
          /\ UNCHANGED <<cookie, honoured>>
    /\ pc' = "save"
    /\ UNCHANGED <<environment, again, vacuums, cached, devices>>

\* The status of the page is not looked at, only the jar: a cookie an earlier
\* login of this process left there will do.
fetchServiceToken ==
    /\ pc = "token"
    /\ \/ /\ auth' = [auth EXCEPT !.serviceToken = auth.ssecurity]
          /\ cookie' = auth.ssecurity
          /\ honoured' = honoured \cup {auth.ssecurity}
       \/ /\ "no_cookie" \in StartupEvents /\ cookie # NoSession
          /\ auth' = [auth EXCEPT !.serviceToken = cookie]
          /\ UNCHANGED <<cookie, honoured>>
    /\ pc' = "save"
    /\ UNCHANGED <<environment, again, vacuums, cached, devices>>

NoCookieFound ==
    /\ pc = "token" /\ "no_cookie" \in StartupEvents /\ cookie = NoSession
    /\ Exit
    /\ UNCHANGED <<environment, cached, honoured, devices>>

\* Mutant: a failed save is only logged.
SaveAuthMutant ==
    /\ pc = "save"
    /\ GoOn("list")
    /\ Saved \/ SaveFails
    /\ UNCHANGED <<environment, honoured, devices>>

SaveAuth ==
    /\ pc = "save"
    /\ \/ GoOn("list") /\ Saved
       \/ Exit /\ SaveFails
    /\ UNCHANGED <<environment, honoured, devices>>

-----------------------------------------------------------------------------
(* NewCloudVacuums                                                         *)

ListDevices ==
    /\ pc = "list" /\ Works(auth) /\ AllMatch
    /\ pc' = "run" /\ vacuums' = Built
    /\ UNCHANGED <<environment, auth, cookie, again, cached, honoured, devices>>

\* Mutant: only a process without credentials logs in.
ListFailsMutant ==
    /\ pc = "list" /\ (~Works(auth) \/ ~AllMatch \/ "outage" \in StartupEvents)
    /\ Exit
    /\ UNCHANGED <<environment, cached, honoured, devices>>

\* Mutant: the process logs in as often as the list fails.
ListFailsAgainMutant ==
    /\ pc = "list" /\ (~Works(auth) \/ ~AllMatch \/ "outage" \in StartupEvents)
    /\ pc' = "sign" /\ again' = TRUE
    /\ UNCHANGED <<auth, cookie, vacuums>>
    /\ UNCHANGED <<environment, cached, honoured, devices>>

\* Whatever the reason, also a device that is missing: the first time the
\* process logs in again, the second time it ends.
ListFails ==
    /\ pc = "list" /\ (~Works(auth) \/ ~AllMatch \/ "outage" \in StartupEvents)
    /\ IF again THEN Exit
       ELSE /\ pc' = "sign" /\ again' = TRUE
            /\ UNCHANGED <<auth, cookie, vacuums>>
    /\ UNCHANGED <<environment, cached, honoured, devices>>

-----------------------------------------------------------------------------
Crash ==
    /\ "crash" \in StartupEvents /\ pc # "down"
    /\ Exit
    /\ UNCHANGED <<environment, cached, honoured, devices>>

Expire ==
    /\ "expire" \in StartupEvents
    /\ \E s \in honoured : honoured' = honoured \ {s}
    /\ UNCHANGED <<environment, processVars, cached, devices>>

NewLeases ==
    /\ "lease" \in StartupEvents
    /\ devices' \in DeviceLists
    /\ UNCHANGED <<environment, processVars, cached, honoured>>

RunStep ==
    \/ Boot \/ UseEnvironment \/ UseCache \/ NoCredentials
    \/ LoginFails \/ fetchLoginInfo \/ postCredentials \/ fetchServiceToken
    \/ NoCookieFound \/ SaveAuth \/ ListDevices \/ ListFails

StartupNext == RunStep \/ Crash \/ Expire \/ NewLeases

StartupSpec == StartupInit /\ [][StartupNext]_startupVars

\* The process goes on, and Xiaomi lists the devices at last.
FairStartup ==
    /\ StartupSpec
    /\ WF_startupVars(RunStep)
    /\ SF_startupVars(ListDevices)

\* A process with a dead session is not killed each time before it finds out, and
\* a password login that is tried again and again succeeds at last.
LoginsSucceed ==
    /\ SF_startupVars(ListFails /\ ~Works(auth))
    /\ SF_startupVars(fetchLoginInfo)
    /\ SF_startupVars(postCredentials)
    /\ SF_startupVars(fetchServiceToken /\ cookie' = auth.ssecurity)
    /\ SF_startupVars(SaveAuth /\ pc' = "list")

-----------------------------------------------------------------------------
\* Two vacuums of a running process with the same key, so that they share a
\* record in the store, are the same robot: Load's check for duplicate hosts is
\* enough, though a Xiaomi vacuum without a host takes the DID of the device it
\* was matched with only later (config.go:229-236, cloud_client.go:49-52).
KeysTellRobotsApart ==
    \A i, j \in DOMAIN vacuums :
        vacuums[i].key = vacuums[j].key => i = j \/ vacuums[i].robot = vacuums[j].robot

\* A process that runs holds the two secrets of one session, and the next start
\* will find them in the cache, unless they are the ones of the environment:
\* neither a leftover cookie nor a failed save gets past the list of devices
\* (main.go:119-128, 312-319; cloud.go:339-347).
RunsOnOneSession ==
    pc = "run" /\ XiaomiEntries # {} =>
        /\ auth.ssecurity = auth.serviceToken /\ Valid(auth)
        /\ cached = auth \/ auth = Of(Imported)

\* What a start still has to ask of Xiaomi before it runs or ends.
RequestsLeft ==
    CASE pc \in {"down", "run"} -> 0
      [] pc = "list"  -> 1
      [] pc = "save"  -> 2
      [] pc = "token" -> 3
      [] pc = "post"  -> 4
      [] pc = "sign"  -> 5
      [] pc = "auth"  -> 6

\* A start makes a bounded number of requests and sends the password twice at
\* most, before and after a failed list of devices: one that fails for another
\* reason than the session, or for ever, does not make it log in until Xiaomi
\* locks the account (main.go:116-129).
StartsShorten ==
    [][RequestsLeft # 0 =>
          \/ RequestsLeft' < RequestsLeft /\ (again' = again \/ RequestsLeft' = 0)
          \/ ~again /\ again'
          \/ ~RunStep /\ UNCHANGED <<pc, again>>]_startupVars

\* From some time on no session expires, no robot gets another address and nobody
\* kills the process; during its requests a kill is no different from a failure.
Steady ==
    <>[][~Expire /\ ~NewLeases /\ (pc \in {"auth", "run"} => pc' # "down")]_startupVars

Startable == Loads(environment) /\ AllMatch

\* However requests and saves fail and whatever the cache and the environment
\* hold, the process runs at last if its robots are there and a login succeeds
\* at last (main.go:116-129, 281-310).
StartsAtLast == Steady /\ LoginsSucceed /\ <>[]Startable => <>[](pc = "run")

\* No login need succeed, which may need a browser, as long as the session in
\* the cache is honoured and the environment holds none ("Cloud mode first tries
\* cached Xiaomi credentials", README.md:228; main.go:297-303).
StartsOnCache ==
    Steady /\ <>[](Startable /\ Imported = NoSession /\ Works(cached)) => <>[](pc = "run")

-----------------------------------------------------------------------------
(* What the documentation says and the code does not keep.                 *)

\* "configure each vacuum by name, host/IP, or Roborock device ID"
\* (README.md:51): an entry that is accepted and names a robot of the Roborock
\* account in one of these ways stands for it.
ConfiguredRobotsFound ==
    \A i \in DOMAIN vacuums : \A k \in DOMAIN AppDevices :
        LET e == environment.entries[i] d == AppDevices[k] IN
        /\ BackendOf(environment, e) = "roborock"
        /\ {e.name, e.host, e.did} \ {Unset} \subseteq {d.name, d.localIP, d.did}
        => vacuums[i].robot = d.did
=============================================================================
