---------------------------- MODULE StartupProofs ---------------------------
(***************************************************************************)
(* What every start keeps, whatever the environments, the device lists and *)
(* the sessions are.                                                       *)
(***************************************************************************)
EXTENDS Startup, WellFoundedInduction, TLAPS

\* A device that was matched is one of the list, with the DID if one is set.
LEMMA MatchedDevice ==
    ASSUME NEW list \in DeviceLists, NEW v, matchCloudDevice(v, list) # NoDevice
    PROVE  \E k \in DOMAIN list :
              /\ matchCloudDevice(v, list) = list[k].did
              /\ v.did # Unset => list[k].did = v.did
<1> DEFINE Fits(d) ==
             IF v.did # Unset THEN d.did = v.did
             ELSE \/ v.host # Unset /\ d.localIP = v.host
                  \/ v.token # Unset /\ d.token = v.token
                  \/ v.host = Unset /\ v.token = Unset /\ d.name = v.name
           hits == {k \in DOMAIN list : Fits(list[k])}
           k0 == CHOOSE k \in hits : \A l \in hits : k <= l
<1>1. matchCloudDevice(v, list) = IF hits = {} THEN NoDevice ELSE list[k0].did
  BY DEF matchCloudDevice, First
<1>2. hits # {} /\ hits \subseteq Nat
  BY <1>1, StartupAssumption DEF StartupAssumption
<1>3. \E k \in hits : \A l \in hits : k <= l
  <2> HIDE DEF hits
  <2>1. \E k \in hits : \A l \in hits : ~(<<l, k>> \in OpToRel(<, Nat))
    BY <1>2, NatLessThanWellFounded, WFMin, Zenon
  <2>2. \A k, l \in Nat : l < k => <<l, k>> \in OpToRel(<, Nat)
    BY DEF OpToRel
  <2>3. \A k, l \in Nat : l < k \/ k <= l
    OBVIOUS
  <2> QED  BY <1>2, <2>1, <2>2, <2>3, Zenon
<1>4. k0 \in hits
  <2> HIDE DEF hits
  <2> QED  BY <1>3
<1> QED  BY <1>1, <1>2, <1>4

LEMMA MatchedIsDID ==
    ASSUME NEW list \in DeviceLists, NEW v, matchCloudDevice(v, list) # NoDevice
    PROVE  /\ matchCloudDevice(v, list) \in DIDs
           /\ v.did # Unset => matchCloudDevice(v, list) = v.did
BY MatchedDevice DEF DIDs

-----------------------------------------------------------------------------
(* Store keys.                                                             *)

Vacuum(i) == VacuumConfig(environment, i)

\* Only a vacuum of the Xiaomi cloud has no host of its own.
LEMMA HostlessIsXiaomi ==
    ASSUME environment \in Environments, Loads(environment),
           NEW i \in Scanned(environment), HostOf(environment, i) = Unset
    PROVE  i \in XiaomiEntries
<1>1. i \in DOMAIN environment.entries
  BY DEF Scanned
<1>2. NameOf(environment, i) # Unset
  BY <1>1, StartupAssumption DEF StartupAssumption
<1>3. Complete(environment.entries[i], BackendOf(environment, environment.entries[i]))
  BY DEF Loads
<1> QED
  BY <1>2, <1>3 DEF HostOf, Complete, XiaomiEntries, Uses, Backends

\* A host that is a DID of Xiaomi is that of the vacuum itself.
LEMMA HostIsOwnDID ==
    ASSUME environment \in Environments, Loads(environment),
           NEW j \in Scanned(environment), HostOf(environment, j) \in DIDs
    PROVE  /\ j \in XiaomiEntries
           /\ environment.entries[j].did = HostOf(environment, j)
           /\ environment.entries[j].did # Unset
<1>1. j \in DOMAIN environment.entries
  BY DEF Scanned
<1>2. /\ environment.entries[j].host \notin DIDs
      /\ NameOf(environment, j) \notin DIDs
      /\ environment.entries[j].did \in DIDs =>
           BackendOf(environment, environment.entries[j]) = "xiaomi"
      /\ Unset \notin DIDs
  BY <1>1, StartupAssumption DEF StartupAssumption
<1>3. environment.entries[j].did = HostOf(environment, j)
  BY <1>2 DEF HostOf
<1> QED
  BY <1>2, <1>3 DEF XiaomiEntries, Uses

\* One of the two has no host: its DID is the other's own.
LEMMA HostlessKey ==
    ASSUME environment \in Environments, devices \in DeviceLists,
           Loads(environment), AllMatch,
           NEW i \in Scanned(environment), NEW j \in Scanned(environment),
           Built[i].key = Built[j].key,
           HostOf(environment, i) = Unset, HostOf(environment, j) # Unset
    PROVE  Built[i].robot = Built[j].robot
<1>1. i \in XiaomiEntries
  BY HostlessIsXiaomi
<1>2. /\ Vacuum(i).host = Unset /\ Vacuum(j).host = HostOf(environment, j)
      /\ Vacuum(j).did = environment.entries[j].did
      /\ Vacuum(i).backend = "xiaomi"
  BY <1>1 DEF Vacuum, VacuumConfig, XiaomiEntries, Uses
<1>3. /\ Built[i] = [key |-> StoreKey(Vacuum(i), devices), robot |-> Robot(Vacuum(i))]
      /\ Built[j] = [key |-> StoreKey(Vacuum(j), devices), robot |-> Robot(Vacuum(j))]
  BY DEF Built, Vacuum
<1>4. /\ Built[i].key = matchCloudDevice(Vacuum(i), devices)
      /\ Built[j].key = HostOf(environment, j)
      /\ Built[i].robot = matchCloudDevice(Vacuum(i), devices)
  BY <1>2, <1>3 DEF StoreKey, Robot
<1>5. matchCloudDevice(Vacuum(i), devices) \in DIDs
  BY <1>1, MatchedIsDID DEF AllMatch, Vacuum
<1>6. /\ j \in XiaomiEntries /\ Vacuum(j).did = HostOf(environment, j)
      /\ Vacuum(j).did # Unset
  BY <1>2, <1>4, <1>5, HostIsOwnDID
<1>7. matchCloudDevice(Vacuum(j), devices) = HostOf(environment, j)
  BY <1>6, MatchedIsDID DEF AllMatch, Vacuum
<1>8. Vacuum(j).backend = "xiaomi"
  BY <1>6 DEF Vacuum, VacuumConfig, XiaomiEntries, Uses
<1>9. Built[j].robot = matchCloudDevice(Vacuum(j), devices)
  BY <1>3, <1>8 DEF Robot
<1> QED
  BY <1>4, <1>7, <1>9

LEMMA BuiltApart ==
    ASSUME environment \in Environments, devices \in DeviceLists,
           Loads(environment), AllMatch, vacuums' = Built
    PROVE  KeysTellRobotsApart'
<1> SUFFICES ASSUME NEW i \in Scanned(environment), NEW j \in Scanned(environment),
                    Built[i].key = Built[j].key, i # j
             PROVE  Built[i].robot = Built[j].robot
  BY DEF KeysTellRobotsApart, Built
<1>1. HostOf(environment, i) # HostOf(environment, j)
  BY DEF Loads
<1>2. CASE HostOf(environment, i) = Unset
  BY <1>1, <1>2, HostlessKey
<1>3. CASE HostOf(environment, j) = Unset
  BY <1>1, <1>3, HostlessKey
<1>4. CASE HostOf(environment, i) # Unset /\ HostOf(environment, j) # Unset
  <2>1. Built[i].key = HostOf(environment, i) /\ Built[j].key = HostOf(environment, j)
    BY <1>4 DEF Built, VacuumConfig, StoreKey
  <2> QED  BY <1>1, <2>1
<1> QED  BY <1>2, <1>3, <1>4

-----------------------------------------------------------------------------
(* The invariant.                                                          *)

Backed == cached = auth \/ auth = Of(Imported)

StartupInv ==
    /\ StartupTypeOK
    /\ KeysTellRobotsApart
    /\ pc # "down" => Loads(environment)
    /\ pc = "token" => auth.ssecurity # NoSession
    /\ pc = "list" => Backed
    /\ RunsOnOneSession

LEMMA NoVacuums == \A x : x \notin DOMAIN <<>>
OBVIOUS

LEMMA InitStartupInv == StartupInit => StartupInv
<1> SUFFICES ASSUME StartupInit PROVE StartupInv
  OBVIOUS
<1>1. environment.imported \in Sessions \cup {NoSession}
  BY StartupAssumption DEF StartupInit, StartupAssumption
<1>2. honoured \subseteq Sessions
  BY <1>1 DEF StartupInit, Imported
<1>3. KeysTellRobotsApart
  BY NoVacuums DEF StartupInit, KeysTellRobotsApart
<1> QED
  BY <1>2, <1>3 DEF StartupInit, StartupInv, StartupTypeOK, RunsOnOneSession, Auth, NoAuth

\* A process that ends leaves no trace but the cache file.
LEMMA ExitKeeps ==
    ASSUME StartupInv, Exit, UNCHANGED <<environment, cached, honoured>>,
           devices' \in DeviceLists
    PROVE  StartupInv'
<1>1. KeysTellRobotsApart'
  BY NoVacuums DEF Exit, KeysTellRobotsApart
<1> QED
  BY <1>1 DEF StartupInv, Exit, StartupTypeOK, RunsOnOneSession, Auth, NoAuth, Valid

LEMMA BootKeeps == ASSUME StartupInv, Boot PROVE StartupInv'
<1> USE DEF StartupInv, StartupTypeOK
<1>1. /\ UNCHANGED <<environment, cached, honoured, devices, auth, cookie, again>>
      /\ Loads(environment) /\ Loads(environment')
  BY DEF Boot, GoOn
<1>2. CASE XiaomiEntries = {}
  <2>1. pc' = "run" /\ vacuums' = Built /\ Loads(environment) /\ AllMatch
    BY <1>2 DEF Boot, AllMatch
  <2>2. XiaomiEntries' = {}
    BY <1>1, <1>2 DEF XiaomiEntries
  <2>3. KeysTellRobotsApart'
    BY <2>1, BuiltApart
  <2> QED
    BY <1>1, <2>1, <2>2, <2>3 DEF RunsOnOneSession
<1>3. CASE XiaomiEntries # {}
  <2>1. pc' = "auth" /\ UNCHANGED vacuums
    BY <1>3 DEF Boot, GoOn
  <2> QED
    BY <1>1, <2>1 DEF RunsOnOneSession, KeysTellRobotsApart
<1> QED
  BY <1>2, <1>3

LEMMA AuthKeeps ==
    ASSUME StartupInv, UseEnvironment \/ UseCache \/ NoCredentials
    PROVE  StartupInv'
<1> USE DEF StartupInv, StartupTypeOK, KeysTellRobotsApart, RunsOnOneSession, Backed
<1>1. CASE UseEnvironment
  <2>1. Imported \in Sessions
    BY <1>1, StartupAssumption DEF UseEnvironment, StartupAssumption, Imported
  <2>2. auth' \in Auth /\ Valid(auth') /\ auth' = Of(Imported)
    BY <1>1, <2>1, StartupAssumption
       DEF UseEnvironment, StartupAssumption, Auth, Valid, Of
  <2>3. UNCHANGED <<environment, cookie, again, vacuums, honoured, devices>> /\ pc' = "list"
    BY <1>1 DEF UseEnvironment
  <2>4. cached' = auth' \/ cached' = cached
    BY <1>1 DEF UseEnvironment, Saved, SaveFails
  <2>5. auth' = Of(Imported')
    BY <2>2, <2>3 DEF Imported
  <2>6. cached' \in Auth /\ (cached' = NoAuth \/ Valid(cached'))
    BY <2>2, <2>4 DEF Valid
  <2>7. pc # "down" /\ (Loads(environment) => Loads(environment'))
    BY <1>1, <2>3 DEF UseEnvironment
  <2> QED
    BY <2>2, <2>3, <2>5, <2>6, <2>7
<1>2. CASE UseCache
  BY <1>2 DEF UseCache, Valid
<1>3. CASE NoCredentials
  BY <1>3 DEF NoCredentials, GoOn
<1> QED
  BY <1>1, <1>2, <1>3

LEMMA LoginKeeps ==
    ASSUME StartupInv,
           LoginFails \/ fetchLoginInfo \/ postCredentials \/ fetchServiceToken
           \/ NoCookieFound \/ SaveAuth
    PROVE  StartupInv'
<1> USE DEF StartupInv, StartupTypeOK, KeysTellRobotsApart, RunsOnOneSession, Backed
<1>1. CASE LoginFails \/ NoCookieFound
  BY <1>1, ExitKeeps DEF LoginFails, NoCookieFound
<1>2. CASE fetchLoginInfo
  BY <1>2 DEF fetchLoginInfo, GoOn
<1>3. CASE postCredentials
  <2>1. PICK s \in Sessions \ Known :
          auth' = [auth EXCEPT !.ssecurity = s] /\ honoured' = honoured \cap Known
    BY <1>3 DEF postCredentials
  <2>2. auth' \in Auth /\ auth'.ssecurity = s /\ s # NoSession
    BY <2>1, StartupAssumption DEF Auth, StartupAssumption
  <2>3. honoured' \subseteq Sessions
    BY <2>1
  <2> QED
    BY <1>3, <2>2, <2>3 DEF postCredentials
<1>4. CASE fetchServiceToken
  <2>1. auth.ssecurity \in Sessions
    BY <1>4 DEF fetchServiceToken, Auth
  <2>2. /\ pc' = "save" /\ UNCHANGED <<environment, again, vacuums, cached, devices>>
        /\ auth' \in Auth /\ Valid(auth') /\ cookie' \in Sessions \cup {NoSession}
        /\ honoured' \subseteq Sessions
    BY <1>4, <2>1, StartupAssumption DEF fetchServiceToken, Auth, Valid, StartupAssumption
  <2>3. pc # "down" /\ (Loads(environment) => Loads(environment'))
    BY <1>4, <2>2 DEF fetchServiceToken
  <2> QED
    BY <2>2, <2>3
<1>5. CASE SaveAuth
  <2>1. CASE Exit /\ SaveFails
    BY <1>5, <2>1, ExitKeeps DEF SaveAuth, SaveFails
  <2>2. CASE GoOn("list") /\ Saved
    <3>1. /\ pc = "save" /\ pc' = "list" /\ cached' = auth
          /\ UNCHANGED <<environment, auth, cookie, again, vacuums, honoured, devices>>
      BY <1>5, <2>2 DEF SaveAuth, GoOn, Saved
    <3>2. Valid(cached') /\ Valid(auth') /\ (Loads(environment) => Loads(environment'))
      BY <3>1 DEF Valid
    <3> QED
      BY <3>1, <3>2
  <2> QED
    BY <1>5, <2>1, <2>2 DEF SaveAuth
<1> QED
  BY <1>1, <1>2, <1>3, <1>4, <1>5

LEMMA ListKeeps == ASSUME StartupInv, ListDevices \/ ListFails PROVE StartupInv'
<1>1. CASE ListDevices
  <2>1. /\ pc = "list" /\ pc' = "run" /\ vacuums' = Built
        /\ UNCHANGED <<environment, auth, cookie, again, cached, honoured, devices>>
    BY <1>1 DEF ListDevices
  <2>2. auth.ssecurity = auth.serviceToken /\ Valid(auth) /\ Backed
    BY <1>1, <2>1 DEF ListDevices, Works, Of, StartupInv, StartupTypeOK
  <2>3. RunsOnOneSession'
    BY <2>1, <2>2 DEF RunsOnOneSession, Valid, Backed, Imported
  <2>4. Loads(environment) /\ Loads(environment')
    BY <2>1 DEF StartupInv
  <2>5. KeysTellRobotsApart'
    BY <1>1, <2>1, <2>4, BuiltApart DEF ListDevices, StartupInv, StartupTypeOK
  <2> QED
    BY <2>1, <2>3, <2>4, <2>5 DEF StartupInv, StartupTypeOK, Valid
<1>2. CASE ListFails /\ again
  BY <1>2, ExitKeeps DEF ListFails, StartupInv, StartupTypeOK
<1>3. CASE ListFails /\ ~again
  BY <1>3 DEF ListFails, StartupInv, StartupTypeOK, KeysTellRobotsApart, RunsOnOneSession
<1> QED
  BY <1>1, <1>2, <1>3

LEMMA SetbackKeeps ==
    ASSUME StartupInv, Crash \/ Expire \/ NewLeases \/ UNCHANGED startupVars PROVE StartupInv'
<1> USE DEF StartupInv, StartupTypeOK, KeysTellRobotsApart, RunsOnOneSession, Backed,
            XiaomiEntries, Imported
<1>1. CASE Crash
  BY <1>1, ExitKeeps DEF Crash
<1>2. CASE Expire
  BY <1>2 DEF Expire, processVars
<1>3. CASE NewLeases
  BY <1>3 DEF NewLeases, processVars
<1>4. CASE UNCHANGED startupVars
  BY <1>4 DEF startupVars, processVars
<1> QED
  BY <1>1, <1>2, <1>3, <1>4

LEMMA StartupInvHolds == StartupSpec => []StartupInv
<1>1. StartupInv /\ [StartupNext]_startupVars => StartupInv'
  BY BootKeeps, AuthKeeps, LoginKeeps, ListKeeps, SetbackKeeps DEF StartupNext, RunStep
<1> QED
  BY InitStartupInv, <1>1, PTL DEF StartupSpec

-----------------------------------------------------------------------------
\* Every variable keeps its type, and incomplete credentials are neither saved
\* nor used to list devices (cloud.go:82, 167-170, 339-347).
THEOREM StartupTyped == StartupSpec => []StartupTypeOK
<1>1. StartupInv => StartupTypeOK
  BY DEF StartupInv
<1> QED
  BY StartupInvHolds, <1>1, PTL

\* For every environment and device list, and however leases move: two vacuums
\* of a running process share a store key only if they are the same robot
\* (config.go:229-236, cloud_client.go:49-52).
THEOREM KeysKeptApart == StartupSpec => []KeysTellRobotsApart
<1>1. StartupInv => KeysTellRobotsApart
  BY DEF StartupInv
<1> QED
  BY StartupInvHolds, <1>1, PTL

\* However many logins fail, lose their cookie or cannot be saved, a process that
\* runs holds one whole session, which the next start will find
\* (main.go:119-128, 281-320; cloud.go:328-347).
THEOREM OneSessionHeld == StartupSpec => []RunsOnOneSession
<1>1. StartupInv => RunsOnOneSession
  BY DEF StartupInv
<1> QED
  BY StartupInvHolds, <1>1, PTL
\* Whatever Xiaomi answers and whatever the environment and the cache hold, a
\* start gets shorter with every request and logs in again only once
\* (main.go:111-133, 281-321).
THEOREM StartsBounded == StartupSpec => StartsShorten
<1>1. ASSUME StartupTypeOK, [StartupNext]_startupVars, RequestsLeft # 0
      PROVE  \/ RequestsLeft' < RequestsLeft /\ (again' = again \/ RequestsLeft' = 0)
             \/ ~again /\ again'
             \/ ~RunStep /\ UNCHANGED <<pc, again>>
  <2> USE <1>1 DEF RequestsLeft
  <2>1. CASE Boot \/ UseEnvironment \/ UseCache \/ NoCredentials
    BY <2>1 DEF Boot, UseEnvironment, UseCache, NoCredentials, GoOn
  <2>2. CASE LoginFails \/ fetchLoginInfo \/ postCredentials \/ fetchServiceToken
             \/ NoCookieFound \/ SaveAuth
    BY <2>2 DEF LoginFails, fetchLoginInfo, postCredentials, fetchServiceToken,
       NoCookieFound, SaveAuth, GoOn, Exit
  <2>3. CASE ListDevices \/ ListFails
    BY <2>3 DEF ListDevices, ListFails, Exit
  <2>4. CASE ~RunStep /\ Crash
    BY <2>4 DEF Crash, Exit, StartupTypeOK
  <2>5. CASE ~RunStep /\ (Expire \/ NewLeases \/ UNCHANGED startupVars)
    BY <2>5 DEF Expire, NewLeases, startupVars, processVars
  <2> QED
    BY <2>1, <2>2, <2>3, <2>4, <2>5 DEF StartupNext, RunStep
<1>2. StartupTypeOK /\ [StartupNext]_startupVars =>
        [RequestsLeft # 0 =>
            \/ RequestsLeft' < RequestsLeft /\ (again' = again \/ RequestsLeft' = 0)
            \/ ~again /\ again'
            \/ ~RunStep /\ UNCHANGED <<pc, again>>]_startupVars
  BY <1>1
<1>3. StartupInv => StartupTypeOK
  BY DEF StartupInv
<1> QED
  BY <1>2, <1>3, StartupInvHolds, PTL DEF StartupSpec, StartsShorten

-----------------------------------------------------------------------------
(* The vacuums of the Roborock account.                                    *)

\* The account tells its robots apart: no DUID or name stands for two of them.
Distinguishable ==
    /\ DOMAIN AppDevices \subseteq Nat
    /\ \A k, l \in DOMAIN AppDevices :
          {AppDevices[k].did, AppDevices[k].name} \cap {AppDevices[l].did, AppDevices[l].name} # {}
             => k = l

\* An entry gives a name or a DUID and neither of them is the address of a robot.
Named(e) ==
    /\ {e.name, e.did} # {Unset}
    /\ \A k \in DOMAIN AppDevices :
          AppDevices[k].localIP \in {e.name, e.did} => AppDevices[k].localIP = Unset

LEMMA SelectedDevice ==
    ASSUME Distinguishable, NEW k \in DOMAIN AppDevices,
           NEW selector \in {AppDevices[k].did, AppDevices[k].name}
    PROVE  select_device(selector, AppDevices) = AppDevices[k].did
<1> DEFINE hits == {l \in DOMAIN AppDevices : selector \in {AppDevices[l].did, AppDevices[l].name}}
<1>1. select_device(selector, AppDevices) = First(AppDevices, hits)
  BY DEF select_device
<1>2. hits = {k}
  BY DEF Distinguishable
<1>3. (CHOOSE h \in {k} : \A l \in {k} : h <= l) = k
  <2>1. \A h \in {k} : (\A l \in {k} : h <= l) <=> h = k
    BY DEF Distinguishable
  <2> QED
    BY <2>1
<1> QED
  BY <1>1, <1>2, <1>3 DEF First

\* The vacuum of an entry that tells its robot by name or DUID stands for it.
LEMMA SelectorFinds ==
    ASSUME Distinguishable, NEW i \in Scanned(environment), NEW k \in DOMAIN AppDevices,
           Named(environment.entries[i]),
           LET e == environment.entries[i] d == AppDevices[k]
           IN  {e.name, e.host, e.did} \ {Unset} \subseteq {d.name, d.localIP, d.did}
    PROVE  select_device(Selector(Vacuum(i)), AppDevices) = AppDevices[k].did
<1> DEFINE e == environment.entries[i]
           d == AppDevices[k]
<1>1. Vacuum(i).did = e.did /\ Vacuum(i).name = NameOf(environment, i)
  BY DEF Vacuum, VacuumConfig
<1>2. \A x \in {e.name, e.did} : x # Unset => x \in {d.did, d.name}
  BY DEF Named
<1>3. Selector(Vacuum(i)) \in {d.did, d.name}
  <2>1. CASE e.did # Unset
    BY <1>1, <1>2, <2>1 DEF Selector
  <2>2. CASE e.did = Unset
    <3>1. e.name # Unset
      BY <2>2 DEF Named
    <3>2. Selector(Vacuum(i)) = e.name
      BY <1>1, <2>2, <3>1 DEF Selector, NameOf
    <3> QED
      BY <1>2, <3>1, <3>2
  <2> QED
    BY <2>1, <2>2
<1> QED
  BY <1>3, SelectedDevice

\* Each vacuum of the Roborock account is built with the selector of its entry,
\* and nothing changes it afterwards.
SelectorsKept ==
    \A i \in DOMAIN vacuums :
        /\ i \in Scanned(environment)
        /\ BackendOf(environment, environment.entries[i]) = "roborock" =>
              vacuums[i].robot = select_device(Selector(Vacuum(i)), AppDevices)

LEMMA BuiltBySelector == vacuums' = Built /\ UNCHANGED environment => SelectorsKept'
<1> SUFFICES ASSUME vacuums' = Built, UNCHANGED environment PROVE SelectorsKept'
  OBVIOUS
<1>1. ASSUME NEW i \in Scanned(environment),
             BackendOf(environment, environment.entries[i]) = "roborock"
      PROVE  Built[i].robot = select_device(Selector(Vacuum(i)), AppDevices)
  <2>1. Built[i].robot = Robot(Vacuum(i)) /\ Vacuum(i).backend = "roborock"
    BY <1>1 DEF Built, Vacuum, VacuumConfig
  <2> QED
    BY <2>1 DEF Robot
<1>2. DOMAIN Built = Scanned(environment)
  BY DEF Built
<1> QED
  BY <1>1, <1>2 DEF SelectorsKept, Vacuum

LEMMA SelectorsHold == StartupSpec => []SelectorsKept
<1>1. StartupInit => SelectorsKept
  BY NoVacuums DEF StartupInit, SelectorsKept
<1>2. SelectorsKept /\ [StartupNext]_startupVars => SelectorsKept'
  <2> SUFFICES ASSUME SelectorsKept, [StartupNext]_startupVars PROVE SelectorsKept'
    OBVIOUS
  <2>1. UNCHANGED environment
    BY DEF StartupNext, RunStep, startupVars, Boot, UseEnvironment, UseCache, NoCredentials,
       LoginFails, fetchLoginInfo, postCredentials, fetchServiceToken, NoCookieFound, SaveAuth,
       ListDevices, ListFails, Crash, Expire, NewLeases
  <2>2. CASE vacuums' = Built
    BY <2>1, <2>2, BuiltBySelector
  <2>3. CASE vacuums' = <<>>
    BY <2>3, NoVacuums DEF SelectorsKept
  <2>4. CASE UNCHANGED vacuums
    BY <2>1, <2>4 DEF SelectorsKept, Vacuum
  <2>5. vacuums' = Built \/ vacuums' = <<>> \/ UNCHANGED vacuums
    BY DEF StartupNext, RunStep, startupVars, processVars, Boot, UseEnvironment, UseCache,
       NoCredentials, LoginFails, fetchLoginInfo, postCredentials, fetchServiceToken,
       NoCookieFound, SaveAuth, ListDevices, ListFails, Crash, Expire, NewLeases, GoOn, Exit
  <2> QED
    BY <2>2, <2>3, <2>4, <2>5
<1> QED
  BY <1>1, <1>2, PTL DEF StartupSpec

\* Names and DUIDs that are unique in the account lead to the robot they are
\* those of, with or without an address beside them: what the README promises of
\* an entry fails only for one that gives nothing but the address
\* (README.md:51; config.go:201-203, main.go:94-101).
THEOREM NamedRobotsFound ==
    ASSUME Distinguishable,
           \A env \in Environments : \A i \in DOMAIN env.entries :
              BackendOf(env, env.entries[i]) = "roborock" => Named(env.entries[i])
    PROVE  StartupSpec => []ConfiguredRobotsFound
<1>1. environment \in Environments /\ SelectorsKept => ConfiguredRobotsFound
  <2> SUFFICES ASSUME environment \in Environments, SelectorsKept,
                      NEW i \in DOMAIN vacuums, NEW k \in DOMAIN AppDevices,
                      LET e == environment.entries[i] d == AppDevices[k] IN
                      /\ BackendOf(environment, e) = "roborock"
                      /\ {e.name, e.host, e.did} \ {Unset} \subseteq {d.name, d.localIP, d.did}
               PROVE  vacuums[i].robot = AppDevices[k].did
    BY DEF ConfiguredRobotsFound
  <2>1. i \in Scanned(environment) /\ Named(environment.entries[i])
    BY DEF SelectorsKept, Scanned
  <2> QED
    BY <2>1, SelectorFinds DEF SelectorsKept
<1>2. StartupSpec => [](environment \in Environments)
  <2>1. StartupInv => environment \in Environments
    BY DEF StartupInv, StartupTypeOK
  <2> QED
    BY <2>1, StartupInvHolds, PTL
<1> QED
  BY <1>1, <1>2, SelectorsHold, PTL
=============================================================================
