# A verification project for verisure-roborock

The service polls a Verisure alarm and starts robot vacuums when the alarm is
armed away, and pauses and docks the ones it started when somebody comes home.
This directory holds TLA+ models of it, the TLC configurations that check them
on small instances, and proofs that hold for every instance.

To repeat a run: `tlc -config MC_owned.cfg MCService`; to repeat the proofs:
`tlapm ServiceProofs.tla`, and likewise `RunProofs`, `TickProofs`,
`PromiseProofs`, `SessionProofs`, `StartupProofs`, `MiioProofs` and `AppProofs`.

Paths below are relative to the repository: `controller.go` is
`internal/controller/controller.go`, `store.go` is `internal/store/store.go`,
`api.go` and `main.go` are in `cmd/verisure-roborock/`, `cloud.go` is that of
`internal/xiaomi`, and where two packages have a `client.go` the package is
named.

## 1. Inventory

### Components

| Component | State it keeps | Operations | Talks to |
|---|---|---|---|
| Controller (`controller.go`) | `state`, `lastAlarm`, the locals of the running function | `reconcileOnStartup`, then `poll` for ever: `onArmedAway` → `maybeStartVacuum` → `startVacuum`, `onDisengaged` → `stopVacuum` | Verisure client, one robot client per vacuum, store |
| Store (`store.go`) | copy in memory, JSON file | `New`, `Get`, a setter per field, each of which saves | file system |
| Robot API (`api.go`) | none; one goroutine per request | `GET /robots`, `POST /robots/{robot}/start`, `/stop` | the same robot clients and store as the controller |
| Pages and MFA code (`main.go`) | none | `GET /status`, `/healthz`, `POST /mfa-code` | store, controller, Verisure client |
| Process (`main.go`) | root context | start, SIGTERM, cookie goroutine (after 30 s, then every 5 min, and on shutdown) | everything |
| Verisure client (`verisure/client.go`) | cookies, `authed`, `giid`, `pendingMFA`, one-place channel of SMS codes | `ArmState` (login, MFA, trust, discovery, fetch), `SubmitMFACode`, `SessionCookie` | two Verisure servers |
| Local client (`roborock/client.go`, `miio.go`) | UDP socket, `handshook`, clock stamp | one JSON-RPC call at a time with handshake and one retry | one robot |
| App cloud client (`app_cloud_client.go`) | time of the last control command | turns of 30 s, retries of a rate-limited command, a helper process per call | `scripts/roborock_cloud.py` |
| Xiaomi client (`cloud.go`, `cloud_client.go`, `main.go:111-133, 281-321`) | credentials, cookie jar, cache file | `Login`, `Devices`, `RPC`, `SetAuth`, `LoadAuth`, `SaveAuth`, `NewCloudVacuums` | Xiaomi cloud |
| Configuration (`config.go`) | none after the start | `Load` | environment |
| Tools (`cmd/fetch-tokens`, `cmd/probe`) and the helper (`scripts/roborock_cloud.py`) | a cached login | run by hand, or one process per call | the clouds, a robot |

The goroutines of the process are the controller, one handler per HTTP request,
and the one that persists the cookie.  They share the store (a mutex around
every setter), the robot clients (a mutex around every call, or turns) and the
Verisure client (a mutex held for the whole of `ArmState`, the wait for an SMS
code included).  Nothing orders the calls of different goroutines on one vacuum:
a handler may run between any two calls of the controller.

### What is hard, and what makes each component correct

* **Controller.** It works through the vacuums one after the other, with calls
  that take seconds and fail, on a snapshot of the store, while the alarm, the
  robots and the operators go on.  It has to: command robots only on the side of
  the alarm that justifies it; know every run it began; keep trying to dock and
  to start; not be stopped by one silent robot; keep the cooldown; and be, at
  rest, in a state in which the next poll does the right thing.
* **Store.** A save may fail, and the process may die between a command to a
  robot and the record of it.  What the file says must be taken back by nothing
  but a stop.
* **Robot API.** Races with the controller on the same vacuum.
* **Verisure client.** Requests fail with or without effect, sessions expire,
  codes are mistyped, come early or late, the account moves between two servers,
  and the process may restart at any point of a login.  It must read the alarm
  again in the end, settle on the right server, and must not bother the operator
  with an SMS a cookie would have spared.
* **Local client.** Datagrams are lost, late or damaged, the robot restarts and
  forgets its clock, the socket becomes deaf, two goroutines share it.  A call
  has to end, return the answer to its own request, and recover.
* **Startup and the Xiaomi client.** Credentials come from the environment, a
  cache or a login that may need a browser; any step may fail, halves of two
  sessions may be mixed, and the process restarts on every failure.  It has to run
  at last, on one session, and without a login when none is needed.
* **Configuration.** A vacuum is known by a host, a DID, a name or the device it
  is matched with, and the record of who started it hangs on that key.  Two robots
  must not share one.
* **App cloud client.** Callers queue, are rate-limited and cancelled; turns
  have to be spaced and every operation has to end.

`PROJECT.json` lists the hazards with the line where each bites and the
properties that would catch it, or why none does.

## 2. The modules

| Module | What it is |
|---|---|
| `Domain` | constants and the vocabulary: alarm states, robot states, events |
| `Household` | the alarm and the robots, as the program can affect and observe them (external) |
| `Store` | `store.go` |
| `Controller` | `controller.go`, on `Household` and `Store` |
| `RobotApi` | the handlers of `api.go` that change state, on `Household` and `Store` |
| `Service` | composition of the two with the life of the process; all properties of the core |
| `AlarmAutomation` | the abstract specification that `Service` implements |
| `VerisureSession` | `ArmState`, the session it keeps and the two servers |
| `Config` | `Load` and the keys and robots of vacuums, as operators |
| `Startup` | `run()` up to the controller: backends, Xiaomi credentials and login; on `Config` |
| `MiioClient` | a local client, its socket, the robot and the network |
| `AppCloud` | the turns and the retries of the app cloud client |
| `MCService`, `MCAppCloud`, `MCStartup` | instances for TLC |
| `ServiceProofs` | phases of the controller, justified starts and stops, what takes a record back |
| `RunProofs` | the cooldown, and how a run may lose its record, under some sets of events; extends `ServiceProofs` |
| `TickProofs` | the length of a tick, `/status`, the record the loops decide on, no run forgotten; extends `RunProofs` |
| `PromiseProofs` | `Service` implements `AlarmAutomation`; extends `RunProofs` |
| `SessionProofs`, `StartupProofs`, `MiioProofs`, `AppProofs` | theorems about the module of that name |

### Service and its parts

One step of the controller is one call that another goroutine, a robot or a
crash can get in front of: a fetch of the alarm, a call to a robot, a setter of
the store.  `pc` names the next call; `loop`, `vac`, `snapshot`, `anyActive`,
`seen` and `tries` are the locals of the functions it is in, and have their
initial values elsewhere.

| Code | Actions |
|---|---|
| `reconcileOnStartup` | `ReconcileBegin`, `ReconcileFetch(Fails)`, `ReconcileCancelled`, `ReconcileVacuum`, `EndReconcile`, `ReconcileStoreAlarm` |
| `poll` | `PollNewAlarm`, `PollSameAlarm` |
| `onArmedAway`, `onDisengaged` | `ArmedAwayBegin`, `DisengagedBegin`, `DisengagedNothingActive`, `PassOver`, `TurnToVacuum`, `EndLoop` |
| `maybeStartVacuum`, `startVacuum` | `StartStatus`, `CleanSummary`, `StartReadFails`, `StartCommand(Fails)`, `Claim` |
| `stopVacuum`, `withRetry` | `StopStatus`, `Pause(Fails)`, `Charge(Fails)`, `RetryCancelled`, `Release` |
| `api.go` | `Receive`, `ApiStatus`, `ApiRun`, `ApiClaim`, `ApiPause`, `ApiCharge`, `ApiRelease` |
| `main.go` | `Boot`, `Terminate`, `StopPolling`, `ExitProcess`, `persistCookie`; `Crash` is any death of the process |

What is abstracted:

* Waiting takes no step and may last any time, so the failure counter of `Run`
  and the lengths of the backoffs are left out.  A poll that fails or finds
  nothing to do changes nothing and is a stuttering step.
* A status reply is the state of the robot when it is read, or none.  The read
  and the decision on it are one step where nothing else is read in between;
  `stopVacuum` keeps the reply it decides on (`seen`) because it looks at it
  again after the commands.
* Of the cleaning history a robot keeps, `recent` says whether its last clean is
  within the cooldown.  Rooms are left out: with or without them a start is one
  command, except that the handler with rooms reads no status first.
* A robot call that fails has had no effect (`refused_call`) or has
  (`lost_reply`).  `ours` is a history variable: the run the robot is on was
  begun by the program.
* SIGTERM cancels the root context (main.go:69-71), which the controller hands to
  each of its calls, down to the helper process (app_cloud_client.go:283).  So
  under `ctxDone` a call of the controller may fail with or without effect, and a
  read or the fetch of reconcile may fail (`ControllerCallFails`,
  `ControllerReadFails`, `ReconcileFetchFails`), in whatever `Events` has
  `shutdown`.  It may also still succeed: the answer may be there already, and the
  local client does not look at the context once a call is under way.  A
  handler's calls have the context of its HTTP request, which the shutdown leaves
  alone; a client that hangs up is a refused call or a lost reply.
* A save writes a temporary file and renames it, so a crash during a save is a
  crash before it.  The control state and the cookie are written but their
  values are not kept in the model, since no code of the service reads the
  first and the second is the subject of `VerisureSession`.

### VerisureSession

One step is one request to Verisure or one operation on the code channel.  A
cookie is absent, honoured or refused; the access cookie stands for `vs-access`
and `vid`, the trust cookie for `vs-trust-*`; `vs-refresh` is left out, the
client only carries it.  `retry` stands for the place in `ArmState` a login was made from.
A code is right (that of the last SMS) or wrong; a new SMS makes an old code
wrong.

`serving` is the server that has the account.  `base` is the server the next
request of the call goes to, `loginBase` the one the client prefers: a query
goes to `loginBase` and, on SYS_00004 only, to the other one
(`WrongServer`); a login tries automation01 and then automation02; the answer
that counts sets `loginBase`.  The cookies of a login are set for both servers
(`propagateCookies`, `setCookieOnAll`), hence one jar.  Left out: a cookie set
by the answer to a query, which reaches only the server that sent it, and
requests that never end (the HTTP client has no timeout).

| Code | Actions |
|---|---|
| `ArmState` | `ArmState`, `discoverGIID`, `fetchArmState`, with `LogInAgain` on 401 and 403 |
| `loginLocked` | `ResumeMFA`, `Login`, `sendSMS`, `finishLogin` |
| `validateMFALocked`, `requestTrust` | `DrainCode`, `ReceiveCode`, `ValidateAccepted`, `ValidateFails`, `requestTrust` |
| `SubmitMFACode`, `persistCookie`, `NewClient` | `SubmitMFACode`, `persistCookie`, `Restart` |

### Config and Startup

`Config` says which environments load, and which name, key, backend and robot
each entry gets.  Values are abstract and already trimmed and folded.  `Startup`
runs `run()` of `main.go` from the configuration to the call of the controller.
One step is one request to Xiaomi or one access to the cache file; a session of
the Xiaomi account is a name whose two secrets, `ssecurity` and `serviceToken`,
work only together.

| Code | Actions |
|---|---|
| `run`, `config.Load` | `Boot`, `Exit`, `ListFails` |
| `authenticateXiaomi` | `UseEnvironment`, `UseCache`, `NoCredentials` |
| `loginAndCacheXiaomi`, `Login` | `fetchLoginInfo`, `postCredentials`, `fetchServiceToken`, `NoCookieFound`, `LoginFails`, `SaveAuth` |
| `NewCloudVacuums` | `ListDevices`, with `Built` and `AllMatch` |

What Xiaomi and the router do meanwhile is `Expire` and `NewLeases`; `Crash` is
any death.  A process whose environment does not load exits and is started
again for ever, which is a state without steps of its own here.  Signing,
encryption and the text of the pages are left out.  `MCStartup` keeps DIDs,
names and addresses apart, and `StartupAssumption` says that this is assumed
of users too.

### MiioClient

`requests` and `replies` are the datagrams on their way from and to the client's
socket; `own` says whether one belongs to the latest request, `clock` whether
the robot has restarted since.  A datagram to a closed socket is gone, and a new
socket is assumed to get a port no late datagram is sent to.  Answers may be
lost (no step is forced), late, or damaged in a way that names the protocol in
the error (`checksum`) or does not (`magic`): `isProtocolError` matches on the
text, and only the first kind is retried.  Duplicates are not modelled.  That a
robot obeys a command whose answer nobody reads is the event `lost_reply` of
`Service`.

### AppCloud

Time passes in ticks of 15 s: the interval of 30 s is 2, the backoffs of 30 s
and 90 s are 2 and 6, and the helper's timeout of 40 s (`main.go:81` with the
default `ROBOROCK_TIMEOUT` of 10 s) is rounded up to 3.  A timer may fire late;
a helper is killed when its time is up.

## 3. What the runs check

Bounds common to the core's runs: at most two vacuums, because the controller
treats vacuums one by one and two are enough for one to be passed over, to fail
or to block while the other is worked on; two attempts instead of three
(`withRetry`) and twelve (`reconcileOnStartup`), because the code only tells the
last attempt from the others; one API request at a time against the controller.

| Run | Instance | Question |
|---|---|---|
| `everything` | 1 vacuum, 1 request, every event | types, phases, the two rules of when robots may be commanded, and `AlarmAutomation`, in which a request licenses its own start or stop only |
| `owned` | 2 vacuums, calls that are refused or cut off, robots that get stuck or finish, failed saves, crashes, shutdown and restart | a run of the program loses its record only by a start that is cut off or a death before the record is in the file (`StaysTracked`), the loops act on the record even if it was read long ago (`ActsOnRecord`), it is only taken back by a stop or such a death (`OwnershipKept`) |
| `promise` | 1 vacuum, all alarm states, every event but starts by hand and requests | `Service` implements `AlarmAutomation`; no start within the cooldown; `/status` shows what was read, whatever fails (`StatusFollows`) |
| `live` | 2 vacuums of which only the second is sure to answer at last; fair, with crashes, errors and lost replies | every call brings a tick closer to its end (`TickShortens`), ticks end, and the second is docked and started in the end whatever the first does, which comes before it in every loop and may never answer |
| `session` | any number of expiries, restarts and moves of the account, outages, lost replies, typos, distrust; fair Verisure and operator | an SMS only when no cookie would do; its code goes to the server that sent it; a call shortens with every request (`CallsShorten`) and ends; the alarm is read again and again; the client follows the account |
| `startup` | 23 environments, 3 device lists, 4 sessions, outages, missing cookies, failed saves, crashes, expiries, new addresses | keys tell robots apart; one session; two logins per start at most (`StartsShorten`); the process runs at last |
| `miio` | 2 callers, 1 restart of the robot, deaf sockets, damaged answers | own answers; a call only ever gets closer to its return (`CallsShorten`); every call returns; a caller whose robot answers at last is heard |
| `app` | 2 callers, rate limits, cancellations | turns are spaced; helpers that overlap were started an interval apart (`HelpersApart`); operations only ever get closer to their end (`OperationsShorten`); operations end |

One restart of the robot is enough for a remembered clock to be wrong, and for a
late answer of before it to arrive after it.  In `startup` a name of a session is
free again once nobody holds it, and of four one is always free, since a process
and its cache and environment hold three at most when it logs in; the
environments have one to three entries of each backend and combinations that
collide, and the device lists let two robots swap or change their addresses.

The properties named `...Shorten(s)` are the bounded half of the liveness
properties beside them.  They need no fairness: each names a measure of what is
left of a tick, a call, an operation or a start, and says that the steps of the
code decrease it and that nothing else increases it.  `TicksEnd`, `CallsEnd`,
`CallsReturn` and `OperationsEnd` add that the steps are taken.  The measures
bound the work: thirty-three steps for a call of `ArmState`, eighteen for a local
call, two password logins for a start.

Where a run leaves events out, the property does not hold with them:

* `owned` leaves out the initiating state, in which a run is released early
  (below), and requests, since `StaysTracked` and `ActsOnRecord` are about a
  household where no operator interferes.  Failed fetches, lost replies and
  starts by hand are left out to keep it small; the theorems of section 4 cover
  them.
* `promise` leaves out operators and starts by hand, to whom the cooldown does
  not apply.
* `live` leaves out starts by hand, failed saves and robots that get stuck, to
  keep it small, and the initiating state, in which a run is released early.
* `session` leaves out a server that answers 403 to a session it honours, after
  which the client logs in again by design.

Four runs state a sentence of the documentation, and TLC finds the behaviour of
the code that contradicts it:

| Run | The sentence | What the code does |
|---|---|---|
| `lost_claim` | README.md:250 "a vacuum will never be left running unattended after a crash" | a crash between the command and its record leaves a run that no poll and no restart knows |
| `giid` | ARCHITECTURE.md:550 "can be hardcoded in `VERISURE_GIID` to skip discovery" | an expiry forgets it and the first installation listed is watched |
| `host_only` | README.md:51 "configure each vacuum by name, host/IP, or Roborock device ID" | a Roborock vacuum configured by its host alone is given the name `vacuum-i` first, and the helper is asked for that |
| `serialized` | README.md:252 "control commands are serialized and spaced by 30 seconds" | helpers overlap when one takes longer than the interval |

The models show further differences, without a run of their own:

* `NothingLeftRunning` fails in four more ways, seen by changing the `Events`
  of `MC_lost_claim.cfg`.  With `{"arm", "lost_reply"}`: a start that was obeyed
  and whose reply was lost is not recorded (controller.go:316-320).  With
  `{"arm", "shutdown"}`: an orderly SIGTERM cancels the context of a start under
  way (main.go:69-71, app_cloud_client.go:283), which returns an error although
  the robot may have obeyed, and is not recorded either (controller.go:312-318);
  the next process does not know the run.  With
  `{"arm", "slow_start"}`: a robot that is still initiating when the alarm is
  disarmed is released without being docked (controller.go:356-362), against
  README.md:6 "pauses any vacuums it started and sends them back to dock".  With
  `{"arm"}` and one request: the release after the controller's dock command
  overwrites the record of an operator's start handled in between
  (controller.go:384), against README.md:142.
* The mark `StartedByUs` outlives the run while the alarm stays armed, so a
  clean started by hand carries it (ARCHITECTURE.md:160 "did this process start
  the current run?").  For the same reason a vacuum left paused by a failed dock
  command is skipped by the next arm (controller.go:191-194), and one whose
  status failed during reconcile is not looked at before the next disarm,
  although controller.go:435 says "will correct on next poll".
* A vacuum found cleaning on arm does not count as active (controller.go:258;
  ARCHITECTURE.md:365 "note `CleaningActive`").
* A reconcile whose fetches all fail, or that a SIGTERM cuts off, leaves the alarm
  an earlier process stored on `/status` until the next successful poll
  (controller.go:401-419, main.go:143-148); hence the premise of `StatusFollows`.
* The wait for an SMS code holds the mutex of the Verisure client and is part of
  the fetch (verisure/client.go:384): until the operator answers, no poll reads the
  alarm, and vacuums are not docked when somebody comes home.
* `/status` looks a vacuum up by its configured host; a Xiaomi vacuum without
  one is recorded under its device ID and never shown as started there
  (main.go:156, config.go:204-210, cloud_client.go:49-52).
* Any error while a resumed MFA flow is validated drops the flow, and the next
  login sends another SMS although the first code is unused
  (verisure/client.go:257-259; 50-51 say "so we never send a second SMS").  A
  code submitted before that flow is taken up is drained although it is the
  right one (378), and the resumed path requests no trust token (263).

* Credentials in the environment are imported, and overwrite the cache, on every
  start (main.go:282-295), against README.md:228 "imports them once": a newer
  session in the cache is lost, and every restart may need a login again.
* Two Xiaomi vacuums configured by token or by name alone have the same empty
  host and are refused as duplicates (config.go:229-236).
* A Xiaomi token that expires while the process runs is not renewed: every call
  of the vacuum fails until a restart (cloud.go:82).
* A failed list of devices, an absent robot included, starts a password login
  although the session is good, and ends the process, other backends included, if
  that fails (main.go:119-128).
* A poll interval above five minutes is cut to five minutes, also without any
  failure (controller.go:95-122).

Every property of a passing run has a mutant: a definition `...Mutant` beside
the action it changes, under which TLC refutes the property.

### Fairness

* `Scheduling`: the goroutines run (weak fairness of the controller's steps and
  of the shutdown), and the supervisor restarts the process
  (`restart: unless-stopped` in `docker-compose.yml`, `Restart=on-failure` in
  the systemd unit).  Every call of the code has a deadline or is assumed to end.
* `VerisureAnswers`, `RobotAnswers(v)`: whoever is asked again and again answers
  at last (strong fairness of the successful outcome).  The code retries because
  of this and can do no more.  It is stated for the robots of `Reliable` only;
  `live` leaves the first robot out, the one every loop turns to first.
* The liveness properties of the core are conditional on a process that stays up
  and an alarm that stays as it is.
* `FairSession`: requests that are repeated succeed at last, and the operator
  submits the right code while the client waits.  The conjuncts name the outcome
  of each kind of request: an answer, a refusal of a dead session, the failover, a
  login, an SMS, an accepted code.  `CallsEnd` needs none of that but the
  progress of the call.  `PollingRecovers` and `FollowsAccount` assume `Steady`,
  that expiries, moves and restarts stop at last.
* `FairStartup`: the process goes on and Xiaomi lists the devices at last.
  `StartsAtLast` further assumes `LoginsSucceed`, since a login may need a browser
  the service does not have; `StartsOnCache` does without.  Both assume `Steady`:
  expiries and new addresses stop, and the process is not killed while it runs or
  before it asks; during its requests a kill cannot be told from a failure.
* `PatientMiio`: reads have deadlines, and Go's mutex is fair (starvation mode),
  hence strong fairness of `Lock`.  `Heard` adds a robot whose answer comes in
  time at last, for one of the two callers only: the other may be refused for
  ever.
* `FairApp`: time passes, timers fire, helpers end or are killed, fair mutex.

No fairness is assumed of crashes, alarms, finishing robots or operators.

## 4. What is proved

About `Service`, for any number of vacuums, any number of requests and of
attempts, from `DomainAssumption`, `ControllerAssumption` and
`ServiceAssumption`:

* `PhasesHold`: `[](TypeOK /\ Phases)`, and with it `ServiceTyped`.
  `PhaseInv == TypeOK /\ Phases` is inductive.  Its conjunct for `wait` alone is
  not: that the state fits the alarm at rest (`ModeFits`) follows from what was
  known in the loop before (`anyActive` only under an armed-away alarm during
  reconcile, the loop `arm` only under one, and so on), and that is what the other
  conjuncts of `Phases` say for each location.
* `StartsJustified`, `StopsJustified`: consequences of the phases, as action
  properties, for any set of events.
* `PromiseKept`: `Service` implements `AlarmAutomation`, for any set of events.
  From `PhaseInv` each step is simulated: the calls and setters of a start
  by `StartVacuum`, those of a stop by `DockVacuum`, a fetch or a change of state
  by `Decide`, a death or a restart by `Restart`; the rest stutters (`Quiet`).  A
  handler's steps are those of a `StartVacuum` or a `DockVacuum` as well, of a
  vacuum in `toStart` or `toStop`, which the refinement maps to the requests that
  are under way (`AskedFor`).  `Decide` needs the phases for the agreement at rest,
  and a setter may or may not reach the file (`SaveMay`).
* `OwnershipSurvives`: `OwnershipKept`, for any set of events.  A restart takes back
  no more than the death before it did, because a dead process has no memory but
  the file (`Forgotten`).
* `CooldownKept`: `CooldownRespected` without operators and starts by hand.  The
  invariant: a vacuum whose start is under way rests, so nobody ends a clean of
  it meanwhile, and once the command is next its last clean is not recent.
* `RunsTracked`: `StaysTracked` for any events but the initiating state.  `RunInv`:
  robots begin to clean at once, a run of ours is one the robot is on, paused in or
  stuck in, and a vacuum about to be released runs no more.  With the initiating
  state it is false (section 3), since `stopVacuum` releases a robot it finds
  initiating without a dock command.

`CooldownKept` excludes those who do not obey the cooldown.  `StaysTracked` and
`ActsOnRecord` speak of a household without requests, because a handler's record
may overwrite the controller's and the other way round (section 3).

`TickProofs`, in the same generality:

* `TicksBounded`: `TickShortens`, for any set of events.  `Section` orders the
  parts of a tick, `Body` the calls for one vacuum; a step goes to a later
  section, a later vacuum, a later call or a later attempt.  It needs `PhaseInv`
  for the bounds of the loop index and the retry counter.
* `StatusFollowsAlarm`: `StatusFollows`, for any set of events.  Inductive is
  `FollowInv`, which says the same of every location after the alarm of a poll is
  stored (`Settled`).
* `RecordActedOn`: `ActsOnRecord`, for any set of events.  `RecordInv`: from the
  vacuum whose turn it is onwards the snapshot is the record, since a vacuum's
  record is written last of all that is done about it; and the location tells
  which entry of the snapshot led to it.  With operators it is false, and the
  property says so by its premise.
* `NoRunForgotten`: `NothingLeftRunning`, the property `lost_claim` refutes, holds
  when the process is neither killed nor told to stop, no reply is lost, robots
  begin to clean at once and no operator interferes, whether or not saves succeed.
  None of these conditions can be dropped: `lost_claim` and the variants in section
  3 break it with each of the others alone.  The invariant `KeepsTrack` says of every
  location that a run of ours is on record or about to be.

`StartupProofs` (any environments, device lists and sessions that satisfy
`StartupAssumption`):

* `KeysKeptApart`: `KeysTellRobotsApart`.  The vacuums of a running process are
  those of the environment with the list of the moment they were built; only a
  Xiaomi vacuum has no host (`HostlessIsXiaomi`), it takes the DID of its device,
  and a DID is nobody's host or name unless it is that device's own.
* `OneSessionHeld`: `RunsOnOneSession`, and `StartupTyped`.  The invariant follows
  the credentials through the login: what is in the cache, or in the environment,
  is what the process holds when it lists its devices, and a mixed pair works for
  no list.
* `StartsBounded`: `StartsShorten`, from the types alone.
* `NamedRobotsFound`: `ConfiguredRobotsFound`, the property `host_only` refutes,
  holds in every environment whose Roborock entries give a name or a DUID that is
  no robot's address, for an account whose names and DUIDs are unique.  So an
  entry with nothing but an address is the only one the code gets wrong, unless
  names are ambiguous or look like addresses.  The invariant `SelectorsKept` ties the robot of a vacuum to the selector of its
  entry.

`MiioProofs` (any number of callers and restarts): `OwnAnswers`.  The code
compares no IDs; the answer is the right one because of what the socket may
hold.  The invariant says so: nothing when a call is about to send, and one
datagram of this exchange at most while it waits.  It holds because every
failure that may leave an answer behind closes the socket, and because a client
that is `handshook` has an empty one.  `MiioTyped` follows from the same
invariant.  `CallsBounded`: `CallsShorten`; besides it, that whoever holds the
mutex has something to call (`HolderAsks`); `Place` measures what
is left of it, the second attempt included.

`SessionProofs` (any configured installation, any set of events): `NoNeedlessSMS`
and `SessionTyped`.  The invariant: a client that is not authenticated holds no
good session (but between an accepted code and the trust request), the file never
knows better than the process, and a login only gets as far as the SMS when the
trust token is no good.  `CodesReachTheirServer`: `CodeGoesToItsServer`, with
`FlowInv`, that a pending flow has had its SMS sent: the server is the one the
flow remembers, not the one the client prefers by now.  `CallsBounded`:
`CallsShorten`, with `CallLeft`, which counts the logins a call may still make and
the steps up to the next of them.

`AppProofs` (any number of callers, any interval, any list of backoffs):
`TurnsKeptApart` and `AppTyped`.  The invariant: whoever waits holds the mutex,
and what is left of its timer covers what is missing of the interval.
`HelpersKeptApart`: `HelpersApart`; `HelperInv` adds that a helper's time and the
time since the last turn do not exceed its timeout together, hence
`AtMostTwoHelpers`: although commands overlap (`serialized`), no three do when the
helper is given less than two intervals, as it is by default.
`OperationsBounded`: `OperationsShorten`, with `ReadInv`, that a caller that reads
or is idle has no command left.

Only model-checked: liveness, which is out of the prover's reach.  Every
invariant and every action property of a passing run is a theorem.  Of the four
runs that expect a violation, two have a theorem that says when the sentence is
true; the other two, `giid` and `serialized`, are refuted by the code as it runs by
default.

## 5. Plan

1. An abstract robot call (it has its effect and returns, or returns an error with
   or without the effect) that `MiioClient` implements, since that is what
   `Household` assumes of one.  The requests of a closed socket have to stay on
   their way for it, so that the robot may obey one late.  Then the same for
   `AppCloud`.
2. `StaysTracked` with operators: which orders of a handler and the controller keep
   the record, as a condition on the two locations instead of `Requests = {}`.
3. `Backoff`: `backoffDuration` and the poll interval as operators over bounded
   inputs (the cap, the overflow guard, intervals above five minutes).
4. `MiioClient` with duplicated datagrams; two requests in `Service`.

## 6. Not modelled

* `CloudClient.RPC`: it changes a counter of message IDs, and its outcomes are
  those of a robot call in `Household`; signing and encryption are computation.
* The settings of `config.go` other than the vacuums and `ROBOROCK_CONTROL`: they
  are read once and handed on.  `/healthz`, the pages and the JSON of the replies:
  they only read.
* Durations in the core: the failure counter and the backoffs change how long a
  poll waits, and a wait may last any time in `Service`.
* A failure to read the state file, which ends the process at once, and the
  listener of the HTTP server.
* The Python helper, which keeps nothing but a cached login and is one process
  per call (how it selects a device is `select_device` of `Config`); `cmd/fetch-tokens` with `roborock/cloud.go` and `cmd/probe`, sequential
  tools the service does not run; packet encoding, JSON, logging, `install.sh` and
  the container files.
* The data races on `lastAlarm` and `loginBase` (controller.go:169,
  verisure/client.go:143): the values that are read are only shown or only choose
  between equal cookies.
