------------------------------ MODULE MiioClient ------------------------------
(***************************************************************************)
(* Client of internal/roborock/client.go: JSON-RPC calls to one robot over *)
(* a connected UDP socket, with a handshake that learns the robot's clock  *)
(* and one retry after a failure of the protocol.                          *)
(*                                                                         *)
(* A call holds Client.mu from beginning to end, so pc and attempt belong  *)
(* to its holder.  One step is one write to or read from the socket.  What *)
(* a closed socket still receives is gone with it: that the robot may obey *)
(* a command whose answer nobody reads is the event lost_reply of Service. *)
(***************************************************************************)
EXTENDS Naturals

CONSTANTS
    Callers,        \* goroutines that use the client
    Regulars,       \* those that keep calling, and whose calls are answered at
                    \* last: only the fairness of FairMiio speaks of them
    MaxReboots,     \* bound on the restarts of the robot
    NetworkEvents   \* what may go wrong: see below

(***************************************************************************)
(*   unreachable  an ICMP error makes every later read of the socket fail  *)
(*   garble       an answer arrives damaged                                *)
(*   unwritable   a dial or a write fails                                  *)
(***************************************************************************)
ASSUME MiioAssumption ==
    /\ MaxReboots \in Nat
    /\ NetworkEvents \subseteq {"unreachable", "garble", "unwritable"}

NoCaller == "nobody"

ASSUME CallersAssumption == NoCaller \notin Callers /\ Regulars \subseteq Callers

VARIABLES
    conn,        \* Client.conn # nil
    handshook,   \* Client.handshook
    task,        \* per caller, the method it calls or waits to call
    outcome,     \* per caller, how its last operation ended
    holder,      \* who holds Client.mu
    pc,          \* next socket operation of the holder
    attempt,     \* first or second callLocked of the call
    deaf,        \* reads of the socket fail
    synced,      \* Client.stamp agrees with the robot's clock
    requests,    \* datagrams from the socket the robot has not answered
    replies,     \* datagrams in the socket's receive buffer
    reboots      \* number of restarts of the robot

socketVars == <<conn, deaf, requests, replies>>
callVars   == <<task, outcome, holder, pc, attempt>>
miioVars   == <<socketVars, handshook, synced, callVars, reboots>>

Methods == {"get_status", "app_resume", "app_start"}
Answers == {"result", "refusal", "hello"}
\* A damaged answer either names the protocol in its error (checksum, frame,
\* decrypt) or does not (bad magic, JSON).
Damaged == {"checksum", "magic"}

\* own: the datagram belongs to the request sent last.  clock: the robot has not
\* restarted since it answered.
Requests == [kind : {"hello", "rpc"}, own : BOOLEAN]
Replies  == [kind : Answers \cup Damaged, own : BOOLEAN, clock : BOOLEAN]

MiioTypeOK ==
    /\ conn \in BOOLEAN /\ deaf \in BOOLEAN
    /\ handshook \in BOOLEAN /\ synced \in BOOLEAN
    /\ task \in [Callers -> Methods \cup {"none"}]
    /\ outcome \in [Callers -> {"none", "own", "other", "error"}]
    /\ holder \in Callers \cup {NoCaller}
    /\ pc \in {"free", "handshake", "hello", "send", "recv"}
    /\ attempt \in 1 .. 2
    /\ requests \subseteq Requests /\ replies \subseteq Replies
    /\ reboots \in 0 .. MaxReboots

MiioInit ==
    /\ conn = FALSE /\ deaf = FALSE /\ requests = {} /\ replies = {}
    /\ handshook = FALSE /\ synced = FALSE
    /\ task = [c \in Callers |-> "none"] /\ outcome = [c \in Callers |-> "none"]
    /\ holder = NoCaller /\ pc = "free" /\ attempt = 1
    /\ reboots = 0

-----------------------------------------------------------------------------
(* The socket                                                              *)

closeConn ==
    /\ conn' = FALSE /\ deaf' = FALSE /\ requests' = {} /\ replies' = {}
    /\ handshook' = FALSE

Disown(datagrams) == {[d EXCEPT !.own = FALSE] : d \in datagrams}

Write(kind) ==
    /\ conn' = TRUE
    /\ requests' = Disown(requests) \cup {[kind |-> kind, own |-> TRUE]}
    /\ replies' = Disown(replies)

-----------------------------------------------------------------------------
(* A call                                                                  *)

\* StartOrResume of a paused robot calls app_resume first.
Ask(c) ==
    /\ task[c] = "none"
    /\ \E m \in Methods : task' = [task EXCEPT ![c] = m]
    /\ outcome' = [outcome EXCEPT ![c] = "none"]
    /\ UNCHANGED <<socketVars, handshook, synced, holder, pc, attempt, reboots>>

Lock(c) ==
    /\ holder = NoCaller /\ task[c] # "none"
    /\ holder' = c /\ attempt' = 1
    /\ pc' = IF handshook THEN "send" ELSE "handshake"
    /\ UNCHANGED <<socketVars, handshook, synced, task, outcome, reboots>>

\* A failed app_resume is followed by app_start, with the mutex free in between.
Return(how) ==
    /\ holder' = NoCaller /\ pc' = "free" /\ attempt' = 1
    /\ IF how = "error" /\ task[holder] = "app_resume"
         THEN task' = [task EXCEPT ![holder] = "app_start"] /\ UNCHANGED outcome
         ELSE /\ task' = [task EXCEPT ![holder] = "none"]
              /\ outcome' = [outcome EXCEPT ![holder] = how]

GoOn(location) == pc' = location /\ UNCHANGED <<task, outcome, holder, attempt>>

\* A handshake starts on a new socket, whatever the old one was worth.
SendHello ==
    /\ pc = "handshake"
    /\ conn' = TRUE /\ deaf' = FALSE /\ handshook' = FALSE
    /\ requests' = {[kind |-> "hello", own |-> TRUE]} /\ replies' = {}
    /\ GoOn("hello")
    /\ UNCHANGED <<synced, reboots>>

SendHelloFails ==
    /\ pc = "handshake" /\ "unwritable" \in NetworkEvents
    /\ closeConn /\ Return("error")
    /\ UNCHANGED <<synced, reboots>>

\* A damaged answer leaves the socket open, but not handshook.
ReadHello ==
    /\ pc = "hello" /\ ~deaf
    /\ \E r \in replies :
        /\ replies' = replies \ {r}
        /\ \/ /\ r.kind = "hello"
              /\ handshook' = TRUE /\ synced' = r.clock /\ GoOn("send")
           \/ /\ r.kind # "hello"
              /\ Return("error") /\ UNCHANGED <<handshook, synced>>
    /\ UNCHANGED <<conn, deaf, requests, reboots>>

ReadHelloFails ==
    /\ pc = "hello"
    /\ closeConn /\ Return("error")
    /\ UNCHANGED <<synced, reboots>>

Send ==
    /\ pc = "send"
    /\ Write("rpc") /\ GoOn("recv")
    /\ UNCHANGED <<deaf, handshook, synced, reboots>>

\* Mutant: one attempt too many.
RetryOnceMoreMutant ==
    IF attempt <= 2
      THEN pc' = "handshake" /\ attempt' = attempt + 1 /\ UNCHANGED <<task, outcome, holder>>
      ELSE Return("error")

\* Mutant: the second attempt is not the last.
RetryMutant ==
    pc' = "handshake" /\ attempt' = 2 /\ UNCHANGED <<task, outcome, holder>>

\* A failure of the protocol is followed by a handshake and one more attempt.
Retry ==
    IF attempt = 1
      THEN pc' = "handshake" /\ attempt' = 2 /\ UNCHANGED <<task, outcome, holder>>
      ELSE Return("error")

SendFails ==
    /\ pc = "send" /\ (deaf \/ "unwritable" \in NetworkEvents)
    /\ closeConn /\ Retry
    /\ UNCHANGED <<synced, reboots>>

\* The ID of the answer is not compared with the ID of the request.  An answer
\* that passes the checksum renews the stamp, even if it is no good otherwise.
Receive ==
    /\ pc = "recv" /\ ~deaf
    /\ \E r \in replies :
        /\ replies' = replies \ {r}
        /\ \/ /\ r.kind = "result" /\ Return(IF r.own THEN "own" ELSE "other")
              /\ synced' = r.clock /\ UNCHANGED handshook
           \/ /\ r.kind \in {"refusal", "hello"} /\ Return("error")
              /\ synced' = r.clock /\ UNCHANGED handshook
           \/ /\ r.kind = "magic" /\ Return("error")
              /\ UNCHANGED <<handshook, synced>>
           \/ /\ r.kind = "checksum" /\ Retry
              /\ handshook' = (handshook /\ attempt = 2) /\ UNCHANGED synced
    /\ UNCHANGED <<conn, deaf, requests, reboots>>

\* Mutant: the socket is kept.
ReceiveFailsKeepsMutant ==
    /\ pc = "recv"
    /\ Retry
    /\ UNCHANGED <<socketVars, handshook, synced, reboots>>

\* Mutant: a failed read is taken for an error of the robot.
ReceiveFailsQuietMutant ==
    /\ pc = "recv"
    /\ Return("error")
    /\ UNCHANGED <<socketVars, handshook, synced, reboots>>

\* The deadline passes, or the socket is deaf.
ReceiveFails ==
    /\ pc = "recv"
    /\ closeConn /\ Retry
    /\ UNCHANGED <<synced, reboots>>

-----------------------------------------------------------------------------
(* The robot and the network                                               *)

\* A request that carries another clock than the robot's is not answered.
AnswerWith(kind) ==
    /\ \E q \in requests :
        /\ kind \notin Damaged => (kind = "hello") = (q.kind = "hello")
        /\ q.kind = "rpc" => synced
        /\ requests' = requests \ {q}
        /\ replies' = replies \cup {[kind |-> kind, own |-> q.own, clock |-> TRUE]}
    /\ UNCHANGED <<conn, deaf, handshook, synced, callVars, reboots>>

Answer ==
    \E kind \in Answers \cup Damaged :
        /\ kind \in Damaged => "garble" \in NetworkEvents
        /\ AnswerWith(kind)

Unreachable ==
    /\ "unreachable" \in NetworkEvents
    /\ conn /\ deaf' = TRUE
    /\ UNCHANGED <<conn, requests, replies, handshook, synced, callVars, reboots>>

Reboot ==
    /\ reboots < MaxReboots /\ reboots' = reboots + 1
    /\ synced' = FALSE /\ requests' = {}
    /\ replies' = {[r EXCEPT !.clock = FALSE] : r \in replies}
    /\ UNCHANGED <<conn, deaf, handshook, callVars>>

CallStep ==
    \/ SendHello \/ SendHelloFails \/ ReadHello \/ ReadHelloFails
    \/ Send \/ SendFails \/ Receive \/ ReceiveFails

MiioNext ==
    \/ \E c \in Callers : Ask(c) \/ Lock(c)
    \/ CallStep
    \/ Answer \/ Unreachable \/ Reboot

MiioSpec == MiioInit /\ [][MiioNext]_miioVars

\* Reads have deadlines and the mutex is fair; the robot may be silent.
PatientMiio ==
    /\ MiioSpec
    /\ WF_miioVars(CallStep)
    /\ \A c \in Callers : SF_miioVars(Lock(c))

\* A caller asks again, and what its calls wait for comes in time at last.
Heard(c) ==
    /\ WF_miioVars(Ask(c))
    /\ SF_miioVars(holder = c /\ SendHello)
    /\ SF_miioVars(holder = c /\ ~deaf /\ AnswerWith("hello"))
    /\ SF_miioVars(holder = c /\ ReadHello /\ handshook')
    /\ SF_miioVars(holder = c /\ ~deaf /\ Send)
    /\ SF_miioVars(holder = c /\ ~deaf /\ AnswerWith("result"))
    /\ SF_miioVars(holder = c /\ Receive /\ outcome'[c] = "own")

FairMiio == PatientMiio /\ \A c \in Regulars : Heard(c)

-----------------------------------------------------------------------------
\* A call that succeeds returns the answer to its own request, though answers
\* come late, IDs are not compared and callers share the socket: every failure
\* that may leave an answer behind gives up the socket (client.go:80-98, 328-354).
AnswersOwnRequest == \A c \in Callers : outcome[c] # "other"

\* Methods an operation still has to call, and steps a call still has to take.
MethodsLeft(method) ==
    CASE method = "app_resume" -> 2 [] method = "none" -> 0 [] OTHER -> 1

Place(c) ==
    IF holder # c THEN 9
    ELSE LET stage == CASE pc = "handshake" -> 4 [] pc = "hello" -> 3
                        [] pc = "send" -> 2 [] pc = "recv" -> 1 [] OTHER -> 0
         IN IF attempt = 1 THEN 4 + stage ELSE stage

Shortens(c) ==
    \/ MethodsLeft(task'[c]) < MethodsLeft(task[c])
    \/ task'[c] = task[c] /\ Place(c)' < Place(c)

\* Every step of a call brings it closer to its end, and no answer, restart or
\* other caller throws it back: an operation takes at most eighteen steps, four
\* handshakes among them (client.go:181-264, 300-354).
CallsShorten ==
    [][\A c \in Callers : task[c] # "none" =>
          \/ Shortens(c)
          \/ /\ ~(holder = c /\ CallStep)
             /\ task'[c] = task[c] /\ Place(c)' = Place(c)]_miioVars

\* However the robot and the network behave, every caller gets an answer or an
\* error: the retry is made once and the mutex is released (client.go:238-264).
CallsReturn == \A c \in Callers : task[c] # "none" ~> task[c] = "none"

\* A robot that restarted, or a socket that went deaf, silences no caller for
\* good ("We must discard it and re-dial to recover", client.go:80-85).
RobotHeard == \A c \in Regulars : []<>(outcome[c] = "own")
=============================================================================
