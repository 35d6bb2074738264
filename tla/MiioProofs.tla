------------------------------ MODULE MiioProofs ------------------------------
(***************************************************************************)
(* Why comparing no IDs is harmless: whenever a call is about to send a    *)
(* request, the socket holds nothing, and while it waits for the answer    *)
(* the socket holds at most the request or its answer.                     *)
(***************************************************************************)
EXTENDS MiioClient, TLAPS

Held == pc # "free" <=> holder \in Callers

Quiet == requests = {} /\ replies = {}

\* One datagram of the current exchange is on its way, or it has been lost.
OneExchange ==
    \/ Quiet
    \/ replies = {} /\ \E q \in Requests : q.own /\ requests = {q}
    \/ requests = {} /\ \E r \in Replies : r.own /\ replies = {r}

Exchanges ==
    /\ pc \in {"send", "recv"} => handshook
    /\ pc \in {"free", "send"} /\ handshook => Quiet
    /\ pc \in {"hello", "recv"} => OneExchange

MiioInv == MiioTypeOK /\ Held /\ Exchanges /\ AnswersOwnRequest

-----------------------------------------------------------------------------
\* A call that ends without a foreign answer leaves every caller's record in
\* order.
LEMMA ReturnKeeps ==
    ASSUME MiioInv, pc # "free", NEW how \in {"own", "error"}, Return(how)
    PROVE  /\ pc' = "free" /\ holder' = NoCaller /\ attempt' \in 1 .. 2
           /\ task' \in [Callers -> Methods \cup {"none"}]
           /\ outcome' \in [Callers -> {"none", "own", "other", "error"}]
           /\ AnswersOwnRequest'
BY DEF MiioInv, MiioTypeOK, Held, Return, Methods, AnswersOwnRequest

\* So does a call that is tried again or gives up.
LEMMA RetryKeeps ==
    ASSUME MiioInv, pc # "free", Retry
    PROVE  /\ \/ pc' = "handshake" /\ holder' = holder
              \/ pc' = "free" /\ holder' = NoCaller /\ attempt = 2
           /\ attempt' \in 1 .. 2
           /\ task' \in [Callers -> Methods \cup {"none"}]
           /\ outcome' \in [Callers -> {"none", "own", "other", "error"}]
           /\ AnswersOwnRequest'
<1>1. CASE attempt = 1
  BY <1>1 DEF MiioInv, MiioTypeOK, Retry, AnswersOwnRequest
<1>2. CASE attempt # 1
  <2>1. attempt = 2 /\ Return("error")
    BY <1>2 DEF MiioInv, MiioTypeOK, Retry
  <2> QED
    BY <2>1, ReturnKeeps
<1> QED
  BY <1>1, <1>2

LEMMA InitKeeps == MiioInit => MiioInv
<1> SUFFICES ASSUME MiioInit PROVE MiioInv
  OBVIOUS
<1>1. task \in [Callers -> Methods \cup {"none"}]
  BY DEF MiioInit
<1>2. outcome \in [Callers -> {"none", "own", "other", "error"}] /\ AnswersOwnRequest
  BY DEF MiioInit, AnswersOwnRequest
<1>3. reboots \in 0 .. MaxReboots
  BY MiioAssumption DEF MiioInit
<1>4. MiioTypeOK
  <2>1. attempt \in 1 .. 2
    BY DEF MiioInit
  <2>2. requests \subseteq Requests /\ replies \subseteq Replies
    BY DEF MiioInit
  <2> QED
    BY <1>1, <1>2, <1>3, <2>1, <2>2 DEF MiioInit, MiioTypeOK
<1>5. Held /\ Exchanges
  BY CallersAssumption DEF MiioInit, Held, Exchanges, Quiet
<1> QED
  BY <1>2, <1>4, <1>5 DEF MiioInv

-----------------------------------------------------------------------------
(* Taking a datagram from the buffer.                                      *)

\* Whoever reads a datagram finds the one of this exchange, and nothing after it.
LEMMA OnlyOwnIsRead ==
    ASSUME MiioInv, pc \in {"hello", "recv"}, NEW r \in replies
    PROVE  r.own /\ requests = {} /\ replies \ {r} = {}
BY DEF MiioInv, Exchanges, OneExchange, Quiet

LEMMA ReadHelloKeeps == MiioInv /\ ReadHello => MiioInv'
<1> SUFFICES ASSUME MiioInv, ReadHello PROVE MiioInv'
  OBVIOUS
<1> USE CallersAssumption
<1>1. PICK r \in replies :
         /\ replies' = replies \ {r}
         /\ \/ /\ r.kind = "hello"
               /\ handshook' = TRUE /\ synced' = r.clock /\ GoOn("send")
            \/ /\ r.kind # "hello"
               /\ Return("error") /\ UNCHANGED <<handshook, synced>>
  BY DEF ReadHello
<1>2. requests' = {} /\ replies' = {}
  BY <1>1, OnlyOwnIsRead DEF ReadHello
<1>3. r.clock \in BOOLEAN
  BY DEF MiioInv, MiioTypeOK, Replies
<1>4. CASE GoOn("send") /\ handshook' = TRUE /\ synced' = r.clock
  BY <1>2, <1>3, <1>4
     DEF MiioInv, MiioTypeOK, Held, Exchanges, Quiet, AnswersOwnRequest, ReadHello, GoOn
<1>5. CASE Return("error") /\ UNCHANGED <<handshook, synced>>
  BY <1>2, <1>5, ReturnKeeps
     DEF MiioInv, MiioTypeOK, Held, Exchanges, Quiet, ReadHello
<1> QED
  BY <1>1, <1>4, <1>5

LEMMA ReceiveKeeps == MiioInv /\ Receive => MiioInv'
<1> SUFFICES ASSUME MiioInv, Receive PROVE MiioInv'
  OBVIOUS
<1> USE CallersAssumption
<1>1. PICK r \in replies :
         /\ replies' = replies \ {r}
         /\ \/ /\ r.kind = "result" /\ Return(IF r.own THEN "own" ELSE "other")
               /\ synced' = r.clock /\ UNCHANGED handshook
            \/ /\ r.kind \in {"refusal", "hello"} /\ Return("error")
               /\ synced' = r.clock /\ UNCHANGED handshook
            \/ /\ r.kind = "magic" /\ Return("error")
               /\ UNCHANGED <<handshook, synced>>
            \/ /\ r.kind = "checksum" /\ Retry
               /\ handshook' = (handshook /\ attempt = 2) /\ UNCHANGED synced
  BY DEF Receive
<1>2. r.own /\ requests' = {} /\ replies' = {}
  BY <1>1, OnlyOwnIsRead DEF Receive
<1>3. synced' \in BOOLEAN
  BY <1>1 DEF MiioInv, MiioTypeOK, Replies
<1>4. ASSUME NEW how \in {"own", "error"}, Return(how), UNCHANGED handshook
      PROVE  MiioInv'
  BY <1>2, <1>3, <1>4, ReturnKeeps
     DEF MiioInv, MiioTypeOK, Held, Exchanges, Quiet, Receive
<1>5. CASE Retry /\ handshook' = (handshook /\ attempt = 2)
  <2>1. handshook' \in BOOLEAN
    BY <1>5 DEF MiioInv, MiioTypeOK
  <2> QED
    BY <1>2, <1>3, <1>5, <2>1, RetryKeeps
       DEF MiioInv, MiioTypeOK, Held, Exchanges, Quiet, Receive
<1> QED
  BY <1>1, <1>2, <1>4, <1>5

-----------------------------------------------------------------------------
(* The other socket operations of a call.                                  *)

LEMMA SendHelloKeeps == MiioInv /\ SendHello => MiioInv'
<1> SUFFICES ASSUME MiioInv, SendHello PROVE MiioInv'
  OBVIOUS
<1> USE CallersAssumption
<1> DEFINE hello == [kind |-> "hello", own |-> TRUE]
<1>1. hello \in Requests /\ hello.own /\ requests' = {hello} /\ replies' = {}
  BY DEF SendHello, Requests
<1>2. OneExchange'
  BY <1>1 DEF OneExchange
<1> QED
  BY <1>1, <1>2
     DEF SendHello, GoOn, MiioInv, MiioTypeOK, Held, Exchanges, AnswersOwnRequest

\* An operation that fails gives up the socket and everything in it.
LEMMA FailureKeeps ==
    ASSUME MiioInv, ReadHelloFails \/ ReceiveFails \/ SendHelloFails \/ SendFails
    PROVE  MiioInv'
<1> USE CallersAssumption
<1>1. closeConn /\ UNCHANGED <<synced, reboots>> /\ pc # "free"
  BY DEF ReadHelloFails, ReceiveFails, SendHelloFails, SendFails
<1>2. CASE Return("error")
  BY <1>1, <1>2, ReturnKeeps
     DEF closeConn, MiioInv, MiioTypeOK, Held, Exchanges, Quiet
<1>3. CASE Retry
  BY <1>1, <1>3, RetryKeeps
     DEF closeConn, MiioInv, MiioTypeOK, Held, Exchanges, Quiet
<1> QED
  BY <1>2, <1>3 DEF ReadHelloFails, ReceiveFails, SendHelloFails, SendFails

LEMMA SendKeeps == MiioInv /\ Send => MiioInv'
<1> SUFFICES ASSUME MiioInv, Send PROVE MiioInv'
  OBVIOUS
<1> USE CallersAssumption
<1> DEFINE rpc == [kind |-> "rpc", own |-> TRUE]
<1>1. Quiet /\ handshook
  BY DEF Send, MiioInv, Exchanges
<1>2. rpc \in Requests /\ rpc.own /\ requests' = {rpc} /\ replies' = {}
  BY <1>1 DEF Send, Write, Disown, Quiet, Requests
<1>3. OneExchange'
  BY <1>2 DEF OneExchange
<1> QED
  BY <1>1, <1>2, <1>3
     DEF Send, Write, GoOn, MiioInv, MiioTypeOK, Held, Exchanges, AnswersOwnRequest

-----------------------------------------------------------------------------
(* What happens without the client.                                        *)

LEMMA AnswerKeeps == MiioInv /\ Answer => MiioInv'
<1> SUFFICES ASSUME MiioInv, NEW kind \in Answers \cup Damaged, AnswerWith(kind)
             PROVE  MiioInv'
  BY DEF Answer
<1>1. PICK q \in requests :
         /\ requests' = requests \ {q}
         /\ replies' = replies \cup {[kind |-> kind, own |-> q.own, clock |-> TRUE]}
  BY DEF AnswerWith
<1> DEFINE reply == [kind |-> kind, own |-> q.own, clock |-> TRUE]
<1>2. q \in Requests /\ q.own \in BOOLEAN /\ reply \in Replies /\ reply.own = q.own
  BY DEF MiioInv, MiioTypeOK, Requests, Replies
<1>3. MiioTypeOK' /\ Held' /\ AnswersOwnRequest'
  BY <1>1, <1>2
     DEF AnswerWith, callVars, MiioInv, MiioTypeOK, Held, AnswersOwnRequest
<1>4. ASSUME OneExchange PROVE OneExchange'
  <2>1. q.own /\ requests = {q} /\ replies = {}
    BY <1>4 DEF OneExchange, Quiet
  <2>2. requests' = {} /\ replies' = {reply}
    BY <1>1, <2>1
  <2> QED
    BY <1>2, <2>1, <2>2 DEF OneExchange
<1>5. ~Quiet
  BY <1>1 DEF Quiet
<1> QED
  BY <1>3, <1>4, <1>5 DEF AnswerWith, callVars, MiioInv, Exchanges

LEMMA RebootKeeps == MiioInv /\ Reboot => MiioInv'
<1> SUFFICES ASSUME MiioInv, Reboot PROVE MiioInv'
  OBVIOUS
<1>1. \A r \in replies : /\ [r EXCEPT !.clock = FALSE] \in Replies
                         /\ [r EXCEPT !.clock = FALSE].own = r.own
  BY DEF MiioInv, MiioTypeOK, Replies
<1>2. replies' \subseteq Replies /\ reboots' \in 0 .. MaxReboots
  BY <1>1, MiioAssumption DEF Reboot, MiioInv, MiioTypeOK
<1>3. MiioTypeOK' /\ Held' /\ AnswersOwnRequest'
  BY <1>2 DEF Reboot, callVars, MiioInv, MiioTypeOK, Held, AnswersOwnRequest
<1>4. Quiet => Quiet'
  BY DEF Quiet, Reboot
<1>5. OneExchange => OneExchange'
  <2>1. ASSUME NEW r \in Replies, r.own, replies = {r}
        PROVE  OneExchange'
    <3>1. requests' = {} /\ replies' = {[r EXCEPT !.clock = FALSE]}
      BY <2>1 DEF Reboot
    <3> QED
      BY <1>1, <2>1, <3>1 DEF OneExchange, Replies
  <2>2. CASE replies = {}
    BY <2>2 DEF Reboot, OneExchange, Quiet
  <2> QED
    BY <2>1, <2>2 DEF OneExchange, Quiet
<1> QED
  BY <1>3, <1>4, <1>5 DEF Reboot, callVars, MiioInv, Exchanges

\* Callers that ask or wait, and a socket that goes deaf, move no datagram.
LEMMA OthersKeep ==
    ASSUME MiioInv,
           (\E c \in Callers : Ask(c) \/ Lock(c)) \/ Unreachable \/ UNCHANGED miioVars
    PROVE  MiioInv'
<1> USE CallersAssumption DEF MiioInv, MiioTypeOK, Held, AnswersOwnRequest
<1>1. ASSUME NEW c \in Callers, Ask(c) PROVE MiioInv'
  BY <1>1 DEF Ask, socketVars, Exchanges, OneExchange, Quiet
<1>2. ASSUME NEW c \in Callers, Lock(c) PROVE MiioInv'
  BY <1>2 DEF Lock, socketVars, Exchanges, OneExchange, Quiet
<1>3. CASE Unreachable
  BY <1>3 DEF Unreachable, callVars, Exchanges, OneExchange, Quiet
<1>4. CASE UNCHANGED miioVars
  BY <1>4 DEF miioVars, socketVars, callVars, Exchanges, OneExchange, Quiet
<1> QED
  BY <1>1, <1>2, <1>3, <1>4

LEMMA NextKeeps == MiioInv /\ [MiioNext]_miioVars => MiioInv'
BY ReadHelloKeeps, ReceiveKeeps, SendHelloKeeps, FailureKeeps, SendKeeps,
   AnswerKeeps, RebootKeeps, OthersKeep
   DEF MiioNext, CallStep

-----------------------------------------------------------------------------
LEMMA MiioInvHolds == MiioSpec => []MiioInv
BY InitKeeps, NextKeeps, PTL DEF MiioSpec

\* Every variable keeps its type: no call makes a third attempt and no mutex gets
\* another holder than a caller, for any number of callers (client.go:238-264).
THEOREM MiioTyped == MiioSpec => []MiioTypeOK
<1>1. MiioInv => MiioTypeOK
  BY DEF MiioInv
<1> QED
  BY MiioInvHolds, <1>1, PTL

\* For any number of callers and restarts, and whatever the network does to the
\* datagrams, a call that succeeds returns the answer to its own request
\* (client.go:80-98, 328-354).
THEOREM OwnAnswers == MiioSpec => [](MiioTypeOK /\ AnswersOwnRequest)
<1>1. MiioInv => MiioTypeOK /\ AnswersOwnRequest
  BY DEF MiioInv
<1> QED
  BY MiioInvHolds, <1>1, PTL

-----------------------------------------------------------------------------
(* The length of an operation.                                             *)

\* What a step leaves of the callers it is not about.
LEMMA OthersStay ==
    ASSUME MiioInv, holder \in Callers, NEW c \in Callers, c # holder,
           \/ UNCHANGED <<task, holder>>
           \/ \E how \in {"own", "other", "error"} : Return(how)
    PROVE  task'[c] = task[c] /\ Place(c)' = Place(c)
BY CallersAssumption DEF Return, Place, MiioInv, MiioTypeOK

\* A method that has returned is not called again.
LEMMA ReturnShortens ==
    ASSUME MiioInv, holder \in Callers, task[holder] # "none",
           NEW how \in {"own", "other", "error"}, Return(how)
    PROVE  Shortens(holder)
BY DEF Return, Shortens, MethodsLeft, MiioInv, MiioTypeOK, Methods

LEMMA RetryShortens ==
    ASSUME MiioInv, holder \in Callers, task[holder] # "none", pc \in {"send", "recv"}, Retry
    PROVE  Shortens(holder)
<1>1. CASE attempt = 1
  BY <1>1 DEF Retry, Shortens, Place
<1>2. CASE attempt # 1
  BY <1>2, ReturnShortens DEF Retry
<1> QED
  BY <1>1, <1>2

LEMMA GoOnShortens ==
    ASSUME MiioInv, holder \in Callers, NEW location, GoOn(location),
           \/ pc = "handshake" /\ location = "hello"
           \/ pc = "hello" /\ location = "send"
           \/ pc = "send" /\ location = "recv"
    PROVE  Shortens(holder)
BY DEF GoOn, Shortens, Place, MiioInv, MiioTypeOK

\* How a step of a call ends it or lets it go on.
LEMMA StepOutcome ==
    ASSUME MiioInv, CallStep
    PROVE  /\ holder \in Callers
           /\ \/ \E how \in {"own", "other", "error"} : Return(how)
              \/ pc \in {"send", "recv"} /\ Retry
              \/ pc = "handshake" /\ GoOn("hello")
              \/ pc = "hello" /\ GoOn("send")
              \/ pc = "send" /\ GoOn("recv")
<1>1. pc # "free"
  BY DEF CallStep, SendHello, SendHelloFails, ReadHello, ReadHelloFails, Send, SendFails,
         Receive, ReceiveFails
<1>2. holder \in Callers
  BY <1>1 DEF MiioInv, Held
<1> QED
  BY <1>2 DEF CallStep, SendHello, SendHelloFails, ReadHello, ReadHelloFails, Send, SendFails,
         Receive, ReceiveFails

\* Whoever holds the mutex has something to call.
HolderAsks == holder \in Callers => task[holder] # "none"

LEMMA HolderStep == MiioInv /\ HolderAsks /\ [MiioNext]_miioVars => HolderAsks'
<1> SUFFICES ASSUME MiioInv, HolderAsks, [MiioNext]_miioVars PROVE HolderAsks'
  OBVIOUS
<1>1. CASE CallStep
  BY <1>1, StepOutcome, CallersAssumption DEF HolderAsks, Return, Retry, GoOn
<1>2. ASSUME NEW c \in Callers, Ask(c) PROVE HolderAsks'
  BY <1>2 DEF Ask, HolderAsks, Methods, MiioInv, MiioTypeOK
<1>3. ASSUME NEW c \in Callers, Lock(c) PROVE HolderAsks'
  BY <1>3 DEF Lock, HolderAsks
<1>4. CASE Answer \/ Unreachable \/ Reboot \/ UNCHANGED miioVars
  BY <1>4 DEF Answer, AnswerWith, Unreachable, Reboot, miioVars, callVars, HolderAsks
<1> QED
  BY <1>1, <1>2, <1>3, <1>4 DEF MiioNext

\* For any number of callers and restarts, every operation comes to its end in
\* a bounded number of steps of its own, whatever the robot and the other callers
\* do meanwhile (client.go:181-264, 300-354).
THEOREM CallsBounded == MiioSpec => CallsShorten
<1>1. ASSUME MiioInv, HolderAsks, [MiioNext]_miioVars, NEW c \in Callers, task[c] # "none"
      PROVE  \/ Shortens(c)
             \/ /\ ~(holder = c /\ CallStep)
                /\ task'[c] = task[c] /\ Place(c)' = Place(c)
  <2>1. CASE CallStep /\ holder = c
    BY <1>1, <2>1, StepOutcome, ReturnShortens, RetryShortens, GoOnShortens
  <2>2. CASE CallStep /\ holder # c
    <3>1. \/ UNCHANGED <<task, holder>>
          \/ \E how \in {"own", "other", "error"} : Return(how)
      BY <1>1, <2>2, StepOutcome DEF Retry, GoOn
    <3> QED
      BY <1>1, <2>2, <3>1, StepOutcome, OthersStay
  <2>3. CASE Lock(c)
    BY <1>1, <2>3, CallersAssumption DEF Lock, Shortens, Place, MiioInv, MiioTypeOK
  <2>4. ASSUME NEW d \in Callers, d # c, Lock(d), ~CallStep
        PROVE  task'[c] = task[c] /\ Place(c)' = Place(c)
    BY <1>1, <2>4, CallersAssumption DEF Lock, Place
  <2>5. ASSUME NEW d \in Callers, Ask(d), ~CallStep
        PROVE  task'[c] = task[c] /\ Place(c)' = Place(c)
    <3>1. task'[c] = task[c] /\ UNCHANGED <<holder, pc, attempt>>
      BY <1>1, <2>5 DEF Ask, MiioInv, MiioTypeOK
    <3> QED
      BY <3>1 DEF Place
  <2>6. CASE ~CallStep /\ (Answer \/ Unreachable \/ Reboot \/ UNCHANGED miioVars)
    <3>1. UNCHANGED <<task, holder, pc, attempt>>
      BY <2>6 DEF Answer, AnswerWith, Unreachable, Reboot, miioVars, callVars
    <3> QED
      BY <2>6, <3>1 DEF Place
  <2> QED
    BY <1>1, <2>1, <2>2, <2>3, <2>4, <2>5, <2>6 DEF MiioNext
<1>2. MiioInv /\ HolderAsks /\ [MiioNext]_miioVars =>
        [\A c \in Callers : task[c] # "none" =>
           \/ Shortens(c)
           \/ /\ ~(holder = c /\ CallStep)
              /\ task'[c] = task[c] /\ Place(c)' = Place(c)]_miioVars
  BY <1>1
<1>3. MiioInit => HolderAsks
  BY CallersAssumption DEF MiioInit, HolderAsks
<1>4. MiioSpec => []HolderAsks
  BY <1>3, HolderStep, MiioInvHolds, PTL DEF MiioSpec
<1> QED
  BY <1>2, <1>4, MiioInvHolds, PTL DEF MiioSpec, CallsShorten
===============================================================================
