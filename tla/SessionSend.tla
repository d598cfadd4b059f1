---------------------------- MODULE SessionSend ----------------------------
(***************************************************************************)
(* The life of an API request in one MTProto session.                      *)
(*                                                                         *)
(* Instance (mtp_instance.cpp) numbers and stores requests in the main     *)
(* thread.  Session and SessionData (session.cpp) hold two maps shared     *)
(* with the network thread, each under its own mutex: toSend, by request   *)
(* id, and haveSent, by message id.  SessionPrivate (session_private.cpp)  *)
(* moves requests between them: it sends, resends, renumbers and drops     *)
(* them as the server answers.  A critical section of either mutex is one  *)
(* step; what lies between two of them may interleave with the other       *)
(* thread.  A request object is shared by both maps and by Instance, so    *)
(* its message id is read and written by both threads.                     *)
(***************************************************************************)
EXTENDS Integers, FiniteSets, Sequences

CONSTANTS
    Requests,       \* request ids, in the order Instance gives them out
    WithCallback,   \* those sent with a done or a fail handler
    Large,          \* those that reach kCutContainerOnSize on their own
    IdsBufferSize,  \* kIdsBufferSize, of the recently acked message ids
    Errors,         \* rpc_error answers of the server, by their handling
    BadMsgs,        \* bad_msg_notification answers, by their handling
    StartClock,     \* how far ahead of the server's the local clock starts
    MaxIds          \* bound on the message ids made with one clock setting

ErrorKind == {"fail", "delay", "now"}
BadMsgKind == {"resend", "reset", "fatal"}

ASSUME SessionSendAssumption ==
    /\ Requests \subseteq Nat \ {0} /\ IsFiniteSet(Requests)
    /\ WithCallback \subseteq Requests
    /\ Large \subseteq Requests
    /\ IdsBufferSize \in Nat
    /\ Errors \subseteq ErrorKind
    /\ BadMsgs \subseteq BadMsgKind
    /\ MaxIds \in Nat
    /\ StartClock \in Nat
    /\ StartClock = 0 \/ StartClock > MaxIds

VARIABLES
    \* Instance, main thread: _parserMap, _requestMap, _delayedRequests
    parser, stored, delayed, main,
    \* SessionData, shared: the two maps, the answers, and the request objects
    toSend, haveSent, received, request,
    \* a tryToSend() call is queued for the network thread
    queued,
    \* SessionPrivate, network thread
    connected, session, started, resendingIds, ackedIds, sentContainers,
    stateRequestData, stateRequests, checkTimer, io,
    \* base::unixtime, shared by all sessions
    clock,
    \* the messages of this session on their way to the server, those it has
    \* answered, and which message carried which request
    wire, replied, carried,
    \* requests ever sent, and those whose handler got a final answer
    used, answered

instance == <<parser, stored, delayed, main>>
data == <<toSend, haveSent, received, request>>
ids == <<resendingIds, ackedIds, sentContainers>>
checks == <<stateRequestData, stateRequests, checkTimer>>
server == <<wire, replied, carried>>
history == <<used, answered>>
vars == <<instance, data, queued, connected, session, started, ids, checks,
          io, clock, server, history>>

MsgIds == 1..(StartClock + MaxIds)

-----------------------------------------------------------------------------
(* base::flat_map: emplace keeps an entry that is already there.            *)

Values(map) == {map[m] : m \in DOMAIN map}

Without(map, S) == [m \in DOMAIN map \ S |-> map[m]]

Emplace(map, more) ==
    [m \in DOMAIN map \cup DOMAIN more |->
        IF m \in DOMAIN map THEN map[m] ELSE more[m]]

Only(map, S) == [m \in DOMAIN map \cap S |-> map[m]]

NoEntries == [m \in {} |-> 0]

-----------------------------------------------------------------------------
(* base::unixtime: message ids grow with the clock; a forced update puts    *)
(* the clock right, and from then on ids are smaller than those made before.*)

Ahead == StartClock > 0 /\ clock >= StartClock

Room(n) == clock + n <= (IF Ahead THEN StartClock ELSE 0) + MaxIds

CorrectedClock == IF Ahead THEN 0 ELSE clock

-----------------------------------------------------------------------------
(* The network thread is idle, holds a request between the two maps (one    *)
(* taken from toSend, or some taken from haveSent), or is between two steps *)
(* of a resend.                                                             *)

Idle == [pc |-> "idle", req |-> 0, held |-> NoEntries, todo |-> {},
         acks |-> {}, send |-> FALSE, forceNew |-> FALSE]

Resending(todo, acks, send) ==
    [Idle EXCEPT !.pc = "resend", !.todo = todo, !.acks = acks, !.send = send]

MainIdle == [pc |-> "idle", req |-> 0, id |-> 0]

Init ==
    /\ parser = {} /\ stored = {} /\ delayed = {} /\ main = MainIdle
    /\ toSend = {} /\ haveSent = NoEntries /\ received = <<>>
    /\ request = [r \in Requests |->
                    [msgId |-> 0, force |-> FALSE, session |-> 0]]
    /\ queued = FALSE /\ connected = FALSE /\ session = 1 /\ started = FALSE
    /\ resendingIds = NoEntries /\ ackedIds = NoEntries
    /\ sentContainers = NoEntries
    /\ stateRequestData = {} /\ stateRequests = NoEntries
    /\ checkTimer = FALSE
    /\ io = Idle
    /\ clock = StartClock
    /\ wire = {} /\ replied = {} /\ carried = {}
    /\ used = {} /\ answered = {}

-----------------------------------------------------------------------------
(* Main thread.                                                             *)

\* Session::sendPrepared: under the toSend mutex the request is added and
\* its message id cleared; then a send is queued.
SendPrepared(r) ==
    /\ toSend' = toSend \cup {r}
    /\ request' = [request EXCEPT ![r].msgId = 0]
    /\ queued' = TRUE

SendRequest(r) ==
    /\ main.pc = "idle" /\ r \notin used
    /\ used' = used \cup {r}
    /\ stored' = stored \cup {r}
    /\ parser' = parser \cup ({r} \cap WithCallback)
    /\ SendPrepared(r)
    /\ UNCHANGED <<delayed, main, haveSent, received, connected, session,
                   started, ids, checks, io, clock, server, answered>>

\* Instance::cancel reads the message id of the shared request, ...
CancelRequest(r) ==
    /\ main.pc = "idle" /\ r \in stored
    /\ stored' = stored \ {r}
    /\ main' = [pc |-> "cancelToSend", req |-> r, id |-> request[r].msgId]
    /\ UNCHANGED <<parser, delayed, data, queued, connected, session, started,
                   ids, checks, io, clock, server, history>>

\* ... Session::cancel removes the request from one map ...
CancelToSend ==
    /\ main.pc = "cancelToSend"
    /\ toSend' = toSend \ {main.req}
    /\ main' = [main EXCEPT !.pc = "cancelHaveSent"]
    /\ UNCHANGED <<parser, stored, delayed, haveSent, received, request,
                   queued, connected, session, started, ids, checks, io,
                   clock, server, history>>

\* ... and from the other by that message id, ...
CancelHaveSent ==
    /\ main.pc = "cancelHaveSent"
    /\ haveSent' = Without(haveSent, {main.id})
    /\ main' = [main EXCEPT !.pc = "cancelParser"]
    /\ UNCHANGED <<parser, stored, delayed, toSend, received, request,
                   queued, connected, session, started, ids, checks, io,
                   clock, server, history>>

\* ... and Instance::cancel drops the handlers last.
CancelParser ==
    /\ main.pc = "cancelParser"
    /\ parser' = parser \ {main.req}
    /\ main' = MainIdle
    /\ UNCHANGED <<stored, delayed, data, queued, connected, session, started,
                   ids, checks, io, clock, server, history>>

\* Instance::processCallback for the first answer Session::tryToReceive took.
\* The handler leaves _parserMap while it runs; an error of the default kind
\* is retried, at once or after a delay, and the handler is put back after.
ProcessCallback ==
    /\ main.pc = "idle" /\ received # <<>>
    /\ received' = Tail(received)
    /\ LET r == Head(received).req
           kind == Head(received).kind
       IN \/ /\ r \notin parser \/ kind \in {"done", "fail"}
             /\ parser' = parser \ {r}
             /\ stored' = stored \ {r}
             /\ answered' = answered \cup ({r} \cap parser)
             /\ UNCHANGED <<delayed, main, toSend, request, queued>>
          \/ /\ r \in parser /\ kind \in {"now", "delay"}
             /\ parser' = parser \ {r}
             /\ main' = [pc |-> "emplaceParser", req |-> r, id |-> 0]
             /\ IF kind = "now"
                THEN SendPrepared(r) /\ UNCHANGED delayed
                ELSE /\ delayed' = delayed \cup {r}
                     /\ UNCHANGED <<toSend, request, queued>>
             /\ UNCHANGED <<stored, answered>>
    /\ UNCHANGED <<haveSent, connected, session, started, ids, checks, io,
                   clock, server, used>>

EmplaceParser ==
    /\ main.pc = "emplaceParser"
    /\ parser' = parser \cup {main.req}
    /\ main' = MainIdle
    /\ UNCHANGED <<stored, delayed, data, queued, connected, session, started,
                   ids, checks, io, clock, server, history>>

\* Instance::checkDelayedRequests, for one request whose time has come.
CheckDelayedRequests(r) ==
    /\ main.pc = "idle" /\ r \in delayed
    /\ delayed' = delayed \ {r}
    /\ IF r \in stored THEN SendPrepared(r)
       ELSE UNCHANGED <<toSend, request, queued>>
    /\ UNCHANGED <<parser, stored, main, haveSent, received, connected,
                   session, started, ids, checks, io, clock, server, history>>

-----------------------------------------------------------------------------
(* Network thread: sending.                                                 *)

IoIdle == io.pc = "idle"

\* The range of toSend one tryToSend() takes: all of it, or up to the first
\* request that reaches kCutContainerOnSize.
SendingRange == {r \in toSend : \A l \in toSend \cap Large : r <= l}

\* Mutants: an id from a clock that ran ahead is kept; one id for all; ids
\* start from the last one given.
RenumberedUnlessAhead(S, forceNew) ==
    {r \in S : request[r].msgId = 0 \/ forceNew}

NewMsgIdForAll(R, r) == clock + 1

NewMsgIdFromLast(R, r) == clock + Cardinality({q \in R : q < r})

\* prepareToSend: the requests S that get a new message id (and with it a new
\* number in this session), in the order of their request ids, ...
Renumbered(S, forceNew) ==
    {r \in S : \/ request[r].msgId = 0
               \/ forceNew
               \/ request[r].msgId > clock}

NewMsgId(R, r) == clock + 1 + Cardinality({q \in R : q < r})

\* ... and the message id each of S is sent with.
PreparedId(S, forceNew, r) ==
    IF r \in Renumbered(S, forceNew)
    THEN NewMsgId(Renumbered(S, forceNew), r)
    ELSE request[r].msgId

\* replaceMsgId: what the message id m has become.
ReplacedId(S, forceNew, m) ==
    IF \E r \in Renumbered(S, forceNew) : m # 0 /\ request[r].msgId = m
    THEN PreparedId(S, forceNew,
            CHOOSE r \in Renumbered(S, forceNew) : request[r].msgId = m)
    ELSE m

ReplaceKeys(S, forceNew, map) ==
    [n \in {ReplacedId(S, forceNew, m) : m \in DOMAIN map} |->
        map[CHOOSE m \in DOMAIN map : ReplacedId(S, forceNew, m) = n]]

\* Effect of preparing and sending S on the request objects and on the maps
\* keyed by message ids.  needAck() holds for every API request.
PrepareToSend(S, forceNew) ==
    LET Id(r) == PreparedId(S, forceNew, r) IN
    /\ request' = [r \in Requests |->
            IF r \in Renumbered(S, forceNew)
            THEN [request[r] EXCEPT !.msgId = Id(r), !.session = session]
            ELSE request[r]]
    /\ resendingIds' = Without(resendingIds, {request[r].msgId : r \in S})
    /\ ackedIds' = ReplaceKeys(S, forceNew, ackedIds)
    /\ haveSent' = Emplace(ReplaceKeys(S, forceNew, haveSent),
            [m \in {Id(r) : r \in S} |-> CHOOSE r \in S : Id(r) = m])
    /\ carried' = carried \cup {<<Id(r), r>> : r \in S}

ReplacedContainers(S, forceNew) ==
    [c \in DOMAIN sentContainers |->
        {ReplacedId(S, forceNew, m) : m \in sentContainers[c]}]

\* tryToSend() without a connection in ConnectedState, or with nothing to
\* send: markSessionAsStarted() is called in the second case.
TryToSendNothing ==
    /\ IoIdle /\ queued
    /\ ~connected \/ (toSend = {} /\ stateRequestData = {})
    /\ queued' = FALSE
    /\ started' = (started \/ connected)
    /\ UNCHANGED <<instance, data, connected, session, ids, checks, io, clock,
                   server, history>>

\* A lone request that need not be in a container leaves toSend, ...
TryToSendSingle(r) ==
    /\ IoIdle /\ queued /\ connected
    /\ SendingRange = {r} /\ stateRequestData = {} /\ ~request[r].force
    /\ toSend' = toSend \ {r}
    /\ queued' = FALSE
    /\ started' = TRUE
    /\ io' = [Idle EXCEPT !.pc = "single", !.req = r, !.forceNew = ~started,
                          !.send = (toSend # {r})]
    /\ UNCHANGED <<instance, haveSent, received, request, connected, session,
                   ids, checks, clock, server, history>>

\* ... and enters haveSent under the other mutex.
SendSingle ==
    /\ io.pc = "single" /\ Room(1)
    /\ LET S == {io.req} IN
       /\ PrepareToSend(S, io.forceNew)
       /\ sentContainers' = ReplacedContainers(S, io.forceNew)
       /\ wire' = wire \cup {PreparedId(S, io.forceNew, io.req)}
       /\ clock' = clock + 1
    /\ queued' = (queued \/ io.send)
    /\ io' = Idle
    /\ UNCHANGED <<instance, toSend, received, connected, session, started,
                   checks, replied, history>>

\* A state request is serialized from _stateRequestData and takes the id m.
SendStateRequest(m) ==
    /\ stateRequests' = IF stateRequestData = {} THEN stateRequests
                        ELSE Emplace(stateRequests,
                                     [n \in {m} |-> stateRequestData])
    /\ stateRequestData' = {}

\* Mutant: the requests left over do not queue another send.
LeftOverForgotten(S) == FALSE

LeftOver(S) == S # toSend

\* Several messages, service ones among them, go in a container, under both
\* mutexes.  The container takes an id after those of its messages.
TryToSendContainer ==
    /\ IoIdle /\ queued /\ connected /\ SendingRange # {}
    /\ LET S == SendingRange
           next == clock + 1 + Cardinality(Renumbered(S, ~started))
           container == IF stateRequestData = {} THEN next ELSE next + 1
       IN /\ Room(container - clock)
          /\ PrepareToSend(S, ~started)
          /\ SendStateRequest(next)
          /\ sentContainers' = Emplace(ReplacedContainers(S, ~started),
                [c \in {container} |->
                    {PreparedId(S, ~started, r) : r \in S}])
          /\ wire' = wire \cup {PreparedId(S, ~started, r) : r \in S}
                          \cup {next, container}
          /\ clock' = container
          /\ toSend' = toSend \ S
          /\ queued' = LeftOver(S)
    /\ started' = TRUE
    /\ checkTimer' = TRUE
    /\ UNCHANGED <<instance, received, connected, session, io, replied,
                   history>>

\* A state request alone.
TryToSendState ==
    /\ IoIdle /\ queued /\ connected /\ toSend = {} /\ stateRequestData # {}
    /\ Room(1)
    /\ SendStateRequest(clock + 1)
    /\ wire' = wire \cup {clock + 1}
    /\ clock' = clock + 1
    /\ queued' = FALSE
    /\ started' = TRUE
    /\ UNCHANGED <<instance, data, connected, session, ids, checkTimer, io,
                   replied, carried, history>>

-----------------------------------------------------------------------------
(* Network thread: resending.                                               *)

\* Mutants: resend() leaves the request in haveSent; it does not ask for a
\* container; the last step does not queue a send.
ResendTakeCopy(m) ==
    /\ io.pc = "resend" /\ m \in io.todo /\ m \in DOMAIN haveSent
    /\ io' = [io EXCEPT !.pc = "put", !.held = Only(haveSent, {m}),
                        !.todo = @ \ {m}]
    /\ UNCHANGED <<instance, data, queued, connected,
                   session, started, ids, checks, clock, server, history>>

ForcedNever(r) == FALSE

QueuesNever == FALSE

\* resend(): the request leaves haveSent under its mutex, ...
ResendTake(m) ==
    /\ io.pc = "resend" /\ m \in io.todo /\ m \in DOMAIN haveSent
    /\ haveSent' = Without(haveSent, {m})
    /\ io' = [io EXCEPT !.pc = "put", !.held = Only(haveSent, {m}),
                        !.todo = @ \ {m}]
    /\ UNCHANGED <<instance, toSend, received, request, queued, connected,
                   session, started, ids, checks, clock, server, history>>

\* A request is resent in a container.
Forced(r) == TRUE

\* ... and enters toSend under the other one, to be sent in a container.
\* resendAll() does the same with all of haveSent.
ResendPut ==
    /\ io.pc = "put"
    /\ request' = [r \in Requests |->
            IF r \in Values(io.held) THEN [request[r] EXCEPT !.force = Forced(r)]
            ELSE request[r]]
    /\ resendingIds' = Emplace(resendingIds, io.held)
    /\ toSend' = toSend \cup Values(io.held)
    /\ io' = [io EXCEPT !.pc = "resend", !.held = NoEntries]
    /\ UNCHANGED <<instance, haveSent, received, queued, connected, session,
                   started, ackedIds, sentContainers, checks, clock, server,
                   history>>

\* _ackedIds keeps the kIdsBufferSize largest message ids.
Trimmed(acked) ==
    Only(acked, {m \in DOMAIN acked :
        Cardinality({n \in DOMAIN acked : n > m}) < IdsBufferSize})

\* Mutants: an acknowledgement is as good as an answer; an answer is no
\* better than an acknowledgement.
AckDropsAll(S, byResponse) == S

AckDropsByAck(S, byResponse) ==
    {m \in S : m \in DOMAIN haveSent /\ haveSent[m] \notin parser}

\* Acknowledged requests that wait for an answer are kept.
AckDrops(S, byResponse) ==
    {m \in S : \/ byResponse
               \/ m \in DOMAIN haveSent /\ haveSent[m] \notin parser
               \/ /\ m \notin DOMAIN haveSent
                  /\ m \in DOMAIN resendingIds
                  /\ resendingIds[m] \notin parser}

\* requestsAcked() for messages that carry requests: they leave haveSent, or
\* toSend when they were about to be resent.
RequestsAcked(S, byResponse) ==
    LET drop == AckDrops(S, byResponse)
        resent == (drop \cap DOMAIN resendingIds) \ DOMAIN haveSent
        cancelled == {m \in resent : resendingIds[m] \in toSend}
    IN /\ haveSent' = Without(haveSent, drop)
       /\ resendingIds' = Without(resendingIds, resent)
       /\ toSend' = toSend \ {resendingIds[m] : m \in cancelled}
       /\ ackedIds' = Trimmed(Emplace(Emplace(ackedIds, Only(haveSent, drop)),
                                      Only(resendingIds, cancelled)))

\* queueSendAnything() at the end of a resend.
Queues == queued \/ io.send

\* The resends are done; handleMsgsStates() acknowledges the rest.
ResendDone ==
    /\ io.pc = "resend" /\ io.todo \cap DOMAIN haveSent = {}
    /\ RequestsAcked(io.acks, FALSE)
    /\ queued' = Queues
    /\ io' = Idle
    /\ UNCHANGED <<instance, received, request, connected, session, started,
                   sentContainers, checks, clock, server, history>>

-----------------------------------------------------------------------------
(* Network thread: the connection and the session on the server.            *)

\* Mutant: what was sent over the old connection is not sent again.
ResendNothing ==
    io' = [Idle EXCEPT !.pc = "put", !.send = TRUE] /\ UNCHANGED haveSent

\* resendAll(): all of haveSent is taken at once.
ResendAll ==
    /\ io' = [Idle EXCEPT !.pc = "put", !.held = haveSent, !.send = TRUE]
    /\ haveSent' = NoEntries

\* authKeyChecked() with a salt, or the first message that brings one: the
\* state becomes ConnectedState and everything sent is sent again.
Connected ==
    /\ IoIdle /\ ~connected
    /\ connected' = TRUE
    /\ ResendAll
    /\ UNCHANGED <<instance, toSend, received, request, queued, session,
                   started, ids, checks, clock, server, history>>

\* restart(): a lost connection, a timeout, a protocol error.
Restart ==
    /\ IoIdle /\ connected
    /\ connected' = FALSE
    /\ UNCHANGED <<instance, data, queued, session, started, ids, checks, io,
                   clock, server, history>>

\* changeSessionId().  The server will not answer the old session's messages.
ChangeSessionId ==
    /\ session' = session + 1
    /\ started' = FALSE
    /\ stateRequestData' = {}
    /\ wire' = {} /\ replied' = {}
    /\ UNCHANGED <<stateRequests, checkTimer, carried>>

\* The key is gone: destroyTemporaryKey() or a new key in applyAuthKey().
ChangeKey ==
    /\ IoIdle
    /\ ChangeSessionId
    /\ connected' = FALSE
    /\ UNCHANGED <<instance, data, queued, ids, io, clock, history>>

\* unixtime::update() from another session's thread.
UpdateTime ==
    /\ Ahead
    /\ clock' = 0
    /\ UNCHANGED <<instance, data, queued, connected, session, started, ids,
                   checks, io, server, history>>

-----------------------------------------------------------------------------
(* Network thread: handleOneReceived().                                     *)

Receiving == IoIdle /\ connected

\* wasSent(): the request of a message of ours, or 0.
WasSent(m, resending, acked, sent) ==
    IF m \in DOMAIN resending THEN resending[m]
    ELSE IF m \in DOMAIN acked THEN acked[m]
    ELSE IF m \in DOMAIN sent THEN sent[m]
    ELSE 0

\* Its truth value: containers count too.
KnownId(m) ==
    \/ m \in DOMAIN sentContainers
    \/ WasSent(m, resendingIds, ackedIds, haveSent) # 0

\* A message with a bad server time is handled only when it is about a
\* message of ours; it then corrects the clock.
GoodTime(m) == Ahead => KnownId(m)

\* msgs_ack of a container (and so of the messages in it), of a state request
\* or of a message that carries a request.
ReceiveAck(m) ==
    /\ Receiving /\ m \in wire /\ GoodTime(m)
    /\ RequestsAcked(IF m \in DOMAIN sentContainers THEN sentContainers[m]
                     ELSE {m}, FALSE)
    /\ sentContainers' = Without(sentContainers, {m})
    /\ stateRequests' = Without(stateRequests, {m})
    /\ clock' = CorrectedClock
    /\ UNCHANGED <<instance, received, request, queued, connected, session,
                   started, stateRequestData, checkTimer, io, server, history>>

\* rpc_result for the message m: the request leaves the maps, and its answer
\* is queued for the main thread if wasSent() still knows the request.
ReceiveResult(m, kind) ==
    /\ Receiving /\ m \in wire \ replied /\ GoodTime(m)
    /\ m \in {c[1] : c \in carried}
    /\ replied' = replied \cup {m}
    /\ RequestsAcked({m}, TRUE)
    /\ LET r == WasSent(m, resendingIds', ackedIds', haveSent') IN
       received' = IF r = 0 THEN received
                   ELSE Append(received, [req |-> r, kind |-> kind, id |-> m])
    /\ clock' = CorrectedClock
    /\ UNCHANGED <<instance, request, queued, connected, session, started,
                   sentContainers, checks, io, wire, carried, history>>

\* bad_server_salt, or a bad_msg_notification about the message id or the
\* container: the message is sent again, in a container.
ReceiveBadMsg(m) ==
    /\ Receiving /\ m \in wire /\ KnownId(m)
    /\ io' = Resending(IF m \in DOMAIN sentContainers THEN sentContainers[m]
                       ELSE {m}, {}, TRUE)
    /\ sentContainers' = Without(sentContainers, {m})
    /\ clock' = CorrectedClock
    /\ UNCHANGED <<instance, data, queued, connected, session, started,
                   resendingIds, ackedIds, checks, server, history>>

\* bad_msg_notification: ids and numbers disagree, a new session is needed.
ReceiveBadNumber(m) ==
    /\ Receiving /\ m \in wire /\ KnownId(m)
    /\ ChangeSessionId
    /\ connected' = FALSE
    /\ clock' = CorrectedClock
    /\ UNCHANGED <<instance, data, queued, ids, io, history>>

\* Any other bad_msg_notification is answered with a PROTOCOL_ERROR of code
\* 500, which onErrorDefault() retries after a delay.
ReceiveFatal(m) ==
    /\ Receiving /\ m \in wire \ replied
    /\ m \in {c[1] : c \in carried}
    /\ replied' = replied \cup {m}
    /\ LET r == WasSent(m, resendingIds, ackedIds, haveSent) IN
       received' = IF r = 0 THEN received
                   ELSE Append(received,
                               [req |-> r, kind |-> "delay", id |-> m])
    /\ UNCHANGED <<instance, toSend, haveSent, request, queued, connected,
                   session, started, ids, checks, io, clock, wire, carried,
                   history>>

\* new_session_created: what was sent before its first message is resent.
ReceiveNewSession(first) ==
    /\ Receiving /\ first \in wire /\ GoodTime(first)
    /\ LET toResend == {m \in DOMAIN haveSent : m < first} IN
       io' = Resending(toResend, {}, toResend # {})
    /\ clock' = CorrectedClock
    /\ UNCHANGED <<instance, data, queued, connected, session, started, ids,
                   checks, server, history>>

\* handleMsgsStates(): of the messages asked about, the server has received
\* those in got; the others are resent.
HandleMsgsStates(asked, got) ==
    LET toResend == {m \in asked \ got : m \in DOMAIN haveSent}
        acked == {m \in asked \cap got : \/ m \in DOMAIN haveSent
                                         \/ m \in DOMAIN resendingIds}
    IN io' = Resending(toResend, acked, toResend # {})

\* msgs_state_info for the state request s.
ReceiveStates(s, got) ==
    /\ Receiving /\ s \in wire /\ s \in DOMAIN stateRequests
    /\ stateRequests' = Without(stateRequests, {s})
    /\ HandleMsgsStates(stateRequests[s], got)
    /\ clock' = CorrectedClock
    /\ UNCHANGED <<instance, data, queued, connected, session, started, ids,
                   stateRequestData, checkTimer, server, history>>

\* msgs_all_info: the server tells of messages on its own.
ReceiveAllInfo(told, got) ==
    /\ Receiving /\ ~Ahead /\ told \subseteq wire
    /\ HandleMsgsStates(told, got)
    /\ UNCHANGED <<instance, data, queued, connected, session, started, ids,
                   checks, clock, server, history>>

-----------------------------------------------------------------------------
(* Network thread: timers.                                                  *)

\* checkSentRequests(): the state of the requests sent long ago is asked for;
\* the timer goes on for the younger ones.
CheckSentRequests(old) ==
    /\ IoIdle /\ checkTimer /\ old \subseteq DOMAIN haveSent
    /\ stateRequestData' = stateRequestData \cup old
    /\ queued' = (queued \/ ~(old \subseteq stateRequestData))
    /\ checkTimer' = (old # DOMAIN haveSent)
    /\ UNCHANGED <<instance, data, connected, session, started, ids,
                   stateRequests, io, clock, server, history>>

\* clearOldContainers(): the requests of an old container are resent.
ClearOldContainers(c) ==
    /\ IoIdle /\ c \in DOMAIN sentContainers
    /\ sentContainers' = Without(sentContainers, {c})
    /\ io' = Resending(sentContainers[c], {}, sentContainers[c] # {})
    /\ UNCHANGED <<instance, data, queued, connected, session, started,
                   resendingIds, ackedIds, checks, clock, server, history>>

-----------------------------------------------------------------------------

MainStep ==
    \/ CancelToSend \/ CancelHaveSent \/ CancelParser
    \/ ProcessCallback \/ EmplaceParser
    \/ \E r \in Requests : CheckDelayedRequests(r)

SendStep ==
    \/ TryToSendNothing \/ TryToSendContainer \/ TryToSendState
    \/ \E r \in Requests : TryToSendSingle(r)
    \/ SendSingle

ResendStep == ResendPut \/ ResendDone \/ \E m \in MsgIds : ResendTake(m)

Progress ==
    \/ MainStep \/ SendStep \/ ResendStep \/ Connected
    \/ \E r \in Requests : SendRequest(r)
    \/ \E m \in MsgIds : ReceiveAck(m) \/ ReceiveResult(m, "done")

\* What may happen to a session besides sending and answering.
Disturbance ==
    \/ \E r \in Requests : CancelRequest(r)
    \/ Restart \/ ChangeKey \/ UpdateTime
    \/ \E m \in MsgIds :
          \/ \E kind \in Errors : ReceiveResult(m, kind)
          \/ "resend" \in BadMsgs /\ ReceiveBadMsg(m)
          \/ "reset" \in BadMsgs /\ ReceiveBadNumber(m)
          \/ "fatal" \in BadMsgs /\ ReceiveFatal(m)
          \/ ReceiveNewSession(m)
          \/ \E got \in SUBSET DOMAIN haveSent : ReceiveStates(m, got)
          \/ ClearOldContainers(m)
    \/ \E old \in SUBSET DOMAIN haveSent : CheckSentRequests(old)
    \/ \E told \in SUBSET (DOMAIN haveSent \cup DOMAIN resendingIds) :
          told # {} /\ \E got \in SUBSET told : ReceiveAllInfo(told, got)

Next == Progress \/ Disturbance

Spec == Init /\ [][Next]_vars

\* Both event loops go on, the retry timer reconnects, and the server answers
\* what reaches it in a session that lasts.
Fairness ==
    /\ WF_vars(MainStep)
    /\ WF_vars(SendStep \/ ResendStep \/ Connected)
    /\ WF_vars(\E m \in MsgIds : ReceiveResult(m, "done"))

-----------------------------------------------------------------------------
(* Properties.                                                              *)

\* Type invariant of the two maps, the queues and both threads' positions.
TypeOK ==
    /\ parser \subseteq WithCallback /\ stored \subseteq Requests
    /\ delayed \subseteq Requests
    /\ main \in [pc : {"idle", "cancelToSend", "cancelHaveSent",
                       "cancelParser", "emplaceParser"},
                 req : Requests \cup {0}, id : MsgIds \cup {0}]
    /\ toSend \subseteq Requests
    /\ DOMAIN haveSent \subseteq MsgIds /\ Values(haveSent) \subseteq Requests
    /\ received \in Seq([req : Requests, kind : ErrorKind \cup {"done"},
                         id : MsgIds])
    /\ request \in [Requests -> [msgId : MsgIds \cup {0}, force : BOOLEAN,
                                 session : Nat]]
    /\ queued \in BOOLEAN /\ connected \in BOOLEAN /\ started \in BOOLEAN
    /\ session \in Nat /\ clock \in 0..(StartClock + MaxIds)
    /\ DOMAIN resendingIds \subseteq MsgIds
    /\ Values(resendingIds) \subseteq Requests
    /\ DOMAIN ackedIds \subseteq MsgIds /\ Values(ackedIds) \subseteq Requests
    /\ DOMAIN sentContainers \subseteq MsgIds
    /\ Values(sentContainers) \subseteq SUBSET MsgIds
    /\ stateRequestData \subseteq MsgIds
    /\ DOMAIN stateRequests \subseteq MsgIds
    /\ Values(stateRequests) \subseteq SUBSET MsgIds
    /\ checkTimer \in BOOLEAN
    /\ io.pc \in {"idle", "single", "resend", "put"}
    /\ io.req \in Requests \cup {0}
    /\ DOMAIN io.held \subseteq MsgIds /\ Values(io.held) \subseteq Requests
    /\ io.todo \subseteq MsgIds /\ io.acks \subseteq MsgIds
    /\ wire \subseteq MsgIds /\ replied \subseteq MsgIds
    /\ carried \subseteq MsgIds \X Requests
    /\ used \subseteq Requests /\ answered \subseteq Requests

\* Somebody still has to do something about the request r: it waits in a map,
\* is in the network thread's hands, waits for its delay, its answer is on
\* the way to the main thread, or the server has acknowledged it in this
\* session and owes the answer.
Owed(r) ==
    \/ r \in toSend \/ r \in Values(haveSent) \/ r \in delayed
    \/ r = io.req \/ r \in Values(io.held)
    \/ \E i \in DOMAIN received : received[i].req = r
    \/ \E m \in DOMAIN ackedIds : ackedIds[m] = r /\ m \in wire \ replied

\* A request whose handlers are registered is never forgotten: whatever is
\* acknowledged, resent, renumbered, trimmed or answered with an error, and
\* however the two threads interleave, it stays owed until it is cancelled.
RequestNotLost ==
    \A r \in parser : Owed(r) \/ (main.pc # "idle" /\ main.req = r)

\* A request that waits in toSend on a live connection always has a queued
\* tryToSend(): no resend, container cut or reconnection forgets to ask.
NoLostWakeup == (connected /\ IoIdle /\ toSend # {}) => queued

\* An answer goes to the request its message carried, although messages are
\* renumbered and ids are looked up in three maps.
AnswersMatch ==
    \A i \in DOMAIN received :
        <<received[i].id, received[i].req>> \in carried

\* replaceMsgId() looks into haveSent: the path that calls prepareToSend()
\* without its mutex never has a message id to replace.
ReplacesUnderLock == io.pc = "single" => request[io.req].msgId = 0

\* haveSent holds a request once, under the id the object carries, and never
\* together with toSend: cancel() finds it by that id.
SentUnderItsId ==
    \A m \in DOMAIN haveSent : /\ request[haveSent[m]].msgId = m
                               /\ haveSent[m] \notin toSend

\* A request whose handler got its final answer is not sent again.
AnsweredNotResent ==
    [][\A r \in answered : r \in toSend' => r \in toSend]_vars

\* A container gets a larger message id than the messages in it, and those
\* differ, also after the clock was put back.
ContainersValid ==
    [][\A c \in DOMAIN sentContainers' \ DOMAIN sentContainers :
        /\ \A m \in sentContainers'[c] : m < c
        /\ Cardinality(sentContainers'[c]) = Cardinality(toSend \ toSend')]_vars

\* Every request with handlers is answered in the end, or cancelled: also when
\* the connection, the session or the key is lost on the way.  There are
\* finitely many, so in the end none of them is left.
RequestsAnswered == <>[](WithCallback \cap stored = {})

=============================================================================
