------------------------- MODULE SessionSendProofs -------------------------
(* Proofs about SessionSend.                                                *)
EXTENDS SessionSend, FiniteSetTheorems, FunctionTheorems, SequenceTheorems, TLAPS

-----------------------------------------------------------------------------
(* Who will call tryToSend().  A resend in progress has promised a send (it *)
(* is queued in its last step), and it has promised one whenever it still   *)
(* has a request to put into toSend.                                        *)

PromisedSend == io.pc # "idle" /\ io.send

WakeInv ==
    /\ (connected /\ toSend # {}) => (queued \/ PromisedSend)
    /\ io.pc = "put" => io.send
    /\ (io.pc = "resend" /\ io.todo # {}) => io.send

\* Initially there is nothing to send.
LEMMA WakeInit == Init => WakeInv
  BY DEF Init, WakeInv, PromisedSend, Idle

\* The main thread only fills toSend through Session::sendPrepared, which
\* queues a send.
LEMMA WakeMain ==
  ASSUME WakeInv, MainStep \/ (\E r \in Requests : SendRequest(r) \/ CancelRequest(r))
  PROVE  WakeInv'
  <1> USE DEF WakeInv, PromisedSend
  <1>1. CASE CancelToSend
    BY <1>1 DEF CancelToSend
  <1>2. CASE CancelHaveSent
    BY <1>2 DEF CancelHaveSent
  <1>3. CASE CancelParser
    BY <1>3 DEF CancelParser, data
  <1>4. CASE ProcessCallback
    BY <1>4 DEF ProcessCallback, SendPrepared
  <1>5. CASE EmplaceParser
    BY <1>5 DEF EmplaceParser, data
  <1>6. ASSUME NEW r \in Requests, CheckDelayedRequests(r)
        PROVE  WakeInv'
    BY <1>6 DEF CheckDelayedRequests, SendPrepared
  <1>7. ASSUME NEW r \in Requests, SendRequest(r)
        PROVE  WakeInv'
    BY <1>7 DEF SendRequest, SendPrepared
  <1>8. ASSUME NEW r \in Requests, CancelRequest(r)
        PROVE  WakeInv'
    BY <1>8 DEF CancelRequest, data
  <1> QED BY <1>1, <1>2, <1>3, <1>4, <1>5, <1>6, <1>7, <1>8 DEF MainStep

\* tryToSend() consumes the queued send and promises another one for what it
\* leaves in toSend.
LEMMA WakeSend ==
  ASSUME WakeInv, SendStep
  PROVE  WakeInv'
  <1> USE DEF WakeInv, PromisedSend, IoIdle
  <1>1. CASE TryToSendNothing
    BY <1>1 DEF TryToSendNothing, data
  <1>2. CASE TryToSendContainer
    BY <1>2 DEF TryToSendContainer, LeftOver, SendingRange
  <1>3. CASE TryToSendState
    BY <1>3 DEF TryToSendState, data
  <1>4. ASSUME NEW r \in Requests, TryToSendSingle(r)
        PROVE  WakeInv'
    BY <1>4 DEF TryToSendSingle, Idle
  <1>5. CASE SendSingle
    BY <1>5 DEF SendSingle, Idle
  <1> QED BY <1>1, <1>2, <1>3, <1>4, <1>5 DEF SendStep

\* A resend keeps its promise until its last step, which fulfils it.
LEMMA WakeResend ==
  ASSUME WakeInv, ResendStep
  PROVE  WakeInv'
  <1> USE DEF WakeInv, PromisedSend
  <1>1. CASE ResendPut
    BY <1>1 DEF ResendPut
  <1>2. CASE ResendDone
    BY <1>2 DEF ResendDone, RequestsAcked, Queues, Idle
  <1>3. ASSUME NEW m \in MsgIds, ResendTake(m)
        PROVE  WakeInv'
    BY <1>3 DEF ResendTake
  <1> QED BY <1>1, <1>2, <1>3 DEF ResendStep

\* A new connection starts with a resend of everything; no answer of the
\* server adds to toSend except through a resend.
LEMMA WakeOther ==
  ASSUME WakeInv,
         \/ Connected \/ Restart \/ ChangeKey \/ UpdateTime
         \/ \E m \in MsgIds :
              \/ ReceiveAck(m) \/ ReceiveBadMsg(m) \/ ReceiveBadNumber(m)
              \/ ReceiveFatal(m) \/ ReceiveNewSession(m)
              \/ ClearOldContainers(m)
              \/ \E kind \in Errors \cup {"done"} : ReceiveResult(m, kind)
              \/ \E got \in SUBSET DOMAIN haveSent : ReceiveStates(m, got)
         \/ \E old \in SUBSET DOMAIN haveSent : CheckSentRequests(old)
         \/ \E told, got : ReceiveAllInfo(told, got)
  PROVE  WakeInv'
  <1> USE DEF WakeInv, PromisedSend, IoIdle, Receiving, Resending, Idle, data
  <1>1. CASE Connected
    BY <1>1 DEF Connected, ResendAll
  <1>2. CASE Restart
    BY <1>2 DEF Restart
  <1>3. CASE ChangeKey
    BY <1>3 DEF ChangeKey
  <1>4. CASE UpdateTime
    BY <1>4 DEF UpdateTime
  <1>5. ASSUME NEW m \in MsgIds, ReceiveAck(m)
        PROVE  WakeInv'
    BY <1>5 DEF ReceiveAck, RequestsAcked
  <1>6. ASSUME NEW m \in MsgIds, ReceiveBadMsg(m)
        PROVE  WakeInv'
    BY <1>6 DEF ReceiveBadMsg
  <1>7. ASSUME NEW m \in MsgIds, ReceiveBadNumber(m)
        PROVE  WakeInv'
    BY <1>7 DEF ReceiveBadNumber
  <1>8. ASSUME NEW m \in MsgIds, ReceiveFatal(m)
        PROVE  WakeInv'
    BY <1>8 DEF ReceiveFatal
  <1>9. ASSUME NEW m \in MsgIds, ReceiveNewSession(m)
        PROVE  WakeInv'
    BY <1>9 DEF ReceiveNewSession
  <1>10. ASSUME NEW m \in MsgIds, ClearOldContainers(m)
         PROVE  WakeInv'
    BY <1>10 DEF ClearOldContainers
  <1>11. ASSUME NEW m \in MsgIds, NEW kind, ReceiveResult(m, kind)
         PROVE  WakeInv'
    BY <1>11 DEF ReceiveResult, RequestsAcked
  <1>12. ASSUME NEW m \in MsgIds, NEW got, ReceiveStates(m, got)
         PROVE  WakeInv'
    BY <1>12 DEF ReceiveStates, HandleMsgsStates
  <1>13. ASSUME NEW old, CheckSentRequests(old)
         PROVE  WakeInv'
    BY <1>13 DEF CheckSentRequests
  <1>14. ASSUME NEW told, NEW got, ReceiveAllInfo(told, got)
         PROVE  WakeInv'
    BY <1>14 DEF ReceiveAllInfo, HandleMsgsStates
  <1> QED BY <1>1, <1>2, <1>3, <1>4, <1>5, <1>6, <1>7, <1>8, <1>9, <1>10,
             <1>11, <1>12, <1>13, <1>14

\* For any number of requests and any sizes: a request in toSend of a
\* connected, idle session has a tryToSend() call coming.
THEOREM WakeupsKept == Spec => []NoLostWakeup
  <1>1. Init => WakeInv
    BY WakeInit
  <1>2. WakeInv /\ [Next]_vars => WakeInv'
    <2> SUFFICES ASSUME WakeInv, [Next]_vars PROVE WakeInv'
      OBVIOUS
    <2>1. CASE Next
      BY <2>1, WakeMain, WakeSend, WakeResend, WakeOther
         DEF Next, Progress, Disturbance
    <2>2. CASE UNCHANGED vars
      BY <2>2 DEF vars, data, WakeInv, PromisedSend
    <2> QED BY <2>1, <2>2
  <1>3. WakeInv => NoLostWakeup
    BY DEF WakeInv, PromisedSend, NoLostWakeup, IoIdle
  <1> QED BY <1>1, <1>2, <1>3, PTL DEF Spec

-----------------------------------------------------------------------------
(* Message ids.  Each is given once, although the clock may be put back, so *)
(* a message carries one request, and every map keyed by ids says which.    *)

\* What the network thread holds at each place.
IoInv ==
  /\ io \in [pc : {"idle", "single", "resend", "put"}, req : Requests \cup {0},
             held : {io.held}, todo : SUBSET MsgIds, acks : SUBSET MsgIds,
             send : BOOLEAN, forceNew : BOOLEAN]
  /\ io.pc = "single" => io.req \in Requests
  /\ io.pc # "single" => io.req = 0
  /\ io.pc # "put" => DOMAIN io.held = {}

\* The ids that may have been given.
Made(m) ==
  IF Ahead THEN StartClock < m /\ m <= clock
  ELSE m <= clock \/ (StartClock > 0 /\ StartClock < m)

\* The entries of a map are pairs of C.
Within(map, C) == \A m \in DOMAIN map : <<m, map[m]>> \in C

IdsInv ==
  /\ Ahead \/ clock <= MaxIds
  /\ \A c \in carried : Made(c[1])
  /\ \A c, d \in carried : c[1] = d[1] => c[2] = d[2]
  /\ Within(haveSent, carried) /\ Within(resendingIds, carried)
  /\ Within(ackedIds, carried) /\ Within(io.held, carried)
  /\ \A r \in Requests :
       request[r].msgId # 0 => <<request[r].msgId, r>> \in carried
  /\ main.id # 0 => <<main.id, main.req>> \in carried
  /\ AnswersMatch

\* The handler that processCallback() took out of the map was in it.
MainInv == main.pc = "emplaceParser" => main.req \in WithCallback

TInv == TypeOK /\ IoInv /\ MainInv /\ IdsInv

\* Maps.
LEMMA WithinType ==
  ASSUME NEW A, NEW B, NEW C \in SUBSET (A \X B), NEW map, Within(map, C)
  PROVE  DOMAIN map \subseteq A /\ Values(map) \subseteq B
  BY DEF Within, Values

LEMMA WithoutWithin ==
  ASSUME NEW C, NEW map, NEW S, Within(map, C)
  PROVE  Within(Without(map, S), C)
  BY DEF Within, Without

LEMMA OnlyWithin ==
  ASSUME NEW C, NEW map, NEW S, Within(map, C)
  PROVE  Within(Only(map, S), C)
  BY DEF Within, Only

LEMMA EmplaceWithin ==
  ASSUME NEW C, NEW map, NEW more, Within(map, C), Within(more, C)
  PROVE  Within(Emplace(map, more), C)
  BY DEF Within, Emplace

LEMMA GrowWithin ==
  ASSUME NEW C, NEW D, C \subseteq D, NEW map, Within(map, C)
  PROVE  Within(map, D)
  BY DEF Within

\* The ids that the requests in R get are new and differ.
LEMMA NewIds ==
  ASSUME TypeOK, NEW R \in SUBSET Requests
  PROVE  /\ Cardinality(R) \in Nat
         /\ \A r \in R : NewMsgId(R, r) \in clock + 1 .. clock + Cardinality(R)
         /\ \A q, r \in R : NewMsgId(R, q) = NewMsgId(R, r) => q = r
<1> DEFINE Before(r) == {q \in R : q < r}
<1>1. R \subseteq Nat /\ IsFiniteSet(R) /\ Cardinality(R) \in Nat
  BY SessionSendAssumption, FS_Subset, FS_CardinalityType
<1>2. ASSUME NEW r \in R
      PROVE  IsFiniteSet(Before(r)) /\ Cardinality(Before(r)) \in 0 .. Cardinality(R) - 1
  <2>1. Before(r) \in SUBSET R /\ Before(r) # R
    BY <1>1, <1>2
  <2>2. /\ IsFiniteSet(Before(r)) /\ Cardinality(Before(r)) <= Cardinality(R)
        /\ Cardinality(Before(r)) # Cardinality(R)
    BY <1>1, <2>1, FS_Subset
  <2> QED
    BY <1>1, <2>2, FS_CardinalityType
<1>3. ASSUME NEW q \in R, NEW r \in R, q < r
      PROVE  Cardinality(Before(q)) < Cardinality(Before(r))
  <2>1. q \in Before(r) /\ q \notin Before(q)
    BY <1>1, <1>3
  <2>3. ASSUME NEW x \in Before(q) PROVE x \in Before(r)
    <3>1. x \in R /\ x < q /\ x \in Nat /\ q \in Nat /\ r \in Nat
      BY <1>1
    <3> QED
      BY <1>3, <3>1
  <2>2. /\ Cardinality(Before(q)) <= Cardinality(Before(r))
        /\ Cardinality(Before(q)) # Cardinality(Before(r))
    BY <1>2, <2>1, <2>3, FS_Subset
  <2> QED
    BY <1>1, <1>2, <2>2
<1>4. \A r \in R : NewMsgId(R, r) = clock + 1 + Cardinality(Before(r))
  BY DEF NewMsgId
<1>5. clock \in Nat
  BY SessionSendAssumption DEF TypeOK
<1> HIDE DEF Before
<1>6. \A r \in R : NewMsgId(R, r) \in clock + 1 .. clock + Cardinality(R)
  BY <1>1, <1>2, <1>4, <1>5
<1>7. ASSUME NEW q \in R, NEW r \in R, NewMsgId(R, q) = NewMsgId(R, r) PROVE q = r
  <2>1. Cardinality(Before(q)) = Cardinality(Before(r))
    BY <1>2, <1>4, <1>5, <1>7
  <2> QED
    BY <1>1, <1>2, <1>3, <2>1
<1> QED
  BY <1>1, <1>6, <1>7

\* An id that the clock has not reached was not given.
LEMMA FreshIds ==
  ASSUME TypeOK, IdsInv, NEW n \in Nat, Room(n)
  PROVE  /\ clock + n \in 0 .. StartClock + MaxIds
         /\ \A m \in clock + 1 .. clock + n : m \in MsgIds /\ ~Made(m)
<1>1. clock \in Nat /\ StartClock \in Nat /\ MaxIds \in Nat
      /\ (StartClock = 0 \/ StartClock > MaxIds) /\ (Ahead \/ clock <= MaxIds)
  BY SessionSendAssumption DEF TypeOK, IdsInv
<1>2. clock + n <= (IF Ahead THEN StartClock ELSE 0) + MaxIds
  BY DEF Room
<1> QED
  BY <1>1, <1>2 DEF Made, MsgIds, Ahead

\* Ids stay given when the clock goes on, or is put right.
LEMMA MadeStays ==
  ASSUME TypeOK, IdsInv, NEW m \in MsgIds, Made(m),
         \/ clock' \in Nat /\ clock' >= clock /\ (Ahead <=> Ahead')
         \/ clock' = CorrectedClock
         \/ Ahead /\ clock' = 0
  PROVE  Made(m)'
<1>1. clock \in Nat /\ StartClock \in Nat /\ MaxIds \in Nat /\ m \in Nat
      /\ (StartClock = 0 \/ StartClock > MaxIds) /\ (Ahead \/ clock <= MaxIds)
  BY SessionSendAssumption DEF TypeOK, IdsInv, MsgIds
<1> QED
  BY <1>1 DEF Made, Ahead, CorrectedClock

\* The ids of the requests that are sent together.
LEMMA PreparedIds ==
  ASSUME TInv, NEW S \in SUBSET Requests, NEW forceNew \in BOOLEAN, NEW n \in Nat,
         Cardinality(Renumbered(S, forceNew)) <= n, Room(n)
  PROVE  LET R == Renumbered(S, forceNew)
             Id(r) == PreparedId(S, forceNew, r) IN
         /\ \A r \in R : Id(r) \in clock + 1 .. clock + n /\ Id(r) \in MsgIds
                         /\ ~Made(Id(r))
         /\ \A r \in S \ R : /\ Id(r) = request[r].msgId /\ Id(r) \in MsgIds
                             /\ Id(r) <= clock /\ <<Id(r), r>> \in carried
         /\ \A q, r \in S : Id(q) = Id(r) => q = r
<1> DEFINE R == Renumbered(S, forceNew)
           Id(r) == PreparedId(S, forceNew, r)
<1>1. R \in SUBSET S /\ R \in SUBSET Requests
  BY DEF Renumbered
<1>2. \A r \in R : Id(r) = NewMsgId(R, r)
  BY DEF PreparedId
<1>3. \A r \in S \ R : Id(r) = request[r].msgId /\ request[r].msgId # 0
                       /\ ~(request[r].msgId > clock)
  BY DEF PreparedId, Renumbered
<1>4. TypeOK /\ IdsInv /\ clock \in Nat
  BY SessionSendAssumption DEF TInv, TypeOK
<1>5. /\ Cardinality(R) \in Nat /\ Cardinality(R) <= n
      /\ \A r \in R : NewMsgId(R, r) \in clock + 1 .. clock + Cardinality(R)
      /\ \A q, r \in R : NewMsgId(R, q) = NewMsgId(R, r) => q = r
  BY <1>1, <1>4, NewIds
<1> HIDE DEF R, Id
<1>6. \A r \in R : Id(r) \in clock + 1 .. clock + n
  BY <1>2, <1>4, <1>5
<1>7. \A r \in R : Id(r) \in MsgIds /\ ~Made(Id(r))
  BY <1>4, <1>6, FreshIds
<1>8. ASSUME NEW r \in S \ R
      PROVE  /\ Id(r) \in MsgIds /\ Id(r) <= clock
             /\ <<Id(r), r>> \in carried /\ Made(Id(r))
  <2>1. <<Id(r), r>> \in carried
    BY <1>3, <1>4 DEF IdsInv
  <2>2. Made(Id(r))
    BY <1>4, <2>1 DEF IdsInv
  <2>3. Id(r) \in MsgIds
    BY <1>4, <2>1 DEF TypeOK
  <2> QED
    BY <1>3, <1>4, <2>1, <2>2, <2>3 DEF MsgIds
<1>9. ASSUME NEW q \in S, NEW r \in S, Id(q) = Id(r) PROVE q = r
  <2>1. CASE q \in R /\ r \in R
    BY <1>2, <1>5, <1>9, <2>1
  <2>2. CASE q \notin R /\ r \notin R
    <3>1. <<Id(r), r>> \in carried /\ <<Id(r), q>> \in carried
      BY <1>8, <1>9, <2>2
    <3> QED
      BY <1>4, <3>1 DEF IdsInv
  <2>3. CASE q \in R <=> r \notin R
    BY <1>7, <1>8, <1>9, <2>3
  <2> QED
    BY <2>1, <2>2, <2>3
<1> QED
  BY <1>3, <1>6, <1>7, <1>8, <1>9 DEF R, Id

\* replaceMsgId() in a map of messages: an entry keeps its request.
Replaces(S, forceNew, map) ==
  LET R == Renumbered(S, forceNew)
      Id(r) == PreparedId(S, forceNew, r)
      new == ReplaceKeys(S, forceNew, map) IN
  /\ \A k \in DOMAIN new :
       \/ k \in DOMAIN map /\ new[k] = map[k]
       \/ \E r \in R : /\ k = Id(r) /\ new[k] = r
                       /\ request[r].msgId \in DOMAIN map
                       /\ map[request[r].msgId] = r
  /\ \A m \in DOMAIN map : \E k \in DOMAIN new : new[k] = map[m]

LEMMA ReplacedKeys ==
  ASSUME TInv, NEW S \in SUBSET Requests, NEW forceNew \in BOOLEAN, NEW n \in Nat,
         Cardinality(Renumbered(S, forceNew)) <= n, Room(n),
         NEW map, Within(map, carried)
  PROVE  Replaces(S, forceNew, map)
<1> DEFINE R == Renumbered(S, forceNew)
           Id(r) == PreparedId(S, forceNew, r)
           Rep(m) == ReplacedId(S, forceNew, m)
           new == ReplaceKeys(S, forceNew, map)
<1>1. TypeOK /\ IdsInv /\ R \in SUBSET S /\ R \in SUBSET Requests
  BY DEF TInv, Renumbered
<1>2. \A m \in DOMAIN map :
        <<m, map[m]>> \in carried /\ m \in MsgIds /\ m # 0 /\ Made(m)
  BY <1>1 DEF Within, IdsInv, TypeOK, MsgIds
<1>3. /\ \A r \in R : ~Made(Id(r))
      /\ \A q, r \in S : Id(q) = Id(r) => q = r
  BY PreparedIds
<1>4. ASSUME NEW m \in DOMAIN map, NEW r \in R, request[r].msgId = m
      PROVE  map[m] = r
  <2>1. <<m, r>> \in carried
    BY <1>1, <1>2, <1>4 DEF IdsInv
  <2> QED
    BY <1>1, <1>2, <2>1 DEF IdsInv
<1>5. ASSUME NEW m \in DOMAIN map, map[m] \in R, request[map[m]].msgId = m
      PROVE  Rep(m) = Id(map[m])
  <2> DEFINE q == CHOOSE r \in R : request[r].msgId = m
  <2>1. q \in R /\ request[q].msgId = m
    BY <1>5
  <2>2. q = map[m]
    BY <1>4, <2>1
  <2>3. Rep(m) = Id(q)
    BY <1>2, <1>5 DEF ReplacedId
  <2> QED
    BY <2>2, <2>3
<1>6. ASSUME NEW m \in DOMAIN map, ~(map[m] \in R /\ request[map[m]].msgId = m)
      PROVE  Rep(m) = m /\ \A r \in R : request[r].msgId # m
  <2>1. \A r \in R : request[r].msgId # m
    BY <1>4, <1>6
  <2> QED
    BY <2>1 DEF ReplacedId
<1>7. DOMAIN new = {Rep(m) : m \in DOMAIN map}
      /\ \A k \in DOMAIN new : new[k] = map[CHOOSE m \in DOMAIN map : Rep(m) = k]
  BY DEF ReplaceKeys
<1> HIDE DEF R, Id, Rep, new
<1>8. ASSUME NEW m \in DOMAIN map, NEW l \in DOMAIN map, Rep(m) = Rep(l)
      PROVE  m = l
  <2> DEFINE Old(x) == ~(map[x] \in R /\ request[map[x]].msgId = x)
  <2>1. CASE Old(m) /\ Old(l)
    BY <1>6, <1>8, <2>1
  <2>2. CASE ~Old(m) /\ ~Old(l)
    <3>1. Id(map[m]) = Id(map[l])
      BY <1>5, <1>8, <2>2
    <3>2. map[m] = map[l]
      BY <1>1, <1>3, <2>2, <3>1
    <3> QED
      BY <2>2, <3>2
  <2>3. CASE ~Old(m) /\ Old(l)
    <3>1. map[m] \in R /\ Rep(m) = Id(map[m])
      BY <1>5, <2>3
    <3>2. Rep(l) = l
      BY <1>6, <2>3
    <3>3. l = Id(map[m])
      BY <1>8, <3>1, <3>2
    <3> QED
      BY <1>2, <1>3, <3>1, <3>3
  <2>4. CASE Old(m) /\ ~Old(l)
    <3>1. map[l] \in R /\ Rep(l) = Id(map[l])
      BY <1>5, <2>4
    <3>2. Rep(m) = m
      BY <1>6, <2>4
    <3>3. m = Id(map[l])
      BY <1>8, <3>1, <3>2
    <3> QED
      BY <1>2, <1>3, <3>1, <3>3
  <2> QED
    BY <2>1, <2>2, <2>3, <2>4
<1>9. ASSUME NEW m \in DOMAIN map
      PROVE  Rep(m) \in DOMAIN new /\ new[Rep(m)] = map[m]
  <2> DEFINE l == CHOOSE x \in DOMAIN map : Rep(x) = Rep(m)
  <2>1. l \in DOMAIN map /\ Rep(l) = Rep(m)
    OBVIOUS
  <2>2. l = m
    BY <1>8, <2>1
  <2>3. Rep(m) \in DOMAIN new
    BY <1>7
  <2>4. new[Rep(m)] = map[l]
    BY <1>7, <2>3
  <2> HIDE DEF l
  <2> QED
    BY <2>2, <2>3, <2>4
<1>10. ASSUME NEW k \in DOMAIN new
       PROVE  \/ k \in DOMAIN map /\ new[k] = map[k]
              \/ \E r \in R : /\ k = Id(r) /\ new[k] = r
                              /\ request[r].msgId \in DOMAIN map
                              /\ map[request[r].msgId] = r
  <2>1. PICK m \in DOMAIN map : k = Rep(m)
    BY <1>7
  <2>2. new[k] = map[m]
    BY <1>9, <2>1
  <2>3. CASE map[m] \in R /\ request[map[m]].msgId = m
    BY <1>5, <2>1, <2>2, <2>3
  <2>4. CASE ~(map[m] \in R /\ request[map[m]].msgId = m)
    BY <1>6, <2>1, <2>2, <2>4
  <2> QED
    BY <2>3, <2>4
<1> QED
  BY <1>9, <1>10 DEF R, Id, new, Replaces

-----------------------------------------------------------------------------
(* What sending does to the maps: each request of S is sent as id[r]; those *)
(* of R have got a new id.                                                  *)

RequestType ==
  [Requests -> [msgId : MsgIds \cup {0}, force : BOOLEAN, session : Nat]]

Prepares(S, R, id) ==
  /\ S \in SUBSET Requests /\ R \in SUBSET S /\ id \in [S -> MsgIds]
  /\ \A r \in R : ~Made(id[r])
  /\ \A r \in S \ R : /\ id[r] = request[r].msgId /\ id[r] # 0
                      /\ <<id[r], r>> \in carried
  /\ \A q, r \in S : id[q] = id[r] => q = r
  /\ request' \in RequestType
  /\ \A r \in Requests : /\ request'[r].force = request[r].force
                         /\ request'[r].msgId = IF r \in S THEN id[r]
                                                ELSE request[r].msgId
  /\ carried' = carried \cup {<<id[r], r>> : r \in S}
  /\ \A m \in DOMAIN haveSent' :
       \/ m \in DOMAIN haveSent /\ haveSent'[m] = haveSent[m]
       \/ \E r \in S : m = id[r] /\ haveSent'[m] = r
  /\ \A m \in DOMAIN haveSent : haveSent[m] \in Values(haveSent')
  /\ \A r \in S : r \in Values(haveSent')
  /\ \A m \in DOMAIN ackedIds' :
       \/ m \in DOMAIN ackedIds /\ ackedIds'[m] = ackedIds[m]
       \/ \E r \in R : /\ m = id[r] /\ ackedIds'[m] = r
                       /\ request[r].msgId \in DOMAIN ackedIds
                       /\ ackedIds[request[r].msgId] = r
  /\ resendingIds' = Without(resendingIds, {request[r].msgId : r \in S})

LEMMA PrepareDoes ==
  ASSUME TInv, NEW S \in SUBSET Requests, NEW forceNew \in BOOLEAN, NEW n \in Nat,
         Cardinality(Renumbered(S, forceNew)) <= n, Room(n),
         PrepareToSend(S, forceNew)
  PROVE  Prepares(S, Renumbered(S, forceNew),
                  [r \in S |-> PreparedId(S, forceNew, r)])
<1> DEFINE R == Renumbered(S, forceNew)
           Id(r) == PreparedId(S, forceNew, r)
           id == [r \in S |-> Id(r)]
<1>1. TypeOK /\ IdsInv
  BY DEF TInv
<1>2. S \in SUBSET Requests /\ R \in SUBSET S
  BY DEF Renumbered
<1>3. /\ \A r \in R : Id(r) \in MsgIds /\ ~Made(Id(r))
      /\ \A r \in S \ R : /\ Id(r) = request[r].msgId /\ Id(r) \in MsgIds
                          /\ <<Id(r), r>> \in carried
      /\ \A q, r \in S : Id(q) = Id(r) => q = r
  BY PreparedIds
<1>4. /\ request' = [r \in Requests |->
              IF r \in R THEN [request[r] EXCEPT !.msgId = Id(r), !.session = session]
              ELSE request[r]]
      /\ resendingIds' = Without(resendingIds, {request[r].msgId : r \in S})
      /\ ackedIds' = ReplaceKeys(S, forceNew, ackedIds)
      /\ haveSent' = Emplace(ReplaceKeys(S, forceNew, haveSent),
              [m \in {Id(r) : r \in S} |-> CHOOSE r \in S : Id(r) = m])
      /\ carried' = carried \cup {<<Id(r), r>> : r \in S}
  BY DEF PrepareToSend
<1>5. Replaces(S, forceNew, haveSent) /\ Replaces(S, forceNew, ackedIds)
  <2>1. Within(haveSent, carried) /\ Within(ackedIds, carried)
    BY <1>1 DEF IdsInv
  <2> QED
    BY <2>1, ReplacedKeys
<1>6. \A k \in DOMAIN ackedIds' :
        \/ k \in DOMAIN ackedIds /\ ackedIds'[k] = ackedIds[k]
        \/ \E r \in R : /\ k = Id(r) /\ ackedIds'[k] = r
                        /\ request[r].msgId \in DOMAIN ackedIds
                        /\ ackedIds[request[r].msgId] = r
  BY <1>4, <1>5 DEF Replaces
<1>7. \A r \in S : id[r] = Id(r)
  OBVIOUS
<1>8. 0 \notin MsgIds
  BY DEF MsgIds
<1> DEFINE old == ReplaceKeys(S, forceNew, haveSent)
           sent == [m \in {Id(r) : r \in S} |-> CHOOSE r \in S : Id(r) = m]
<1>9. \A r \in S : Id(r) \in DOMAIN sent /\ sent[Id(r)] = r
  BY <1>3
<1>10. \A m \in DOMAIN sent : \E r \in S : m = Id(r)
  OBVIOUS
<1>11. haveSent' = Emplace(old, sent)
  BY <1>4
<1>12. session \in Nat /\ request \in RequestType
  BY <1>1 DEF TypeOK, RequestType
<1>25. /\ \A k \in DOMAIN old :
            \/ k \in DOMAIN haveSent /\ old[k] = haveSent[k]
            \/ \E r \in R : k = Id(r) /\ old[k] = r
       /\ \A m \in DOMAIN haveSent : \E k \in DOMAIN old : old[k] = haveSent[m]
  BY <1>5 DEF Replaces
<1> HIDE DEF R, Id, old, sent
<1>13. request' \in RequestType
  BY <1>2, <1>3, <1>4, <1>12 DEF RequestType
<1>14. \A r \in Requests : /\ request'[r].force = request[r].force
                           /\ request'[r].msgId = IF r \in S THEN id[r]
                                                  ELSE request[r].msgId
  <2> SUFFICES ASSUME NEW r \in Requests
               PROVE  /\ request'[r].force = request[r].force
                      /\ request'[r].msgId = IF r \in S THEN id[r]
                                             ELSE request[r].msgId
    OBVIOUS
  <2>1. request[r] \in [msgId : MsgIds \cup {0}, force : BOOLEAN, session : Nat]
    BY <1>12 DEF RequestType
  <2>2. CASE r \in R
    BY <1>2, <1>4, <1>7, <2>1, <2>2
  <2>3. CASE r \notin R
    BY <1>2, <1>3, <1>4, <1>7, <2>1, <2>3
  <2> QED
    BY <2>2, <2>3
<1>15. /\ DOMAIN haveSent' = DOMAIN old \cup DOMAIN sent
       /\ \A m \in DOMAIN haveSent' :
            haveSent'[m] = IF m \in DOMAIN old THEN old[m] ELSE sent[m]
  BY <1>11 DEF Emplace
<1>16. \A m \in DOMAIN haveSent' :
         \/ m \in DOMAIN haveSent /\ haveSent'[m] = haveSent[m]
         \/ \E r \in S : m = id[r] /\ haveSent'[m] = r
  <2> SUFFICES ASSUME NEW m \in DOMAIN haveSent'
               PROVE  \/ m \in DOMAIN haveSent /\ haveSent'[m] = haveSent[m]
                      \/ \E r \in S : m = id[r] /\ haveSent'[m] = r
    OBVIOUS
  <2>1. CASE m \in DOMAIN old
    BY <1>2, <1>7, <1>15, <1>25, <2>1
  <2>2. CASE m \notin DOMAIN old
    BY <1>7, <1>9, <1>10, <1>15, <2>2
  <2> QED
    BY <2>1, <2>2
<1>17. \A m \in DOMAIN haveSent : haveSent[m] \in Values(haveSent')
  BY <1>15, <1>25 DEF Values
<1>18. ASSUME NEW r \in S PROVE r \in Values(haveSent')
  <2>1. Id(r) \in DOMAIN haveSent'
    BY <1>9, <1>15
  <2>2. CASE haveSent'[Id(r)] = r
    BY <2>1, <2>2 DEF Values
  <2>3. CASE haveSent'[Id(r)] # r
    <3>1. Id(r) \in DOMAIN haveSent /\ haveSent'[Id(r)] = haveSent[Id(r)]
      BY <1>3, <1>7, <1>16, <2>1, <2>3
    <3>2. <<Id(r), haveSent[Id(r)]>> \in carried
      BY <1>1, <3>1 DEF IdsInv, Within
    <3>3. r \notin R
      BY <1>1, <1>3, <3>2 DEF IdsInv
    <3>4. <<Id(r), r>> \in carried
      BY <1>3, <3>3
    <3> QED
      BY <1>1, <2>3, <3>1, <3>2, <3>4 DEF IdsInv
  <2> QED
    BY <2>2, <2>3
<1>19. id \in [S -> MsgIds]
  BY <1>2, <1>3
<1>20. \A r \in S \ R : /\ id[r] = request[r].msgId /\ id[r] # 0
                        /\ <<id[r], r>> \in carried
  BY <1>3, <1>7, <1>8
<1>21. carried' = carried \cup {<<id[r], r>> : r \in S}
  BY <1>4, <1>7
<1>22. /\ \A r \in R : ~Made(id[r])
       /\ \A q, r \in S : id[q] = id[r] => q = r
  BY <1>2, <1>3, <1>7
<1>23. \A k \in DOMAIN ackedIds' :
         \/ k \in DOMAIN ackedIds /\ ackedIds'[k] = ackedIds[k]
         \/ \E r \in R : /\ k = id[r] /\ ackedIds'[k] = r
                         /\ request[r].msgId \in DOMAIN ackedIds
                         /\ ackedIds[request[r].msgId] = r
  BY <1>2, <1>6, <1>7
<1> HIDE DEF id
<1>24. Prepares(S, R, id)
  BY <1>2, <1>4, <1>13, <1>14, <1>16, <1>17, <1>18, <1>19, <1>20, <1>21, <1>22,
     <1>23 DEF Prepares
<1> QED
  BY <1>24 DEF R, id, Id

-----------------------------------------------------------------------------
(* The ids stay consistent in every step.                                   *)

\* A step in which no id is given: the clock stays, or is put right.
NoNewIds ==
  /\ carried' = carried
  /\ clock' = clock \/ clock' = CorrectedClock \/ (Ahead /\ clock' = 0)

LEMMA NoNewIdsKept ==
  ASSUME TInv, NoNewIds
  PROVE  /\ clock' \in 0 .. StartClock + MaxIds
         /\ Ahead' \/ clock' <= MaxIds
         /\ \A c \in carried' : Made(c[1])'
         /\ \A c, d \in carried' : c[1] = d[1] => c[2] = d[2]
<1>1. /\ clock \in Nat /\ StartClock \in Nat /\ MaxIds \in Nat
      /\ clock <= StartClock + MaxIds
      /\ StartClock = 0 \/ StartClock > MaxIds
      /\ Ahead \/ clock <= MaxIds
  BY SessionSendAssumption DEF TInv, TypeOK, IdsInv
<1>2. TypeOK /\ IdsInv
  BY DEF TInv
<1>3. /\ clock' \in 0 .. StartClock + MaxIds
      /\ Ahead' \/ clock' <= MaxIds
  BY <1>1 DEF NoNewIds, CorrectedClock, Ahead
<1>4. ASSUME NEW c \in carried PROVE Made(c[1])'
  <2>1. c[1] \in MsgIds /\ Made(c[1])
    BY <1>2 DEF TypeOK, IdsInv
  <2>2. c[1] \in Nat
    BY <1>1, <2>1 DEF MsgIds
  <2> QED
    BY <1>1, <2>1, <2>2 DEF NoNewIds, CorrectedClock, Ahead, Made
<1>5. carried' = carried
  BY DEF NoNewIds
<1> QED
  BY <1>2, <1>3, <1>4, <1>5 DEF IdsInv

\* What an acknowledgement does to the maps.
LEMMA AckedWithin ==
  ASSUME TInv, NEW S, NEW byResponse, RequestsAcked(S, byResponse)
  PROVE  /\ Within(haveSent', carried) /\ Within(resendingIds', carried)
         /\ Within(ackedIds', carried) /\ toSend' \subseteq toSend
<1>1. /\ Within(haveSent, carried) /\ Within(resendingIds, carried)
      /\ Within(ackedIds, carried)
  BY DEF TInv, IdsInv
<1> DEFINE drop == AckDrops(S, byResponse)
           resent == (drop \cap DOMAIN resendingIds) \ DOMAIN haveSent
           cancelled == {m \in resent : resendingIds[m] \in toSend}
<1>2. /\ haveSent' = Without(haveSent, drop)
      /\ resendingIds' = Without(resendingIds, resent)
      /\ toSend' = toSend \ {resendingIds[m] : m \in cancelled}
      /\ ackedIds' = Trimmed(Emplace(Emplace(ackedIds, Only(haveSent, drop)),
                                     Only(resendingIds, cancelled)))
  BY DEF RequestsAcked
<1> HIDE DEF drop, resent, cancelled
<1>3. Within(haveSent', carried) /\ Within(resendingIds', carried)
  BY <1>1, <1>2, WithoutWithin
<1>4. Within(Only(haveSent, drop), carried) /\ Within(Only(resendingIds, cancelled), carried)
  BY <1>1, OnlyWithin
<1>5. Within(Emplace(ackedIds, Only(haveSent, drop)), carried)
  BY <1>1, <1>4, EmplaceWithin
<1>6. Within(Emplace(Emplace(ackedIds, Only(haveSent, drop)),
                     Only(resendingIds, cancelled)), carried)
  BY <1>4, <1>5, EmplaceWithin
<1>7. Within(ackedIds', carried)
  BY <1>2, <1>6, OnlyWithin DEF Trimmed
<1> QED
  BY <1>2, <1>3, <1>7

\* The parts of the invariant each thread looks after.
MainType ==
  /\ parser \subseteq WithCallback /\ stored \subseteq Requests
  /\ delayed \subseteq Requests
  /\ main \in [pc : {"idle", "cancelToSend", "cancelHaveSent",
                     "cancelParser", "emplaceParser"},
               req : Requests \cup {0}, id : MsgIds \cup {0}]
  /\ MainInv
  /\ toSend \subseteq Requests /\ queued \in BOOLEAN
  /\ received \in Seq([req : Requests, kind : ErrorKind \cup {"done"},
                       id : MsgIds])
  /\ request \in RequestType
  /\ used \subseteq Requests /\ answered \subseteq Requests

NetType ==
  /\ connected \in BOOLEAN /\ started \in BOOLEAN /\ session \in Nat
  /\ DOMAIN sentContainers \subseteq MsgIds
  /\ Values(sentContainers) \subseteq SUBSET MsgIds
  /\ stateRequestData \subseteq MsgIds
  /\ DOMAIN stateRequests \subseteq MsgIds
  /\ Values(stateRequests) \subseteq SUBSET MsgIds
  /\ checkTimer \in BOOLEAN
  /\ wire \subseteq MsgIds /\ replied \subseteq MsgIds
  /\ IoInv

MapsInv ==
  /\ carried \subseteq MsgIds \X Requests
  /\ clock \in 0 .. StartClock + MaxIds
  /\ Ahead \/ clock <= MaxIds
  /\ \A c \in carried : Made(c[1])
  /\ \A c, d \in carried : c[1] = d[1] => c[2] = d[2]
  /\ Within(haveSent, carried) /\ Within(resendingIds, carried)
  /\ Within(ackedIds, carried) /\ Within(io.held, carried)

ObjectsInv ==
  /\ \A r \in Requests :
       request[r].msgId # 0 => <<request[r].msgId, r>> \in carried
  /\ main.id # 0 => <<main.id, main.req>> \in carried
  /\ AnswersMatch

LEMMA TParts == TInv <=> MainType /\ NetType /\ MapsInv /\ ObjectsInv
<1>1. TInv => MainType /\ NetType /\ MapsInv /\ ObjectsInv
  BY DEF TInv, TypeOK, IdsInv, MainType, NetType, MapsInv, ObjectsInv, RequestType
<1>2. ASSUME MainType, NetType, MapsInv, ObjectsInv PROVE TInv
  <2>1. /\ DOMAIN haveSent \subseteq MsgIds /\ Values(haveSent) \subseteq Requests
        /\ DOMAIN resendingIds \subseteq MsgIds /\ Values(resendingIds) \subseteq Requests
        /\ DOMAIN ackedIds \subseteq MsgIds /\ Values(ackedIds) \subseteq Requests
        /\ DOMAIN io.held \subseteq MsgIds /\ Values(io.held) \subseteq Requests
    BY <1>2, WithinType DEF MapsInv
  <2>2. IoInv /\ IdsInv
    BY <1>2 DEF NetType, MapsInv, ObjectsInv, IdsInv
  <2>3. /\ io.pc \in {"idle", "single", "resend", "put"}
        /\ io.req \in Requests \cup {0}
        /\ io.todo \subseteq MsgIds /\ io.acks \subseteq MsgIds
    BY <2>2 DEF IoInv
  <2>4. TypeOK
    BY <1>2, <2>1, <2>3 DEF TypeOK, MainType, NetType, MapsInv, RequestType
  <2> QED
    BY <1>2, <2>2, <2>4 DEF TInv, MainType
<1> QED
  BY <1>1, <1>2

LEMMA TPartsNext == MainType' /\ NetType' /\ MapsInv' /\ ObjectsInv' => TInv'
<1>1. (TInv <=> MainType /\ NetType /\ MapsInv /\ ObjectsInv)'
  BY TParts, PTL
<1> QED
  BY <1>1

LEMMA TInit == Init => TInv
<1> SUFFICES ASSUME Init PROVE TInv
  OBVIOUS
<1>1. MainType
  <2>1. received \in Seq([req : Requests, kind : ErrorKind \cup {"done"},
                         id : MsgIds])
    BY EmptySeq DEF Init
  <2> QED
    BY <2>1 DEF Init, MainType, MainInv, RequestType, MainIdle
<1>2. NetType
  BY DEF Init, NetType, IoInv, Idle, NoEntries, Values
<1>3. MapsInv
  BY SessionSendAssumption
     DEF Init, MapsInv, Within, NoEntries, Idle, Ahead
<1>4. ObjectsInv
  BY DEF Init, ObjectsInv, MainIdle, AnswersMatch
<1> QED
  BY <1>1, <1>2, <1>3, <1>4, TParts

LEMMA MapsKept ==
  ASSUME TInv, NoNewIds, Within(haveSent', carried), Within(resendingIds', carried),
         Within(ackedIds', carried), Within(io'.held, carried)
  PROVE  MapsInv'
<1>1. carried' = carried /\ carried \subseteq MsgIds \X Requests
  BY DEF TInv, TypeOK, NoNewIds
<1>2. /\ clock' \in 0 .. StartClock + MaxIds
      /\ Ahead' \/ clock' <= MaxIds
      /\ \A c \in carried' : Made(c[1])'
      /\ \A c, d \in carried' : c[1] = d[1] => c[2] = d[2]
  BY NoNewIdsKept
<1> QED
  BY <1>1, <1>2 DEF MapsInv, Within

\* The main thread.
LEMMA TMain ==
  ASSUME TInv, MainStep \/ (\E r \in Requests : SendRequest(r) \/ CancelRequest(r))
  PROVE  TInv'
<1>1. MainType /\ NetType /\ MapsInv /\ ObjectsInv
  BY TParts
<1> DEFINE Net == UNCHANGED <<connected, session, started, ids, checks, io, clock,
                              server>>
<1>2. ASSUME Net PROVE NetType'
  BY <1>1, <1>2 DEF NetType, IoInv, ids, checks, server
<1>3. ASSUME Net, Within(haveSent', carried) PROVE MapsInv'
  <2>1. NoNewIds /\ UNCHANGED <<resendingIds, ackedIds, io>>
    BY <1>3 DEF NoNewIds, ids, server
  <2> QED
    BY <1>1, <1>3, <2>1, MapsKept DEF MapsInv
<1>4. Within(haveSent, carried) /\ (Net => carried' = carried)
  BY <1>1 DEF MapsInv, server
<1> HIDE DEF Net
<1>5. CASE CancelToSend
  <2>1. Net
    BY <1>5 DEF CancelToSend, Net
  <2>3. MainType'
    BY <1>1, <1>5 DEF CancelToSend, MainType, MainInv, history
  <2>4. ObjectsInv'
    BY <1>1, <1>4, <1>5, <2>1 DEF CancelToSend, ObjectsInv, AnswersMatch
  <2> QED
    BY <1>2, <1>3, <1>4, <1>5, <2>1, <2>3, <2>4, TPartsNext DEF CancelToSend
<1>6. CASE CancelHaveSent
  <2>1. Net
    BY <1>6 DEF CancelHaveSent, Net
  <2>3. MainType'
    BY <1>1, <1>6 DEF CancelHaveSent, MainType, MainInv, history
  <2>4. ObjectsInv'
    BY <1>1, <1>4, <1>6, <2>1 DEF CancelHaveSent, ObjectsInv, AnswersMatch
  <2>2. Within(haveSent', carried)
    BY <1>4, <1>6, WithoutWithin DEF CancelHaveSent
  <2> QED
    BY <1>2, <1>3, <2>1, <2>2, <2>3, <2>4, TPartsNext
<1>7. CASE CancelParser
  <2>1. Net
    BY <1>7 DEF CancelParser, Net
  <2>3. MainType'
    BY <1>1, <1>7 DEF CancelParser, MainType, MainInv, history, MainIdle, data
  <2>4. ObjectsInv'
    BY <1>1, <1>4, <1>7, <2>1 DEF CancelParser, ObjectsInv, AnswersMatch, MainIdle, data
  <2> QED
    BY <1>2, <1>3, <1>4, <1>7, <2>1, <2>3, <2>4, TPartsNext DEF CancelParser, data
<1>8. CASE EmplaceParser
  <2>1. Net
    BY <1>8 DEF EmplaceParser, Net
  <2>3. MainType'
    BY <1>1, <1>8 DEF EmplaceParser, MainType, MainInv, history, MainIdle, data
  <2>4. ObjectsInv'
    BY <1>1, <1>4, <1>8, <2>1 DEF EmplaceParser, ObjectsInv, AnswersMatch, MainIdle, data
  <2> QED
    BY <1>2, <1>3, <1>4, <1>8, <2>1, <2>3, <2>4, TPartsNext DEF EmplaceParser, data
<1>9. ASSUME NEW r \in Requests, CancelRequest(r) PROVE TInv'
  <2>1. Net
    BY <1>9 DEF CancelRequest, Net
  <2>3. MainType'
    BY <1>1, <1>9 DEF CancelRequest, MainType, MainInv, history, data, RequestType
  <2>4. ObjectsInv'
    BY <1>1, <1>4, <1>9, <2>1 DEF CancelRequest, ObjectsInv, AnswersMatch, data
  <2> QED
    BY <1>2, <1>3, <1>4, <1>9, <2>1, <2>3, <2>4, TPartsNext DEF CancelRequest, data
<1>10. ASSUME NEW r \in Requests, SendPrepared(r)
       PROVE  /\ toSend' \subseteq Requests /\ queued' \in BOOLEAN
              /\ request' \in RequestType
              /\ \A q \in Requests : request'[q].msgId # 0 =>
                                       <<request'[q].msgId, q>> \in carried
  BY <1>1, <1>10 DEF SendPrepared, MainType, ObjectsInv, RequestType
<1>11. ASSUME NEW r \in Requests, CheckDelayedRequests(r) PROVE TInv'
  <2>1. Net /\ UNCHANGED <<haveSent, received, parser, stored, main, used, answered>>
        /\ delayed' \subseteq delayed
    BY <1>11 DEF CheckDelayedRequests, Net, history
  <2>2. /\ toSend' \subseteq Requests /\ queued' \in BOOLEAN /\ request' \in RequestType
        /\ \A q \in Requests : request'[q].msgId # 0 =>
                                 <<request'[q].msgId, q>> \in carried
    BY <1>1, <1>10, <1>11 DEF CheckDelayedRequests, MainType, ObjectsInv
  <2>3. MainType'
    BY <1>1, <2>1, <2>2 DEF MainType, MainInv
  <2>4. ObjectsInv'
    BY <1>1, <1>4, <2>1, <2>2 DEF ObjectsInv, AnswersMatch
  <2> QED
    BY <1>2, <1>3, <1>4, <2>1, <2>3, <2>4, TPartsNext
<1>12. ASSUME NEW r \in Requests, SendRequest(r) PROVE TInv'
  <2>1. Net /\ UNCHANGED <<haveSent, received, delayed, main, answered>>
        /\ stored' = stored \cup {r} /\ used' = used \cup {r}
        /\ parser' = parser \cup ({r} \cap WithCallback) /\ SendPrepared(r)
    BY <1>12 DEF SendRequest, Net
  <2>2. MainType'
    BY <1>1, <1>10, <2>1 DEF MainType, MainInv
  <2>3. ObjectsInv'
    BY <1>1, <1>4, <1>10, <2>1 DEF ObjectsInv, AnswersMatch
  <2> QED
    BY <1>2, <1>3, <1>4, <2>1, <2>2, <2>3, TPartsNext
<1>13. CASE ProcessCallback
  <2> DEFINE r == Head(received).req
             kind == Head(received).kind
             Answer == [req : Requests, kind : ErrorKind \cup {"done"}, id : MsgIds]
  <2>1. /\ received \in Seq(Answer) /\ received # <<>> /\ received' = Tail(received)
        /\ Net /\ UNCHANGED <<haveSent, used>>
    BY <1>1, <1>13 DEF ProcessCallback, MainType, Net
  <2>2. Head(received) \in Answer /\ received' \in Seq(Answer)
        /\ \A i \in DOMAIN received' : received'[i] = received[i + 1]
                                       /\ i + 1 \in DOMAIN received
    <3>1. Head(received) \in Answer /\ received' \in Seq(Answer)
      BY <2>1, HeadTailProperties
    <3>2. /\ Len(received) \in Nat /\ DOMAIN received = 1 .. Len(received)
          /\ DOMAIN received' = 1 .. Len(received) - 1
          /\ \A i \in 1 .. Len(received) - 1 : received'[i] = received[i + 1]
      BY <2>1, HeadTailProperties
    <3> QED
      BY <3>1, <3>2
  <2>3. r \in Requests
    BY <2>2
  <2>4. /\ parser' = parser \ {r} /\ stored' \subseteq stored
        /\ answered' \subseteq answered \cup parser
        /\ delayed' \subseteq delayed \cup {r}
        /\ \/ main' = main
           \/ r \in parser /\ main' = [pc |-> "emplaceParser", req |-> r, id |-> 0]
        /\ SendPrepared(r) \/ UNCHANGED <<toSend, request, queued>>
    BY <1>13 DEF ProcessCallback
  <2> HIDE DEF r, kind, Answer
  <2>5. /\ toSend' \subseteq Requests /\ queued' \in BOOLEAN /\ request' \in RequestType
        /\ \A q \in Requests : request'[q].msgId # 0 =>
                                 <<request'[q].msgId, q>> \in carried
    BY <1>1, <1>10, <2>3, <2>4 DEF MainType, ObjectsInv
  <2>6. main' \in [pc : {"idle", "cancelToSend", "cancelHaveSent",
                          "cancelParser", "emplaceParser"},
                   req : Requests \cup {0}, id : MsgIds \cup {0}]
        /\ (main'.id # 0 => <<main'.id, main'.req>> \in carried)
        /\ MainInv'
    BY <1>1, <2>3, <2>4 DEF MainType, MainInv, ObjectsInv
  <2>7. MainType'
    BY <1>1, <2>1, <2>2, <2>3, <2>4, <2>5, <2>6, SessionSendAssumption
       DEF MainType, Answer
  <2>8. ObjectsInv'
    BY <1>1, <1>4, <2>1, <2>2, <2>5, <2>6 DEF ObjectsInv, AnswersMatch
  <2> QED
    BY <1>2, <1>3, <1>4, <2>1, <2>7, <2>8, TPartsNext
<1> QED
  BY <1>5, <1>6, <1>7, <1>8, <1>9, <1>11, <1>12, <1>13 DEF MainStep

\* The clock goes on by n ids.
LEMMA ClockGoesOn ==
  ASSUME TInv, NEW n \in Nat, Room(n), clock' = clock + n
  PROVE  /\ clock' \in 0 .. StartClock + MaxIds
         /\ Ahead' <=> Ahead
         /\ Ahead' \/ clock' <= MaxIds
         /\ \A m \in MsgIds : Made(m) => Made(m)'
         /\ \A m \in clock + 1 .. clock + n : m \in MsgIds /\ Made(m)'
<1>1. /\ clock \in Nat /\ StartClock \in Nat /\ MaxIds \in Nat
      /\ StartClock = 0 \/ StartClock > MaxIds
      /\ Ahead \/ clock <= MaxIds
  BY SessionSendAssumption DEF TInv, TypeOK, IdsInv
<1>2. clock + n <= (IF Ahead THEN StartClock ELSE 0) + MaxIds
  BY DEF Room
<1>3. Ahead' <=> Ahead
  BY <1>1, <1>2 DEF Ahead
<1>4. ASSUME NEW m \in MsgIds, Made(m) PROVE Made(m)'
  BY <1>1, <1>2, <1>4 DEF Made, Ahead, MsgIds
<1>5. ASSUME NEW m \in clock + 1 .. clock + n PROVE m \in MsgIds /\ Made(m)'
  BY <1>1, <1>2 DEF Made, Ahead, MsgIds
<1> QED
  BY <1>1, <1>2, <1>3, <1>4, <1>5 DEF Ahead

\* The maps and the request objects when S is sent.
LEMMA SentMaps ==
  ASSUME TInv, NEW n \in Nat, Room(n), clock' = clock + n,
         NEW S, NEW R, NEW id, Prepares(S, R, id),
         \A r \in R : id[r] \in clock + 1 .. clock + n,
         Within(io'.held, carried)
  PROVE  /\ MapsInv'
         /\ carried \subseteq carried'
         /\ \A r \in Requests :
              request'[r].msgId # 0 => <<request'[r].msgId, r>> \in carried'
<1>1. TypeOK /\ IdsInv
  BY DEF TInv
<1>2. /\ S \subseteq Requests /\ R \subseteq S /\ id \in [S -> MsgIds]
      /\ \A r \in R : ~Made(id[r])
      /\ \A r \in S \ R : <<id[r], r>> \in carried
      /\ \A q, r \in S : id[q] = id[r] => q = r
      /\ carried' = carried \cup {<<id[r], r>> : r \in S}
  BY DEF Prepares
<1>3. carried \subseteq carried' /\ carried' \subseteq MsgIds \X Requests
  BY <1>1, <1>2 DEF TypeOK
<1>4. ASSUME NEW c \in carried' PROVE Made(c[1])'
  <2>1. CASE c \in carried
    <3>1. c[1] \in MsgIds /\ Made(c[1])
      BY <1>1, <2>1 DEF TypeOK, IdsInv
    <3> QED
      BY <3>1, ClockGoesOn
  <2>2. ASSUME NEW r \in R, c = <<id[r], r>> PROVE Made(c[1])'
    <3>1. \A m \in clock + 1 .. clock + n : Made(m)'
      BY ClockGoesOn
    <3>2. c[1] \in clock + 1 .. clock + n
      BY <2>2
    <3> QED
      BY <3>1, <3>2
  <2> QED
    BY <1>2, <2>1, <2>2
<1>5. ASSUME NEW c \in carried', NEW d \in carried', c[1] = d[1] PROVE c[2] = d[2]
  <2>1. \A e \in carried' : e \in carried \/ \E r \in R : e = <<id[r], r>>
    BY <1>2
  <2>2. CASE c \in carried /\ d \in carried
    BY <1>1, <1>5, <2>2 DEF IdsInv
  <2>3. ASSUME NEW r \in R, c = <<id[r], r>> PROVE c[2] = d[2]
    <3>1. d \notin carried
      BY <1>1, <1>2, <1>5, <2>3 DEF IdsInv
    <3>2. PICK q \in R : d = <<id[q], q>>
      BY <2>1, <3>1
    <3> QED
      BY <1>2, <1>5, <2>3, <3>2
  <2>4. ASSUME NEW r \in R, d = <<id[r], r>> PROVE c[2] = d[2]
    <3>1. c \notin carried
      BY <1>1, <1>2, <1>5, <2>4 DEF IdsInv
    <3>2. PICK q \in R : c = <<id[q], q>>
      BY <2>1, <3>1
    <3> QED
      BY <1>2, <1>5, <2>4, <3>2
  <2> QED
    BY <2>1, <2>2, <2>3, <2>4
<1>6. Within(haveSent', carried')
  <2>1. \A m \in DOMAIN haveSent' :
          \/ m \in DOMAIN haveSent /\ haveSent'[m] = haveSent[m]
          \/ \E r \in S : m = id[r] /\ haveSent'[m] = r
    BY DEF Prepares
  <2> QED
    BY <1>1, <1>2, <2>1 DEF IdsInv, Within
<1>7. Within(ackedIds', carried')
  <2>1. \A m \in DOMAIN ackedIds' :
          \/ m \in DOMAIN ackedIds /\ ackedIds'[m] = ackedIds[m]
          \/ \E r \in R : m = id[r] /\ ackedIds'[m] = r
    BY DEF Prepares
  <2> QED
    BY <1>1, <1>2, <2>1 DEF IdsInv, Within
<1>8. Within(resendingIds', carried')
  <2>1. Within(resendingIds', carried)
    BY <1>1, WithoutWithin DEF Prepares, IdsInv
  <2> QED
    BY <1>3, <2>1 DEF Within
<1>9. Within(io'.held, carried')
  BY <1>3 DEF Within
<1>10. ASSUME NEW r \in Requests, request'[r].msgId # 0
       PROVE  <<request'[r].msgId, r>> \in carried'
  <2>1. request'[r].msgId = IF r \in S THEN id[r] ELSE request[r].msgId
    BY DEF Prepares
  <2>2. CASE r \in S
    BY <1>2, <2>1, <2>2
  <2>3. CASE r \notin S
    BY <1>1, <1>3, <1>10, <2>1, <2>3 DEF IdsInv
  <2> QED
    BY <2>2, <2>3
<1>11. clock' \in 0 .. StartClock + MaxIds /\ (Ahead' \/ clock' <= MaxIds)
  BY ClockGoesOn
<1> QED
  BY <1>3, <1>4, <1>5, <1>6, <1>7, <1>8, <1>9, <1>10, <1>11 DEF MapsInv

\* The containers name messages.
LEMMA ReplacedContainersType ==
  ASSUME TInv, NEW S \in SUBSET Requests, NEW forceNew \in BOOLEAN, NEW n \in Nat,
         Cardinality(Renumbered(S, forceNew)) <= n, Room(n)
  PROVE  /\ DOMAIN ReplacedContainers(S, forceNew) = DOMAIN sentContainers
         /\ \A c \in DOMAIN sentContainers :
              ReplacedContainers(S, forceNew)[c] \subseteq MsgIds
<1> DEFINE R == Renumbered(S, forceNew)
<1>1. \A r \in R : PreparedId(S, forceNew, r) \in MsgIds
  BY PreparedIds
<1>2. ASSUME NEW m \in MsgIds PROVE ReplacedId(S, forceNew, m) \in MsgIds
  <2>1. CASE \E r \in R : m # 0 /\ request[r].msgId = m
    <3>1. (CHOOSE r \in R : request[r].msgId = m) \in R
      BY <2>1
    <3> QED
      BY <1>1, <2>1, <3>1 DEF ReplacedId
  <2>2. CASE ~\E r \in R : m # 0 /\ request[r].msgId = m
    BY <2>2 DEF ReplacedId
  <2> QED
    BY <2>1, <2>2
<1>3. \A c \in DOMAIN sentContainers : sentContainers[c] \subseteq MsgIds
  BY DEF TInv, TypeOK, Values
<1> QED
  BY <1>2, <1>3 DEF ReplacedContainers

\* Steps of the network thread: which parts a step without new ids keeps.
LEMMA ObjectsKept ==
  ASSUME ObjectsInv, carried \subseteq carried', UNCHANGED <<main, received>>,
         \A r \in Requests :
           request'[r].msgId # 0 => <<request'[r].msgId, r>> \in carried'
  PROVE  ObjectsInv'
  BY DEF ObjectsInv, AnswersMatch

\* The effect of a send, as one fact for both ways to do it.
Sends(S, forceNew) ==
  /\ MapsInv' /\ ObjectsInv' /\ request' \in RequestType
  /\ \A r \in S : PreparedId(S, forceNew, r) \in MsgIds

LEMMA SendsThem ==
  ASSUME TInv, NEW S \in SUBSET Requests, NEW forceNew \in BOOLEAN, NEW n \in Nat,
         Cardinality(Renumbered(S, forceNew)) <= n, Room(n), clock' = clock + n,
         PrepareToSend(S, forceNew), DOMAIN io'.held = {},
         UNCHANGED <<main, received>>
  PROVE  Sends(S, forceNew)
<1> DEFINE R == Renumbered(S, forceNew)
           id == [r \in S |-> PreparedId(S, forceNew, r)]
<1>1. Prepares(S, R, id)
  BY PrepareDoes
<1>2. \A r \in R : id[r] \in clock + 1 .. clock + n
  <2>1. \A r \in R : PreparedId(S, forceNew, r) \in clock + 1 .. clock + n
    BY PreparedIds
  <2> QED
    BY <2>1 DEF Renumbered
<1>3. \A r \in S : PreparedId(S, forceNew, r) \in MsgIds
  BY PreparedIds
<1> HIDE DEF R, id
<1>4. Within(io'.held, carried)
  BY DEF Within
<1>5. /\ MapsInv' /\ carried \subseteq carried'
      /\ \A r \in Requests :
           request'[r].msgId # 0 => <<request'[r].msgId, r>> \in carried'
  BY <1>1, <1>2, <1>4, SentMaps
<1>6. ObjectsInv
  BY TParts
<1>7. ObjectsInv'
  BY <1>5, <1>6, ObjectsKept
<1> QED
  BY <1>1, <1>3, <1>5, <1>7 DEF Sends, Prepares

LEMMA StateRequestType ==
  ASSUME NetType, NEW m \in MsgIds, SendStateRequest(m)
  PROVE  /\ DOMAIN stateRequests' \subseteq MsgIds
         /\ Values(stateRequests') \subseteq SUBSET MsgIds
         /\ stateRequestData' \subseteq MsgIds
<1>1. \A k \in DOMAIN stateRequests : k \in MsgIds /\ stateRequests[k] \subseteq MsgIds
  BY DEF NetType, Values
<1>2. stateRequestData \subseteq MsgIds /\ stateRequestData' = {}
  BY DEF NetType, SendStateRequest
<1>3. CASE stateRequestData = {}
  BY <1>1, <1>2, <1>3 DEF SendStateRequest, Values
<1>4. CASE stateRequestData # {}
  <2>1. stateRequests' = Emplace(stateRequests, [n \in {m} |-> stateRequestData])
    BY <1>4 DEF SendStateRequest
  <2>2. \A k \in DOMAIN stateRequests' : k \in MsgIds /\ stateRequests'[k] \subseteq MsgIds
    BY <1>1, <1>2, <2>1 DEF Emplace
  <2> QED
    BY <1>2, <2>2 DEF Values
<1> QED
  BY <1>3, <1>4

LEMMA TSend ==
  ASSUME TInv, SendStep
  PROVE  TInv'
<1>1. MainType /\ NetType /\ MapsInv /\ ObjectsInv
  BY TParts
<1>2. ASSUME NoNewIds, UNCHANGED <<haveSent, ids>>, io'.held = NoEntries \/ io' = io
      PROVE  MapsInv'
  <2>1. Within(io'.held, carried)
    BY <1>1, <1>2 DEF MapsInv, Within, NoEntries
  <2> QED
    BY <1>1, <1>2, <2>1, MapsKept DEF MapsInv, ids
<1>3. CASE TryToSendNothing
  <2>1. NoNewIds /\ UNCHANGED <<haveSent, ids, io>>
    BY <1>3 DEF TryToSendNothing, NoNewIds, data, server
  <2>2. MainType'
    BY <1>1, <1>3 DEF TryToSendNothing, MainType, MainInv, instance, data, history
  <2>3. NetType'
    BY <1>1, <1>3 DEF TryToSendNothing, NetType, IoInv, ids, checks, server
  <2>4. ObjectsInv'
    BY <1>1, <1>3 DEF TryToSendNothing, ObjectsInv, AnswersMatch, instance, data, server
  <2> QED
    BY <1>2, <2>1, <2>2, <2>3, <2>4, TPartsNext
<1>4. ASSUME NEW r \in Requests, TryToSendSingle(r) PROVE TInv'
  <2>1. NoNewIds /\ UNCHANGED <<haveSent, ids>> /\ io'.held = NoEntries
    BY <1>4 DEF TryToSendSingle, NoNewIds, server, Idle
  <2>2. MainType'
    BY <1>1, <1>4 DEF TryToSendSingle, MainType, MainInv, instance, history
  <2>3. IoInv'
    BY <1>1, <1>4 DEF TryToSendSingle, NetType, IoInv, Idle, NoEntries
  <2>4. NetType'
    BY <1>1, <1>4, <2>3 DEF TryToSendSingle, NetType, ids, checks, server
  <2>5. ObjectsInv'
    BY <1>1, <1>4 DEF TryToSendSingle, ObjectsInv, AnswersMatch, instance, server
  <2> QED
    BY <1>2, <2>1, <2>2, <2>4, <2>5, TPartsNext
<1>5. CASE SendSingle
  <2> DEFINE S == {io.req}
  <2>1. io.req \in Requests /\ io.forceNew \in BOOLEAN
    BY <1>1, <1>5 DEF SendSingle, NetType, IoInv
  <2>2. S \in SUBSET Requests /\ Cardinality(Renumbered(S, io.forceNew)) <= 1
    <3>1. IsFiniteSet(S) /\ Cardinality(S) = 1
      BY FS_Singleton, Zenon
    <3>2. Renumbered(S, io.forceNew) \in SUBSET S
      BY DEF Renumbered
    <3> QED
      BY <2>1, <3>1, <3>2, FS_Subset
  <2>3. /\ Room(1) /\ clock' = clock + 1 /\ PrepareToSend(S, io.forceNew)
        /\ io' = Idle /\ UNCHANGED <<main, received>>
    BY <1>5 DEF SendSingle, instance
  <2>4. Sends(S, io.forceNew)
    BY <2>1, <2>2, <2>3, SendsThem DEF Idle, NoEntries
  <2>5. MainType'
    BY <1>1, <1>5, <2>1, <2>4 DEF SendSingle, Sends, MainType, MainInv, instance, history,
                                  NetType, IoInv
  <2>6. /\ DOMAIN sentContainers' \subseteq MsgIds
        /\ Values(sentContainers') \subseteq SUBSET MsgIds
    <3>1. sentContainers' = ReplacedContainers(S, io.forceNew)
      BY <1>5 DEF SendSingle
    <3>2. /\ DOMAIN sentContainers' = DOMAIN sentContainers
          /\ \A c \in DOMAIN sentContainers' : sentContainers'[c] \subseteq MsgIds
      BY <2>1, <2>2, <2>3, <3>1, ReplacedContainersType
    <3> QED
      BY <1>1, <3>2 DEF NetType, Values
  <2>7. IoInv'
    BY <2>3 DEF IoInv, Idle, NoEntries
  <2>8. wire' \subseteq MsgIds
    BY <1>1, <1>5, <2>4 DEF SendSingle, Sends, NetType
  <2>9. NetType'
    BY <1>1, <1>5, <2>6, <2>7, <2>8 DEF SendSingle, NetType, checks
  <2> QED
    BY <2>4, <2>5, <2>9, TPartsNext DEF Sends
<1>6. CASE TryToSendContainer
  <2> DEFINE S == SendingRange
             next == clock + 1 + Cardinality(Renumbered(S, ~started))
             container == IF stateRequestData = {} THEN next ELSE next + 1
             n == container - clock
  <2>1. S \in SUBSET Requests /\ (~started) \in BOOLEAN /\ clock \in Nat
    <3>1. S \in SUBSET Requests
      BY <1>1 DEF SendingRange, MainType
    <3>2. clock \in Nat
      BY <1>1, SessionSendAssumption DEF MapsInv
    <3> QED
      BY <3>1, <3>2
  <2>2. Cardinality(Renumbered(S, ~started)) \in Nat
    <3>1. Renumbered(S, ~started) \in SUBSET Requests
      BY <2>1 DEF Renumbered
    <3> QED
      BY <3>1, NewIds DEF TInv
  <2>3. n \in Nat /\ Cardinality(Renumbered(S, ~started)) <= n /\ clock + n = container
    BY <2>1, <2>2
  <2>4. /\ Room(n) /\ clock' = clock + n /\ PrepareToSend(S, ~started)
        /\ UNCHANGED <<main, received, io>>
    BY <1>6, <2>3 DEF TryToSendContainer, instance
  <2>5. DOMAIN io'.held = {}
    <3>1. io.pc = "idle" /\ IoInv
      BY <1>1, <1>6 DEF TryToSendContainer, IoIdle, NetType
    <3> QED
      BY <2>4, <3>1 DEF IoInv
  <2>6. Sends(S, ~started)
    BY <2>1, <2>3, <2>4, <2>5, SendsThem
  <2>7. next \in clock + 1 .. clock + n /\ container \in clock + 1 .. clock + n
    BY <2>1, <2>2
  <2>8. next \in MsgIds /\ container \in MsgIds
    BY <2>3, <2>4, <2>7, ClockGoesOn
  <2>9. MainType'
    BY <1>1, <1>6, <2>6 DEF TryToSendContainer, LeftOver, Sends, MainType, MainInv, instance,
                            history
  <2>10. DOMAIN stateRequests' \subseteq MsgIds
         /\ Values(stateRequests') \subseteq SUBSET MsgIds
         /\ stateRequestData' \subseteq MsgIds
    BY <1>1, <1>6, <2>8, StateRequestType DEF TryToSendContainer
  <2>11. /\ DOMAIN sentContainers' \subseteq MsgIds
         /\ Values(sentContainers') \subseteq SUBSET MsgIds
    <3> DEFINE new == [c \in {container} |-> {PreparedId(S, ~started, r) : r \in S}]
    <3>1. sentContainers' = Emplace(ReplacedContainers(S, ~started), new)
      BY <1>6 DEF TryToSendContainer
    <3>2. /\ DOMAIN ReplacedContainers(S, ~started) = DOMAIN sentContainers
          /\ \A c \in DOMAIN sentContainers :
               ReplacedContainers(S, ~started)[c] \subseteq MsgIds
      BY <2>1, <2>3, <2>4, ReplacedContainersType
    <3>3. DOMAIN new = {container} /\ new[container] \subseteq MsgIds
      BY <2>6 DEF Sends
    <3> HIDE DEF new, S, container
    <3>4. \A c \in DOMAIN sentContainers' : c \in MsgIds /\ sentContainers'[c] \subseteq MsgIds
      BY <1>1, <2>8, <3>1, <3>2, <3>3 DEF Emplace, NetType
    <3> QED
      BY <3>4 DEF Values
  <2>12. wire' \subseteq MsgIds
    <3>1. wire' = wire \cup {PreparedId(S, ~started, r) : r \in S} \cup {next, container}
      BY <1>6 DEF TryToSendContainer
    <3> HIDE DEF S, next, container
    <3> QED
      BY <1>1, <2>6, <2>8, <3>1 DEF Sends, NetType
  <2>13. IoInv'
    BY <1>1, <2>4 DEF NetType, IoInv
  <2>14. NetType'
    BY <1>1, <1>6, <2>10, <2>11, <2>12, <2>13 DEF TryToSendContainer, NetType
  <2> QED
    BY <2>6, <2>9, <2>14, TPartsNext DEF Sends
<1>7. CASE TryToSendState
  <2>1. /\ Room(1) /\ clock' = clock + 1 /\ carried' = carried /\ SendStateRequest(clock + 1)
        /\ UNCHANGED <<instance, data, ids, io, history, checkTimer, replied, connected, session>>
        /\ queued' = FALSE /\ started' = TRUE /\ wire' = wire \cup {clock + 1}
    BY <1>7 DEF TryToSendState
  <2>2. clock \in Nat
    BY <1>1, SessionSendAssumption DEF MapsInv
  <2>3. clock + 1 \in MsgIds
    BY <2>1, <2>2, ClockGoesOn
  <2>4. MapsInv'
    <3>1. \A c \in carried : Made(c[1])'
      BY <1>1, <2>1, ClockGoesOn DEF MapsInv
    <3>2. clock' \in 0 .. StartClock + MaxIds /\ (Ahead' \/ clock' <= MaxIds)
      BY <2>1, ClockGoesOn
    <3> QED
      BY <1>1, <2>1, <3>1, <3>2 DEF MapsInv, Within, data, ids
  <2>5. MainType'
    BY <1>1, <2>1 DEF MainType, MainInv, instance, data, history
  <2>6. /\ DOMAIN stateRequests' \subseteq MsgIds
        /\ Values(stateRequests') \subseteq SUBSET MsgIds
        /\ stateRequestData' \subseteq MsgIds
    BY <1>1, <2>1, <2>3, StateRequestType
  <2>7. NetType'
    BY <1>1, <2>1, <2>3, <2>6 DEF NetType, IoInv, ids
  <2>8. ObjectsInv'
    BY <1>1, <2>1 DEF ObjectsInv, AnswersMatch, instance, data
  <2> QED
    BY <2>4, <2>5, <2>7, <2>8, TPartsNext
<1> QED
  BY <1>3, <1>4, <1>5, <1>6, <1>7 DEF SendStep

\* Resending.
LEMMA TResend ==
  ASSUME TInv, ResendStep \/ Connected
  PROVE  TInv'
<1>1. MainType /\ NetType /\ MapsInv /\ ObjectsInv
  BY TParts
<1>2. ASSUME NEW m \in MsgIds, ResendTake(m) PROVE TInv'
  <2>1. NoNewIds /\ UNCHANGED <<ids, main, received, request>>
    BY <1>2 DEF ResendTake, NoNewIds, server, instance
  <2>2. Within(haveSent', carried) /\ Within(io'.held, carried)
    <3>1. haveSent' = Without(haveSent, {m}) /\ io'.held = Only(haveSent, {m})
      BY <1>1, <1>2 DEF ResendTake, NetType, IoInv
    <3> QED
      BY <1>1, <3>1, WithoutWithin, OnlyWithin DEF MapsInv
  <2>3. MapsInv' /\ ObjectsInv'
    BY <1>1, <2>1, <2>2, MapsKept, ObjectsKept DEF MapsInv, ids, NoNewIds, ObjectsInv
  <2>4. MainType'
    BY <1>1, <1>2 DEF ResendTake, MainType, MainInv, instance, history
  <2>5. IoInv'
    BY <1>1, <1>2 DEF ResendTake, NetType, IoInv
  <2>6. NetType'
    BY <1>1, <1>2, <2>5 DEF ResendTake, NetType, ids, checks, server
  <2> QED
    BY <2>3, <2>4, <2>6, TPartsNext
<1>3. CASE ResendPut
  <2>1. NoNewIds /\ UNCHANGED <<haveSent, ackedIds, main, received>> /\ DOMAIN io'.held = {}
    BY <1>1, <1>3 DEF ResendPut, NoNewIds, server, instance, NetType, IoInv, NoEntries
  <2>2. Within(resendingIds', carried) /\ Within(io'.held, carried)
    BY <1>1, <1>3, <2>1, EmplaceWithin DEF ResendPut, MapsInv, Within
  <2>3. MapsInv'
    BY <1>1, <2>1, <2>2, MapsKept DEF MapsInv
  <2>4. Values(io.held) \subseteq Requests
    BY <1>1, WithinType DEF MapsInv
  <2>5. /\ request' \in RequestType
        /\ \A r \in Requests : request'[r].msgId = request[r].msgId
    BY <1>1, <1>3 DEF ResendPut, MainType, RequestType, Forced
  <2>6. ObjectsInv'
    BY <1>1, <2>1, <2>5, ObjectsKept DEF NoNewIds, ObjectsInv
  <2>7. MainType'
    BY <1>1, <1>3, <2>4, <2>5 DEF ResendPut, MainType, MainInv, instance, history
  <2>8. IoInv'
    BY <1>1, <1>3 DEF ResendPut, NetType, IoInv, NoEntries
  <2>9. NetType'
    BY <1>1, <1>3, <2>8 DEF ResendPut, NetType, checks, server
  <2> QED
    BY <2>3, <2>6, <2>7, <2>9, TPartsNext
<1>4. CASE ResendDone
  <2>1. NoNewIds /\ UNCHANGED <<main, received, request>> /\ io' = Idle
    BY <1>4 DEF ResendDone, NoNewIds, server, instance
  <2>2. RequestsAcked(io.acks, FALSE)
    BY <1>4 DEF ResendDone
  <2>3. /\ Within(haveSent', carried) /\ Within(resendingIds', carried)
        /\ Within(ackedIds', carried) /\ toSend' \subseteq toSend
    BY <2>2, AckedWithin
  <2>4. MapsInv' /\ ObjectsInv'
    BY <1>1, <2>1, <2>3, MapsKept, ObjectsKept
       DEF Within, Idle, NoEntries, NoNewIds, ObjectsInv
  <2>5. MainType'
    BY <1>1, <1>4, <2>1, <2>3 DEF ResendDone, Queues, MainType, MainInv, instance, history,
                                  NetType, IoInv
  <2>6. IoInv'
    BY <2>1 DEF IoInv, Idle, NoEntries
  <2>7. NetType'
    BY <1>1, <1>4, <2>6 DEF ResendDone, NetType, checks, server
  <2> QED
    BY <2>4, <2>5, <2>7, TPartsNext
<1>5. CASE Connected
  <2>1. NoNewIds /\ UNCHANGED <<ids, main, received, request>>
        /\ io' = [Idle EXCEPT !.pc = "put", !.held = haveSent, !.send = TRUE]
        /\ haveSent' = NoEntries
    BY <1>5 DEF Connected, ResendAll, NoNewIds, server, instance
  <2>2. Within(haveSent', carried) /\ Within(io'.held, carried)
    BY <1>1, <2>1 DEF MapsInv, Within, NoEntries, Idle
  <2>3. MapsInv' /\ ObjectsInv'
    BY <1>1, <2>1, <2>2, MapsKept, ObjectsKept DEF MapsInv, ids, NoNewIds, ObjectsInv
  <2>4. MainType'
    BY <1>1, <1>5 DEF Connected, MainType, MainInv, instance, history
  <2>5. IoInv'
    BY <2>1 DEF IoInv, Idle
  <2>6. NetType'
    BY <1>1, <1>5, <2>5 DEF Connected, NetType, ids, checks, server
  <2> QED
    BY <2>3, <2>4, <2>6, TPartsNext
<1> QED
  BY <1>2, <1>3, <1>4, <1>5 DEF ResendStep

\* Answers of the server about messages, and the request they are for.
LEMMA WasSentCarried ==
  ASSUME TInv, NEW m, NEW resending, NEW acked, NEW sent,
         Within(resending, carried), Within(acked, carried), Within(sent, carried),
         WasSent(m, resending, acked, sent) # 0
  PROVE  /\ <<m, WasSent(m, resending, acked, sent)>> \in carried
         /\ m \in MsgIds /\ WasSent(m, resending, acked, sent) \in Requests
<1>1. <<m, WasSent(m, resending, acked, sent)>> \in carried
  BY DEF WasSent, Within
<1> QED
  BY <1>1 DEF TInv, TypeOK

\* An answer is queued for the main thread.
LEMMA AnswerQueued ==
  ASSUME TInv, NEW m, NEW r, NEW kind \in ErrorKind \cup {"done"},
         r # 0 => <<m, r>> \in carried, carried' = carried, UNCHANGED <<main, request>>,
         received' = IF r = 0 THEN received
                     ELSE Append(received, [req |-> r, kind |-> kind, id |-> m])
  PROVE  /\ received' \in Seq([req : Requests, kind : ErrorKind \cup {"done"},
                               id : MsgIds])
         /\ ObjectsInv'
<1> DEFINE Answer == [req : Requests, kind : ErrorKind \cup {"done"}, id : MsgIds]
           answer == [req |-> r, kind |-> kind, id |-> m]
<1>1. received \in Seq(Answer) /\ ObjectsInv /\ carried \subseteq MsgIds \X Requests
  BY TParts DEF MainType, MapsInv
<1>2. CASE r = 0
  BY <1>1, <1>2 DEF ObjectsInv, AnswersMatch
<1>3. CASE r # 0
  <2>1. answer \in Answer /\ received' = Append(received, answer)
    BY <1>1, <1>3
  <2>4. answer.id = m /\ answer.req = r
    OBVIOUS
  <2> HIDE DEF Answer, answer
  <2>2. received' \in Seq(Answer)
    BY <1>1, <2>1, AppendProperties
  <2>3. \A i \in DOMAIN received' : \/ i \in DOMAIN received /\ received'[i] = received[i]
                                    \/ received'[i] = answer
    <3>1. /\ Len(received) \in Nat /\ DOMAIN received = 1 .. Len(received)
          /\ DOMAIN received' = 1 .. Len(received) + 1
      BY <1>1, <2>1, <2>2, AppendProperties
    <3>2. /\ \A i \in 1 .. Len(received) : received'[i] = received[i]
          /\ received'[Len(received) + 1] = answer
      BY <1>1, <2>1, AppendProperties
    <3> QED
      BY <3>1, <3>2
  <2>5. \A i \in DOMAIN received' : <<received'[i].id, received'[i].req>> \in carried'
    BY <1>1, <1>3, <2>3, <2>4 DEF ObjectsInv, AnswersMatch
  <2> QED
    BY <1>1, <2>2, <2>5 DEF ObjectsInv, AnswersMatch, Answer
<1> QED
  BY <1>2, <1>3

-----------------------------------------------------------------------------
(* Steps that leave the requests where they are: the network thread may     *)
(* start to resend, and the session on the server may change.               *)

Quiet ==
  /\ UNCHANGED <<instance, data, resendingIds, ackedIds, carried, history>>
  /\ \/ io' = io
     \/ io.pc = "idle" /\ io'.pc = "resend" /\ io'.req = 0 /\ io'.held = NoEntries
  /\ \A m \in wire' \ replied' :
       m \in wire \ replied \/ \A c \in carried : c[1] # m

QuietStep ==
  \/ TryToSendNothing \/ Restart \/ ChangeKey \/ UpdateTime
  \/ \E m \in MsgIds :
       \/ ReceiveBadMsg(m) \/ ReceiveBadNumber(m) \/ ReceiveNewSession(m)
       \/ ClearOldContainers(m)
       \/ \E got : ReceiveStates(m, got)
  \/ \E old \in SUBSET DOMAIN haveSent : CheckSentRequests(old)
  \/ \E told, got : ReceiveAllInfo(told, got)

LEMMA StartsToResend ==
  ASSUME NetType, IoIdle, NEW todo \in SUBSET MsgIds, NEW acks \in SUBSET MsgIds,
         NEW send \in BOOLEAN, io' = Resending(todo, acks, send)
  PROVE  /\ IoInv'
         /\ io.pc = "idle" /\ io'.pc = "resend" /\ io'.req = 0 /\ io'.held = NoEntries
<1>1. /\ io' \in [pc : {"idle", "single", "resend", "put"}, req : Requests \cup {0},
                  held : {io'.held}, todo : SUBSET MsgIds, acks : SUBSET MsgIds,
                  send : BOOLEAN, forceNew : BOOLEAN]
      /\ io'.pc = "resend" /\ io'.req = 0 /\ io'.held = NoEntries
  BY DEF Resending, Idle
<1>2. DOMAIN io'.held = {}
  BY <1>1 DEF NoEntries
<1> QED
  BY <1>1, <1>2 DEF IoInv, IoIdle

LEMMA QuietSteps ==
  ASSUME TInv, QuietStep
  PROVE  Quiet /\ NoNewIds /\ NetType' /\ queued' \in BOOLEAN
<1>1. MainType /\ NetType /\ MapsInv
  BY TParts
<1>2. /\ \A c \in DOMAIN sentContainers : c \in MsgIds /\ sentContainers[c] \subseteq MsgIds
      /\ \A s \in DOMAIN stateRequests : s \in MsgIds /\ stateRequests[s] \subseteq MsgIds
      /\ DOMAIN haveSent \subseteq MsgIds /\ DOMAIN resendingIds \subseteq MsgIds
      /\ stateRequestData \subseteq MsgIds
  <2>1. DOMAIN haveSent \subseteq MsgIds /\ DOMAIN resendingIds \subseteq MsgIds
    BY <1>1, WithinType DEF MapsInv
  <2> QED
    BY <1>1, <2>1 DEF NetType, Values
<1>3. ASSUME NEW S, sentContainers' = Without(sentContainers, S)
      PROVE  DOMAIN sentContainers' \subseteq MsgIds
             /\ Values(sentContainers') \subseteq SUBSET MsgIds
  BY <1>2, <1>3 DEF Without, Values
<1>4. ASSUME NEW S, stateRequests' = Without(stateRequests, S)
      PROVE  DOMAIN stateRequests' \subseteq MsgIds
             /\ Values(stateRequests') \subseteq SUBSET MsgIds
  BY <1>2, <1>4 DEF Without, Values
<1>5. ASSUME io' = io PROVE IoInv'
  BY <1>1, <1>5 DEF NetType, IoInv
<1> DEFINE Still == UNCHANGED <<instance, data, resendingIds, ackedIds, carried, history>>
           Starts == io.pc = "idle" /\ io'.pc = "resend" /\ io'.req = 0
                     /\ io'.held = NoEntries /\ IoInv'
<1>6. CASE TryToSendNothing
  <2>1. Still /\ NoNewIds /\ UNCHANGED <<io, wire, replied>> /\ queued' \in BOOLEAN
    BY <1>6 DEF TryToSendNothing, NoNewIds, ids, server
  <2>2. Quiet
    BY <2>1 DEF Quiet
  <2>3. NetType'
    BY <1>1, <1>5, <1>6, <2>1 DEF TryToSendNothing, NetType, ids, checks
  <2> QED
    BY <2>1, <2>2, <2>3
<1>7. CASE Restart
  <2>1. Still /\ NoNewIds /\ UNCHANGED <<io, wire, replied>> /\ queued' \in BOOLEAN
    BY <1>1, <1>7 DEF Restart, NoNewIds, ids, server, MainType
  <2>2. Quiet
    BY <2>1 DEF Quiet
  <2>3. NetType'
    BY <1>1, <1>5, <1>7, <2>1 DEF Restart, NetType, ids, checks
  <2> QED
    BY <2>1, <2>2, <2>3
<1>8. CASE ChangeKey
  <2>1. Still /\ NoNewIds /\ UNCHANGED io /\ wire' = {} /\ queued' \in BOOLEAN
    BY <1>1, <1>8 DEF ChangeKey, ChangeSessionId, NoNewIds, ids, MainType
  <2>2. Quiet
    BY <2>1 DEF Quiet
  <2>3. session' \in Nat
    BY <1>1, <1>8 DEF ChangeKey, ChangeSessionId, NetType
  <2>4. connected' \in BOOLEAN /\ started' \in BOOLEAN /\ stateRequestData' \subseteq MsgIds
        /\ wire' \subseteq MsgIds /\ replied' \subseteq MsgIds
        /\ UNCHANGED <<sentContainers, stateRequests, checkTimer>>
    BY <1>8 DEF ChangeKey, ChangeSessionId, ids
  <2>5. NetType'
    BY <1>1, <1>5, <2>1, <2>3, <2>4 DEF NetType
  <2> QED
    BY <2>1, <2>2, <2>5
<1>9. CASE UpdateTime
  <2>1. Still /\ NoNewIds /\ UNCHANGED <<io, wire, replied>> /\ queued' \in BOOLEAN
    BY <1>1, <1>9 DEF UpdateTime, NoNewIds, ids, server, MainType
  <2>2. Quiet
    BY <2>1 DEF Quiet
  <2>3. NetType'
    BY <1>1, <1>5, <1>9, <2>1 DEF UpdateTime, NetType, ids, checks
  <2> QED
    BY <2>1, <2>2, <2>3
<1>10. ASSUME NEW m \in MsgIds, ReceiveBadMsg(m)
       PROVE  Quiet /\ NoNewIds /\ NetType' /\ queued' \in BOOLEAN
  <2>1. Still /\ NoNewIds /\ UNCHANGED <<wire, replied>> /\ queued' \in BOOLEAN
    BY <1>1, <1>10 DEF ReceiveBadMsg, NoNewIds, server, MainType
  <2>2. Starts
    <3> DEFINE todo == IF m \in DOMAIN sentContainers THEN sentContainers[m] ELSE {m}
    <3>1. todo \in SUBSET MsgIds /\ IoIdle /\ io' = Resending(todo, {}, TRUE)
      BY <1>2, <1>10 DEF ReceiveBadMsg, Receiving
    <3> HIDE DEF todo
    <3> QED
      BY <1>1, <3>1, StartsToResend
  <2>3. Quiet
    BY <2>1, <2>2 DEF Quiet
  <2>4. NetType'
    BY <1>1, <1>3, <1>10, <2>1, <2>2 DEF ReceiveBadMsg, NetType, checks
  <2> QED
    BY <2>1, <2>3, <2>4
<1>11. ASSUME NEW m \in MsgIds, ReceiveBadNumber(m)
       PROVE  Quiet /\ NoNewIds /\ NetType' /\ queued' \in BOOLEAN
  <2>1. Still /\ NoNewIds /\ UNCHANGED io /\ wire' = {} /\ queued' \in BOOLEAN
    BY <1>1, <1>11 DEF ReceiveBadNumber, ChangeSessionId, NoNewIds, ids, MainType
  <2>2. Quiet
    BY <2>1 DEF Quiet
  <2>3. session' \in Nat
    BY <1>1, <1>11 DEF ReceiveBadNumber, ChangeSessionId, NetType
  <2>4. connected' \in BOOLEAN /\ started' \in BOOLEAN /\ stateRequestData' \subseteq MsgIds
        /\ wire' \subseteq MsgIds /\ replied' \subseteq MsgIds
        /\ UNCHANGED <<sentContainers, stateRequests, checkTimer>>
    BY <1>11 DEF ReceiveBadNumber, ChangeSessionId, ids
  <2>5. NetType'
    BY <1>1, <1>5, <2>1, <2>3, <2>4 DEF NetType
  <2> QED
    BY <2>1, <2>2, <2>5
<1>12. ASSUME NEW m \in MsgIds, ReceiveNewSession(m)
       PROVE  Quiet /\ NoNewIds /\ NetType' /\ queued' \in BOOLEAN
  <2>1. Still /\ NoNewIds /\ UNCHANGED <<wire, replied>> /\ queued' \in BOOLEAN
    BY <1>1, <1>12 DEF ReceiveNewSession, NoNewIds, server, ids, MainType
  <2>2. Starts
    <3> DEFINE todo == {n \in DOMAIN haveSent : n < m}
    <3>1. todo \in SUBSET MsgIds /\ IoIdle /\ io' = Resending(todo, {}, todo # {})
      BY <1>2, <1>12 DEF ReceiveNewSession, Receiving
    <3> HIDE DEF todo
    <3> QED
      BY <1>1, <3>1, StartsToResend
  <2>3. Quiet
    BY <2>1, <2>2 DEF Quiet
  <2>4. NetType'
    BY <1>1, <1>12, <2>1, <2>2 DEF ReceiveNewSession, NetType, checks, ids
  <2> QED
    BY <2>1, <2>3, <2>4
<1>13. ASSUME NEW m \in MsgIds, ClearOldContainers(m)
       PROVE  Quiet /\ NoNewIds /\ NetType' /\ queued' \in BOOLEAN
  <2>1. Still /\ NoNewIds /\ UNCHANGED <<wire, replied>> /\ queued' \in BOOLEAN
    BY <1>1, <1>13 DEF ClearOldContainers, NoNewIds, server, MainType
  <2>2. Starts
    <3>1. sentContainers[m] \in SUBSET MsgIds /\ IoIdle
          /\ io' = Resending(sentContainers[m], {}, sentContainers[m] # {})
      BY <1>2, <1>13 DEF ClearOldContainers
    <3> QED
      BY <1>1, <3>1, StartsToResend
  <2>3. Quiet
    BY <2>1, <2>2 DEF Quiet
  <2>4. NetType'
    BY <1>1, <1>3, <1>13, <2>1, <2>2 DEF ClearOldContainers, NetType, checks
  <2> QED
    BY <2>1, <2>3, <2>4
<1>14. ASSUME IoIdle, NEW asked, NEW got, HandleMsgsStates(asked, got)
       PROVE  Starts
  <2> DEFINE toResend == {m \in asked \ got : m \in DOMAIN haveSent}
             acked == {m \in asked \cap got : \/ m \in DOMAIN haveSent
                                              \/ m \in DOMAIN resendingIds}
  <2>1. toResend \in SUBSET MsgIds /\ acked \in SUBSET MsgIds
        /\ io' = Resending(toResend, acked, toResend # {})
    BY <1>2, <1>14 DEF HandleMsgsStates
  <2> HIDE DEF toResend, acked
  <2> QED
    BY <1>1, <1>14, <2>1, StartsToResend
<1>15. ASSUME NEW m \in MsgIds, NEW got, ReceiveStates(m, got)
       PROVE  Quiet /\ NoNewIds /\ NetType' /\ queued' \in BOOLEAN
  <2>1. Still /\ NoNewIds /\ UNCHANGED <<wire, replied>> /\ queued' \in BOOLEAN
    BY <1>1, <1>15 DEF ReceiveStates, NoNewIds, server, ids, MainType
  <2>2. Starts
    BY <1>14, <1>15 DEF ReceiveStates, Receiving
  <2>3. Quiet
    BY <2>1, <2>2 DEF Quiet
  <2>4. NetType'
    BY <1>1, <1>4, <1>15, <2>1, <2>2 DEF ReceiveStates, NetType, ids
  <2> QED
    BY <2>1, <2>3, <2>4
<1>16. ASSUME NEW told, NEW got, ReceiveAllInfo(told, got)
       PROVE  Quiet /\ NoNewIds /\ NetType' /\ queued' \in BOOLEAN
  <2>1. Still /\ NoNewIds /\ UNCHANGED <<wire, replied>> /\ queued' \in BOOLEAN
    BY <1>1, <1>16 DEF ReceiveAllInfo, NoNewIds, server, ids, MainType
  <2>2. Starts
    BY <1>14, <1>16 DEF ReceiveAllInfo, Receiving
  <2>3. Quiet
    BY <2>1, <2>2 DEF Quiet
  <2>4. NetType'
    BY <1>1, <1>16, <2>1, <2>2 DEF ReceiveAllInfo, NetType, checks, ids
  <2> QED
    BY <2>1, <2>3, <2>4
<1>17. ASSUME NEW old \in SUBSET DOMAIN haveSent, CheckSentRequests(old)
       PROVE  Quiet /\ NoNewIds /\ NetType' /\ queued' \in BOOLEAN
  <2>1. Still /\ NoNewIds /\ UNCHANGED <<io, wire, replied>> /\ queued' \in BOOLEAN
    BY <1>1, <1>17 DEF CheckSentRequests, NoNewIds, server, ids, MainType
  <2>2. Quiet
    BY <2>1 DEF Quiet
  <2>3. NetType'
    BY <1>1, <1>2, <1>5, <1>17, <2>1 DEF CheckSentRequests, NetType, ids
  <2> QED
    BY <2>1, <2>2, <2>3
<1> HIDE DEF Still, Starts
<1> QED
  BY <1>6, <1>7, <1>8, <1>9, <1>10, <1>11, <1>12, <1>13, <1>15, <1>16, <1>17
     DEF QuietStep

LEMMA TQuiet ==
  ASSUME TInv, QuietStep
  PROVE  TInv'
<1>1. MainType /\ NetType /\ MapsInv /\ ObjectsInv
  BY TParts
<1>2. Quiet /\ NoNewIds /\ NetType' /\ queued' \in BOOLEAN
  BY QuietSteps
<1>3. MapsInv'
  <2>1. Within(io'.held, carried)
    BY <1>1, <1>2 DEF Quiet, MapsInv, Within, NoEntries
  <2> QED
    BY <1>1, <1>2, <2>1, MapsKept DEF Quiet, MapsInv, data
<1>4. MainType' /\ ObjectsInv'
  BY <1>1, <1>2 DEF Quiet, MainType, MainInv, ObjectsInv, AnswersMatch, instance, data,
                    history
<1> QED
  BY <1>2, <1>3, <1>4, TPartsNext

-----------------------------------------------------------------------------
(* Acknowledgements and answers.                                            *)

LEMMA TAnswers ==
  ASSUME TInv,
         \E m \in MsgIds :
           \/ ReceiveAck(m) \/ ReceiveFatal(m)
           \/ \E kind \in Errors \cup {"done"} : ReceiveResult(m, kind)
  PROVE  TInv'
<1>1. MainType /\ NetType /\ MapsInv /\ ObjectsInv
  BY TParts
<1>2. ASSUME NEW S, NEW byResponse, RequestsAcked(S, byResponse), NoNewIds, io' = io
      PROVE  MapsInv' /\ toSend' \subseteq Requests
  <2>1. /\ Within(haveSent', carried) /\ Within(resendingIds', carried)
        /\ Within(ackedIds', carried) /\ toSend' \subseteq toSend
    BY <1>2, AckedWithin
  <2> QED
    BY <1>1, <1>2, <2>1, MapsKept DEF MapsInv, MainType
<1>3. IoInv
  BY <1>1 DEF NetType
<1>4. ASSUME NEW m \in MsgIds, ReceiveAck(m) PROVE TInv'
  <2>1. /\ NoNewIds /\ io' = io /\ UNCHANGED <<instance, received, request, history, queued>>
        /\ UNCHANGED <<connected, session, started, stateRequestData, checkTimer, wire, replied>>
        /\ sentContainers' = Without(sentContainers, {m})
        /\ stateRequests' = Without(stateRequests, {m})
    BY <1>4 DEF ReceiveAck, NoNewIds, server
  <2>2. MapsInv' /\ toSend' \subseteq Requests
    BY <1>2, <1>4, <2>1 DEF ReceiveAck
  <2>3. MainType'
    BY <1>1, <2>1, <2>2 DEF MainType, MainInv, instance, history
  <2>4. DOMAIN sentContainers' \subseteq MsgIds /\ DOMAIN stateRequests' \subseteq MsgIds
        /\ Values(sentContainers') \subseteq SUBSET MsgIds
        /\ Values(stateRequests') \subseteq SUBSET MsgIds
    BY <1>1, <2>1 DEF NetType, Without, Values
  <2>5. IoInv'
    BY <1>3, <2>1 DEF IoInv
  <2>6. NetType'
    BY <1>1, <2>1, <2>4, <2>5 DEF NetType
  <2>7. ObjectsInv'
    BY <1>1, <2>1 DEF ObjectsInv, AnswersMatch, NoNewIds, instance
  <2> QED
    BY <2>2, <2>3, <2>6, <2>7, TPartsNext
<1>5. ASSUME NEW m \in MsgIds, NEW kind \in Errors \cup {"done"}, ReceiveResult(m, kind)
      PROVE  TInv'
  <2>1. /\ NoNewIds /\ io' = io /\ UNCHANGED <<instance, request, history, queued>>
        /\ UNCHANGED <<connected, session, started, sentContainers, checks, wire>>
        /\ replied' = replied \cup {m} /\ RequestsAcked({m}, TRUE)
    BY <1>5 DEF ReceiveResult, NoNewIds
  <2>2. MapsInv' /\ toSend' \subseteq Requests
    BY <1>2, <2>1
  <2> DEFINE r == WasSent(m, resendingIds', ackedIds', haveSent')
  <2>3. received' = IF r = 0 THEN received
                    ELSE Append(received, [req |-> r, kind |-> kind, id |-> m])
    BY <1>5 DEF ReceiveResult
  <2>4. r # 0 => <<m, r>> \in carried
    BY <2>1, AckedWithin, WasSentCarried
  <2>5. kind \in ErrorKind \cup {"done"} /\ carried' = carried /\ UNCHANGED <<main, request>>
    BY <2>1, SessionSendAssumption DEF NoNewIds, instance
  <2> HIDE DEF r
  <2>6. /\ received' \in Seq([req : Requests, kind : ErrorKind \cup {"done"}, id : MsgIds])
        /\ ObjectsInv'
    BY <2>3, <2>4, <2>5, AnswerQueued
  <2>7. MainType'
    BY <1>1, <2>1, <2>2, <2>6 DEF MainType, MainInv, instance, history
  <2>8. IoInv'
    BY <1>3, <2>1 DEF IoInv
  <2>9. NetType'
    BY <1>1, <2>1, <2>8 DEF NetType, checks
  <2> QED
    BY <2>2, <2>6, <2>7, <2>9, TPartsNext
<1>6. ASSUME NEW m \in MsgIds, ReceiveFatal(m) PROVE TInv'
  <2>1. /\ NoNewIds /\ UNCHANGED <<instance, toSend, haveSent, request, history, queued, io>>
        /\ UNCHANGED <<connected, session, started, ids, checks, wire>>
        /\ replied' = replied \cup {m}
    BY <1>6 DEF ReceiveFatal, NoNewIds
  <2>2. MapsInv'
    BY <1>1, <2>1, MapsKept DEF MapsInv, ids
  <2> DEFINE r == WasSent(m, resendingIds, ackedIds, haveSent)
  <2>3. received' = IF r = 0 THEN received
                    ELSE Append(received, [req |-> r, kind |-> "delay", id |-> m])
    BY <1>6 DEF ReceiveFatal
  <2>4. r # 0 => <<m, r>> \in carried
    BY <1>1, WasSentCarried DEF MapsInv
  <2>5. "delay" \in ErrorKind \cup {"done"} /\ carried' = carried /\ UNCHANGED <<main, request>>
    BY <2>1 DEF ErrorKind, NoNewIds, instance
  <2> HIDE DEF r
  <2>6. /\ received' \in Seq([req : Requests, kind : ErrorKind \cup {"done"}, id : MsgIds])
        /\ ObjectsInv'
    BY <2>3, <2>4, <2>5, AnswerQueued
  <2>7. MainType'
    BY <1>1, <2>1, <2>6 DEF MainType, MainInv, instance, history
  <2>8. IoInv'
    BY <1>3, <2>1 DEF IoInv
  <2>9. NetType'
    BY <1>1, <2>1, <2>8 DEF NetType, checks, ids
  <2> QED
    BY <2>2, <2>6, <2>7, <2>9, TPartsNext
<1> QED
  BY <1>4, <1>5, <1>6

\* The steps by kind; every one of the program's is of one of these.
Step ==
  \/ MainStep \/ \E r \in Requests : SendRequest(r) \/ CancelRequest(r)
  \/ SendStep
  \/ ResendStep \/ Connected
  \/ QuietStep
  \/ \E m \in MsgIds :
       \/ ReceiveAck(m)
       \/ "fatal" \in BadMsgs /\ ReceiveFatal(m)
       \/ \E kind \in Errors \cup {"done"} : ReceiveResult(m, kind)

LEMMA NextIsStep == Next => Step
<1>1. Progress => Step
  BY DEF Progress, Step
<1>2. Disturbance => Step
  BY DEF Disturbance, Step, QuietStep
<1> QED
  BY <1>1, <1>2 DEF Next

LEMMA TStutter == TInv /\ UNCHANGED vars => TInv'
<1> SUFFICES ASSUME TInv, UNCHANGED vars PROVE TInv'
  OBVIOUS
<1>1. MainType /\ NetType /\ MapsInv /\ ObjectsInv
  BY TParts
<1>2. MainType'
  BY <1>1 DEF MainType, MainInv, vars, instance, data, history
<1>3. NetType'
  BY <1>1 DEF NetType, IoInv, vars, ids, checks, server
<1>4. MapsInv'
  BY <1>1 DEF MapsInv, Within, Made, Ahead, vars, data, ids, server
<1>5. ObjectsInv'
  BY <1>1 DEF ObjectsInv, AnswersMatch, vars, instance, data, server
<1> QED
  BY <1>2, <1>3, <1>4, <1>5, TPartsNext

LEMMA TNext == TInv /\ [Next]_vars => TInv'
<1> SUFFICES ASSUME TInv, [Next]_vars PROVE TInv'
  OBVIOUS
<1>1. CASE Step
  BY <1>1, TMain, TSend, TResend, TQuiet, TAnswers DEF Step
<1> QED
  BY <1>1, NextIsStep, TStutter

\* The invariant that the properties below rest on.
LEMMA TInvariant == Spec => []TInv
  BY TInit, TNext, PTL DEF Spec

\* For any number of requests and of ids: the maps of both threads hold
\* requests under message ids that may be given, and the positions of both
\* threads are those of the code.
THEOREM TypeCorrect == Spec => []TypeOK
<1>1. TInv => TypeOK
  BY DEF TInv
<1> QED
  BY <1>1, TInvariant, PTL

\* An answer goes to the request its message carried, although messages are
\* renumbered, the clock is put back, and ids are looked up in three maps.
THEOREM AnswersGoToTheirRequest == Spec => []AnswersMatch
<1>1. TInv => AnswersMatch
  BY DEF TInv, IdsInv
<1> QED
  BY <1>1, TInvariant, PTL

-----------------------------------------------------------------------------
(* A container.                                                             *)

LEMMA ImageCardinality ==
  ASSUME NEW S, IsFiniteSet(S), NEW id, \A q, r \in S : id[q] = id[r] => q = r
  PROVE  Cardinality({id[r] : r \in S}) = Cardinality(S)
<1> DEFINE T == {id[r] : r \in S}
           f == [r \in S |-> id[r]]
<1>1. f \in [S -> T] /\ \A t \in T : \E r \in S : f[r] = t
  OBVIOUS
<1>2. \A q, r \in S : f[q] = f[r] => q = r
  OBVIOUS
<1>3. f \in Bijection(S, T)
  BY <1>1, <1>2, Fun_IsBij
<1>4. ExistsBijection(S, T)
  BY <1>3 DEF ExistsBijection
<1> QED
  BY <1>4, FS_Bijection

\* Containers are made by TryToSendContainer alone.
LEMMA OtherContainers ==
  ASSUME TInv, Step, ~TryToSendContainer
  PROVE  DOMAIN sentContainers' \subseteq DOMAIN sentContainers
<1>1. \A m : DOMAIN Without(sentContainers, {m}) \subseteq DOMAIN sentContainers
  BY DEF Without
<1>2. CASE MainStep \/ \E r \in Requests : SendRequest(r) \/ CancelRequest(r)
  BY <1>2 DEF MainStep, SendRequest, CancelRequest, CancelToSend, CancelHaveSent,
              CancelParser, ProcessCallback, EmplaceParser, CheckDelayedRequests, ids
<1>3. CASE SendStep
  BY <1>3 DEF SendStep, TryToSendNothing, TryToSendState, TryToSendSingle, SendSingle,
              ReplacedContainers, ids
<1>4. CASE ResendStep \/ Connected
  BY <1>4 DEF ResendStep, ResendPut, ResendDone, ResendTake, Connected, ids
<1>5. CASE QuietStep
  BY <1>1, <1>5 DEF QuietStep, TryToSendNothing, Restart, ChangeKey, UpdateTime, ReceiveBadMsg,
              ReceiveBadNumber, ReceiveNewSession, ClearOldContainers, ReceiveStates,
              CheckSentRequests, ReceiveAllInfo, ids
<1>6. CASE \E m \in MsgIds :
             \/ ReceiveAck(m)
             \/ "fatal" \in BadMsgs /\ ReceiveFatal(m)
             \/ \E kind \in Errors \cup {"done"} : ReceiveResult(m, kind)
  BY <1>1, <1>6 DEF ReceiveAck, ReceiveFatal, ReceiveResult, ids
<1> QED
  BY <1>2, <1>3, <1>4, <1>5, <1>6 DEF Step

\* The messages of a container have smaller ids than it has and differ: it
\* has as many as requests left toSend.
LEMMA ContainerMade ==
  ASSUME TInv, TryToSendContainer, NEW c \in DOMAIN sentContainers' \ DOMAIN sentContainers
  PROVE  /\ \A m \in sentContainers'[c] : m < c
         /\ Cardinality(sentContainers'[c]) = Cardinality(toSend \ toSend')
<1> DEFINE S == SendingRange
           R == Renumbered(S, ~started)
           next == clock + 1 + Cardinality(R)
           container == IF stateRequestData = {} THEN next ELSE next + 1
           n == container - clock
           id == [r \in S |-> PreparedId(S, ~started, r)]
<1>1. S \in SUBSET Requests /\ S \subseteq toSend /\ (~started) \in BOOLEAN
      /\ IsFiniteSet(S) /\ R \in SUBSET Requests
  <2>1. toSend \subseteq Requests /\ IsFiniteSet(Requests)
    BY SessionSendAssumption DEF TInv, TypeOK
  <2>2. S \subseteq toSend /\ R \subseteq S
    BY DEF SendingRange, Renumbered
  <2> QED
    BY <2>1, <2>2, FS_Subset
<1>2. clock \in Nat /\ TypeOK
  BY SessionSendAssumption DEF TInv, TypeOK
<1>3. Cardinality(R) \in Nat
  BY <1>1, <1>2, NewIds
<1>4. n \in Nat /\ Cardinality(R) <= n /\ clock + n = container
  BY <1>2, <1>3
<1>5. Room(n)
  BY DEF TryToSendContainer
<1>6. \A r \in R : PreparedId(S, ~started, r) \in clock + 1 .. clock + Cardinality(R)
  <2>1. \A r \in R : PreparedId(S, ~started, r) = NewMsgId(R, r)
    BY DEF PreparedId
  <2>2. \A r \in R : NewMsgId(R, r) \in clock + 1 .. clock + Cardinality(R)
    BY <1>1, <1>2, NewIds
  <2> HIDE DEF R
  <2> QED
    BY <2>1, <2>2
<1>7. \A r \in S : id[r] = PreparedId(S, ~started, r)
  OBVIOUS
<1>8. /\ sentContainers' = Emplace(ReplacedContainers(S, ~started),
                                   [k \in {container} |-> {PreparedId(S, ~started, r) : r \in S}])
      /\ toSend' = toSend \ S
  BY DEF TryToSendContainer
<1>9. DOMAIN ReplacedContainers(S, ~started) = DOMAIN sentContainers
  BY DEF ReplacedContainers
<1>10. container > clock + Cardinality(R) /\ container > clock
  BY <1>2, <1>3
<1> HIDE DEF next, container, id, n
<1>11. /\ \A r \in S \ R : PreparedId(S, ~started, r) \in MsgIds
                          /\ PreparedId(S, ~started, r) <= clock
      /\ \A q, r \in S : PreparedId(S, ~started, q) = PreparedId(S, ~started, r) => q = r
  BY <1>1, <1>4, <1>5, PreparedIds
<1> HIDE DEF S, R
<1>12. c = container /\ sentContainers'[c] = {PreparedId(S, ~started, r) : r \in S}
  BY <1>8, <1>9 DEF Emplace
<1>13. sentContainers'[c] = {id[r] : r \in S}
  BY <1>7, <1>12
<1>14. ASSUME NEW r \in S PROVE id[r] < c
  <2>1. CASE r \in R
    BY <1>2, <1>3, <1>4, <1>6, <1>7, <1>10, <1>12, <2>1
  <2>2. CASE r \notin R
    BY <1>2, <1>4, <1>11, <1>7, <1>10, <1>12, <2>2 DEF MsgIds
  <2> QED
    BY <2>1, <2>2
<1>15. Cardinality(sentContainers'[c]) = Cardinality(S)
  BY <1>1, <1>11, <1>7, <1>13, ImageCardinality
<1>16. toSend \ toSend' = S
  BY <1>1, <1>8
<1> QED
  BY <1>13, <1>14, <1>15, <1>16

\* A container gets a larger message id than the messages in it, and those
\* differ, whatever the clock was put back to before.
THEOREM ContainersAreValid == Spec => ContainersValid
<1> DEFINE Valid == \A c \in DOMAIN sentContainers' \ DOMAIN sentContainers :
                      /\ \A m \in sentContainers'[c] : m < c
                      /\ Cardinality(sentContainers'[c]) = Cardinality(toSend \ toSend')
<1>1. TInv /\ [Next]_vars => [Valid]_vars
  <2> SUFFICES ASSUME TInv, Next PROVE Valid
    OBVIOUS
  <2>1. CASE TryToSendContainer
    BY <2>1, ContainerMade
  <2>2. CASE ~TryToSendContainer
    BY <2>2, NextIsStep, OtherContainers
  <2> QED
    BY <2>1, <2>2
<1> QED
  BY <1>1, TInvariant, PTL DEF Spec, ContainersValid

-----------------------------------------------------------------------------
(* Whose turn it is.  Until a request is put into toSend by a resend, which *)
(* forces it into a container, it is at one place at a time: it waits in    *)
(* toSend or for its delay, is sent on its own, may be answered by the      *)
(* server, or its answer waits for the main thread.                         *)

Single(r) == io.pc = "single" /\ io.req = r

Answering(r) == \E i \in DOMAIN received : received[i].req = r

OneAnswer(r) ==
  \A i, j \in DOMAIN received : received[i].req = r /\ received[j].req = r => i = j

Expected(r) == \E m \in wire \ replied : <<m, r>> \in carried

OneExpected(r) ==
  \A m, n \in wire \ replied : <<m, r>> \in carried /\ <<n, r>> \in carried => m = n

OnePlace(r) ==
  /\ r \notin used => /\ r \notin toSend /\ ~Single(r) /\ r \notin delayed
                      /\ ~Answering(r) /\ ~Expected(r)
  /\ r \in toSend => /\ ~Single(r) /\ r \notin delayed
                     /\ ~Answering(r) /\ ~Expected(r)
  /\ Single(r) => r \notin delayed /\ ~Answering(r) /\ ~Expected(r)
  /\ r \in delayed => ~Answering(r) /\ ~Expected(r)
  /\ Answering(r) => ~Expected(r)
  /\ OneAnswer(r) /\ OneExpected(r)
  /\ (r \in toSend \/ Single(r)) => request[r].msgId = 0

Turn(r) ==
  /\ Single(r) => ~request[r].force
  /\ ~request[r].force => OnePlace(r)

TurnInv == \A r \in Requests : Turn(r)

\* A step in which r goes nowhere.
Stays(r) ==
  /\ r \in used => r \in used'
  /\ r \in toSend' => r \in toSend
  /\ r \in delayed' => r \in delayed
  /\ Single(r)' => Single(r)
  /\ Answering(r)' => Answering(r)
  /\ OneAnswer(r) => OneAnswer(r)'
  /\ Expected(r)' => Expected(r)
  /\ OneExpected(r) => OneExpected(r)'
  /\ request'[r].force = request[r].force
  /\ (r \in toSend' \/ Single(r)') => request'[r].msgId = request[r].msgId

LEMMA StaysTurn ==
  ASSUME NEW r, Turn(r), Stays(r)
  PROVE  Turn(r)'
<1>1. Single(r)' => ~request'[r].force
  BY DEF Turn, Stays
<1>2. ASSUME ~request'[r].force PROVE OnePlace(r)'
  <2>1. OnePlace(r)
    BY <1>2 DEF Turn, Stays
  <2> QED
    BY <2>1 DEF OnePlace, Stays
<1> QED
  BY <1>1, <1>2 DEF Turn

\* A forced request may be at several places, but is not sent on its own.
LEMMA ForcedTurn ==
  ASSUME NEW r, request'[r].force, ~Single(r)'
  PROVE  Turn(r)'
  BY DEF Turn

\* Nothing new to be answered.
NoneExpected ==
  /\ carried' = carried
  /\ \A m \in wire' \ replied' :
       m \in wire \ replied \/ \A c \in carried : c[1] # m

LEMMA ExpectedStays ==
  ASSUME NoneExpected, NEW r
  PROVE  (Expected(r)' => Expected(r)) /\ (OneExpected(r) => OneExpected(r)')
<1>1. \A m \in wire' \ replied' : <<m, r>> \in carried' =>
        m \in wire \ replied /\ <<m, r>> \in carried
  BY DEF NoneExpected
<1> QED
  BY <1>1 DEF Expected, OneExpected

LEMMA AnswersStay ==
  ASSUME received' = received, NEW r
  PROVE  (Answering(r)' <=> Answering(r)) /\ (OneAnswer(r)' <=> OneAnswer(r))
  BY DEF Answering, OneAnswer

\* The main thread takes the first answer; the network thread adds the last.
LEMMA AnswerTaken ==
  ASSUME TypeOK, received # <<>>, received' = Tail(received), NEW r
  PROVE  /\ Answering(r)' => Answering(r)
         /\ OneAnswer(r) => OneAnswer(r)'
         /\ OneAnswer(r) /\ Head(received).req = r => ~Answering(r)'
         /\ Answering(Head(received).req) /\ Head(received).req \in Requests
         /\ Answering(r) /\ Head(received).req # r => Answering(r)'
<1> DEFINE Answer == [req : Requests, kind : ErrorKind \cup {"done"}, id : MsgIds]
<1>1. received \in Seq(Answer) /\ Head(received) \in Answer
  <2>1. received \in Seq(Answer)
    BY DEF TypeOK
  <2> HIDE DEF Answer
  <2> QED
    BY <2>1, HeadTailProperties
<1>2. Head(received).req \in Requests
  BY <1>1
<1> HIDE DEF Answer
<1>3. /\ Len(received) \in Nat /\ DOMAIN received = 1 .. Len(received)
      /\ DOMAIN received' = 1 .. Len(received) - 1
      /\ \A i \in 1 .. Len(received) - 1 : received'[i] = received[i + 1]
      /\ Len(received) # 0 /\ Head(received) = received[1]
  BY <1>1, HeadTailProperties
<1>4. \A i \in DOMAIN received' : i + 1 \in DOMAIN received /\ received'[i] = received[i + 1]
                                  /\ i \in Nat /\ i + 1 # 1
  BY <1>3
<1>5. 1 \in DOMAIN received /\ received[1] = Head(received)
  BY <1>3
<1>6. Answering(r)' => Answering(r)
  BY <1>4 DEF Answering
<1>7. ASSUME OneAnswer(r), NEW i \in DOMAIN received', NEW j \in DOMAIN received',
             received'[i].req = r, received'[j].req = r
      PROVE  i = j
  <2>1. i + 1 = j + 1
    BY <1>4, <1>7 DEF OneAnswer
  <2> QED
    BY <1>4, <2>1
<1>8. ASSUME OneAnswer(r), Head(received).req = r, Answering(r)' PROVE FALSE
  <2>1. PICK i \in DOMAIN received' : received'[i].req = r
    BY <1>8 DEF Answering
  <2>2. i + 1 = 1
    BY <1>4, <1>5, <1>8, <2>1 DEF OneAnswer
  <2> QED
    BY <1>4, <2>2
<1>9. ASSUME Answering(r), Head(received).req # r PROVE Answering(r)'
  <2>1. PICK i \in DOMAIN received : received[i].req = r
    BY <1>9 DEF Answering
  <2>2. i \in 1 .. Len(received) /\ i # 1
    BY <1>3, <1>5, <1>9, <2>1
  <2>3. i - 1 \in DOMAIN received' /\ received'[i - 1] = received[i]
    BY <1>3, <2>2
  <2> QED
    BY <2>1, <2>3 DEF Answering
<1> QED
  BY <1>2, <1>5, <1>6, <1>7, <1>8, <1>9 DEF Answering, OneAnswer

LEMMA AnswerAdded ==
  ASSUME TypeOK, TypeOK', NEW a, received' = Append(received, a), NEW r
  PROVE  /\ Answering(r)' <=> Answering(r) \/ a.req = r
         /\ a.req # r => (OneAnswer(r) => OneAnswer(r)')
         /\ ~Answering(r) => OneAnswer(r)'
<1> DEFINE Answer == [req : Requests, kind : ErrorKind \cup {"done"}, id : MsgIds]
<1>1. received \in Seq(Answer) /\ received' \in Seq(Answer)
  BY DEF TypeOK
<1> HIDE DEF Answer
<1>2. /\ Len(received) \in Nat /\ DOMAIN received = 1 .. Len(received)
      /\ DOMAIN received' = 1 .. Len(received) + 1
      /\ \A i \in 1 .. Len(received) : received'[i] = received[i]
      /\ received'[Len(received) + 1] = a
  BY <1>1
<1> DEFINE last == Len(received) + 1
<1>3. \A i \in DOMAIN received' : \/ i \in DOMAIN received /\ received'[i] = received[i]
                                  \/ i = last /\ received'[i] = a
  BY <1>2
<1>4. /\ \A i \in DOMAIN received : i \in DOMAIN received' /\ received'[i] = received[i]
      /\ last \in DOMAIN received' /\ received'[last] = a
  BY <1>2
<1> HIDE DEF last
<1> QED
  BY <1>3, <1>4 DEF Answering, OneAnswer

\* Of the messages that may be answered only those of S are new.
Launched(S, id) ==
  \A r \in Requests, m \in wire' \ replied' : <<m, r>> \in carried' =>
    \/ m \in wire \ replied /\ <<m, r>> \in carried
    \/ r \in S /\ m = id[r]

LEMMA LaunchedIds ==
  ASSUME TInv', NEW S, NEW R, NEW id, Prepares(S, R, id), replied' = replied,
         \A m \in wire' : \/ m \in wire \/ \E r \in S : m = id[r]
                          \/ \A c \in carried' : c[1] # m
  PROVE  Launched(S, id)
<1> SUFFICES ASSUME NEW r \in Requests, NEW m \in wire' \ replied', <<m, r>> \in carried'
             PROVE  \/ m \in wire \ replied /\ <<m, r>> \in carried
                    \/ r \in S /\ m = id[r]
  BY DEF Launched
<1>1. \A q \in S : <<id[q], q>> \in carried'
  BY DEF Prepares
<1>2. CASE \E q \in S : m = id[q]
  <2>1. PICK q \in S : m = id[q]
    BY <1>2
  <2>2. q = r
    BY <1>1, <2>1 DEF TInv, IdsInv
  <2> QED
    BY <2>1, <2>2
<1>3. CASE ~\E q \in S : m = id[q]
  <2>1. m \in wire
    BY <1>3
  <2>2. <<m, r>> \in carried
    BY <1>3 DEF Prepares
  <2> QED
    BY <2>1, <2>2
<1> QED
  BY <1>2, <1>3

\* Both ways to send.
LEMMA SingleSends ==
  ASSUME TInv, TInv', SendSingle
  PROVE  /\ io.pc = "single" /\ io.req \in Requests /\ io' = Idle
         /\ UNCHANGED <<instance, toSend, received, history>>
         /\ \E R, id : Prepares({io.req}, R, id) /\ Launched({io.req}, id)
<1> DEFINE S == {io.req}
           R == Renumbered(S, io.forceNew)
           id == [r \in S |-> PreparedId(S, io.forceNew, r)]
<1>1. io.req \in Requests /\ io.forceNew \in BOOLEAN
  BY DEF SendSingle, TInv, IoInv
<1>2. S \in SUBSET Requests /\ Cardinality(R) <= 1
  <2>1. IsFiniteSet(S) /\ Cardinality(S) = 1
    BY FS_Singleton, Zenon
  <2>2. R \in SUBSET S
    BY DEF Renumbered
  <2> QED
    BY <1>1, <2>1, <2>2, FS_Subset
<1>3. /\ Room(1) /\ PrepareToSend(S, io.forceNew) /\ io.pc = "single"
      /\ wire' = wire \cup {id[io.req]} /\ replied' = replied /\ io' = Idle
      /\ UNCHANGED <<instance, toSend, received, history>>
  BY DEF SendSingle
<1>4. Prepares(S, R, id)
  BY <1>1, <1>2, <1>3, PrepareDoes
<1> HIDE DEF R, id
<1>5. Launched(S, id)
  BY <1>3, <1>4, LaunchedIds
<1> QED
  BY <1>1, <1>3, <1>4, <1>5

LEMMA ContainerSends ==
  ASSUME TInv, TInv', TryToSendContainer
  PROVE  /\ io.pc = "idle" /\ io' = io /\ toSend' = toSend \ SendingRange
         /\ UNCHANGED <<instance, received, history>>
         /\ \E R, id : Prepares(SendingRange, R, id) /\ Launched(SendingRange, id)
<1> DEFINE S == SendingRange
           R == Renumbered(S, ~started)
           id == [r \in S |-> PreparedId(S, ~started, r)]
           next == clock + 1 + Cardinality(R)
           container == IF stateRequestData = {} THEN next ELSE next + 1
           n == container - clock
<1>1. S \in SUBSET Requests /\ (~started) \in BOOLEAN /\ R \in SUBSET Requests
  BY DEF SendingRange, TInv, TypeOK, Renumbered
<1>2. clock \in Nat /\ TypeOK /\ IdsInv
  <2>1. StartClock + MaxIds \in Nat
    BY SessionSendAssumption
  <2>2. TypeOK /\ IdsInv
    BY DEF TInv
  <2>3. clock \in 0 .. StartClock + MaxIds
    BY <2>2 DEF TypeOK
  <2> QED
    BY <2>1, <2>2, <2>3
<1>3. Cardinality(R) \in Nat
  BY <1>1, <1>2, NewIds
<1>4. n \in Nat /\ Cardinality(R) <= n
  BY <1>2, <1>3
<1>5. /\ Room(n) /\ PrepareToSend(S, ~started) /\ io.pc = "idle" /\ io' = io
      /\ wire' = wire \cup {PreparedId(S, ~started, r) : r \in S} \cup {next, container}
      /\ replied' = replied /\ toSend' = toSend \ S
      /\ UNCHANGED <<instance, received, history>>
  BY DEF TryToSendContainer, IoIdle
<1>6. Prepares(S, R, id)
  BY <1>1, <1>4, <1>5, PrepareDoes
<1>7. \A r \in R : id[r] \in clock + 1 .. clock + Cardinality(R)
  <2>1. \A r \in R : PreparedId(S, ~started, r) = NewMsgId(R, r) /\ r \in S
    BY DEF PreparedId, Renumbered
  <2>2. \A r \in R : NewMsgId(R, r) \in clock + 1 .. clock + Cardinality(R)
    BY <1>1, <1>2, NewIds
  <2> HIDE DEF R
  <2> QED
    BY <2>1, <2>2
<1>8. \A r \in S : id[r] = PreparedId(S, ~started, r)
  OBVIOUS
<1>9. /\ next \in clock + 1 .. clock + n /\ container \in clock + 1 .. clock + n
      /\ next > clock + Cardinality(R) /\ container > clock + Cardinality(R)
  BY <1>2, <1>3
<1> HIDE DEF next, container, n, R, id
<1>10. ~Made(next) /\ ~Made(container)
  BY <1>2, <1>4, <1>5, <1>9, FreshIds
<1>11. ASSUME NEW m \in {next, container}, NEW c \in carried' PROVE c[1] # m
  <2>1. CASE c \in carried
    BY <1>2, <1>10, <2>1 DEF IdsInv
  <2>2. CASE c \notin carried
    <3>1. PICK r \in R : c = <<id[r], r>>
      BY <1>6, <2>2 DEF Prepares
    <3> QED
      BY <1>2, <1>3, <1>7, <1>9, <3>1
  <2> QED
    BY <2>1, <2>2
<1>12. \A m \in wire' : \/ m \in wire \/ \E r \in S : m = id[r]
                        \/ \A c \in carried' : c[1] # m
  BY <1>5, <1>8, <1>11
<1>13. Launched(S, id)
  BY <1>5, <1>6, <1>12, LaunchedIds
<1> QED
  BY <1>5, <1>6, <1>13

\* What a send does to the place of a request.
LEMMA SentPlace ==
  ASSUME NEW S, NEW R, NEW id, Prepares(S, R, id), Launched(S, id), NEW r \in Requests
  PROVE  /\ request'[r].force = request[r].force
         /\ r \notin S => /\ request'[r].msgId = request[r].msgId
                          /\ Expected(r)' => Expected(r)
                          /\ OneExpected(r) => OneExpected(r)'
         /\ r \in S /\ ~Expected(r) => OneExpected(r)'
<1>1. /\ request'[r].force = request[r].force
      /\ r \notin S => request'[r].msgId = request[r].msgId
  BY DEF Prepares
<1>2. \A m \in wire' \ replied' : <<m, r>> \in carried' =>
        \/ m \in wire \ replied /\ <<m, r>> \in carried
        \/ r \in S /\ m = id[r]
  BY DEF Launched
<1> QED
  BY <1>1, <1>2 DEF Expected, OneExpected

LEMMA TurnMain ==
  ASSUME TInv, TInv', TurnInv,
         MainStep \/ (\E r \in Requests : SendRequest(r) \/ CancelRequest(r))
  PROVE  TurnInv'
<1> SUFFICES ASSUME NEW r \in Requests PROVE Turn(r)'
  BY DEF TurnInv
<1>1. Turn(r) /\ TypeOK /\ request \in RequestType
  BY DEF TurnInv, TInv, TypeOK, RequestType
<1>2. ASSUME UNCHANGED <<io, server>>
      PROVE  /\ Single(r)' <=> Single(r)
             /\ Expected(r)' <=> Expected(r)
             /\ OneExpected(r)' <=> OneExpected(r)
  BY <1>2 DEF Single, Expected, OneExpected, server
<1>3. ASSUME UNCHANGED <<io, server, received, request>>, used \subseteq used',
             toSend' \subseteq toSend, delayed' \subseteq delayed
      PROVE  Turn(r)'
  <2>1. Stays(r)
    BY <1>2, <1>3, AnswersStay DEF Stays
  <2> QED
    BY <1>1, <2>1, StaysTurn
<1>4. CASE CancelToSend \/ CancelHaveSent \/ CancelParser \/ EmplaceParser
           \/ \E q \in Requests : CancelRequest(q)
  BY <1>3, <1>4 DEF CancelToSend, CancelHaveSent, CancelParser, EmplaceParser, CancelRequest,
                    data, history
<1>5. ASSUME NEW q \in Requests, SendPrepared(q)
      PROVE  /\ request'[r].force = request[r].force
             /\ r # q => /\ request'[r].msgId = request[r].msgId
                         /\ r \in toSend' => r \in toSend
             /\ r = q => request'[r].msgId = 0
  BY <1>1, <1>5 DEF SendPrepared, RequestType
<1>6. ASSUME NEW q \in Requests, SendRequest(q) PROVE Turn(r)'
  <2>1. /\ UNCHANGED <<io, server, received, delayed>> /\ used' = used \cup {q}
        /\ q \notin used /\ SendPrepared(q)
    BY <1>6 DEF SendRequest
  <2>2. CASE r # q
    <3>1. Stays(r)
      BY <1>2, <1>5, <2>1, <2>2, AnswersStay DEF Stays
    <3> QED
      BY <1>1, <3>1, StaysTurn
  <2>3. CASE r = q
    <3>1. (Answering(r)' <=> Answering(r)) /\ (OneAnswer(r)' <=> OneAnswer(r))
      BY <2>1, AnswersStay
    <3> QED
      BY <1>1, <1>2, <1>5, <2>1, <2>3, <3>1 DEF Turn, OnePlace
  <2> QED
    BY <2>2, <2>3
<1>7. ASSUME NEW q \in Requests, CheckDelayedRequests(q) PROVE Turn(r)'
  <2>1. /\ UNCHANGED <<io, server, received, used>> /\ delayed' = delayed \ {q}
        /\ q \in delayed
        /\ SendPrepared(q) \/ UNCHANGED <<toSend, request>>
    BY <1>7 DEF CheckDelayedRequests, history
  <2>2. CASE r # q \/ UNCHANGED <<toSend, request>>
    <3>1. Stays(r)
      BY <1>2, <1>5, <2>1, <2>2, AnswersStay DEF Stays
    <3> QED
      BY <1>1, <3>1, StaysTurn
  <2>3. CASE r = q /\ SendPrepared(q)
    <3>1. (Answering(r)' <=> Answering(r)) /\ (OneAnswer(r)' <=> OneAnswer(r))
      BY <2>1, AnswersStay
    <3> QED
      BY <1>1, <1>2, <1>5, <2>1, <2>3, <3>1 DEF Turn, OnePlace
  <2> QED
    BY <2>1, <2>2, <2>3
<1>8. CASE ProcessCallback
  <2> DEFINE q == Head(received).req
  <2>1. /\ UNCHANGED <<io, server, used>> /\ received # <<>> /\ received' = Tail(received)
    BY <1>8 DEF ProcessCallback
  <2>2. /\ Answering(r)' => Answering(r)
        /\ OneAnswer(r) => OneAnswer(r)'
        /\ OneAnswer(r) /\ q = r => ~Answering(r)'
        /\ Answering(q) /\ q \in Requests
    BY <1>1, <2>1, AnswerTaken
  <2>3. \/ SendPrepared(q) /\ UNCHANGED delayed
        \/ delayed' = delayed \cup {q} /\ UNCHANGED <<toSend, request>>
        \/ UNCHANGED <<toSend, request, delayed>>
    BY <1>8 DEF ProcessCallback
  <2> HIDE DEF q
  <2>4. CASE r # q \/ UNCHANGED <<toSend, request, delayed>>
    <3>1. Stays(r)
      BY <1>2, <1>5, <2>1, <2>2, <2>3, <2>4 DEF Stays
    <3> QED
      BY <1>1, <3>1, StaysTurn
  <2>5. CASE r = q /\ SendPrepared(q) /\ UNCHANGED delayed
    BY <1>1, <1>2, <1>5, <2>1, <2>2, <2>5 DEF Turn, OnePlace
  <2>6. CASE r = q /\ delayed' = delayed \cup {q} /\ UNCHANGED <<toSend, request>>
    BY <1>1, <1>2, <2>1, <2>2, <2>6 DEF Turn, OnePlace
  <2> QED
    BY <2>3, <2>4, <2>5, <2>6
<1> QED
  BY <1>4, <1>6, <1>7, <1>8 DEF MainStep

LEMMA TurnSend ==
  ASSUME TInv, TInv', TurnInv, SendStep
  PROVE  TurnInv'
<1> SUFFICES ASSUME NEW r \in Requests PROVE Turn(r)'
  BY DEF TurnInv
<1>1. Turn(r) /\ TypeOK /\ IdsInv
  BY DEF TurnInv, TInv
<1>2. CASE TryToSendNothing
  <2>1. UNCHANGED <<instance, data, history, io, server>>
    BY <1>2 DEF TryToSendNothing
  <2>2. Stays(r)
    BY <2>1, AnswersStay, ExpectedStays
       DEF Stays, instance, data, history, server, Single, NoneExpected
  <2> QED
    BY <1>1, <2>2, StaysTurn
<1>3. CASE TryToSendState
  <2>1. UNCHANGED <<instance, data, history, io, replied, carried>> /\ Room(1)
        /\ wire' = wire \cup {clock + 1}
    BY <1>3 DEF TryToSendState
  <2>2. ~Made(clock + 1)
    <3>1. clock \in Nat
      BY <1>1, SessionSendAssumption DEF TypeOK
    <3>2. clock + 1 \in clock + 1 .. clock + 1
      BY <3>1
    <3> QED
      BY <1>1, <2>1, <3>2, FreshIds
  <2>3. NoneExpected
    BY <1>1, <2>1, <2>2 DEF NoneExpected, IdsInv
  <2>4. Stays(r)
    BY <2>1, <2>3, AnswersStay, ExpectedStays DEF Stays, instance, data, history, Single
  <2> QED
    BY <1>1, <2>4, StaysTurn
<1>4. ASSUME NEW q \in Requests, TryToSendSingle(q) PROVE Turn(r)'
  <2>1. /\ UNCHANGED <<instance, received, request, history, server>>
        /\ toSend' = toSend \ {q} /\ io'.pc = "single" /\ io'.req = q
        /\ SendingRange = {q} /\ ~request[q].force
    BY <1>4 DEF TryToSendSingle, Idle
  <2>2. q \in toSend
    BY <2>1 DEF SendingRange
  <2>3. /\ Expected(r)' <=> Expected(r)
        /\ OneExpected(r)' <=> OneExpected(r)
    BY <2>1 DEF Expected, OneExpected, server
  <2>4. (Answering(r)' <=> Answering(r)) /\ (OneAnswer(r)' <=> OneAnswer(r))
    BY <2>1, AnswersStay
  <2>5. Single(r)' <=> r = q
    BY <2>1 DEF Single
  <2>6. CASE r # q
    <3>1. Stays(r)
      BY <2>1, <2>3, <2>4, <2>5, <2>6 DEF Stays, instance, history
    <3> QED
      BY <1>1, <3>1, StaysTurn
  <2>7. CASE r = q
    BY <1>1, <2>1, <2>2, <2>3, <2>4, <2>5, <2>7 DEF Turn, OnePlace, instance, history
  <2> QED
    BY <2>6, <2>7
<1>5. CASE SendSingle
  <2>1. /\ io.pc = "single" /\ io.req \in Requests /\ io' = Idle
        /\ UNCHANGED <<instance, toSend, received, history>>
        /\ \E R, id : Prepares({io.req}, R, id) /\ Launched({io.req}, id)
    BY <1>5, SingleSends
  <2>2. PICK R, id : Prepares({io.req}, R, id) /\ Launched({io.req}, id)
    BY <2>1
  <2>3. /\ request'[r].force = request[r].force
        /\ r # io.req => /\ request'[r].msgId = request[r].msgId
                         /\ Expected(r)' => Expected(r)
                         /\ OneExpected(r) => OneExpected(r)'
        /\ r = io.req /\ ~Expected(r) => OneExpected(r)'
    BY <2>2, SentPlace
  <2>4. (Answering(r)' <=> Answering(r)) /\ (OneAnswer(r)' <=> OneAnswer(r))
    BY <2>1, AnswersStay
  <2>5. ~Single(r)' /\ (r = io.req => Single(r))
    BY <2>1 DEF Single, Idle
  <2>6. CASE r # io.req
    <3>1. Stays(r)
      BY <2>1, <2>3, <2>4, <2>5, <2>6 DEF Stays, instance, history
    <3> QED
      BY <1>1, <3>1, StaysTurn
  <2>7. CASE r = io.req
    BY <1>1, <2>1, <2>3, <2>4, <2>5, <2>7 DEF Turn, OnePlace, instance, history
  <2> QED
    BY <2>6, <2>7
<1>6. CASE TryToSendContainer
  <2>1. /\ io' = io /\ toSend' = toSend \ SendingRange
        /\ UNCHANGED <<instance, received, history>>
        /\ \E R, id : Prepares(SendingRange, R, id) /\ Launched(SendingRange, id)
    BY <1>6, ContainerSends
  <2>2. PICK R, id : Prepares(SendingRange, R, id) /\ Launched(SendingRange, id)
    BY <2>1
  <2>3. /\ request'[r].force = request[r].force
        /\ r \notin SendingRange => /\ request'[r].msgId = request[r].msgId
                                    /\ Expected(r)' => Expected(r)
                                    /\ OneExpected(r) => OneExpected(r)'
        /\ r \in SendingRange /\ ~Expected(r) => OneExpected(r)'
    BY <2>2, SentPlace
  <2>4. (Answering(r)' <=> Answering(r)) /\ (OneAnswer(r)' <=> OneAnswer(r))
    BY <2>1, AnswersStay
  <2>5. (Single(r)' <=> Single(r)) /\ (r \in SendingRange => r \in toSend)
    BY <2>1 DEF Single, SendingRange
  <2>6. CASE r \notin SendingRange
    <3>1. Stays(r)
      BY <2>1, <2>3, <2>4, <2>5, <2>6 DEF Stays, instance, history
    <3> QED
      BY <1>1, <3>1, StaysTurn
  <2>7. CASE r \in SendingRange
    BY <1>1, <2>1, <2>3, <2>4, <2>5, <2>7 DEF Turn, OnePlace, instance, history
  <2> QED
    BY <2>6, <2>7
<1> QED
  BY <1>2, <1>3, <1>4, <1>5, <1>6 DEF SendStep

LEMMA TurnResend ==
  ASSUME TInv, TInv', TurnInv, ResendStep \/ Connected
  PROVE  TurnInv'
<1> SUFFICES ASSUME NEW r \in Requests PROVE Turn(r)'
  BY DEF TurnInv
<1>1. Turn(r) /\ TypeOK /\ IoInv
  BY DEF TurnInv, TInv
<1>2. ASSUME UNCHANGED <<instance, received, request, history, server>>,
             toSend' \subseteq toSend, ~Single(r)'
      PROVE  Turn(r)'
  <2>1. Stays(r)
    BY <1>2, AnswersStay, ExpectedStays DEF Stays, instance, history, server, NoneExpected
  <2> QED
    BY <1>1, <2>1, StaysTurn
<1>3. CASE \E m \in MsgIds : ResendTake(m)
  <2>1. UNCHANGED <<instance, toSend, received, request, history, server>> /\ ~Single(r)'
    BY <1>1, <1>3 DEF ResendTake, Single, IoInv
  <2> QED
    BY <1>2, <2>1
<1>4. CASE ResendDone
  <2>1. UNCHANGED <<instance, received, request, history, server>> /\ ~Single(r)'
        /\ toSend' \subseteq toSend
    BY <1>4 DEF ResendDone, RequestsAcked, Single, Idle
  <2> QED
    BY <1>2, <2>1
<1>5. CASE Connected
  <2>1. UNCHANGED <<instance, toSend, received, request, history, server>> /\ ~Single(r)'
    BY <1>5 DEF Connected, ResendAll, Single, Idle
  <2> QED
    BY <1>2, <2>1
<1>6. CASE ResendPut
  <2>1. /\ UNCHANGED <<instance, received, history, server>> /\ ~Single(r)'
        /\ toSend' = toSend \cup Values(io.held)
        /\ request' = [q \in Requests |->
              IF q \in Values(io.held) THEN [request[q] EXCEPT !.force = TRUE]
              ELSE request[q]]
    BY <1>1, <1>6 DEF ResendPut, Single, IoInv, Forced
  <2>2. CASE r \in Values(io.held)
    <3>1. request'[r].force
      BY <1>1, <2>1, <2>2 DEF TypeOK
    <3> QED
      BY <2>1, <3>1, ForcedTurn
  <2>3. CASE r \notin Values(io.held)
    <3>1. request'[r] = request[r] /\ (r \in toSend' => r \in toSend)
      BY <2>1, <2>3
    <3>2. Stays(r)
      BY <2>1, <3>1, AnswersStay, ExpectedStays DEF Stays, instance, history, server,
                                                     NoneExpected
    <3> QED
      BY <1>1, <3>2, StaysTurn
  <2> QED
    BY <2>2, <2>3
<1> QED
  BY <1>3, <1>4, <1>5, <1>6 DEF ResendStep

LEMMA TurnQuiet ==
  ASSUME TInv, TInv', TurnInv, QuietStep
  PROVE  TurnInv'
<1> SUFFICES ASSUME NEW r \in Requests PROVE Turn(r)'
  BY DEF TurnInv
<1>1. Turn(r) /\ Quiet
  BY QuietSteps DEF TurnInv
<1>2. NoneExpected /\ (Single(r)' => Single(r))
  BY <1>1 DEF Quiet, NoneExpected, Single
<1>3. Stays(r)
  BY <1>1, <1>2, AnswersStay, ExpectedStays DEF Stays, Quiet, instance, data, history
<1> QED
  BY <1>1, <1>3, StaysTurn

\* An answer moves its request from the server to the main thread.
AnswerArrives(m, a) ==
  /\ m \in wire \ replied /\ wire' = wire /\ replied' = replied \cup {m}
  /\ carried' = carried
  /\ \/ received' = received
     \/ /\ received' = Append(received, a) /\ a.req \in Requests
        /\ <<m, a.req>> \in carried

LEMMA AnswerArrivesOnce ==
  ASSUME TInv, TInv', NEW m, NEW a, AnswerArrives(m, a), NEW r \in Requests, OnePlace(r)
  PROVE  /\ Expected(r)' => Expected(r)
         /\ OneAnswer(r)' /\ OneExpected(r)'
         /\ Answering(r)' => Answering(r) \/ Expected(r)
         /\ Answering(r)' => ~Expected(r)'
<1>1. TypeOK /\ TypeOK'
  BY DEF TInv
<1>2. NoneExpected
  BY DEF AnswerArrives, NoneExpected
<1>3. (Expected(r)' => Expected(r)) /\ OneExpected(r)'
  BY <1>2, ExpectedStays DEF OnePlace
<1>4. CASE received' = received
  BY <1>3, <1>4, AnswersStay DEF OnePlace
<1>5. CASE received' = Append(received, a) /\ <<m, a.req>> \in carried
  <2>1. /\ Answering(r)' <=> Answering(r) \/ a.req = r
        /\ a.req # r => (OneAnswer(r) => OneAnswer(r)')
        /\ ~Answering(r) => OneAnswer(r)'
    BY <1>1, <1>5, AnswerAdded
  <2>2. CASE a.req # r
    BY <1>3, <2>1, <2>2 DEF OnePlace
  <2>3. CASE a.req = r
    <3>1. Expected(r)
      BY <1>5, <2>3 DEF AnswerArrives, Expected
    <3>2. ~Answering(r)
      BY <3>1 DEF OnePlace
    <3>3. ~Expected(r)'
      <4>1. \A n \in wire \ replied : <<n, r>> \in carried => n = m
        BY <1>5, <2>3 DEF OnePlace, OneExpected, AnswerArrives
      <4> QED
        BY <4>1 DEF Expected, AnswerArrives
    <3> QED
      BY <1>3, <2>1, <3>1, <3>2, <3>3
  <2> QED
    BY <2>2, <2>3
<1> QED
  BY <1>4, <1>5 DEF AnswerArrives

LEMMA AnswersArrive ==
  ASSUME TInv, NEW m \in MsgIds,
         ReceiveFatal(m) \/ \E kind \in Errors \cup {"done"} : ReceiveResult(m, kind)
  PROVE  \E a : AnswerArrives(m, a)
<1>1. Within(haveSent, carried) /\ Within(resendingIds, carried) /\ Within(ackedIds, carried)
  BY DEF TInv, IdsInv
<1>2. CASE ReceiveFatal(m)
  <2> DEFINE r == WasSent(m, resendingIds, ackedIds, haveSent)
             a == [req |-> r, kind |-> "delay", id |-> m]
  <2>1. r # 0 => <<m, r>> \in carried /\ r \in Requests
    BY <1>1, WasSentCarried
  <2>2. /\ m \in wire \ replied /\ wire' = wire /\ replied' = replied \cup {m}
        /\ carried' = carried
        /\ received' = IF r = 0 THEN received ELSE Append(received, a)
    BY <1>2 DEF ReceiveFatal
  <2>3. a.req = r
    OBVIOUS
  <2> HIDE DEF r, a
  <2>4. AnswerArrives(m, a)
    BY <2>1, <2>2, <2>3 DEF AnswerArrives
  <2> QED
    BY <2>4
<1>3. ASSUME NEW kind \in Errors \cup {"done"}, ReceiveResult(m, kind)
      PROVE  \E a : AnswerArrives(m, a)
  <2> DEFINE r == WasSent(m, resendingIds', ackedIds', haveSent')
             a == [req |-> r, kind |-> kind, id |-> m]
  <2>1. r # 0 => <<m, r>> \in carried /\ r \in Requests
    <3>1. RequestsAcked({m}, TRUE)
      BY <1>3 DEF ReceiveResult
    <3> QED
      BY <3>1, AckedWithin, WasSentCarried
  <2>2. /\ m \in wire \ replied /\ wire' = wire /\ replied' = replied \cup {m}
        /\ carried' = carried
        /\ received' = IF r = 0 THEN received ELSE Append(received, a)
    BY <1>3 DEF ReceiveResult
  <2>3. a.req = r
    OBVIOUS
  <2> HIDE DEF r, a
  <2>4. AnswerArrives(m, a)
    BY <2>1, <2>2, <2>3 DEF AnswerArrives
  <2> QED
    BY <2>4
<1> QED
  BY <1>2, <1>3

LEMMA TurnAnswers ==
  ASSUME TInv, TInv', TurnInv,
         \E m \in MsgIds :
           \/ ReceiveAck(m) \/ ReceiveFatal(m)
           \/ \E kind \in Errors \cup {"done"} : ReceiveResult(m, kind)
  PROVE  TurnInv'
<1> SUFFICES ASSUME NEW r \in Requests PROVE Turn(r)'
  BY DEF TurnInv
<1>1. Turn(r)
  BY DEF TurnInv
<1>2. UNCHANGED <<instance, request, history, io>> /\ toSend' \subseteq toSend
  BY DEF ReceiveAck, ReceiveFatal, ReceiveResult, RequestsAcked
<1>3. (Single(r)' <=> Single(r)) /\ request'[r] = request[r] /\ used' = used
      /\ delayed' = delayed
  BY <1>2 DEF Single, instance, history
<1>4. CASE \E m \in MsgIds : ReceiveAck(m)
  <2>1. UNCHANGED <<received, server>>
    BY <1>4 DEF ReceiveAck
  <2>2. Stays(r)
    BY <1>2, <1>3, <2>1, AnswersStay, ExpectedStays DEF Stays, server, NoneExpected
  <2> QED
    BY <1>1, <2>2, StaysTurn
<1>5. ASSUME NEW m \in MsgIds,
             ReceiveFatal(m) \/ \E kind \in Errors \cup {"done"} : ReceiveResult(m, kind)
      PROVE  Turn(r)'
  <2>1. PICK a : AnswerArrives(m, a)
    BY <1>5, AnswersArrive
  <2>2. CASE request[r].force
    BY <1>1, <1>3, <2>2 DEF Turn
  <2>3. CASE ~request[r].force
    <3>1. OnePlace(r)
      BY <1>1, <2>3 DEF Turn
    <3>2. /\ Expected(r)' => Expected(r)
          /\ OneAnswer(r)' /\ OneExpected(r)'
          /\ Answering(r)' => Answering(r) \/ Expected(r)
          /\ Answering(r)' => ~Expected(r)'
      BY <2>1, <3>1, AnswerArrivesOnce
    <3>3. OnePlace(r)'
      BY <1>2, <1>3, <3>1, <3>2 DEF OnePlace
    <3> QED
      BY <1>1, <1>3, <2>3, <3>3 DEF Turn
  <2> QED
    BY <2>2, <2>3
<1> QED
  BY <1>4, <1>5

LEMMA TurnInvariant == Spec => []TurnInv
<1>1. Init => TurnInv
  BY DEF Init, TurnInv, Turn, OnePlace, Single, Answering, OneAnswer, Expected, OneExpected, Idle
<1>2. TInv /\ TInv' /\ TurnInv /\ [Next]_vars => TurnInv'
  <2> SUFFICES ASSUME TInv, TInv', TurnInv, [Next]_vars PROVE TurnInv'
    OBVIOUS
  <2>1. CASE Step
    BY <2>1, TurnMain, TurnSend, TurnResend, TurnQuiet, TurnAnswers DEF Step
  <2>2. CASE UNCHANGED vars
    <3> SUFFICES ASSUME NEW r \in Requests PROVE Turn(r)'
      BY DEF TurnInv
    <3>1. Turn(r)
      BY DEF TurnInv
    <3>2. Stays(r)
      BY <2>2, AnswersStay, ExpectedStays
         DEF Stays, vars, instance, data, history, server, Single, NoneExpected
    <3> QED
      BY <3>1, <3>2, StaysTurn
  <2> QED
    BY <2>1, <2>2, NextIsStep
<1> QED
  BY <1>1, <1>2, TInvariant, PTL DEF Spec

\* The path that calls prepareToSend() without the mutex of haveSent never has
\* a message id to replace: only a request that no resend has touched takes it,
\* and such a request is nowhere else.
THEOREM ReplacingIsLocked == Spec => []ReplacesUnderLock
<1>1. TInv /\ TurnInv => ReplacesUnderLock
  <2> SUFFICES ASSUME TInv, TurnInv, io.pc = "single" PROVE request[io.req].msgId = 0
    BY DEF ReplacesUnderLock
  <2>1. io.req \in Requests /\ Single(io.req)
    BY DEF TInv, IoInv, Single
  <2>2. Turn(io.req)
    BY <2>1 DEF TurnInv
  <2> QED
    BY <2>1, <2>2 DEF Turn, OnePlace
<1> QED
  BY <1>1, TInvariant, TurnInvariant, PTL

-----------------------------------------------------------------------------
(* Requests with handlers are kept, except by two kinds of steps.  An error *)
(* that is retried at once takes the handler out of the map while its       *)
(* request is on its way again: a message that carried the request must not *)
(* be acknowledged in between.  And an answer must not come for a message   *)
(* whose id _ackedIds drops as soon as it is added.                         *)

MessagesOf(r) == {c[1] : c \in {d \in carried : d[2] = r}}

\* handleMsgsStates() and msgs_ack, while processCallback() holds a handler.
AckedWhileAway ==
  /\ main.pc = "emplaceParser"
  /\ \/ ResendDone /\ io.acks \cap MessagesOf(main.req) # {}
     \/ \E c \in MsgIds :
          /\ ReceiveAck(c)
          /\ (IF c \in DOMAIN sentContainers THEN sentContainers[c] ELSE {c})
             \cap MessagesOf(main.req) # {}

AnswerTrimmed ==
  \E m \in MsgIds, kind \in Errors \cup {"done"} :
     /\ ReceiveResult(m, kind)
     /\ Cardinality({n \in DOMAIN ackedIds : n > m}) >= IdsBufferSize

Cancelling(r) ==
  main.pc \in {"cancelToSend", "cancelHaveSent", "cancelParser"} /\ main.req = r

Retrying(r) == main.pc = "emplaceParser" /\ main.req = r

HasHandlers(r) == r \in parser \/ Retrying(r)

Kept(r) ==
  \/ r \in toSend \/ r \in Values(haveSent) \/ r \in delayed
  \/ r = io.req \/ r \in Values(io.held)
  \/ Answering(r)

KeepsIt(r) ==
  HasHandlers(r) => Cancelling(r) \/ (r \in stored /\ Kept(r))

KeptInv == \A r \in Requests : KeepsIt(r)

\* The id of an answered message stays in _ackedIds when few enough larger
\* ones are there.
LEMMA AnsweredStays ==
  ASSUME NEW map, DOMAIN map \subseteq MsgIds, NEW m, NEW acked,
         m \in DOMAIN acked, DOMAIN acked \subseteq DOMAIN map \cup {m},
         DOMAIN map \subseteq DOMAIN acked, m \in MsgIds,
         ~(Cardinality({n \in DOMAIN map : n > m}) >= IdsBufferSize)
  PROVE  m \in DOMAIN Trimmed(acked)
<1>1. {n \in DOMAIN acked : n > m} = {n \in DOMAIN map : n > m}
  BY DEF MsgIds
<1> DEFINE Larger == {n \in DOMAIN map : n > m}
<1>2. Larger \subseteq MsgIds
  OBVIOUS
<1> HIDE DEF Larger
<1>3. IsFiniteSet(MsgIds)
  <2>1. \A b \in Int : IsFiniteSet(1 .. b)
    BY FS_Interval
  <2> QED
    BY <2>1, SessionSendAssumption DEF MsgIds
<1>4. Cardinality(Larger) \in Nat
  BY <1>2, <1>3, FS_Subset, FS_CardinalityType
<1>5. Cardinality(Larger) < IdsBufferSize
  BY <1>4, SessionSendAssumption DEF Larger
<1> QED
  BY <1>1, <1>5 DEF Trimmed, Only, Larger

\* An acknowledgement leaves the requests that have handlers in their maps, and
\* those it is not about.
LEMMA AckKeeps ==
  ASSUME TInv, NEW S, RequestsAcked(S, FALSE), NEW r \in Requests,
         r \in parser \/ S \cap MessagesOf(r) = {}
  PROVE  /\ r \in Values(haveSent) => r \in Values(haveSent')
         /\ r \in toSend => r \in toSend'
<1> DEFINE drop == AckDrops(S, FALSE)
           resent == (drop \cap DOMAIN resendingIds) \ DOMAIN haveSent
           cancelled == {m \in resent : resendingIds[m] \in toSend}
<1>1. /\ haveSent' = Without(haveSent, drop)
      /\ toSend' = toSend \ {resendingIds[m] : m \in cancelled}
  BY DEF RequestsAcked
<1>2. \A m \in drop : /\ m \in DOMAIN haveSent => haveSent[m] # r
                      /\ m \notin DOMAIN haveSent => resendingIds[m] # r
  <2>1. CASE r \in parser
    BY <2>1 DEF AckDrops
  <2>2. CASE S \cap MessagesOf(r) = {}
    <3>1. Within(haveSent, carried) /\ Within(resendingIds, carried)
      BY DEF TInv, IdsInv
    <3>2. \A m \in S : <<m, r>> \notin carried
      BY <2>2 DEF MessagesOf
    <3>3. \A m \in drop :
             m \in S /\ (m \in DOMAIN haveSent \/ m \in DOMAIN resendingIds)
      BY DEF AckDrops
    <3> QED
      BY <3>1, <3>2, <3>3 DEF Within
  <2> QED
    BY <2>1, <2>2
<1>3. \A m \in cancelled : m \in drop /\ m \notin DOMAIN haveSent
  OBVIOUS
<1> HIDE DEF drop, cancelled
<1> QED
  BY <1>1, <1>2, <1>3 DEF Without, Values

\* An answer takes one message away, which is then known as answered.
LEMMA ResultTakes ==
  ASSUME TInv, NEW m \in MsgIds, RequestsAcked({m}, TRUE), NEW r \in Requests,
         ~(Cardinality({n \in DOMAIN ackedIds : n > m}) >= IdsBufferSize),
         \/ r \in Values(haveSent) /\ r \notin Values(haveSent')
         \/ r \in toSend /\ r \notin toSend'
  PROVE  WasSent(m, resendingIds', ackedIds', haveSent') = r
<1> DEFINE resent == ({m} \cap DOMAIN resendingIds) \ DOMAIN haveSent
           cancelled == {n \in resent : resendingIds[n] \in toSend}
           acked == Emplace(Emplace(ackedIds, Only(haveSent, {m})),
                            Only(resendingIds, cancelled))
<1>1. AckDrops({m}, TRUE) = {m}
  BY DEF AckDrops
<1>2. /\ haveSent' = Without(haveSent, {m})
      /\ toSend' = toSend \ {resendingIds[n] : n \in cancelled}
      /\ ackedIds' = Trimmed(acked)
  BY <1>1 DEF RequestsAcked
<1>3. TypeOK /\ IdsInv
  BY DEF TInv
<1>4. /\ Within(haveSent', carried) /\ Within(resendingIds', carried)
      /\ Within(ackedIds', carried)
  BY AckedWithin
<1>5. m \in DOMAIN acked => m \in DOMAIN ackedIds'
  <2>1. /\ DOMAIN ackedIds \subseteq MsgIds
        /\ DOMAIN ackedIds \subseteq DOMAIN acked
        /\ DOMAIN acked \subseteq DOMAIN ackedIds \cup {m}
    BY <1>3 DEF Emplace, Only, TypeOK
  <2> QED
    BY <1>2, <2>1, AnsweredStays
<1>6. m \in DOMAIN acked /\ <<m, r>> \in carried
  <2>1. CASE r \in Values(haveSent) /\ r \notin Values(haveSent')
    <3>1. PICK n \in DOMAIN haveSent : haveSent[n] = r
      BY <2>1 DEF Values
    <3>2. n = m
      BY <1>2, <2>1, <3>1 DEF Without, Values
    <3>3. m \in DOMAIN acked
      BY <3>1, <3>2 DEF Emplace, Only
    <3>4. <<m, r>> \in carried
      BY <1>3, <3>1, <3>2 DEF IdsInv, Within
    <3> QED
      BY <3>3, <3>4
  <2>2. CASE r \in toSend /\ r \notin toSend'
    <3>1. PICK n \in cancelled : resendingIds[n] = r
      BY <1>2, <2>2
    <3>2. n = m /\ m \in DOMAIN resendingIds
      BY <3>1
    <3>3. m \in DOMAIN acked
      BY <3>1, <3>2 DEF Emplace, Only
    <3>4. <<m, r>> \in carried
      BY <1>3, <3>1, <3>2 DEF IdsInv, Within
    <3> QED
      BY <3>3, <3>4
  <2> QED
    BY <2>1, <2>2
<1> HIDE DEF acked
<1>7. CASE m \in DOMAIN resendingIds'
  <2>1. <<m, resendingIds'[m]>> \in carried
    BY <1>4, <1>7 DEF Within
  <2>2. resendingIds'[m] = r
    BY <1>3, <1>6, <2>1 DEF IdsInv
  <2> QED
    BY <1>7, <2>2 DEF WasSent
<1>8. CASE m \notin DOMAIN resendingIds'
  <2>1. m \in DOMAIN ackedIds' /\ <<m, ackedIds'[m]>> \in carried
    BY <1>4, <1>5, <1>6 DEF Within
  <2>2. ackedIds'[m] = r
    BY <1>3, <1>6, <2>1 DEF IdsInv
  <2> QED
    BY <1>8, <2>1, <2>2 DEF WasSent
<1> QED
  BY <1>7, <1>8

\* A step of the network thread that keeps r.
LEMMA KeptIt ==
  ASSUME NEW r, KeepsIt(r), UNCHANGED instance,
         HasHandlers(r) /\ Kept(r) => Kept(r)'
  PROVE  KeepsIt(r)'
<1>1. UNCHANGED <<parser, stored, delayed, main>>
  BY DEF instance
<1> QED
  BY <1>1 DEF KeepsIt, HasHandlers, Cancelling, Retrying, Kept

LEMMA KeptMain ==
  ASSUME TInv, KeptInv,
         MainStep \/ (\E r \in Requests : SendRequest(r) \/ CancelRequest(r))
  PROVE  KeptInv'
<1>1. TypeOK /\ IdsInv /\ MainInv
  BY DEF TInv
<1> SUFFICES ASSUME NEW r \in Requests PROVE KeepsIt(r)'
  BY DEF KeptInv
<1>3. KeepsIt(r)
  BY DEF KeptInv
<1>4. CASE CancelToSend
  <2>1. /\ main.pc = "cancelToSend" /\ toSend' = toSend \ {main.req}
        /\ main' = [main EXCEPT !.pc = "cancelHaveSent"]
        /\ UNCHANGED <<parser, stored, delayed, haveSent, received, io>>
    BY <1>4 DEF CancelToSend
  <2>2. main'.pc = "cancelHaveSent" /\ main'.req = main.req
    BY <1>1, <2>1 DEF TypeOK
  <2> QED
    BY <1>3, <2>1, <2>2 DEF KeepsIt, HasHandlers, Retrying, Cancelling, Kept, Answering
<1>5. CASE CancelHaveSent
  <2>1. /\ main.pc = "cancelHaveSent" /\ haveSent' = Without(haveSent, {main.id})
        /\ main' = [main EXCEPT !.pc = "cancelParser"]
        /\ UNCHANGED <<parser, stored, delayed, toSend, received, io>>
    BY <1>5 DEF CancelHaveSent
  <2>2. main'.pc = "cancelParser" /\ main'.req = main.req
    BY <1>1, <2>1 DEF TypeOK
  <2>3. CASE r = main.req
    BY <2>2, <2>3 DEF KeepsIt, Cancelling
  <2>4. CASE r # main.req
    <3>1. ASSUME NEW m \in DOMAIN haveSent, haveSent[m] = r PROVE m # main.id
      <4>1. <<m, r>> \in carried /\ m # 0
        BY <1>1, <3>1 DEF IdsInv, Within, TypeOK, MsgIds
      <4> QED
        BY <1>1, <2>4, <4>1 DEF IdsInv
    <3>2. r \in Values(haveSent) => r \in Values(haveSent')
      BY <2>1, <3>1 DEF Without, Values
    <3> QED
      BY <1>3, <2>1, <2>2, <2>4, <3>2
         DEF KeepsIt, HasHandlers, Retrying, Cancelling, Kept, Answering
  <2> QED
    BY <2>3, <2>4
<1>6. CASE CancelParser
  BY <1>3, <1>6 DEF CancelParser, data, KeepsIt, HasHandlers, Retrying, Cancelling, Kept,
                    Answering, MainIdle
<1>7. CASE EmplaceParser
  BY <1>3, <1>7 DEF EmplaceParser, data, KeepsIt, HasHandlers, Retrying, Cancelling, Kept,
                    Answering, MainIdle
<1>8. ASSUME NEW q \in Requests, CancelRequest(q) PROVE KeepsIt(r)'
  BY <1>3, <1>8 DEF CancelRequest, data, KeepsIt, HasHandlers, Retrying, Cancelling, Kept,
                    Answering
<1>9. ASSUME NEW q \in Requests, SendRequest(q) PROVE KeepsIt(r)'
  BY <1>3, <1>9 DEF SendRequest, SendPrepared, KeepsIt, HasHandlers, Retrying, Cancelling,
                    Kept, Answering
<1>10. ASSUME NEW q \in Requests, CheckDelayedRequests(q) PROVE KeepsIt(r)'
  <2>1. main.pc = "idle" /\ UNCHANGED <<parser, stored, main, haveSent, received, io>>
        /\ delayed' = delayed \ {q}
        /\ IF q \in stored THEN toSend' = toSend \cup {q} ELSE toSend' = toSend
    BY <1>10 DEF CheckDelayedRequests, SendPrepared
  <2> QED
    BY <1>3, <2>1 DEF KeepsIt, HasHandlers, Retrying, Cancelling, Kept, Answering
<1>11. CASE ProcessCallback
  <2> DEFINE q == Head(received).req
             kind == Head(received).kind
  <2>1. /\ main.pc = "idle" /\ received # <<>> /\ received' = Tail(received)
        /\ UNCHANGED <<haveSent, io>>
    BY <1>11 DEF ProcessCallback
  <2>2. Answering(r) /\ q # r => Answering(r)'
    BY <1>1, <2>1, AnswerTaken
  <2>4. \/ /\ parser' = parser \ {q} /\ stored' = stored \ {q}
           /\ UNCHANGED <<delayed, main, toSend>>
        \/ /\ parser' = parser \ {q} /\ UNCHANGED stored /\ q \in parser
           /\ main' = [pc |-> "emplaceParser", req |-> q, id |-> 0]
           /\ \/ delayed' = delayed \cup {q} /\ UNCHANGED toSend
              \/ toSend' = toSend \cup {q} /\ UNCHANGED delayed
    BY <1>11 DEF ProcessCallback, SendPrepared
  <2> HIDE DEF q, kind
  <2>5. CASE r = q
    BY <1>3, <2>1, <2>4, <2>5 DEF KeepsIt, HasHandlers, Retrying, Cancelling, Kept
  <2>6. CASE r # q
    BY <1>3, <2>1, <2>2, <2>4, <2>6 DEF KeepsIt, HasHandlers, Retrying, Cancelling, Kept
  <2> QED
    BY <2>5, <2>6
<1> QED
  BY <1>4, <1>5, <1>6, <1>7, <1>8, <1>9, <1>10, <1>11 DEF MainStep

\* What the network thread does other than taking answers keeps a request.
LEMMA KeptNet ==
  ASSUME TInv, TInv', KeptInv, ~AckedWhileAway,
         SendStep \/ ResendStep \/ Connected \/ QuietStep \/ \E m \in MsgIds : ReceiveAck(m)
  PROVE  KeptInv'
<1>1. TypeOK /\ IoInv
  BY DEF TInv
<1>2. UNCHANGED <<instance, received>>
  <2>1. CASE SendStep
    BY <2>1 DEF SendStep, TryToSendNothing, TryToSendContainer, TryToSendState,
                TryToSendSingle, SendSingle, data
  <2>2. CASE ResendStep \/ Connected
    BY <2>2 DEF ResendStep, ResendPut, ResendDone, ResendTake, Connected, data
  <2>3. CASE QuietStep
    BY <2>3, QuietSteps DEF Quiet, data
  <2>4. CASE \E m \in MsgIds : ReceiveAck(m)
    BY <2>4 DEF ReceiveAck
  <2> QED
    BY <2>1, <2>2, <2>3, <2>4
<1> SUFFICES ASSUME NEW r \in Requests, HasHandlers(r), Kept(r) PROVE Kept(r)'
  BY <1>1, <1>2, KeptIt DEF KeptInv
<1>3. r # 0 /\ delayed' = delayed /\ (Answering(r)' <=> Answering(r))
  BY <1>2, SessionSendAssumption DEF instance, Answering
<1>4. ASSUME io.pc # "put" PROVE r \notin Values(io.held)
  BY <1>1, <1>4 DEF IoInv, Values
<1>5. ASSUME io.pc # "single" PROVE r # io.req
  BY <1>1, <1>3, <1>5 DEF IoInv
<1>6. CASE TryToSendNothing \/ TryToSendState
  BY <1>3, <1>6 DEF TryToSendNothing, TryToSendState, data, Kept
<1>7. ASSUME NEW q \in Requests, TryToSendSingle(q) PROVE Kept(r)'
  <2>1. io.pc = "idle" /\ toSend' = toSend \ {q} /\ io'.req = q /\ haveSent' = haveSent
    BY <1>7 DEF TryToSendSingle, IoIdle, Idle
  <2> QED
    BY <1>3, <1>4, <1>5, <2>1 DEF Kept
<1>8. CASE SendSingle
  <2>1. /\ io.pc = "single" /\ toSend' = toSend
        /\ \E R, id : Prepares({io.req}, R, id)
    BY <1>8, SingleSends
  <2>2. /\ \A m \in DOMAIN haveSent : haveSent[m] \in Values(haveSent')
        /\ io.req \in Values(haveSent')
    BY <2>1 DEF Prepares
  <2> QED
    BY <1>3, <1>4, <2>1, <2>2 DEF Kept, Values
<1>9. CASE TryToSendContainer
  <2>1. /\ io' = io /\ toSend' = toSend \ SendingRange
        /\ \E R, id : Prepares(SendingRange, R, id)
    BY <1>9, ContainerSends
  <2>2. /\ \A m \in DOMAIN haveSent : haveSent[m] \in Values(haveSent')
        /\ \A q \in SendingRange : q \in Values(haveSent')
    BY <2>1 DEF Prepares
  <2> QED
    BY <1>3, <2>1, <2>2 DEF Kept, Values
<1>10. ASSUME NEW m \in MsgIds, ResendTake(m) PROVE Kept(r)'
  <2>1. /\ io.pc = "resend" /\ haveSent' = Without(haveSent, {m}) /\ toSend' = toSend
        /\ io'.held = Only(haveSent, {m}) /\ m \in DOMAIN haveSent
    BY <1>1, <1>10 DEF ResendTake, IoInv
  <2>2. r \in Values(haveSent) => r \in Values(haveSent') \/ r \in Values(io'.held)
    BY <2>1 DEF Without, Only, Values
  <2> QED
    BY <1>3, <1>4, <1>5, <2>1, <2>2 DEF Kept
<1>11. CASE ResendPut
  <2>1. io.pc = "put" /\ toSend' = toSend \cup Values(io.held) /\ haveSent' = haveSent
    BY <1>11 DEF ResendPut
  <2> QED
    BY <1>3, <1>5, <2>1 DEF Kept
<1>12. CASE ResendDone
  <2>1. io.pc = "resend" /\ RequestsAcked(io.acks, FALSE)
    BY <1>12 DEF ResendDone
  <2>2. r \in parser \/ io.acks \cap MessagesOf(r) = {}
    BY <1>12 DEF HasHandlers, Retrying, AckedWhileAway
  <2> QED
    BY <1>3, <1>4, <1>5, <2>1, <2>2, AckKeeps DEF Kept
<1>13. CASE Connected
  <2>1. io.pc = "idle" /\ io'.held = haveSent /\ toSend' = toSend
    BY <1>13 DEF Connected, ResendAll, IoIdle, Idle
  <2> QED
    BY <1>3, <1>4, <1>5, <2>1 DEF Kept
<1>14. CASE QuietStep
  <2>1. Quiet
    BY <1>14, QuietSteps
  <2>2. UNCHANGED <<toSend, haveSent>> /\ (io' = io \/ io.pc = "idle")
    BY <2>1 DEF Quiet, data
  <2> QED
    BY <1>3, <1>4, <1>5, <2>2 DEF Kept
<1>15. ASSUME NEW m \in MsgIds, ReceiveAck(m) PROVE Kept(r)'
  <2> DEFINE S == IF m \in DOMAIN sentContainers THEN sentContainers[m] ELSE {m}
  <2>1. io' = io /\ RequestsAcked(S, FALSE)
    BY <1>15 DEF ReceiveAck
  <2>2. r \in parser \/ S \cap MessagesOf(r) = {}
    BY <1>15 DEF HasHandlers, Retrying, AckedWhileAway
  <2> HIDE DEF S
  <2> QED
    BY <1>3, <2>1, <2>2, AckKeeps DEF Kept
<1> QED
  BY <1>6, <1>7, <1>8, <1>9, <1>10, <1>11, <1>12, <1>13, <1>14, <1>15 DEF SendStep, ResendStep

LEMMA KeptAnswers ==
  ASSUME ~AnswerTrimmed, TInv, TInv', KeptInv, NEW m \in MsgIds,
         ReceiveFatal(m) \/ \E kind \in Errors \cup {"done"} : ReceiveResult(m, kind)
  PROVE  KeptInv'
<1>1. TypeOK /\ TypeOK'
  BY DEF TInv
<1>2. UNCHANGED <<instance, io>>
  BY DEF ReceiveFatal, ReceiveResult
<1>3. ASSUME NEW a, received' = Append(received, a) \/ received' = received
      PROVE  \A r \in Requests : Answering(r) => Answering(r)'
  <2>1. CASE received' = received
    BY <1>1, <2>1 DEF Answering
  <2>2. CASE received' = Append(received, a)
    BY <1>1, <2>2, AnswerAdded
  <2> QED
    BY <1>3, <2>1, <2>2
<1> SUFFICES ASSUME NEW r \in Requests PROVE KeepsIt(r)'
  BY DEF KeptInv
<1>4. CASE ReceiveFatal(m)
  <2> DEFINE w == WasSent(m, resendingIds, ackedIds, haveSent)
             a == [req |-> w, kind |-> "delay", id |-> m]
  <2>1. UNCHANGED <<toSend, haveSent>> /\ (received' = received \/ received' = Append(received, a))
    BY <1>4 DEF ReceiveFatal
  <2> HIDE DEF w, a
  <2>2. Answering(r) => Answering(r)'
    BY <1>3, <2>1
  <2>3. Kept(r) => Kept(r)'
    BY <1>2, <2>1, <2>2 DEF Kept, instance
  <2> QED
    BY <1>2, <2>3, KeptIt DEF KeptInv
<1>5. ASSUME NEW kind \in Errors \cup {"done"}, ReceiveResult(m, kind) PROVE KeepsIt(r)'
  <2> DEFINE w == WasSent(m, resendingIds', ackedIds', haveSent')
             a == [req |-> w, kind |-> kind, id |-> m]
  <2>1. RequestsAcked({m}, TRUE)
        /\ received' = IF w = 0 THEN received ELSE Append(received, a)
    BY <1>5 DEF ReceiveResult
  <2>2. a.req = w
    OBVIOUS
  <2>3. ~(Cardinality({n \in DOMAIN ackedIds : n > m}) >= IdsBufferSize)
    BY <1>5 DEF AnswerTrimmed
  <2>4. ASSUME \/ r \in Values(haveSent) /\ r \notin Values(haveSent')
               \/ r \in toSend /\ r \notin toSend'
        PROVE  r = w
    BY <2>1, <2>3, <2>4, ResultTakes
  <2> HIDE DEF w, a
  <2>5. Answering(r) => Answering(r)'
    BY <1>3, <2>1
  <2>6. CASE r = w
    <3>1. received' = Append(received, a)
      BY <2>1, <2>6, SessionSendAssumption
    <3>2. Answering(r)'
      BY <1>1, <2>2, <2>6, <3>1, AnswerAdded
    <3>3. Kept(r)'
      BY <3>2 DEF Kept
    <3> QED
      BY <1>2, <3>3, KeptIt DEF KeptInv
  <2>7. CASE r # w
    <3>1. Kept(r) => Kept(r)'
      BY <1>2, <2>4, <2>5, <2>7 DEF Kept, instance
    <3> QED
      BY <1>2, <3>1, KeptIt DEF KeptInv
  <2> QED
    BY <2>6, <2>7
<1> QED
  BY <1>4, <1>5

\* A request whose handlers are registered is never forgotten: whatever is
\* acknowledged, resent, renumbered or answered with an error, and however the
\* two threads interleave, it is somewhere until it is cancelled.  Only two
\* kinds of steps can lose one, and what happens without them is covered for
\* every kind of error and every size of _ackedIds: an acknowledgement of a
\* request whose handler processCallback() holds, and an answer whose message
\* id is trimmed from _ackedIds as it is added.
THEOREM RequestsAreKept ==
  Spec /\ [][~AckedWhileAway]_vars /\ [][~AnswerTrimmed]_vars => []RequestNotLost
<1>1. Init => KeptInv
  BY DEF Init, KeptInv, KeepsIt, HasHandlers, Retrying, MainIdle
<1>2. TInv /\ TInv' /\ KeptInv /\ [Next]_vars
      /\ [~AckedWhileAway]_vars /\ [~AnswerTrimmed]_vars => KeptInv'
  <2> SUFFICES ASSUME TInv, TInv', KeptInv, [Next]_vars,
                      [~AckedWhileAway]_vars, [~AnswerTrimmed]_vars
               PROVE  KeptInv'
    OBVIOUS
  <2>1. CASE UNCHANGED vars
    BY <2>1 DEF vars, instance, data, KeptInv, KeepsIt, HasHandlers, Cancelling, Retrying,
                Kept, Answering
  <2>2. CASE Step /\ ~AckedWhileAway /\ ~AnswerTrimmed
    BY <2>2, KeptMain, KeptNet, KeptAnswers DEF Step
  <2> QED
    BY <2>1, <2>2, NextIsStep
<1>3. TInv /\ KeptInv => RequestNotLost
  <2> SUFFICES ASSUME TInv, KeptInv, NEW r \in parser
               PROVE  Owed(r) \/ (main.pc # "idle" /\ main.req = r)
    BY DEF RequestNotLost
  <2>1. r \in Requests
    BY SessionSendAssumption DEF TInv, TypeOK
  <2>2. KeepsIt(r)
    BY <2>1 DEF KeptInv
  <2> QED
    BY <2>2 DEF KeepsIt, HasHandlers, Cancelling, Kept, Answering, Owed
<1> QED
  BY <1>1, <1>2, <1>3, TInvariant, PTL DEF Spec

-----------------------------------------------------------------------------
(* A request is at one place.  The message ids it has in the maps say so:   *)
(* haveSent holds it under the id the object carries, and an id remembered  *)
(* as resent or acknowledged tells that it is not there any more.           *)

EntriesOf(map, r) == {m \in DOMAIN map : map[m] = r}

SentAt(r) == EntriesOf(haveSent, r)

HeldAt(r) == EntriesOf(io.held, r)

ResentAt(r) == EntriesOf(resendingIds, r)

AckedAt(r) == EntriesOf(ackedIds, r)

\* The server has acknowledged these messages and owes the answer.
AckedOnes(r) == AckedAt(r) \cap (wire \ replied)

Waiting(r) == r \in toSend \/ Single(r)

\* The handler waits for an answer that is on its way.
Answerable(r) == HasHandlers(r) /\ (Answering(r) \/ AckedOnes(r) # {})

Gone(r) == /\ SentAt(r) = {} /\ HeldAt(r) = {} /\ r \notin delayed
           /\ ~Answerable(r)

Once(r) ==
  /\ r \notin used => /\ ~Waiting(r) /\ r \notin delayed /\ ~HasHandlers(r)
                      /\ \A c \in carried : c[2] # r
  /\ \A m \in SentAt(r) \cup HeldAt(r) : request[r].msgId = m
  /\ r \in toSend => ~Single(r)
  /\ Waiting(r) => Gone(r)
  /\ SentAt(r) # {} => HeldAt(r) = {} /\ r \notin delayed /\ ~Answerable(r)
  /\ HeldAt(r) # {} => r \notin delayed /\ ~Answerable(r)
  /\ r \in delayed => ~Answerable(r)
  /\ HasHandlers(r) => /\ OneAnswer(r)
                       /\ \A m, n \in AckedOnes(r) : m = n
                       /\ AckedOnes(r) # {} => ~Answering(r)
  /\ \A m \in AckedAt(r) :
       request[r].msgId = m => ~Waiting(r) /\ SentAt(r) = {} /\ HeldAt(r) = {}
  /\ \A m \in ResentAt(r) :
       Gone(r) /\ (Waiting(r) => request[r].msgId = m)
  /\ r \in answered => r \in used /\ ~HasHandlers(r) /\ ~Waiting(r) /\ Gone(r)

OnceInv == \A r \in Requests : Once(r)

\* A step after which r is at no new place.
Fewer(r) ==
  /\ r \in used => r \in used'
  /\ r \in toSend' => r \in toSend
  /\ Single(r)' => Single(r)
  /\ r \in delayed' => r \in delayed
  /\ HasHandlers(r)' => HasHandlers(r)
  /\ \A c \in carried' : c[2] = r => c \in carried
  /\ request'[r].msgId = request[r].msgId
  /\ SentAt(r)' \subseteq SentAt(r) /\ HeldAt(r)' \subseteq HeldAt(r)
  /\ ResentAt(r)' \subseteq ResentAt(r) /\ AckedAt(r)' \subseteq AckedAt(r)
  /\ AckedOnes(r)' \subseteq AckedOnes(r)
  /\ HasHandlers(r)' => /\ Answering(r)' => Answering(r)
                        /\ OneAnswer(r) => OneAnswer(r)'
  /\ r \in answered' => r \in answered

LEMMA FewerOnce ==
  ASSUME NEW r, Once(r), Fewer(r)
  PROVE  Once(r)'
<1>1. (Answerable(r)' => Answerable(r)) /\ (Waiting(r)' => Waiting(r))
  BY DEF Fewer, Answerable, Waiting
<1>2. Gone(r) => Gone(r)'
  BY <1>1 DEF Fewer, Gone
<1> QED
  BY <1>1, <1>2 DEF Once, Fewer

\* What the maps say of a request of a message.
LEMMA EntriesCarried ==
  ASSUME TInv, NEW r
  PROVE  /\ \A m \in SentAt(r) : <<m, r>> \in carried
         /\ \A m \in HeldAt(r) : <<m, r>> \in carried
         /\ \A m \in ResentAt(r) : <<m, r>> \in carried
         /\ \A m \in AckedAt(r) : <<m, r>> \in carried /\ m # 0
         /\ Answering(r) => \E m : <<m, r>> \in carried
<1>1. /\ Within(haveSent, carried) /\ Within(resendingIds, carried)
      /\ Within(ackedIds, carried) /\ Within(io.held, carried)
      /\ AnswersMatch /\ carried \subseteq MsgIds \X Requests
  BY DEF TInv, IdsInv, TypeOK
<1>2. \A m \in AckedAt(r) : <<m, r>> \in carried
  BY <1>1 DEF Within, AckedAt, EntriesOf
<1>3. 0 \notin MsgIds
  BY DEF MsgIds
<1>4. \A m \in AckedAt(r) : m # 0
  <2> SUFFICES ASSUME NEW m \in AckedAt(r) PROVE m # 0
    OBVIOUS
  <2>1. m \in MsgIds
    BY <1>1, <1>2
  <2> QED
    BY <1>3, <2>1
<1> QED
  BY <1>1, <1>2, <1>4 DEF Within, SentAt, HeldAt, ResentAt, EntriesOf, Answering, AnswersMatch

\* Parts of the state that a step does not touch.
LEMMA SameEntries ==
  ASSUME NEW r
  PROVE  /\ haveSent' = haveSent => SentAt(r)' = SentAt(r)
         /\ io' = io => HeldAt(r)' = HeldAt(r) /\ (Single(r)' <=> Single(r))
         /\ resendingIds' = resendingIds => ResentAt(r)' = ResentAt(r)
         /\ ackedIds' = ackedIds => AckedAt(r)' = AckedAt(r)
         /\ ackedIds' = ackedIds /\ UNCHANGED server => AckedOnes(r)' = AckedOnes(r)
         /\ UNCHANGED instance => (HasHandlers(r)' <=> HasHandlers(r))
         /\ UNCHANGED history => (r \in used' <=> r \in used)
                                 /\ (r \in answered' <=> r \in answered)
         /\ UNCHANGED server => carried' = carried
  BY DEF SentAt, HeldAt, ResentAt, AckedAt, AckedOnes, HasHandlers, Retrying, Single,
         EntriesOf, server, instance, history

\* The main thread.
LEMMA OnceMain ==
  ASSUME TInv, TInv', OnceInv,
         MainStep \/ (\E r \in Requests : SendRequest(r) \/ CancelRequest(r))
  PROVE  OnceInv'
<1> SUFFICES ASSUME NEW r \in Requests PROVE Once(r)'
  BY DEF OnceInv
<1>1. Once(r) /\ TypeOK /\ IdsInv /\ request \in RequestType
  BY DEF OnceInv, TInv, TypeOK, RequestType
<1>2. /\ UNCHANGED <<io, ids, server>> /\ SentAt(r)' \subseteq SentAt(r)
      /\ used \subseteq used'
  <2>1. haveSent' = haveSent \/ \E S : haveSent' = Without(haveSent, S)
    BY DEF MainStep, CancelToSend, CancelHaveSent, CancelParser, EmplaceParser,
           CheckDelayedRequests, SendRequest, CancelRequest, ProcessCallback, data
  <2>2. SentAt(r)' \subseteq SentAt(r)
    BY <2>1 DEF SentAt, EntriesOf, Without
  <2>3. UNCHANGED <<io, ids, server>> /\ used \subseteq used'
    BY DEF MainStep, CancelToSend, CancelHaveSent, CancelParser, EmplaceParser,
           CheckDelayedRequests, SendRequest, CancelRequest, ProcessCallback, history
  <2> QED
    BY <2>2, <2>3
<1>3. /\ HeldAt(r)' = HeldAt(r) /\ (Single(r)' <=> Single(r)) /\ carried' = carried
      /\ ResentAt(r)' = ResentAt(r) /\ AckedAt(r)' = AckedAt(r) /\ AckedOnes(r)' = AckedOnes(r)
  BY <1>2, SameEntries DEF ids
<1>4. ASSUME r \in toSend' => r \in toSend, r \in delayed' => r \in delayed,
             HasHandlers(r)' => HasHandlers(r), request'[r].msgId = request[r].msgId,
             Answering(r)' => Answering(r), OneAnswer(r) => OneAnswer(r)',
             r \in answered' => r \in answered
      PROVE  Once(r)'
  <2>1. Fewer(r)
    BY <1>2, <1>3, <1>4 DEF Fewer
  <2> QED
    BY <1>1, <2>1, FewerOnce
<1>5. CASE CancelToSend \/ CancelHaveSent \/ CancelParser \/ EmplaceParser
           \/ \E q \in Requests : CancelRequest(q)
  <2>1. /\ UNCHANGED <<delayed, received, request, history>> /\ toSend' \subseteq toSend
        /\ HasHandlers(r)' => HasHandlers(r)
    BY <1>1, <1>5 DEF CancelToSend, CancelHaveSent, CancelParser, EmplaceParser,
            CancelRequest, data, HasHandlers, Retrying, TypeOK, MainIdle
  <2> QED
    BY <1>4, <2>1, AnswersStay DEF history
<1>6. ASSUME NEW q \in Requests, SendPrepared(q)
      PROVE  /\ r # q => /\ request'[r].msgId = request[r].msgId
                         /\ r \in toSend' => r \in toSend
             /\ r = q => request'[r].msgId = 0 /\ r \in toSend'
  BY <1>1, <1>6 DEF SendPrepared, RequestType
<1>7. /\ \A m \in SentAt(r) \cup HeldAt(r) \cup ResentAt(r) : <<m, r>> \in carried
      /\ \A m \in AckedAt(r) : <<m, r>> \in carried /\ m # 0
      /\ Answering(r) => \E m : <<m, r>> \in carried
  BY EntriesCarried
<1>8. ASSUME NEW q \in Requests, SendRequest(q) PROVE Once(r)'
  <2>1. /\ UNCHANGED <<received, delayed, main, answered, haveSent>> /\ used' = used \cup {q}
        /\ q \notin used /\ SendPrepared(q) /\ parser' = parser \cup ({q} \cap WithCallback)
    BY <1>8 DEF SendRequest
  <2>2. (Answering(r)' <=> Answering(r)) /\ (OneAnswer(r)' <=> OneAnswer(r))
    BY <2>1, AnswersStay
  <2>3. CASE r # q
    <3>1. HasHandlers(r)' => HasHandlers(r)
      BY <2>1, <2>3 DEF HasHandlers, Retrying
    <3> QED
      BY <1>4, <1>6, <2>1, <2>2, <2>3, <3>1
  <2>4. CASE r = q
    <3>6. /\ ~Waiting(r) /\ r \notin delayed /\ r \notin answered
          /\ \A c \in carried : c[2] # r
      BY <1>1, <2>1, <2>4 DEF Once
    <3>7. \A m : <<m, r>> \notin carried
      <4> SUFFICES ASSUME NEW m, <<m, r>> \in carried PROVE FALSE
        OBVIOUS
      <4>1. <<m, r>>[2] = r
        OBVIOUS
      <4> QED
        BY <3>6, <4>1
    <3>8. SentAt(r) = {} /\ HeldAt(r) = {} /\ ResentAt(r) = {}
      BY <1>7, <3>7
    <3>9. AckedAt(r) = {} /\ ~Answering(r)
      BY <1>7, <3>7
    <3>1. /\ SentAt(r) = {} /\ HeldAt(r) = {} /\ ResentAt(r) = {} /\ AckedAt(r) = {}
          /\ ~Answering(r) /\ ~Single(r) /\ r \notin delayed /\ r \notin answered
      BY <3>6, <3>8, <3>9 DEF Waiting
    <3>2. /\ SentAt(r)' = {} /\ HeldAt(r)' = {} /\ ResentAt(r)' = {} /\ AckedAt(r)' = {}
          /\ ~Answering(r)' /\ ~Single(r)' /\ r \notin delayed' /\ r \notin answered'
          /\ r \in used'
      BY <1>2, <1>3, <2>1, <2>2, <2>4, <3>1
    <3>3. AckedOnes(r)' = {}
      BY <3>2 DEF AckedOnes
    <3>4. ~Answerable(r)' /\ Gone(r)'
      BY <3>2, <3>3 DEF Answerable, Gone
    <3>5. OneAnswer(r)'
      BY <3>2 DEF Answering, OneAnswer
    <3> QED
      BY <3>2, <3>3, <3>4, <3>5 DEF Once
  <2> QED
    BY <2>3, <2>4
<1>9. ASSUME NEW q \in Requests, CheckDelayedRequests(q) PROVE Once(r)'
  <2>1. /\ UNCHANGED <<received, parser, main, used, answered>> /\ delayed' = delayed \ {q}
        /\ q \in delayed
        /\ SendPrepared(q) \/ UNCHANGED <<toSend, request>>
    BY <1>9 DEF CheckDelayedRequests, history
  <2>2. /\ (Answering(r)' <=> Answering(r)) /\ (OneAnswer(r)' <=> OneAnswer(r))
        /\ HasHandlers(r)' <=> HasHandlers(r)
    BY <2>1, AnswersStay DEF HasHandlers, Retrying
  <2>3. CASE r # q \/ UNCHANGED <<toSend, request>>
    BY <1>4, <1>6, <2>1, <2>2, <2>3
  <2>4. CASE r = q /\ SendPrepared(q)
    <3>1. /\ SentAt(r) = {} /\ HeldAt(r) = {} /\ ResentAt(r) = {} /\ ~Single(r)
          /\ ~Answerable(r) /\ r \notin answered /\ r \in used
      BY <1>1, <2>1, <2>4 DEF Once, Gone, Waiting
    <3>2. /\ SentAt(r)' = {} /\ HeldAt(r)' = {} /\ ResentAt(r)' = {} /\ ~Single(r)'
          /\ ~Answerable(r)' /\ r \notin answered' /\ r \in used' /\ r \notin delayed'
      BY <1>2, <1>3, <2>1, <2>2, <2>4, <3>1 DEF Answerable
    <3>3. Gone(r)' /\ request'[r].msgId = 0
      BY <1>6, <2>4, <3>2 DEF Gone
    <3>4. HasHandlers(r)' => /\ OneAnswer(r)'
                             /\ \A m, n \in AckedOnes(r)' : m = n
                             /\ AckedOnes(r)' # {} => ~Answering(r)'
      BY <1>1, <1>3, <2>2 DEF Once
    <3>5. \A m \in AckedAt(r)' : request'[r].msgId # m
      BY <1>3, <1>7, <3>3
    <3> QED
      BY <3>2, <3>3, <3>4, <3>5 DEF Once
  <2> QED
    BY <2>1, <2>3, <2>4
<1>10. CASE ProcessCallback
  <2> DEFINE q == Head(received).req
  <2>1. /\ main.pc = "idle" /\ UNCHANGED used
        /\ received # <<>> /\ received' = Tail(received)
    BY <1>10 DEF ProcessCallback
  <2>2. /\ Answering(r)' => Answering(r)
        /\ OneAnswer(r) => OneAnswer(r)'
        /\ OneAnswer(r) /\ q = r => ~Answering(r)'
        /\ Answering(q) /\ q \in Requests
    BY <1>1, <2>1, AnswerTaken
  <2>3. \/ /\ parser' = parser \ {q} /\ answered' = answered \cup ({q} \cap parser)
           /\ UNCHANGED <<delayed, main, toSend, request>>
        \/ /\ q \in parser /\ parser' = parser \ {q} /\ answered' = answered
           /\ main' = [pc |-> "emplaceParser", req |-> q, id |-> 0]
           /\ \/ SendPrepared(q) /\ UNCHANGED delayed
              \/ delayed' = delayed \cup {q} /\ UNCHANGED <<toSend, request>>
    BY <1>10 DEF ProcessCallback
  <2> HIDE DEF q
  <2>4. CASE r # q
    <3>1. HasHandlers(r)' => HasHandlers(r)
      BY <2>1, <2>3, <2>4 DEF HasHandlers, Retrying
    <3> QED
      BY <1>4, <1>6, <2>2, <2>3, <2>4, <3>1
  <2>5. CASE r = q /\ q \notin parser
    <3>1. HasHandlers(r)' => HasHandlers(r)
      BY <2>1, <2>3, <2>5 DEF HasHandlers, Retrying
    <3> QED
      BY <1>4, <2>2, <2>3, <2>5, <3>1
  <2>6. CASE r = q /\ q \in parser
    <3>1. HasHandlers(r) /\ Answerable(r)
      BY <2>2, <2>6 DEF HasHandlers, Answerable
    <3>2. /\ SentAt(r) = {} /\ HeldAt(r) = {} /\ ResentAt(r) = {} /\ ~Waiting(r)
          /\ r \notin delayed /\ OneAnswer(r) /\ AckedOnes(r) = {} /\ r \notin answered
          /\ r \in used
      BY <1>1, <2>2, <2>6, <3>1 DEF Once, Gone
    <3>3. /\ SentAt(r)' = {} /\ HeldAt(r)' = {} /\ ResentAt(r)' = {} /\ ~Single(r)'
          /\ OneAnswer(r)' /\ ~Answering(r)' /\ AckedOnes(r)' = {} /\ r \in used'
      BY <1>2, <1>3, <2>1, <2>2, <2>6, <3>2 DEF Waiting
    <3>4. ~Answerable(r)' /\ r \notin toSend
      BY <3>2, <3>3 DEF Answerable, Waiting
    <3>5. CASE /\ parser' = parser \ {q} /\ UNCHANGED <<delayed, main, toSend, request>>
      <4>1. ~HasHandlers(r)'
        BY <2>1, <2>6, <3>5 DEF HasHandlers, Retrying
      <4>2. r \notin delayed' /\ ~Waiting(r)' /\ Gone(r)'
        BY <3>2, <3>3, <3>4, <3>5 DEF Gone, Waiting
      <4> QED
        BY <3>3, <3>4, <4>1, <4>2 DEF Once, Waiting
    <3>6. CASE SendPrepared(q) /\ UNCHANGED delayed /\ answered' = answered
      <4>1. r \notin delayed' /\ r \notin answered' /\ request'[r].msgId = 0 /\ Gone(r)'
        BY <1>6, <2>2, <2>6, <3>2, <3>3, <3>4, <3>6 DEF Gone
      <4>2. \A m \in AckedAt(r)' : request'[r].msgId # m
        BY <1>3, <1>7, <4>1
      <4> QED
        BY <3>3, <3>4, <4>1, <4>2 DEF Once
    <3>7. CASE delayed' = delayed \cup {q} /\ UNCHANGED <<toSend, request>> /\ answered' = answered
      <4>1. ~Waiting(r)' /\ r \notin answered'
        BY <3>2, <3>3, <3>4, <3>7 DEF Waiting
      <4> QED
        BY <3>3, <3>4, <4>1 DEF Once, Waiting
    <3> QED
      BY <2>3, <3>5, <3>6, <3>7
  <2> QED
    BY <2>4, <2>5, <2>6
<1> QED
  BY <1>5, <1>8, <1>9, <1>10 DEF MainStep

\* What is sent leaves its place among those that wait for the one in haveSent.
LEMMA OnceSent ==
  ASSUME TInv, TInv', NEW S, NEW R, NEW id, Prepares(S, R, id), Launched(S, id),
         UNCHANGED <<instance, received, history>>, toSend' \subseteq toSend,
         NEW r \in Requests, Once(r), Single(r)' => Single(r), HeldAt(r)' \subseteq HeldAt(r),
         r \in S => Waiting(r) /\ ~Waiting(r)'
  PROVE  Once(r)'
<1>1. /\ (HasHandlers(r)' <=> HasHandlers(r)) /\ (Answering(r)' <=> Answering(r))
      /\ (OneAnswer(r)' <=> OneAnswer(r)) /\ delayed' = delayed /\ used' = used
      /\ answered' = answered
  BY AnswersStay DEF instance, history, HasHandlers, Retrying
<1>2. /\ \A m \in SentAt(r)' : m \in SentAt(r) \/ (r \in S /\ m = id[r])
      /\ ResentAt(r)' = ResentAt(r) \ {request[q].msgId : q \in S}
      /\ r \in S => request'[r].msgId = id[r]
      /\ r \notin S => request'[r].msgId = request[r].msgId
  BY DEF Prepares, SentAt, ResentAt, EntriesOf, Without
<1>3. \A m \in AckedAt(r)' : \/ m \in AckedAt(r)
                             \/ r \in R /\ request[r].msgId \in AckedAt(r)
  BY DEF Prepares, AckedAt, EntriesOf
<1>4. \A m \in AckedOnes(r)' : \/ m \in wire \ replied
                               \/ r \in S /\ m = id[r]
  <2>1. Within(ackedIds', carried')
    BY DEF TInv, IdsInv
  <2>2. \A m \in AckedOnes(r)' : <<m, r>> \in carried' /\ m \in wire' \ replied'
    BY <2>1 DEF AckedOnes, AckedAt, EntriesOf, Within
  <2> QED
    BY <2>2 DEF Launched
<1>5. CASE r \notin S
  <2>1. r \notin R
    BY <1>5 DEF Prepares
  <2>2. \A c \in carried' : c[2] = r => c \in carried
    BY <1>5 DEF Prepares
  <2>3. AckedAt(r)' \subseteq AckedAt(r) /\ AckedOnes(r)' \subseteq AckedOnes(r)
    BY <1>3, <1>4, <1>5, <2>1 DEF AckedOnes
  <2>4. Fewer(r)
    BY <1>1, <1>2, <1>5, <2>2, <2>3 DEF Fewer
  <2> QED
    BY <2>4, FewerOnce
<1>6. CASE r \in S
  <2>1. /\ SentAt(r) = {} /\ HeldAt(r) = {} /\ r \notin delayed /\ ~Answerable(r)
        /\ r \notin answered /\ r \in used
        /\ \A m \in AckedAt(r) : request[r].msgId # m
        /\ \A m \in ResentAt(r) : request[r].msgId = m
    BY <1>6 DEF Once, Gone
  <2>2. AckedAt(r)' \subseteq AckedAt(r)
    BY <1>3, <2>1
  <2>3. id[r] \notin AckedAt(r)'
    <3>1. CASE r \in R
      <4>1. ~Made(id[r])
        BY <3>1 DEF Prepares
      <4>2. \A m \in AckedAt(r) : <<m, r>> \in carried
        BY EntriesCarried
      <4>3. \A m : <<m, r>> \in carried => Made(m)
        <5> SUFFICES ASSUME NEW m, <<m, r>> \in carried PROVE Made(m)
          OBVIOUS
        <5>1. Made(<<m, r>>[1])
          BY DEF TInv, IdsInv
        <5> QED
          BY <5>1
      <4> QED
        BY <2>2, <4>1, <4>2, <4>3
    <3>2. CASE r \notin R
      <4>1. id[r] = request[r].msgId
        BY <1>6, <3>2 DEF Prepares
      <4> QED
        BY <2>1, <2>2, <4>1
    <3> QED
      BY <3>1, <3>2
  <2>4. AckedOnes(r)' \subseteq AckedOnes(r)
    BY <1>4, <2>2, <2>3 DEF AckedOnes
  <2>5. ResentAt(r)' = {}
    BY <1>2, <1>6, <2>1
  <2>6. ~Answerable(r)' /\ ~Waiting(r)'
    BY <1>1, <1>6, <2>1, <2>4 DEF Answerable
  <2>7. HeldAt(r)' = {} /\ (\A m \in SentAt(r)' : request'[r].msgId = m)
    BY <1>2, <1>6, <2>1
  <2>8. \A m \in AckedAt(r)' : request'[r].msgId # m
    BY <1>2, <1>6, <2>3
  <2>9. HasHandlers(r)' => OneAnswer(r)' /\ AckedOnes(r)' = {}
    BY <1>1, <2>1, <2>4 DEF Once, Answerable
  <2>10. r \in used' /\ r \notin delayed' /\ r \notin answered' /\ r \notin toSend'
    BY <1>1, <2>1, <2>6 DEF Waiting
  <2> QED
    BY <2>5, <2>6, <2>7, <2>8, <2>9, <2>10 DEF Once
<1> QED
  BY <1>5, <1>6

LEMMA OnceSend ==
  ASSUME TInv, TInv', OnceInv, SendStep
  PROVE  OnceInv'
<1> SUFFICES ASSUME NEW r \in Requests PROVE Once(r)'
  BY DEF OnceInv
<1>1. Once(r) /\ TypeOK /\ IdsInv /\ IoInv
  BY DEF OnceInv, TInv
<1>2. CASE TryToSendNothing
  <2>1. UNCHANGED <<instance, data, history, io, ids, server>>
    BY <1>2 DEF TryToSendNothing
  <2>2. Fewer(r)
    BY <2>1, AnswersStay, SameEntries DEF Fewer, instance, data, ids, history
  <2> QED
    BY <1>1, <2>2, FewerOnce
<1>3. CASE TryToSendState
  <2>1. UNCHANGED <<instance, data, history, io, ids, replied, carried>> /\ Room(1)
        /\ wire' = wire \cup {clock + 1}
    BY <1>3 DEF TryToSendState
  <2>2. ~Made(clock + 1)
    <3>1. clock \in Nat
      BY <1>1, SessionSendAssumption DEF TypeOK
    <3>2. clock + 1 \in clock + 1 .. clock + 1
      BY <3>1
    <3> QED
      BY <1>1, <2>1, <3>2, FreshIds
  <2>3. \A m \in AckedAt(r) : m # clock + 1
    <3>1. \A m \in AckedAt(r) : <<m, r>> \in carried
      BY EntriesCarried
    <3>2. \A m : <<m, r>> \in carried => Made(m)
      <4> SUFFICES ASSUME NEW m, <<m, r>> \in carried PROVE Made(m)
        OBVIOUS
      <4>1. Made(<<m, r>>[1])
        BY <1>1 DEF IdsInv
      <4> QED
        BY <4>1
    <3> QED
      BY <2>2, <3>1, <3>2
  <2>4. AckedAt(r)' = AckedAt(r)
    BY <2>1, SameEntries DEF ids
  <2>5. AckedOnes(r)' \subseteq AckedOnes(r)
    BY <2>1, <2>3, <2>4 DEF AckedOnes
  <2>6. Fewer(r)
    BY <2>1, <2>5, AnswersStay, SameEntries DEF Fewer, instance, data, ids, history
  <2> QED
    BY <1>1, <2>6, FewerOnce
<1>4. ASSUME NEW q \in Requests, TryToSendSingle(q) PROVE Once(r)'
  <2>1. /\ UNCHANGED <<instance, haveSent, received, request, history, ids, server>>
        /\ toSend' = toSend \ {q} /\ io'.pc = "single" /\ io'.req = q
        /\ SendingRange = {q} /\ io.pc = "idle" /\ io'.held = NoEntries
    BY <1>4 DEF TryToSendSingle, Idle, IoIdle
  <2>2. q \in toSend
    BY <2>1 DEF SendingRange
  <2>3. /\ Single(r)' <=> r = q
        /\ ~Single(r) /\ HeldAt(r)' = {} /\ HeldAt(r) = {}
    BY <1>1, <2>1 DEF Single, HeldAt, EntriesOf, NoEntries, IoInv
  <2>4. CASE r # q
    <3>1. Fewer(r)
      BY <2>1, <2>3, <2>4, AnswersStay, SameEntries DEF Fewer, instance, ids, history
    <3> QED
      BY <1>1, <3>1, FewerOnce
  <2>5. CASE r = q
    <3>1. Waiting(r) /\ Waiting(r)' /\ r \notin toSend'
      BY <2>1, <2>2, <2>3, <2>5 DEF Waiting
    <3>2. /\ SentAt(r)' = SentAt(r) /\ ResentAt(r)' = ResentAt(r) /\ AckedAt(r)' = AckedAt(r)
          /\ AckedOnes(r)' = AckedOnes(r) /\ (HasHandlers(r)' <=> HasHandlers(r))
          /\ delayed' = delayed /\ used' = used /\ answered' = answered
          /\ (Answering(r)' <=> Answering(r)) /\ (OneAnswer(r)' <=> OneAnswer(r))
          /\ carried' = carried /\ request' = request
      BY <2>1, AnswersStay, SameEntries DEF instance, ids, history, server
    <3>3. (Gone(r)' <=> Gone(r)) /\ (Answerable(r)' <=> Answerable(r))
      BY <2>3, <3>2 DEF Gone, Answerable
    <3> QED
      BY <1>1, <2>3, <3>1, <3>2, <3>3 DEF Once
  <2> QED
    BY <2>4, <2>5
<1>5. CASE SendSingle
  <2>1. /\ io.pc = "single" /\ io.req \in Requests /\ io' = Idle
        /\ UNCHANGED <<instance, toSend, received, history>>
        /\ \E R, id : Prepares({io.req}, R, id) /\ Launched({io.req}, id)
    BY <1>5, SingleSends
  <2>2. PICK R, id : Prepares({io.req}, R, id) /\ Launched({io.req}, id)
    BY <2>1
  <2>3. ~Single(r)' /\ HeldAt(r)' = {}
    BY <2>1 DEF Single, HeldAt, EntriesOf, Idle, NoEntries
  <2>4. r \in {io.req} => Single(r)
    BY <2>1 DEF Single
  <2>5. r \in {io.req} => Waiting(r) /\ ~Waiting(r)'
    BY <1>1, <2>1, <2>3, <2>4 DEF Waiting, Once
  <2> QED
    BY <1>1, <2>1, <2>2, <2>3, <2>5, OnceSent
<1>6. CASE TryToSendContainer
  <2>1. /\ io.pc = "idle" /\ io' = io /\ toSend' = toSend \ SendingRange
        /\ UNCHANGED <<instance, received, history>>
        /\ \E R, id : Prepares(SendingRange, R, id) /\ Launched(SendingRange, id)
    BY <1>6, ContainerSends
  <2>2. PICK R, id : Prepares(SendingRange, R, id) /\ Launched(SendingRange, id)
    BY <2>1
  <2>3. ~Single(r) /\ ~Single(r)' /\ HeldAt(r)' = HeldAt(r)
    BY <2>1 DEF Single, HeldAt
  <2>4. r \in SendingRange => Waiting(r) /\ ~Waiting(r)'
    BY <2>1, <2>3 DEF Waiting, SendingRange
  <2> QED
    BY <1>1, <2>1, <2>2, <2>3, <2>4, OnceSent
<1> QED
  BY <1>2, <1>3, <1>4, <1>5, <1>6 DEF SendStep

\* What an acknowledgement does to the places of a request.
LEMMA AckedEntries ==
  ASSUME NEW S, NEW byResponse, RequestsAcked(S, byResponse), NEW r
  PROVE  /\ SentAt(r)' \subseteq SentAt(r) /\ ResentAt(r)' \subseteq ResentAt(r)
         /\ toSend' \subseteq toSend
         /\ \A m \in AckedAt(r)' :
              \/ m \in AckedAt(r)
              \/ m \in SentAt(r) /\ m \notin SentAt(r)'
              \/ /\ m \in ResentAt(r) /\ m \notin ResentAt(r)'
                 /\ r \in toSend /\ r \notin toSend'
<1> DEFINE drop == AckDrops(S, byResponse)
           resent == (drop \cap DOMAIN resendingIds) \ DOMAIN haveSent
           cancelled == {m \in resent : resendingIds[m] \in toSend}
           fromSent == Only(haveSent, drop)
           fromResent == Only(resendingIds, cancelled)
           acked == Emplace(Emplace(ackedIds, fromSent), fromResent)
<1>1. /\ haveSent' = Without(haveSent, drop)
      /\ resendingIds' = Without(resendingIds, resent)
      /\ toSend' = toSend \ {resendingIds[m] : m \in cancelled}
      /\ ackedIds' = Trimmed(acked)
  BY DEF RequestsAcked
<1>2. cancelled \subseteq resent /\ \A m \in cancelled : resendingIds[m] \in toSend
  OBVIOUS
<1> HIDE DEF drop, resent, cancelled
<1>3. SentAt(r)' = SentAt(r) \ drop /\ ResentAt(r)' = ResentAt(r) \ resent
  BY <1>1 DEF SentAt, ResentAt, EntriesOf, Without
<1>4. /\ \A m \in DOMAIN fromSent : /\ m \in DOMAIN haveSent /\ m \in drop
                                    /\ fromSent[m] = haveSent[m]
      /\ \A m \in DOMAIN fromResent : /\ m \in DOMAIN resendingIds /\ m \in cancelled
                                      /\ fromResent[m] = resendingIds[m]
  BY DEF Only
<1> HIDE DEF fromSent, fromResent
<1>5. \A m \in DOMAIN acked : \/ m \in DOMAIN ackedIds /\ acked[m] = ackedIds[m]
                              \/ m \in DOMAIN fromSent /\ acked[m] = fromSent[m]
                              \/ m \in DOMAIN fromResent /\ acked[m] = fromResent[m]
  BY DEF Emplace
<1> HIDE DEF acked
<1>6. \A m \in DOMAIN ackedIds' : m \in DOMAIN acked /\ ackedIds'[m] = acked[m]
  BY <1>1 DEF Trimmed, Only
<1>7. ASSUME NEW m \in AckedAt(r)'
      PROVE  \/ m \in AckedAt(r)
             \/ m \in SentAt(r) /\ m \notin SentAt(r)'
             \/ /\ m \in ResentAt(r) /\ m \notin ResentAt(r)'
                /\ r \in toSend /\ r \notin toSend'
  <2>1. m \in DOMAIN acked /\ acked[m] = r
    BY <1>6, <1>7 DEF AckedAt, EntriesOf
  <2>2. CASE m \in DOMAIN ackedIds /\ acked[m] = ackedIds[m]
    BY <2>1, <2>2 DEF AckedAt, EntriesOf
  <2>3. CASE m \in DOMAIN fromSent /\ acked[m] = fromSent[m]
    BY <1>3, <1>4, <2>1, <2>3 DEF SentAt, EntriesOf
  <2>4. CASE m \in DOMAIN fromResent /\ acked[m] = fromResent[m]
    <3>1. m \in DOMAIN resendingIds /\ m \in cancelled /\ resendingIds[m] = r
      BY <1>4, <2>1, <2>4
    <3>2. r \in toSend /\ r \notin toSend' /\ m \in resent
      BY <1>1, <1>2, <3>1
    <3> QED
      BY <1>3, <3>1, <3>2 DEF ResentAt, EntriesOf
  <2> QED
    BY <1>5, <2>1, <2>2, <2>3, <2>4
<1> QED
  BY <1>1, <1>3, <1>7

\* ... and no answer came for it.
LEMMA OnceAcked ==
  ASSUME NEW r \in Requests, Once(r),
         NEW S, NEW byResponse, RequestsAcked(S, byResponse),
         UNCHANGED <<instance, request, history, carried>>,
         HeldAt(r)' \subseteq HeldAt(r), Single(r)' => Single(r),
         wire' \ replied' \subseteq wire \ replied,
         HasHandlers(r) => /\ Answering(r)' => Answering(r)
                           /\ OneAnswer(r) => OneAnswer(r)'
  PROVE  Once(r)'
<1>1. /\ SentAt(r)' \subseteq SentAt(r) /\ ResentAt(r)' \subseteq ResentAt(r)
      /\ toSend' \subseteq toSend
      /\ \A m \in AckedAt(r)' :
           \/ m \in AckedAt(r)
           \/ m \in SentAt(r) /\ m \notin SentAt(r)'
           \/ /\ m \in ResentAt(r) /\ m \notin ResentAt(r)'
              /\ r \in toSend /\ r \notin toSend'
  BY AckedEntries
<1>2. /\ (HasHandlers(r)' <=> HasHandlers(r)) /\ delayed' = delayed /\ used' = used
      /\ answered' = answered /\ request' = request /\ carried' = carried
      /\ Waiting(r)' => Waiting(r)
  BY <1>1 DEF instance, history, HasHandlers, Retrying, Waiting
<1>3. CASE \E m \in SentAt(r) : m \notin SentAt(r)'
  <2>1. PICK m \in SentAt(r) : m \notin SentAt(r)'
    BY <1>3
  <2>2. /\ SentAt(r) = {m} /\ SentAt(r)' = {} /\ HeldAt(r) = {} /\ r \notin delayed
        /\ ~Answerable(r) /\ ~Waiting(r) /\ ResentAt(r) = {} /\ r \notin answered
    BY <1>1, <2>1 DEF Once, Gone
  <2>3. AckedAt(r)' \subseteq AckedAt(r) \cup {m}
    BY <1>1, <2>2
  <2>4. HasHandlers(r) => ~Answering(r)' /\ AckedOnes(r)' \subseteq {m} /\ OneAnswer(r)'
    BY <2>2, <2>3 DEF Answerable, AckedOnes, Once
  <2>5. /\ SentAt(r)' = {} /\ HeldAt(r)' = {} /\ ResentAt(r)' = {} /\ ~Waiting(r)'
        /\ r \notin delayed' /\ r \notin answered' /\ r \notin toSend'
    BY <1>1, <1>2, <2>2 DEF Waiting
  <2>6. r \notin used' => ~HasHandlers(r)' /\ \A c \in carried' : c[2] # r
    BY <1>2 DEF Once
  <2> QED
    BY <1>2, <2>4, <2>5, <2>6 DEF Once
<1>4. CASE \E m \in ResentAt(r) : m \notin ResentAt(r)' /\ r \in toSend /\ r \notin toSend'
  <2>1. PICK m \in ResentAt(r) : m \notin ResentAt(r)' /\ r \in toSend /\ r \notin toSend'
    BY <1>4
  <2>2. /\ Gone(r) /\ ResentAt(r) = {m} /\ ~Single(r) /\ r \notin answered
    BY <2>1 DEF Once, Waiting
  <2>3. SentAt(r) = {} /\ HeldAt(r) = {} /\ r \notin delayed /\ ~Answerable(r)
    BY <2>2 DEF Gone
  <2>4. AckedAt(r)' \subseteq AckedAt(r) \cup {m}
    BY <1>1, <2>2, <2>3
  <2>5. HasHandlers(r) => ~Answering(r)' /\ AckedOnes(r)' \subseteq {m} /\ OneAnswer(r)'
    BY <2>3, <2>4 DEF Answerable, AckedOnes, Once
  <2>6. /\ SentAt(r)' = {} /\ HeldAt(r)' = {} /\ ResentAt(r)' = {} /\ ~Waiting(r)'
        /\ r \notin delayed' /\ r \notin answered' /\ r \notin toSend'
    BY <1>1, <1>2, <2>1, <2>2, <2>3 DEF Waiting
  <2>7. r \notin used' => ~HasHandlers(r)' /\ \A c \in carried' : c[2] # r
    BY <1>2 DEF Once
  <2> QED
    BY <1>2, <2>5, <2>6, <2>7 DEF Once
<1>5. CASE AckedAt(r)' \subseteq AckedAt(r)
  <2>1. AckedOnes(r)' \subseteq AckedOnes(r)
    BY <1>5 DEF AckedOnes
  <2>2. Fewer(r)
    BY <1>1, <1>2, <1>5, <2>1 DEF Fewer
  <2> QED
    BY <2>2, FewerOnce
<1> QED
  BY <1>1, <1>3, <1>4, <1>5

\* What was sent is taken, to be sent again.
LEMMA OnceTaken ==
  ASSUME NEW r \in Requests, Once(r),
         UNCHANGED <<instance, toSend, received, request, ids, server, history>>,
         HeldAt(r) = {}, ~Single(r)', HeldAt(r)' \subseteq SentAt(r),
         SentAt(r)' \subseteq SentAt(r), HeldAt(r)' = {} \/ SentAt(r)' = {}
  PROVE  Once(r)'
<1>1. /\ ResentAt(r)' = ResentAt(r) /\ AckedAt(r)' = AckedAt(r)
      /\ AckedOnes(r)' = AckedOnes(r) /\ (HasHandlers(r)' <=> HasHandlers(r))
      /\ delayed' = delayed /\ used' = used /\ answered' = answered
      /\ (Answering(r)' <=> Answering(r)) /\ (OneAnswer(r)' <=> OneAnswer(r))
      /\ carried' = carried /\ request' = request /\ toSend' = toSend
  BY AnswersStay, SameEntries DEF instance, ids, history, server
<1>2. CASE HeldAt(r)' = {}
  <2>1. Fewer(r)
    BY <1>1, <1>2 DEF Fewer
  <2> QED
    BY <2>1, FewerOnce
<1>3. CASE HeldAt(r)' # {} /\ SentAt(r)' = {}
  <2>1. /\ ~Waiting(r) /\ r \notin delayed /\ ~Answerable(r) /\ r \notin answered
        /\ ResentAt(r) = {} /\ (\A m \in AckedAt(r) : request[r].msgId # m)
        /\ \A m \in SentAt(r) : request[r].msgId = m
    BY <1>3 DEF Once, Gone
  <2>2. ~Waiting(r)' /\ ~Answerable(r)' /\ r \notin toSend'
    BY <1>1, <2>1 DEF Waiting, Answerable
  <2>3. r \notin used' => ~HasHandlers(r)' /\ \A c \in carried' : c[2] # r
    BY <1>1 DEF Once
  <2>4. HasHandlers(r)' => /\ OneAnswer(r)'
                           /\ \A m, n \in AckedOnes(r)' : m = n
                           /\ AckedOnes(r)' # {} => ~Answering(r)'
    BY <1>1 DEF Once
  <2> QED
    BY <1>1, <1>3, <2>1, <2>2, <2>3, <2>4 DEF Once
<1> QED
  BY <1>2, <1>3

LEMMA OnceResend ==
  ASSUME TInv, OnceInv, ResendStep \/ Connected
  PROVE  OnceInv'
<1> SUFFICES ASSUME NEW r \in Requests PROVE Once(r)'
  BY DEF OnceInv
<1>1. Once(r) /\ TypeOK /\ IoInv
  BY DEF OnceInv, TInv
<1>2. ASSUME NEW m \in MsgIds, ResendTake(m) PROVE Once(r)'
  <2>1. /\ UNCHANGED <<instance, toSend, received, request, ids, server, history>>
        /\ haveSent' = Without(haveSent, {m}) /\ io.pc = "resend"
        /\ io'.held = Only(haveSent, {m}) /\ ~Single(r)'
    BY <1>1, <1>2 DEF ResendTake, Single, IoInv
  <2>2. SentAt(r)' = SentAt(r) \ {m}
    BY <2>1 DEF SentAt, EntriesOf, Without
  <2>3. HeldAt(r)' = SentAt(r) \cap {m}
    BY <2>1 DEF SentAt, HeldAt, EntriesOf, Only
  <2>4. HeldAt(r) = {}
    BY <1>1, <2>1 DEF HeldAt, EntriesOf, IoInv
  <2>5. /\ SentAt(r)' = SentAt(r) \ {m} /\ HeldAt(r)' = SentAt(r) \cap {m}
        /\ HeldAt(r) = {}
    BY <2>2, <2>3, <2>4
  <2>6. \A n \in SentAt(r) : request[r].msgId = n
    BY <1>1 DEF Once
  <2>7. HeldAt(r)' = {} \/ SentAt(r)' = {}
    BY <2>5, <2>6
  <2> QED
    BY <1>1, <2>1, <2>5, <2>7, OnceTaken
<1>3. CASE Connected
  <2>1. /\ UNCHANGED <<instance, toSend, received, request, ids, server, history>>
        /\ haveSent' = NoEntries /\ io.pc = "idle"
        /\ io'.held = haveSent /\ ~Single(r)'
    BY <1>3 DEF Connected, ResendAll, Single, Idle, IoIdle
  <2>2. SentAt(r)' = {} /\ HeldAt(r)' = SentAt(r) /\ HeldAt(r) = {}
    BY <1>1, <2>1 DEF SentAt, HeldAt, EntriesOf, NoEntries, IoInv
  <2> QED
    BY <1>1, <2>1, <2>2, OnceTaken
<1>4. CASE ResendDone
  <2>1. /\ UNCHANGED <<instance, received, request, history, server>>
        /\ io' = Idle /\ RequestsAcked(io.acks, FALSE)
    BY <1>4 DEF ResendDone
  <2>2. HeldAt(r)' = {} /\ ~Single(r)'
    BY <2>1 DEF HeldAt, EntriesOf, Single, Idle, NoEntries
  <2> QED
    BY <1>1, <2>1, <2>2, AnswersStay, OnceAcked DEF server
<1>5. CASE ResendPut
  <2>7. request'[r].msgId = request[r].msgId
    BY <1>1, <1>5 DEF ResendPut, TypeOK
  <2>8. ~Single(r) /\ ~Single(r)' /\ io'.held = NoEntries
    BY <1>1, <1>5 DEF ResendPut, Single, IoInv
  <2>1. /\ UNCHANGED <<instance, haveSent, received, ackedIds, server, history>>
        /\ toSend' = toSend \cup Values(io.held)
        /\ resendingIds' = Emplace(resendingIds, io.held)
        /\ request'[r].msgId = request[r].msgId
        /\ ~Single(r) /\ ~Single(r)' /\ io'.held = NoEntries
    BY <1>5, <2>7, <2>8 DEF ResendPut
  <2>2. /\ SentAt(r)' = SentAt(r) /\ AckedAt(r)' = AckedAt(r) /\ HeldAt(r)' = {}
        /\ AckedOnes(r)' = AckedOnes(r) /\ (HasHandlers(r)' <=> HasHandlers(r))
        /\ delayed' = delayed /\ used' = used /\ answered' = answered
        /\ (Answering(r)' <=> Answering(r)) /\ (OneAnswer(r)' <=> OneAnswer(r))
        /\ carried' = carried
    BY <2>1, AnswersStay, SameEntries
       DEF instance, history, server, HeldAt, EntriesOf, NoEntries
  <2>3. ResentAt(r)' \subseteq ResentAt(r) \cup HeldAt(r)
    BY <2>1 DEF ResentAt, HeldAt, EntriesOf, Emplace
  <2>4. r \in Values(io.held) <=> HeldAt(r) # {}
    BY DEF Values, HeldAt, EntriesOf
  <2>5. CASE HeldAt(r) = {}
    <3>1. Fewer(r)
      BY <2>1, <2>2, <2>3, <2>4, <2>5 DEF Fewer
    <3> QED
      BY <1>1, <3>1, FewerOnce
  <2>6. CASE HeldAt(r) # {}
    <3>1. /\ SentAt(r) = {} /\ r \notin delayed /\ ~Answerable(r) /\ r \notin answered
          /\ ResentAt(r) = {} /\ (\A m \in AckedAt(r) : request[r].msgId # m)
          /\ \A m \in HeldAt(r) : request[r].msgId = m
      BY <1>1, <2>6 DEF Once, Gone
    <3>2. Gone(r)' /\ ~Answerable(r)'
      BY <2>2, <3>1 DEF Gone, Answerable
    <3>3. r \in used
      <4>1. PICK m \in HeldAt(r) : <<m, r>> \in carried
        BY <2>6, EntriesCarried
      <4>2. <<m, r>>[2] = r
        OBVIOUS
      <4> QED
        BY <1>1, <4>1, <4>2 DEF Once
    <3>4. HasHandlers(r)' => /\ OneAnswer(r)'
                             /\ \A m, n \in AckedOnes(r)' : m = n
                             /\ AckedOnes(r)' # {} => ~Answering(r)'
      BY <1>1, <2>2 DEF Once
    <3>5. \A m \in ResentAt(r)' : request'[r].msgId = m
      BY <2>1, <2>3, <3>1
    <3> QED
      BY <2>1, <2>2, <3>1, <3>2, <3>3, <3>4, <3>5 DEF Once
  <2> QED
    BY <2>5, <2>6
<1> QED
  BY <1>2, <1>3, <1>4, <1>5 DEF ResendStep

\* The answer for r itself: nothing is left of it in the maps.
LEMMA OnceAnswered ==
  ASSUME TInv, TInv', NEW r \in Requests, Once(r), NEW m, m \in wire \ replied,
         RequestsAcked({m}, TRUE), WasSent(m, resendingIds', ackedIds', haveSent') = r,
         NEW a, a.req = r, received' = Append(received, a),
         UNCHANGED <<instance, request, history, io, wire, carried>>,
         replied' = replied \cup {m}, HasHandlers(r)
  PROVE  Once(r)'
<1>1. /\ SentAt(r)' \subseteq SentAt(r) /\ ResentAt(r)' \subseteq ResentAt(r)
      /\ toSend' \subseteq toSend
      /\ \A n \in AckedAt(r)' :
           \/ n \in AckedAt(r)
           \/ n \in SentAt(r) /\ n \notin SentAt(r)'
           \/ /\ n \in ResentAt(r) /\ n \notin ResentAt(r)'
              /\ r \in toSend /\ r \notin toSend'
  BY AckedEntries
<1>2. /\ HasHandlers(r)' /\ delayed' = delayed /\ used' = used
      /\ answered' = answered /\ request' = request /\ carried' = carried
      /\ Waiting(r)' => Waiting(r)
      /\ HeldAt(r)' = HeldAt(r) /\ (Single(r)' <=> Single(r))
  BY <1>1, SameEntries DEF instance, history, HasHandlers, Retrying, Waiting
<1>3. AckedOnes(r)' \subseteq AckedAt(r)' /\ m \notin AckedOnes(r)'
      /\ \A n \in AckedOnes(r)' : n \in AckedAt(r) => n \in AckedOnes(r)
  BY <1>2 DEF AckedOnes
<1>4. Answering(r) \/ OneAnswer(r)'
  BY AnswerAdded DEF TInv
<1>5. /\ haveSent' = Without(haveSent, {m})
      /\ m \in ResentAt(r)' => m \in SentAt(r)
  <2> DEFINE resent == ({m} \cap DOMAIN resendingIds) \ DOMAIN haveSent
  <2>1. AckDrops({m}, TRUE) = {m}
    BY DEF AckDrops
  <2>2. haveSent' = Without(haveSent, {m}) /\ resendingIds' = Without(resendingIds, resent)
    BY <2>1 DEF RequestsAcked
  <2>3. ASSUME m \in ResentAt(r)' PROVE m \in SentAt(r)
    <3>1. m \in DOMAIN resendingIds /\ m \notin resent /\ resendingIds[m] = r
      BY <2>2, <2>3 DEF ResentAt, EntriesOf, Without
    <3>2. m \in DOMAIN haveSent
      BY <3>1
    <3>3. <<m, resendingIds[m]>> \in carried /\ <<m, haveSent[m]>> \in carried
      BY <3>1, <3>2 DEF TInv, IdsInv, Within
    <3>4. haveSent[m] = r
      BY <3>1, <3>3 DEF TInv, IdsInv
    <3> QED
      BY <3>2, <3>4 DEF SentAt, EntriesOf
  <2> QED
    BY <2>2, <2>3
<1>6. m \in AckedAt(r)'
  <2>1. r # 0
    BY SessionSendAssumption
  <2>2. m \notin DOMAIN haveSent'
    BY <1>5 DEF Without
  <2>3. m \in ResentAt(r)' \/ m \in AckedAt(r)'
    BY <2>1, <2>2 DEF WasSent, ResentAt, AckedAt, EntriesOf
  <2>4. m \notin ResentAt(r)'
    BY <1>1, <1>5 DEF Once, Gone
  <2> QED
    BY <2>3, <2>4
<1>7. SUFFICES /\ SentAt(r)' = {} /\ HeldAt(r)' = {} /\ ResentAt(r)' = {} /\ ~Waiting(r)'
               /\ r \notin delayed /\ r \notin answered
               /\ ~Answering(r) /\ AckedOnes(r)' = {}
  <2>1. r \in used
    BY <1>2 DEF Once, HasHandlers, Retrying, instance
  <2>2. r \notin toSend' /\ OneAnswer(r)'
    BY <1>4, <1>7 DEF Waiting
  <2> QED
    BY <1>2, <1>7, <2>1, <2>2 DEF Once
<1>8. CASE m \in AckedAt(r)
  <2>1. m \in AckedOnes(r) /\ Answerable(r) /\ HasHandlers(r)
    BY <1>8 DEF AckedOnes, Answerable
  <2>2. /\ SentAt(r) = {} /\ HeldAt(r) = {} /\ ResentAt(r) = {} /\ ~Waiting(r)
        /\ r \notin delayed /\ r \notin answered /\ ~Answering(r)
        /\ \A n \in AckedOnes(r) : n = m
    BY <2>1 DEF Once, Gone
  <2>3. AckedOnes(r)' = {}
    BY <1>1, <1>3, <2>2
  <2> QED
    BY <1>1, <1>2, <2>2, <2>3
<1>9. CASE m \in SentAt(r) /\ m \notin SentAt(r)'
  <2>1. /\ SentAt(r) = {m} /\ SentAt(r)' = {} /\ HeldAt(r) = {} /\ r \notin delayed
        /\ ~Answerable(r) /\ ~Waiting(r) /\ ResentAt(r) = {} /\ r \notin answered
    BY <1>1, <1>9 DEF Once, Gone
  <2>2. ~Answering(r) /\ AckedOnes(r) = {}
    BY <2>1 DEF Answerable
  <2>3. AckedOnes(r)' = {}
    BY <1>1, <1>3, <2>1, <2>2
  <2> QED
    BY <1>1, <1>2, <2>1, <2>2, <2>3
<1>10. CASE m \in ResentAt(r) /\ m \notin ResentAt(r)' /\ r \in toSend /\ r \notin toSend'
  <2>1. Gone(r) /\ ResentAt(r) = {m} /\ ~Single(r) /\ r \notin answered
    BY <1>10 DEF Once, Waiting
  <2>2. /\ SentAt(r) = {} /\ HeldAt(r) = {} /\ r \notin delayed
        /\ ~Answering(r) /\ AckedOnes(r) = {}
    BY <2>1 DEF Gone, Answerable
  <2>3. AckedOnes(r)' = {}
    BY <1>1, <1>3, <2>1, <2>2
  <2>4. ~Waiting(r)' /\ ResentAt(r)' = {}
    BY <1>1, <1>2, <1>10, <2>1 DEF Waiting
  <2> QED
    BY <1>1, <1>2, <2>1, <2>2, <2>3, <2>4
<1> QED
  BY <1>1, <1>6, <1>8, <1>9, <1>10

LEMMA OnceAnswers ==
  ASSUME TInv, TInv', OnceInv,
         \E m \in MsgIds : \/ ReceiveAck(m)
                           \/ \E kind \in Errors \cup {"done"} : ReceiveResult(m, kind)
  PROVE  OnceInv'
<1> SUFFICES ASSUME NEW r \in Requests PROVE Once(r)'
  BY DEF OnceInv
<1>1. Once(r)
  BY DEF OnceInv
<1>2. ASSUME NEW m \in MsgIds, ReceiveAck(m) PROVE Once(r)'
  <2>1. /\ UNCHANGED <<instance, received, request, history, io, server>>
        /\ \E S : RequestsAcked(S, FALSE)
    BY <1>2 DEF ReceiveAck
  <2>2. HeldAt(r)' = HeldAt(r) /\ (Single(r)' <=> Single(r))
    BY <2>1, SameEntries
  <2> QED
    BY <1>1, <2>1, <2>2, AnswersStay, OnceAcked DEF server
<1>3. ASSUME NEW m \in MsgIds, NEW kind \in Errors \cup {"done"}, ReceiveResult(m, kind)
      PROVE  Once(r)'
  <2> DEFINE w == WasSent(m, resendingIds', ackedIds', haveSent')
             a == [req |-> w, kind |-> kind, id |-> m]
  <2>1. /\ UNCHANGED <<instance, request, history, io, wire, carried>>
        /\ m \in wire \ replied /\ replied' = replied \cup {m}
        /\ RequestsAcked({m}, TRUE)
        /\ received' = IF w = 0 THEN received ELSE Append(received, a)
    BY <1>3 DEF ReceiveResult
  <2>2. HeldAt(r)' = HeldAt(r) /\ (Single(r)' <=> Single(r))
    BY <2>1, SameEntries
  <2>3. a.req = w /\ r # 0
    BY SessionSendAssumption
  <2>4. CASE w = r /\ HasHandlers(r)
    BY <1>1, <2>1, <2>3, <2>4, OnceAnswered
  <2> HIDE DEF w, a
  <2>5. CASE w # r
    <3>1. (Answering(r)' => Answering(r)) /\ (OneAnswer(r) => OneAnswer(r)')
      BY <2>1, <2>3, <2>5, AnswersStay, AnswerAdded DEF TInv
    <3> QED
      BY <1>1, <2>1, <2>2, <3>1, OnceAcked
  <2>6. CASE ~HasHandlers(r)
    BY <1>1, <2>1, <2>2, <2>6, OnceAcked
  <2> QED
    BY <2>4, <2>5, <2>6
<1> QED
  BY <1>2, <1>3

LEMMA OnceQuiet ==
  ASSUME TInv, OnceInv, QuietStep
  PROVE  OnceInv'
<1> SUFFICES ASSUME NEW r \in Requests PROVE Once(r)'
  BY DEF OnceInv
<1>1. Once(r) /\ Quiet
  BY QuietSteps DEF OnceInv
<1>2. /\ UNCHANGED <<instance, data, resendingIds, ackedIds, carried, history>>
      /\ Single(r)' => Single(r)
      /\ HeldAt(r)' \subseteq HeldAt(r)
  BY <1>1 DEF Quiet, Single, HeldAt, EntriesOf, NoEntries
<1>3. AckedAt(r)' = AckedAt(r)
  BY <1>2, SameEntries
<1>4. AckedOnes(r)' \subseteq AckedOnes(r)
  <2>1. \A m \in AckedAt(r) : <<m, r>> \in carried
    BY EntriesCarried
  <2>2. \A m \in wire' \ replied' : m \in wire \ replied \/ \A c \in carried : c[1] # m
    BY <1>1 DEF Quiet
  <2>3. ASSUME NEW m \in AckedAt(r), \A c \in carried : c[1] # m PROVE FALSE
    <3>1. <<m, r>> \in carried /\ <<m, r>>[1] = m
      BY <2>1
    <3> QED
      BY <2>3, <3>1
  <2> QED
    BY <1>3, <2>2, <2>3 DEF AckedOnes
<1>5. Fewer(r)
  BY <1>2, <1>3, <1>4, AnswersStay, SameEntries DEF Fewer, data, instance, history
<1> QED
  BY <1>1, <1>5, FewerOnce

LEMMA OnceInvariant == ASSUME "fatal" \notin BadMsgs PROVE Spec => []OnceInv
<1>1. Init => OnceInv
  <2> SUFFICES ASSUME Init, NEW r \in Requests PROVE Once(r)
    BY DEF OnceInv
  <2>1. /\ SentAt(r) = {} /\ HeldAt(r) = {} /\ ResentAt(r) = {} /\ AckedAt(r) = {}
    BY DEF Init, Idle, NoEntries, SentAt, HeldAt, ResentAt, AckedAt, EntriesOf
  <2>2. ~Waiting(r) /\ r \notin delayed /\ ~HasHandlers(r) /\ r \notin answered /\ carried = {}
    BY DEF Init, Idle, MainIdle, Waiting, Single, HasHandlers, Retrying
  <2> QED
    BY <2>1, <2>2 DEF Once, Waiting
<1>2. TInv /\ TInv' /\ OnceInv /\ [Next]_vars => OnceInv'
  <2> SUFFICES ASSUME TInv, TInv', OnceInv, [Next]_vars PROVE OnceInv'
    OBVIOUS
  <2>1. CASE Step
    BY <2>1, OnceMain, OnceSend, OnceResend, OnceQuiet, OnceAnswers DEF Step
  <2>2. CASE UNCHANGED vars
    <3> SUFFICES ASSUME NEW r \in Requests PROVE Once(r)'
      BY DEF OnceInv
    <3>1. Once(r)
      BY DEF OnceInv
    <3>2. Fewer(r)
      BY <2>2, AnswersStay, SameEntries DEF Fewer, vars, data, instance, ids, history
    <3> QED
      BY <3>1, <3>2, FewerOnce
  <2> QED
    BY <2>1, <2>2, NextIsStep
<1> QED
  BY <1>1, <1>2, TInvariant, PTL DEF Spec

\* cancel() finds a request by the id its object carries: haveSent holds it once
\* and under that id, and never together with toSend, whatever is resent,
\* renumbered or acknowledged in between.
THEOREM SentOnlyOnce ==
  ASSUME "fatal" \notin BadMsgs PROVE Spec => []SentUnderItsId
<1>1. TInv /\ OnceInv => SentUnderItsId
  <2> SUFFICES ASSUME TInv, OnceInv, NEW m \in DOMAIN haveSent
               PROVE  request[haveSent[m]].msgId = m /\ haveSent[m] \notin toSend
    BY DEF SentUnderItsId
  <2>1. haveSent[m] \in Requests /\ m \in SentAt(haveSent[m])
    BY DEF TInv, TypeOK, Values, SentAt, EntriesOf
  <2>2. Once(haveSent[m])
    BY <2>1 DEF OnceInv
  <2> QED
    BY <2>1, <2>2 DEF Once, Waiting, Gone
<1> QED
  BY <1>1, OnceInvariant, TInvariant, PTL

\* A handler got its final answer: whatever the server tells of old messages,
\* and however often the connection is lost, its request is not sent again.
THEOREM AnsweredForGood ==
  ASSUME "fatal" \notin BadMsgs PROVE Spec => AnsweredNotResent
<1>1. OnceInv' /\ TInv /\ TInv' /\ [Next]_vars =>
        [\A r \in answered : r \in toSend' => r \in toSend]_vars
  <2> SUFFICES ASSUME OnceInv', TInv, TInv', [Next]_vars, NEW r \in answered, r \in toSend'
               PROVE  r \in toSend
    OBVIOUS
  <2>1. answered \subseteq answered'
    <3>1. CASE MainStep
      BY <3>1 DEF MainStep, CancelToSend, CancelHaveSent, CancelParser, ProcessCallback,
                  EmplaceParser, CheckDelayedRequests, history
    <3>2. CASE \E q \in Requests : SendRequest(q) \/ CancelRequest(q)
      BY <3>2 DEF SendRequest, CancelRequest, history
    <3>3. CASE SendStep
      BY <3>3 DEF SendStep, TryToSendNothing, TryToSendContainer, TryToSendState,
                  TryToSendSingle, SendSingle, history
    <3>4. CASE ResendStep \/ Connected
      BY <3>4 DEF ResendStep, ResendPut, ResendDone, ResendTake, Connected, history
    <3>5. CASE QuietStep
      BY <3>5, QuietSteps DEF Quiet, history
    <3>6. CASE \E m \in MsgIds :
                 \/ ReceiveAck(m) \/ ReceiveFatal(m)
                 \/ \E kind \in Errors \cup {"done"} : ReceiveResult(m, kind)
      BY <3>6 DEF ReceiveAck, ReceiveFatal, ReceiveResult, history
    <3> QED
      BY <3>1, <3>2, <3>3, <3>4, <3>5, <3>6, NextIsStep DEF Step, vars, history
  <2>2. r \in Requests /\ Once(r)'
    BY <2>1 DEF OnceInv, TInv, TypeOK
  <2> QED
    BY <2>1, <2>2 DEF Once, Waiting
<1> QED
  BY <1>1, OnceInvariant, TInvariant, PTL DEF Spec, AnsweredNotResent

=============================================================================
