------------------------- MODULE KeyCreationProofs -------------------------
(* The safety of KeyCreation, for any number of sessions and keys: IInv is  *)
(* inductive.  Its three parts are proved one after the other, OrderInv     *)
(* (posted events), LockInv (creation flags) and KeyInv (the keys).         *)
EXTENDS KeyCreationTypes

-----------------------------------------------------------------------------
(* The order of the events posted to one network thread.                    *)

\* Taking an event that deletes nothing keeps the order, whatever becomes of the
\* object.
LEMMA OrderTakeOther ==
    ASSUME NEW q \in Seq(PrivateEvent), NEW absent \in BOOLEAN, NEW has \in BOOLEAN,
           NEW absent2 \in BOOLEAN,
           q # <<>>, Head(q) # "delete", QueueOrder(q, absent, has)
    PROVE  QueueOrder(Tail(q), absent2, has)
<1>1. /\ Len(Tail(q)) = Len(q) - 1
      /\ \A i \in 1..Len(Tail(q)) : Tail(q)[i] = q[i + 1]
      /\ Len(q) \in Nat /\ Len(q) >= 1
      /\ Tail(q) \in Seq(PrivateEvent)
  BY HeadTailProperties, LenProperties
<1>2. Head(q) = q[1]
  OBVIOUS
<1>3. Tail(q) # <<>> => Tail(q)[1] # "start"
  BY <1>1, <1>2 DEF QueueOrder
<1>4. ~has => Tail(q) # <<>> /\ Tail(q)[Len(Tail(q))] = "delete"
  <2> SUFFICES ASSUME ~has
               PROVE  Tail(q) # <<>> /\ Tail(q)[Len(Tail(q))] = "delete"
    OBVIOUS
  <2>1. q[Len(q)] = "delete"
    BY DEF QueueOrder
  <2>2. Len(q) # 1
    BY <1>2, <2>1
  <2>3. Len(Tail(q)) >= 1 /\ Tail(q)[Len(Tail(q))] = q[Len(q)]
    BY <1>1, <2>2
  <2>4. Tail(q) # <<>>
    BY <2>3, SMTT(20)
  <2> QED BY <2>1, <2>3, <2>4
<1>5. \A i \in 2..Len(Tail(q)) : Tail(q)[i] = "start" => Tail(q)[i - 1] = "delete"
  <2> SUFFICES ASSUME NEW i \in 2..Len(Tail(q)), Tail(q)[i] = "start"
               PROVE  Tail(q)[i - 1] = "delete"
    OBVIOUS
  <2>1. q[i + 1] = "start" /\ i + 1 \in 2..Len(q)
    BY <1>1
  <2>2. q[(i + 1) - 1] = "delete"
    BY <2>1 DEF QueueOrder
  <2> QED BY <1>1, <2>2
<1> QED BY <1>3, <1>4, <1>5 DEF QueueOrder

\* Taking a "delete" leaves no object for the events behind it.
LEMMA OrderTakeDelete ==
    ASSUME NEW q \in Seq(PrivateEvent), NEW absent \in BOOLEAN, NEW has \in BOOLEAN,
           q # <<>>, Head(q) = "delete", QueueOrder(q, absent, has)
    PROVE  QueueOrder(Tail(q), TRUE, has)
<1>1. /\ Len(Tail(q)) = Len(q) - 1
      /\ \A i \in 1..Len(Tail(q)) : Tail(q)[i] = q[i + 1]
      /\ Len(q) \in Nat /\ Len(q) >= 1
      /\ Tail(q) \in Seq(PrivateEvent)
  BY HeadTailProperties, LenProperties
<1>2. ~has /\ Tail(q) # <<>> => Tail(q)[Len(Tail(q))] = "delete"
  BY <1>1 DEF QueueOrder
<1>3. \A i \in 2..Len(Tail(q)) : Tail(q)[i] = "start" => Tail(q)[i - 1] = "delete"
  <2> SUFFICES ASSUME NEW i \in 2..Len(Tail(q)), Tail(q)[i] = "start"
               PROVE  Tail(q)[i - 1] = "delete"
    OBVIOUS
  <2>1. q[i + 1] = "start" /\ i + 1 \in 2..Len(q)
    BY <1>1
  <2>2. q[(i + 1) - 1] = "delete"
    BY <2>1 DEF QueueOrder
  <2> QED BY <1>1, <2>2
<1> QED BY <1>2, <1>3 DEF QueueOrder

\* Events other than "start" behind a queue that has an owner.
LEMMA OrderPost ==
    ASSUME NEW q \in Seq(PrivateEvent), NEW absent \in BOOLEAN,
           NEW e \in Seq(PrivateEvent), \A i \in 1..Len(e) : e[i] # "start",
           QueueOrder(q, absent, TRUE)
    PROVE  QueueOrder(q \o e, absent, TRUE)
<1>1. /\ Len(q \o e) = Len(q) + Len(e)
      /\ \A i \in 1..Len(q) : (q \o e)[i] = q[i]
      /\ \A i \in (Len(q) + 1)..(Len(q) + Len(e)) : (q \o e)[i] = e[i - Len(q)]
      /\ Len(q) \in Nat /\ Len(e) \in Nat
      /\ q \o e \in Seq(PrivateEvent)
  BY ConcatProperties, LenProperties
<1>2. \A i \in 1..Len(q \o e) : (q \o e)[i] = "start" =>
        i \in 1..Len(q) /\ q[i] = "start"
  BY <1>1
<1>3. \A i \in 2..Len(q \o e) :
        (q \o e)[i] = "start" => (q \o e)[i - 1] = "delete"
  BY <1>1, <1>2 DEF QueueOrder
<1>4. (q \o e # <<>> /\ (q \o e)[1] = "start") => absent
  BY <1>1, <1>2 DEF QueueOrder
<1> QED BY <1>3, <1>4 DEF QueueOrder

\* Session::start posts "start", behind a "delete" if it had a SessionPrivate.
LEMMA OrderStart ==
    ASSUME NEW q \in Seq(PrivateEvent), NEW absent \in BOOLEAN, NEW has \in BOOLEAN,
           QueueOrder(q, absent, has)
    PROVE  QueueOrder(q \o (IF has THEN <<"delete", "start">> ELSE <<"start">>),
                      absent, TRUE)
<1> DEFINE e == IF has THEN <<"delete", "start">> ELSE <<"start">>
<1>0. e \in Seq(PrivateEvent)
  <2>1. <<"delete", "start">> \in Seq(PrivateEvent) /\ <<"start">> \in Seq(PrivateEvent)
    BY DEF PrivateEvent
  <2> QED BY <2>1
<1>1. /\ Len(q \o e) = Len(q) + Len(e)
      /\ \A i \in 1..Len(q) : (q \o e)[i] = q[i]
      /\ \A i \in (Len(q) + 1)..(Len(q) + Len(e)) : (q \o e)[i] = e[i - Len(q)]
      /\ Len(q) \in Nat /\ Len(e) \in Nat
      /\ q = <<>> <=> Len(q) = 0
  BY <1>0, ConcatProperties, LenProperties, EmptySeq
<1>2. CASE has
  <2>1. Len(e) = 2 /\ e[1] = "delete" /\ e[2] = "start"
    BY <1>2
  <2> HIDE DEF e
  <2>2. (q \o e)[1] = IF Len(q) = 0 THEN "delete" ELSE q[1]
    BY <1>1, <2>1
  <2>3. (q \o e)[Len(q) + 2] = "start" /\ (q \o e)[Len(q) + 1] = "delete"
    BY <1>1, <2>1
  <2>4. \A i \in 2..Len(q \o e) : (q \o e)[i] = "start" => (q \o e)[i - 1] = "delete"
    BY <1>1, <2>1, <2>3 DEF QueueOrder
  <2>5. QueueOrder(q \o e, absent, TRUE)
    BY <1>1, <2>2, <2>4 DEF QueueOrder
  <2> QED BY <2>5 DEF e
<1>3. CASE ~has
  <2>1. Len(e) = 1 /\ e[1] = "start"
    BY <1>3
  <2> HIDE DEF e
  <2>2. (q \o e)[Len(q) + 1] = "start"
    BY <1>1, <2>1
  <2>3. \A i \in 2..Len(q \o e) : (q \o e)[i] = "start" => (q \o e)[i - 1] = "delete"
    BY <1>1, <1>3, <2>1, <2>2 DEF QueueOrder
  <2>4. (q \o e)[1] = "start" => absent
    BY <1>1, <1>3, <2>1, <2>2 DEF QueueOrder
  <2>5. QueueOrder(q \o e, absent, TRUE)
    BY <2>3, <2>4 DEF QueueOrder
  <2> QED BY <2>5 DEF e
<1> QED BY <1>2, <1>3

\* Session::killConnection posts "delete" behind everything else.
LEMMA OrderKill ==
    ASSUME NEW q \in Seq(PrivateEvent), NEW absent \in BOOLEAN,
           QueueOrder(q, absent, TRUE)
    PROVE  QueueOrder(Append(q, "delete"), absent, FALSE)
<1>1. /\ Append(q, "delete") \in Seq(PrivateEvent)
      /\ Len(Append(q, "delete")) = Len(q) + 1
      /\ \A i \in 1..Len(q) : Append(q, "delete")[i] = q[i]
      /\ Append(q, "delete")[Len(q) + 1] = "delete"
      /\ Len(q) \in Nat
      /\ Append(q, "delete") # <<>>
      /\ q = <<>> <=> Len(q) = 0
  BY AppendProperties, LenProperties, EmptySeq DEF PrivateEvent
<1>2. \A i \in 2..Len(Append(q, "delete")) :
        Append(q, "delete")[i] = "start" => Append(q, "delete")[i - 1] = "delete"
  BY <1>1 DEF QueueOrder
<1>3. Append(q, "delete")[1] = "start" => absent
  BY <1>1 DEF QueueOrder
<1> QED BY <1>1, <1>2, <1>3 DEF QueueOrder

-----------------------------------------------------------------------------
(* OrderInv.                                                                *)

\* A step of a network thread that leaves its queue alone, or takes an event
\* other than a deletion, and does not touch the other sessions.
LEMMA OrderThread ==
    ASSUME TypeOK, OrderInv, NEW s \in Sessions, priv[s].conn # "absent",
           NEW p \in Private, SetPrivate(s, p),
           UNCHANGED <<queue, session, hasPrivate>>,
           \A x \in Sessions \ {s} : myKeyCreation'[x] = myKeyCreation[x]
    PROVE  OrderInv'
<1> SUFFICES ASSUME NEW x \in Sessions
             PROVE  QueueInv(x)' /\ UnstartedInv(x)'
  BY DEF OrderInv
<1>1. QueueInv(x) /\ UnstartedInv(x) /\ QueueInv(s) /\ UnstartedInv(s)
  BY DEF OrderInv
<1>2. CASE x = s
  <2>1. priv'[s] = p
    BY DEF SetPrivate, TypeOK
  <2>2. session[s] # "none"
    BY <1>1 DEF UnstartedInv
  <2>3. QueueInv(s)'
    BY <1>1, <2>1 DEF QueueInv, QueueOrder
  <2> QED BY <1>2, <2>2, <2>3 DEF UnstartedInv
<1>3. CASE x # s
  <2>1. priv'[x] = priv[x] /\ myKeyCreation'[x] = myKeyCreation[x]
    BY <1>3 DEF SetPrivate, TypeOK
  <2> QED BY <1>1, <2>1 DEF QueueInv, UnstartedInv
<1> QED BY <1>2, <1>3

\* A network thread that takes one event of its queue keeps the order.
LEMMA OrderTakes ==
    ASSUME TypeOK, OrderInv, NEW s \in Sessions, NEW event, Takes(s, event),
           NEW p \in Private, SetPrivate(s, p),
           event = "delete" => p.conn = "absent",
           UNCHANGED <<session, hasPrivate>>,
           \A x \in Sessions \ {s} : myKeyCreation'[x] = myKeyCreation[x]
    PROVE  OrderInv'
<1> SUFFICES ASSUME NEW x \in Sessions
             PROVE  QueueInv(x)' /\ UnstartedInv(x)'
  BY DEF OrderInv
<1>1. QueueInv(x) /\ UnstartedInv(x) /\ QueueInv(s) /\ UnstartedInv(s)
  BY DEF OrderInv
<1>2. CASE x = s
  <2>1. /\ priv'[s] = p
        /\ queue[s] \in Seq(PrivateEvent)
        /\ queue[s] # <<>>
        /\ Head(queue[s]) = event
        /\ queue'[s] = Tail(queue[s])
        /\ hasPrivate[s] \in BOOLEAN
    BY DEF SetPrivate, Takes, TypeOK
  <2>2. session[s] # "none"
    BY <1>1, <2>1 DEF UnstartedInv
  <2>3. QueueOrder(queue[s], priv[s].conn = "absent", hasPrivate[s])
    BY <1>1 DEF QueueInv
  <2>4. QueueOrder(Tail(queue[s]), p.conn = "absent", hasPrivate[s])
    <3>1. CASE event = "delete"
      BY <2>1, <2>3, <3>1, OrderTakeDelete
    <3>2. CASE event # "delete"
      BY <2>1, <2>3, <3>2, OrderTakeOther
    <3> QED BY <3>1, <3>2
  <2> QED BY <1>2, <2>1, <2>2, <2>4 DEF QueueInv, UnstartedInv
<1>3. CASE x # s
  <2>1. /\ priv'[x] = priv[x]
        /\ queue'[x] = queue[x]
        /\ myKeyCreation'[x] = myKeyCreation[x]
    BY <1>3 DEF SetPrivate, Takes, TypeOK
  <2> QED BY <1>1, <2>1 DEF QueueInv, UnstartedInv
<1> QED BY <1>2, <1>3

\* Events other than "start" posted to all live sessions keep the order.
LEMMA OrderPostTo ==
    ASSUME TypeOK, OrderInv, NEW e \in Seq(PrivateEvent),
           \A i \in 1..Len(e) : e[i] # "start",
           PostTo(Live, e), UNCHANGED <<sessions, priv>>
    PROVE  OrderInv'
<1> SUFFICES ASSUME NEW x \in Sessions
             PROVE  QueueInv(x)' /\ UnstartedInv(x)'
  BY DEF OrderInv
<1>1. QueueInv(x) /\ UnstartedInv(x)
  BY DEF OrderInv
<1>2. CASE x \in Live /\ hasPrivate[x]
  <2>1. queue'[x] = queue[x] \o e /\ queue[x] \in Seq(PrivateEvent)
    BY <1>2 DEF PostTo, TypeOK
  <2>2. QueueOrder(queue[x], priv[x].conn = "absent", TRUE)
    BY <1>1, <1>2 DEF QueueInv, QueueOrder
  <2>3. QueueOrder(queue[x] \o e, priv[x].conn = "absent", TRUE)
    BY <2>1, <2>2, OrderPost
  <2>4. hasPrivate'[x] = TRUE /\ priv'[x] = priv[x]
    BY <1>2 DEF sessions, TypeOK
  <2> QED BY <1>2, <2>1, <2>3, <2>4 DEF QueueInv, UnstartedInv, Live, sessions
<1>3. CASE ~(x \in Live /\ hasPrivate[x])
  <2>1. queue'[x] = queue[x]
    BY <1>3 DEF PostTo, TypeOK
  <2> QED BY <1>1, <2>1 DEF QueueInv, UnstartedInv, sessions
<1> QED BY <1>2, <1>3

\* What the steps of one network thread leave alone.
ThreadStep(s) ==
    \/ ThreadProgress(s)
    \/ OnDisconnected(s) \/ OnTimeout(s) \/ OnKeyRejected(s) \/ UnboundFailed(s)

\* What releasing a failed creation leaves alone.
LEMMA ReleaseOnFailFrame ==
    ASSUME TypeOK, NEW s \in Sessions, NEW p, ReleaseOnFail(s, p)
    PROVE  \A x \in Sessions \ {s} : myKeyCreation'[x] = myKeyCreation[x]
BY DEF ReleaseOnFail, TypeOK

\* What destroyTemporaryKey leaves alone.
LEMMA DestroyFrame ==
    ASSUME TypeOK, NEW s \in Sessions, NEW p, DestroyTemporaryKey(s, p)
    PROVE  /\ priv' = [priv EXCEPT ![s] = priv'[s]]
           /\ \A x \in Sessions \ {s} : myKeyCreation'[x] = myKeyCreation[x]
           /\ priv'[s].conn = "retry"
<1>1. \A x \in Sessions \ {s} : myKeyCreation'[x] = myKeyCreation[x]
  BY ReleaseOnFailFrame DEF DestroyTemporaryKey
<1> QED BY <1>1 DEF DestroyTemporaryKey, SetPrivate, TypeOK, Restart,
                    DestroyAllConnections, WithoutCreator

\* What connectToServer leaves alone.
LEMMA ConnectFrame ==
    ASSUME TypeOK, NEW s \in Sessions, NEW p, NEW outcome,
           ConnectToServer(s, p, outcome)
    PROVE  /\ priv' = [priv EXCEPT ![s] = priv'[s]]
           /\ \A x \in Sessions \ {s} : myKeyCreation'[x] = myKeyCreation[x]
<1> DEFINE q == [DestroyAllConnections(p) EXCEPT !.realDcType = DcTypeOf(s)]
<1>1. CASE p.realDcType # q.realDcType /\ q.creator # "none"
  <2>1. DestroyTemporaryKey(s, q)
    BY <1>1 DEF ConnectToServer
  <2> HIDE DEF q
  <2> QED BY <2>1, DestroyFrame
<1>2. CASE ~(p.realDcType # q.realDcType /\ q.creator # "none")
  <2>1. PICK r : SetPrivate(s, r)
    BY <1>2 DEF ConnectToServer
  <2>2. \/ \E a : myKeyCreation' = [myKeyCreation EXCEPT ![s] = a]
        \/ myKeyCreation' = myKeyCreation
    BY <1>2 DEF ConnectToServer, AcquireKeyCreation
  <2> QED BY <2>1, <2>2 DEF SetPrivate, TypeOK
<1> QED BY <1>1, <1>2

\* What finishing a creation leaves alone.
LEMMA ReleaseOnDoneFrame ==
    ASSUME TypeOK, NEW s \in Sessions, NEW key, NEW used, ReleaseOnDone(s, key, used)
    PROVE  \A x \in Sessions \ {s} : myKeyCreation'[x] = myKeyCreation[x]
BY DEF ReleaseOnDone, TypeOK

\* A network thread changes only its own SessionPrivate and Session.
LEMMA ThreadFrame ==
    ASSUME TypeOK, NEW s \in Sessions, ThreadStep(s)
    PROVE  /\ priv' = [priv EXCEPT ![s] = priv'[s]]
           /\ \A x \in Sessions \ {s} : myKeyCreation'[x] = myKeyCreation[x]
           /\ UNCHANGED <<session, hasPrivate>>
<1>1. ASSUME NEW p, SetPrivate(s, p)
      PROVE  priv' = [priv EXCEPT ![s] = priv'[s]]
  BY <1>1 DEF SetPrivate, TypeOK
<1>2. CASE OnStart(s)
  BY <1>2, ConnectFrame DEF OnStart
<1>3. CASE OnConnect(s)
  BY <1>3, ConnectFrame DEF OnConnect
<1>4. CASE RetryByTimer(s)
  BY <1>4, ConnectFrame DEF RetryByTimer
<1>5. CASE OnConfig(s)
  BY <1>5, ConnectFrame DEF OnConfig, TypeOK
<1>6. CASE OnRestart(s)
  BY <1>1, <1>6 DEF OnRestart, sessions
<1>7. CASE OnDelete(s)
  BY <1>1, <1>7, ReleaseOnFailFrame DEF OnDelete
<1>8. CASE OnUpdateKey(s)
  BY <1>1, <1>8 DEF OnUpdateKey, sessions
<1>9. CASE OnConnected(s)
  BY <1>1, <1>9 DEF OnConnected, sessions
<1>10. CASE CheckMedia(s)
  BY <1>1, <1>10 DEF CheckMedia, sessions
<1>11. CASE AcquireMedia(s)
  <2>1. PICK p : SetPrivate(s, p)
    BY <1>11 DEF AcquireMedia
  <2>2. \/ \E a : myKeyCreation' = [myKeyCreation EXCEPT ![s] = a]
        \/ myKeyCreation' = myKeyCreation
    BY <1>11 DEF AcquireMedia, AcquireKeyCreation
  <2>3. UNCHANGED <<session, hasPrivate>>
    BY <1>11 DEF AcquireMedia
  <2> QED BY <1>1, <2>1, <2>2, <2>3 DEF TypeOK
<1>12. ASSUME NEW key, NEW created, UnboundReady(s, key, created)
       PROVE  /\ priv' = [priv EXCEPT ![s] = priv'[s]]
              /\ \A x \in Sessions \ {s} : myKeyCreation'[x] = myKeyCreation[x]
              /\ UNCHANGED <<session, hasPrivate>>
  BY <1>1, <1>12, ReleaseOnFailFrame DEF UnboundReady
<1>13. ASSUME NEW key, UnboundReadyCdn(s, key)
       PROVE  /\ priv' = [priv EXCEPT ![s] = priv'[s]]
              /\ \A x \in Sessions \ {s} : myKeyCreation'[x] = myKeyCreation[x]
              /\ UNCHANGED <<session, hasPrivate>>
  BY <1>1, <1>13, ReleaseOnDoneFrame DEF UnboundReadyCdn
<1>14. CASE SendBind(s)
  BY <1>1, <1>14 DEF SendBind, sessions
<1>15. CASE ServerBind(s)
  BY <1>1, <1>15 DEF ServerBind, sessions
<1>16. CASE BindSuccess(s)
  BY <1>1, <1>16, ReleaseOnDoneFrame DEF BindSuccess
<1>17. CASE BindDestroyed(s)
  BY <1>1, <1>17 DEF BindDestroyed, sessions
<1>18. CASE BindFailed(s)
  BY <1>1, <1>18 DEF BindFailed, sessions
<1>19. CASE FinishDestroyKey(s)
  BY <1>19, DestroyFrame DEF FinishDestroyKey
<1>20. CASE NotifyConnectionInited(s)
  BY <1>20 DEF NotifyConnectionInited, sessions, privates, TypeOK
<1>21. CASE OnDisconnected(s)
  BY <1>1, <1>21 DEF OnDisconnected, sessions
<1>22. CASE OnTimeout(s)
  BY <1>1, <1>22 DEF OnTimeout, sessions
<1>23. CASE OnKeyRejected(s)
  BY <1>23, DestroyFrame DEF OnKeyRejected
<1>24. CASE UnboundFailed(s)
  BY <1>1, <1>24, ReleaseOnFailFrame DEF UnboundFailed
<1> QED
  BY <1>2, <1>3, <1>4, <1>5, <1>6, <1>7, <1>8, <1>9, <1>10, <1>11, <1>12, <1>13,
     <1>14, <1>15, <1>16, <1>17, <1>18, <1>19, <1>20, <1>21, <1>22, <1>23, <1>24
  DEF ThreadStep, ThreadProgress

\* Steps of the network threads keep the order of posted events.
LEMMA OrderThreadStep ==
    ASSUME TypeOK, TypeOK', OrderInv, KeyInv, NEW s \in Sessions, ThreadStep(s)
    PROVE  OrderInv'
<1> DEFINE p == priv'[s]
<1>1. /\ SetPrivate(s, p)
      /\ \A x \in Sessions \ {s} : myKeyCreation'[x] = myKeyCreation[x]
      /\ UNCHANGED <<session, hasPrivate>>
  BY ThreadFrame DEF SetPrivate
<1>2. p \in Private
  BY DEF TypeOK
<1>3. PrivateInv(priv[s])
  BY DEF KeyInv
<1> HIDE DEF p
<1>4. CASE priv[s].conn # "absent" /\ UNCHANGED queue
  BY <1>1, <1>2, <1>4, OrderThread
<1>5. ASSUME NEW event, Takes(s, event), event # "delete"
      PROVE  OrderInv'
  BY <1>1, <1>2, <1>5, OrderTakes
<1>6. CASE OnDelete(s)
  <2>1. p.conn = "absent"
    BY <1>6 DEF OnDelete, SetPrivate, NewPrivate, TypeOK, p
  <2> QED BY <1>1, <1>2, <1>6, <2>1, OrderTakes DEF OnDelete
<1>7. CASE OnStart(s) \/ OnConnect(s) \/ OnConfig(s) \/ OnRestart(s) \/ OnUpdateKey(s)
  BY <1>5, <1>7 DEF OnStart, OnConnect, OnConfig, OnRestart, OnUpdateKey
<1>8. CASE OnTimeout(s)
  <2>1. CASE \E i \in DOMAIN queue[s] : queue[s][i] = "delete"
    BY <1>4, <1>8, <2>1 DEF OnTimeout, Runs
  <2>2. CASE ~\E i \in DOMAIN queue[s] : queue[s][i] = "delete"
    <3> SUFFICES ASSUME NEW x \in Sessions
                 PROVE  QueueInv(x)' /\ UnstartedInv(x)'
      BY DEF OrderInv
    <3>1. QueueInv(x) /\ UnstartedInv(x) /\ QueueInv(s) /\ UnstartedInv(s)
      BY DEF OrderInv
    <3>2. CASE x = s
      <4>1. /\ queue' = [queue EXCEPT ![s] = Append(@, "connect")]
            /\ queue[s] \in Seq(PrivateEvent)
            /\ priv[s].conn # "absent"
        BY <1>8, <2>2 DEF OnTimeout, Runs, TypeOK
      <4>2. hasPrivate[s]
        <5> SUFFICES ASSUME ~hasPrivate[s] PROVE FALSE
          BY DEF TypeOK
        <5>1. queue[s] # <<>> /\ queue[s][Len(queue[s])] = "delete"
          BY <3>1, <4>1 DEF QueueInv, QueueOrder
        <5>2. Len(queue[s]) \in DOMAIN queue[s]
          BY <4>1, <5>1, LenProperties, EmptySeq
        <5> QED BY <2>2, <5>1, <5>2
      <4>3. queue'[s] = queue[s] \o <<"connect">>
        BY <4>1, AppendIsConcat DEF TypeOK, PrivateEvent
      <4>4. QueueOrder(queue[s], FALSE, TRUE)
        BY <3>1, <4>1, <4>2 DEF QueueInv, QueueOrder
      <4>5. /\ <<"connect">> \in Seq(PrivateEvent)
            /\ \A i \in 1..Len(<<"connect">>) : <<"connect">>[i] # "start"
        BY DEF PrivateEvent
      <4>6. QueueOrder(queue'[s], FALSE, TRUE)
        BY <4>1, <4>3, <4>4, <4>5, OrderPost
      <4>7. QueueInv(s)'
        BY <1>1, <4>2, <4>6 DEF QueueInv, QueueOrder
      <4>8. session[s] # "none"
        BY <3>1, <4>1 DEF UnstartedInv
      <4> QED BY <1>1, <3>2, <4>7, <4>8 DEF UnstartedInv
    <3>3. CASE x # s
      <4>1. queue'[x] = queue[x] /\ priv'[x] = priv[x]
        BY <1>1, <1>8, <2>2, <3>3 DEF OnTimeout, SetPrivate, TypeOK
      <4> QED BY <1>1, <3>1, <3>3, <4>1 DEF QueueInv, UnstartedInv
    <3> QED BY <3>2, <3>3
  <2> QED BY <2>1, <2>2
<1>9. CASE \/ RetryByTimer(s) \/ OnConnected(s) \/ OnDisconnected(s)
           \/ OnKeyRejected(s) \/ NotifyConnectionInited(s)
  BY <1>4, <1>9
  DEF RetryByTimer, OnConnected, OnDisconnected, OnKeyRejected,
      NotifyConnectionInited, Runs, privates
<1>10. CASE \/ CheckMedia(s) \/ AcquireMedia(s) \/ FinishDestroyKey(s) \/ ServerBind(s)
  <2>1. priv[s].conn # "absent"
    BY <1>3, <1>10
    DEF CheckMedia, AcquireMedia, FinishDestroyKey, ServerBind, PrivateInv
  <2>2. UNCHANGED queue
    BY <1>10 DEF CheckMedia, AcquireMedia, FinishDestroyKey, ServerBind
  <2> QED BY <1>4, <2>1, <2>2
<1>11. CASE \/ SendBind(s) \/ BindSuccess(s) \/ BindDestroyed(s) \/ BindFailed(s)
  BY <1>4, <1>11
  DEF SendBind, BindSuccess, BindDestroyed, BindFailed, BindAnswered, Runs
<1>12. CASE UnboundFailed(s)
  BY <1>4, <1>12 DEF UnboundFailed, CreatorRuns, Runs
<1>13. ASSUME NEW key, NEW created, UnboundReady(s, key, created)
       PROVE  OrderInv'
  BY <1>4, <1>13 DEF UnboundReady, CreatorRuns, Runs
<1>14. ASSUME NEW key, UnboundReadyCdn(s, key)
       PROVE  OrderInv'
  BY <1>4, <1>14 DEF UnboundReadyCdn, CreatorRuns, Runs
<1> QED
  BY <1>6, <1>7, <1>8, <1>9, <1>10, <1>11, <1>12, <1>13, <1>14
  DEF ThreadStep, ThreadProgress

\* Steps of the main thread keep it.
LEMMA OrderMainStep ==
    ASSUME TypeOK, OrderInv,
           \/ MainProgress
           \/ \E s \in Sessions : StopSession(s) \/ KillSession(s)
           \/ ReInitConnection \/ DcOptionsChanged \/ CdnConfigChanged
    PROVE  OrderInv'
<1>1. ASSUME NEW s \in Sessions, SessionStart(s), session'[s] # "none",
             \A x \in Sessions \ {s} : session'[x] = session[x],
             UNCHANGED <<myKeyCreation, priv>>
      PROVE  OrderInv'
  <2> SUFFICES ASSUME NEW x \in Sessions
               PROVE  QueueInv(x)' /\ UnstartedInv(x)'
    BY DEF OrderInv
  <2>1. QueueInv(x) /\ UnstartedInv(x)
    BY DEF OrderInv
  <2>2. CASE x = s
    <3>1. QueueOrder(queue[s], priv[s].conn = "absent", hasPrivate[s])
      BY <2>1, <2>2 DEF QueueInv
    <3>2. queue[s] \in Seq(PrivateEvent) /\ hasPrivate[s] \in BOOLEAN
      BY DEF TypeOK
    <3>3. /\ queue'[s] = queue[s] \o
               (IF hasPrivate[s] THEN <<"delete", "start">> ELSE <<"start">>)
          /\ hasPrivate'[s] = TRUE
      BY <1>1 DEF SessionStart, TypeOK
    <3>4. QueueOrder(queue'[s], priv[s].conn = "absent", TRUE)
      BY <3>1, <3>2, <3>3, OrderStart
    <3> QED BY <1>1, <2>2, <3>3, <3>4 DEF QueueInv, UnstartedInv
  <2>3. CASE x # s
    <3>1. queue'[x] = queue[x] /\ hasPrivate'[x] = hasPrivate[x]
      BY <1>1, <2>3 DEF SessionStart, TypeOK
    <3> QED BY <1>1, <2>1, <2>3, <3>1 DEF QueueInv, UnstartedInv
  <2> QED BY <2>2, <2>3
<1>2. ASSUME NEW s \in Sessions, StartSession(s) \/ ResumeSession(s)
      PROVE  OrderInv'
  BY <1>1, <1>2 DEF StartSession, ResumeSession, TypeOK
<1>3. ASSUME NEW s \in Sessions, KillConnection(s), session[s] = "live",
             session'[s] # "none",
             \A x \in Sessions \ {s} : session'[x] = session[x],
             UNCHANGED <<myKeyCreation, priv>>
      PROVE  OrderInv'
  <2> SUFFICES ASSUME NEW x \in Sessions
               PROVE  QueueInv(x)' /\ UnstartedInv(x)'
    BY DEF OrderInv
  <2>1. QueueInv(x) /\ UnstartedInv(x)
    BY DEF OrderInv
  <2>2. CASE x = s
    <3>1. hasPrivate'[s] = FALSE /\ priv'[s] = priv[s]
      BY <1>3 DEF KillConnection, TypeOK
    <3>2. CASE hasPrivate[s]
      <4>1. queue'[s] = Append(queue[s], "delete") /\ queue[s] \in Seq(PrivateEvent)
        BY <1>3, <3>2 DEF KillConnection, TypeOK
      <4>2. QueueOrder(queue[s], priv[s].conn = "absent", TRUE)
        BY <2>1, <2>2, <3>2 DEF QueueInv, QueueOrder
      <4>3. QueueOrder(queue'[s], priv[s].conn = "absent", FALSE)
        BY <4>1, <4>2, OrderKill
      <4> QED BY <1>3, <2>2, <3>1, <4>3 DEF QueueInv, UnstartedInv
    <3>3. CASE ~hasPrivate[s]
      BY <1>3, <2>1, <2>2, <3>1, <3>3 DEF KillConnection, QueueInv, QueueOrder, UnstartedInv
    <3> QED BY <3>2, <3>3
  <2>3. CASE x # s
    <3>1. queue'[x] = queue[x] /\ hasPrivate'[x] = hasPrivate[x]
      BY <1>3, <2>3 DEF KillConnection, TypeOK
    <3> QED BY <1>3, <2>1, <2>3, <3>1 DEF QueueInv, UnstartedInv
  <2> QED BY <2>2, <2>3
<1>4. ASSUME NEW s \in Sessions, StopSession(s) \/ KillSession(s)
      PROVE  OrderInv'
  BY <1>3, <1>4 DEF StopSession, KillSession, TypeOK
<1>5. /\ <<"restart">> \in Seq(PrivateEvent)
      /\ <<"config">> \in Seq(PrivateEvent)
      /\ <<"updateKey">> \in Seq(PrivateEvent)
      /\ <<"updateKey", "restart">> \in Seq(PrivateEvent)
  BY DEF PrivateEvent
<1>6. /\ \A i \in 1..Len(<<"restart">>) : <<"restart">>[i] # "start"
      /\ \A i \in 1..Len(<<"config">>) : <<"config">>[i] # "start"
      /\ \A i \in 1..Len(<<"updateKey">>) : <<"updateKey">>[i] # "start"
      /\ \A i \in 1..Len(<<"updateKey", "restart">>) :
            <<"updateKey", "restart">>[i] # "start"
  OBVIOUS
<1>7. CASE ReInitConnection \/ DcOptionsChanged \/ CdnConfigChanged
  BY <1>5, <1>6, <1>7, OrderPostTo
  DEF ReInitConnection, DcOptionsChanged, CdnConfigChanged
<1>8. CASE HandleTemporaryKeyChanged \/ HandlePersistentKeyChanged
  BY <1>5, <1>6, <1>8, OrderPostTo
  DEF HandleTemporaryKeyChanged, HandlePersistentKeyChanged, DcTemporaryKeyChanged
<1>9. CASE HandleKeyDestroyedOnServer
  BY <1>5, <1>6, <1>9, OrderPostTo DEF HandleKeyDestroyedOnServer
<1>10. CASE HandleClear
  BY <1>10 DEF HandleClear, OrderInv, QueueInv, UnstartedInv, TypeOK
<1> QED BY <1>2, <1>4, <1>7, <1>8, <1>9, <1>10 DEF MainProgress
-----------------------------------------------------------------------------
(* LockInv: one lemma for every way a step of session s touches the lock.   *)

\* The installed temporary keys are kept or dropped.
KeysShrink == \A t \in TemporaryKeyType : temporaryKeys'[t] \in {temporaryKeys[t], NoKey}

\* A step that touches neither flags nor creators, and installs no key, keeps
\* the lock.
LEMMA LockLocal ==
    ASSUME TypeOK, LockInv, NEW s \in Sessions, KeysShrink,
           UNCHANGED <<persistentKey, creatingKeys, session, myKeyCreation>>,
           \A x \in Sessions \ {s} : priv'[x] = priv[x],
           Attached(s) => priv'[s].acquired = priv[s].acquired
    PROVE  LockInv'
<1>1. \A x \in Sessions : Attached(x)' => myKeyCreation'[x] = priv'[x].acquired
  BY DEF LockInv, Attached
<1>2. CreatorOwnsFlag'
  BY DEF LockInv, CreatorOwnsFlag, Creates, KeysShrink
<1>3. PersistentInv'
  BY DEF LockInv, PersistentInv
<1> QED BY <1>1, <1>2, <1>3 DEF LockInv

\* Dcenter::acquireKeyCreation gives a flag only to one session.
LEMMA LockAcquire ==
    ASSUME TypeOK, LockInv, NEW s \in Sessions, NEW type,
           myKeyCreation[s] = "None", AcquireKeyCreation(s, Acquired(type)),
           UNCHANGED <<temporaryKeys, persistentKey, session>>,
           \A x \in Sessions \ {s} : priv'[x] = priv[x],
           priv'[s].acquired = Acquired(type)
    PROVE  LockInv'
<1> DEFINE a == Acquired(type)
           i == IndexByType(a)
<1>1. /\ myKeyCreation'[s] = a
      /\ \A x \in Sessions \ {s} : myKeyCreation'[x] = myKeyCreation[x]
  BY DEF AcquireKeyCreation, TypeOK
<1>2. a # "None" =>
        /\ i \in TemporaryKeyType
        /\ ~creatingKeys[i]
        /\ temporaryKeys[i] = NoKey
        /\ creatingKeys' = [creatingKeys EXCEPT ![i] = TRUE]
        /\ a = "Persistent" => persistentKey = NoKey
  BY DEF Acquired, IndexByType, AcquireKeyCreation, TemporaryKeyType,
         TemporaryKeyTypeByDcType
<1>3. a = "None" => creatingKeys' = creatingKeys
  BY DEF AcquireKeyCreation
<1>4. priv'[s].acquired = a
  OBVIOUS
<1> HIDE DEF a
<1>5. \A x \in Sessions : Attached(x)' => myKeyCreation'[x] = priv'[x].acquired
  BY <1>1, <1>4 DEF LockInv, Attached
<1>6. CreatorOwnsFlag'
  <2> SUFFICES ASSUME NEW x \in Sessions, NEW t \in TemporaryKeyType, Creates(x, t)'
               PROVE  /\ creatingKeys'[t]
                      /\ temporaryKeys'[t] = NoKey
                      /\ \A other \in Sessions \ {x} : ~Creates(other, t)'
    BY DEF CreatorOwnsFlag
  <2>1. CASE x = s
    <3>1. a # "None" /\ t = i
      BY <1>1, <2>1 DEF Creates
    <3>2. \A other \in Sessions \ {s} : ~Creates(other, t)
      BY <1>2, <3>1 DEF LockInv, CreatorOwnsFlag
    <3> QED BY <1>1, <1>2, <2>1, <3>1, <3>2 DEF Creates, TypeOK
  <2>2. CASE x # s
    <3>1. Creates(x, t)
      BY <1>1, <2>2 DEF Creates
    <3>2. creatingKeys[t] /\ temporaryKeys[t] = NoKey
          /\ \A other \in Sessions \ {x} : ~Creates(other, t)
      BY <3>1 DEF LockInv, CreatorOwnsFlag
    <3>3. ~Creates(s, t)'
      BY <1>1, <1>2, <3>2 DEF Creates
    <3>4. creatingKeys'[t]
      BY <1>2, <1>3, <3>2 DEF TypeOK
    <3> QED BY <1>1, <2>2, <3>2, <3>3, <3>4 DEF Creates
  <2> QED BY <2>1, <2>2
<1>7. PersistentInv'
  BY <1>1, <1>2 DEF LockInv, PersistentInv
<1> QED BY <1>5, <1>6, <1>7 DEF LockInv

\* Session::releaseKeyCreationOnFail gives back only its own flag.
LEMMA LockFail ==
    ASSUME TypeOK, LockInv, NEW s \in Sessions, PrivateInv(priv[s]), KeysShrink,
           NEW p, p.creator = "none" <=> priv[s].creator = "none",
           ReleaseOnFail(s, p),
           UNCHANGED <<persistentKey, session>>,
           \A x \in Sessions \ {s} : priv'[x] = priv[x],
           priv'[s].acquired = "None"
    PROVE  LockInv'
<1>1. CASE p.creator # "none" /\ Attached(s)
  <2> DEFINE i == IndexByType(myKeyCreation[s])
  <2>1. myKeyCreation[s] # "None" /\ Creates(s, i)
    BY <1>1 DEF LockInv, PrivateInv, Creates
  <2>2. /\ myKeyCreation'[s] = "None"
        /\ \A x \in Sessions \ {s} : myKeyCreation'[x] = myKeyCreation[x]
        /\ creatingKeys' = [creatingKeys EXCEPT ![i] = FALSE]
        /\ i \in TemporaryKeyType
    BY <1>1 DEF ReleaseOnFail, DcReleaseOnFail, TypeOK, IndexByType, TemporaryKeyType
  <2> HIDE DEF i
  <2>3. \A x \in Sessions : Attached(x)' => myKeyCreation'[x] = priv'[x].acquired
    BY <2>2 DEF LockInv, Attached
  <2>4. CreatorOwnsFlag'
    <3> SUFFICES ASSUME NEW x \in Sessions, NEW t \in TemporaryKeyType, Creates(x, t)'
                 PROVE  /\ creatingKeys'[t]
                        /\ temporaryKeys'[t] = NoKey
                        /\ \A other \in Sessions \ {x} : ~Creates(other, t)'
      BY DEF CreatorOwnsFlag
    <3>1. x # s /\ Creates(x, t)
      BY <2>2 DEF Creates
    <3>2. /\ creatingKeys[t]
          /\ temporaryKeys[t] = NoKey
          /\ \A other \in Sessions \ {x} : ~Creates(other, t)
      BY <3>1 DEF LockInv, CreatorOwnsFlag
    <3>3. t # i
      BY <2>1, <3>1, <3>2
    <3> QED BY <2>2, <3>1, <3>2, <3>3 DEF Creates, KeysShrink, TypeOK
  <2>5. PersistentInv'
    BY <2>2 DEF LockInv, PersistentInv
  <2> QED BY <2>3, <2>4, <2>5 DEF LockInv
<1>2. CASE ~(p.creator # "none" /\ Attached(s))
  <2>1. UNCHANGED <<myKeyCreation, creatingKeys>>
    BY <1>2 DEF ReleaseOnFail
  <2>2. Attached(s) => priv'[s].acquired = priv[s].acquired
    BY <1>2 DEF PrivateInv
  <2> QED BY <2>1, <2>2, LockLocal
<1> QED BY <1>1, <1>2

\* Finishing a creation gives back only its own flag.
LEMMA LockDone ==
    ASSUME TypeOK, LockInv, NEW s \in Sessions, myKeyCreation[s] # "None",
           NEW key, NEW used, ReleaseOnDone(s, key, used), UNCHANGED session,
           \A x \in Sessions \ {s} : priv'[x] = priv[x],
           priv'[s].acquired = "None"
    PROVE  LockInv'
<1> DEFINE type == myKeyCreation[s]
           i == IndexByType(type)
<1>1. /\ myKeyCreation'[s] = "None"
      /\ \A x \in Sessions \ {s} : myKeyCreation'[x] = myKeyCreation[x]
      /\ i \in TemporaryKeyType
  BY DEF ReleaseOnDone, TypeOK, IndexByType, TemporaryKeyType
<1>2. \A t \in TemporaryKeyType \ {i} :
        creatingKeys'[t] = creatingKeys[t] /\ temporaryKeys'[t] = temporaryKeys[t]
  BY DEF ReleaseOnDone, DcReleaseOnDone, TypeOK, dcenter
<1>3. persistentKey' # persistentKey => type = "Persistent"
  BY DEF ReleaseOnDone, DcReleaseOnDone, dcenter
<1>4. \A x \in Sessions \ {s} : ~Creates(x, i)
  BY <1>1 DEF LockInv, CreatorOwnsFlag, Creates
<1>5. \A x \in Sessions : Attached(x)' => myKeyCreation'[x] = priv'[x].acquired
  BY <1>1 DEF LockInv, Attached
<1>6. CreatorOwnsFlag'
  <2> SUFFICES ASSUME NEW x \in Sessions, NEW t \in TemporaryKeyType, Creates(x, t)'
               PROVE  /\ creatingKeys'[t]
                      /\ temporaryKeys'[t] = NoKey
                      /\ \A other \in Sessions \ {x} : ~Creates(other, t)'
    BY DEF CreatorOwnsFlag
  <2> HIDE DEF i
  <2>1. x # s /\ Creates(x, t)
    BY <1>1 DEF Creates
  <2>2. t # i
    BY <1>4, <2>1
  <2>3. /\ creatingKeys[t]
        /\ temporaryKeys[t] = NoKey
        /\ \A other \in Sessions \ {x} : ~Creates(other, t)
    BY <2>1 DEF LockInv, CreatorOwnsFlag
  <2> QED BY <1>1, <1>2, <2>1, <2>2, <2>3 DEF Creates
<1>7. PersistentInv'
  <2> SUFFICES ASSUME NEW x \in Sessions, myKeyCreation'[x] = "Persistent"
               PROVE  persistentKey' = NoKey
    BY DEF PersistentInv
  <2>1. x # s /\ myKeyCreation[x] = "Persistent"
    BY <1>1
  <2>2. type # "Persistent"
    BY <1>4, <2>1 DEF Creates
  <2> QED BY <1>3, <2>1, <2>2 DEF LockInv, PersistentInv
<1> QED BY <1>5, <1>6, <1>7 DEF LockInv

\* Destroying a key keeps the lock.
LEMMA LockDestroy ==
    ASSUME TypeOK, LockInv, NEW s \in Sessions, PrivateInv(priv[s]),
           NEW p \in Private, p.creator = "none" <=> priv[s].creator = "none",
           DestroyTemporaryKey(s, p), UNCHANGED session
    PROVE  LockInv'
<1>1. ReleaseOnFail(s, p) /\ UNCHANGED persistentKey
  BY DEF DestroyTemporaryKey
<1>2. KeysShrink
  BY DEF DestroyTemporaryKey, WithoutTemporaryKey, KeysShrink
<1>3. \A x \in Sessions \ {s} : priv'[x] = priv[x]
  BY DEF DestroyTemporaryKey, SetPrivate, TypeOK
<1>4. priv'[s].acquired = "None"
  BY DEF DestroyTemporaryKey, SetPrivate, TypeOK, Restart, DestroyAllConnections,
         WithoutCreator, Private
<1> QED BY <1>1, <1>2, <1>3, <1>4, LockFail

\* connectToServer keeps the lock: it acquires, or already has a creator.
LEMMA LockConnect ==
    ASSUME TypeOK, LockInv, NEW s \in Sessions, PrivateInv(priv[s]),
           NEW p \in Private, p.creator = "none" <=> priv[s].creator = "none",
           p.acquired = priv[s].acquired,
           NEW outcome \in {"testing", "waiting", "restart"},
           ConnectToServer(s, p, outcome), UNCHANGED session
    PROVE  LockInv'
<1> DEFINE q == [DestroyAllConnections(p) EXCEPT !.realDcType = DcTypeOf(s)]
           acquired == IF q.creator = "none" /\ Attached(s)
                       THEN Acquired(q.realDcType) ELSE "None"
           r == IF q.creator # "none" THEN q
                ELSE [q EXCEPT
                    !.currentDcType = AcquiredDcType(q, acquired),
                    !.creator = IF acquired = "None" THEN "none" ELSE "idle",
                    !.acquired = acquired]
<1>1. /\ q \in Private
      /\ q.creator = "none" <=> priv[s].creator = "none"
      /\ q.acquired = priv[s].acquired
  <2>1. DcTypeOf(s) \in DcType
    BY DEF DcTypeOf, DcType
  <2>2. q \in Private
    BY <2>1, DestroyAllConnectionsType DEF Private
  <2>3. /\ q.creator = "none" <=> p.creator = "none"
        /\ q.acquired = p.acquired
    BY DEF Private, DestroyAllConnections
  <2> QED BY <2>2, <2>3
<1>2. CASE p.realDcType # q.realDcType /\ q.creator # "none"
  <2>1. DestroyTemporaryKey(s, q)
    BY <1>2 DEF ConnectToServer
  <2> HIDE DEF q
  <2> QED BY <1>1, <2>1, LockDestroy
<1>3. CASE ~(p.realDcType # q.realDcType /\ q.creator # "none")
  <2>1. /\ IF q.creator = "none" /\ Attached(s)
           THEN AcquireKeyCreation(s, acquired)
           ELSE UNCHANGED <<myKeyCreation, creatingKeys>>
        /\ SetPrivate(s, CASE
              outcome = "testing" ->
                  [r EXCEPT !.conn = "testing", !.bindMsg = "none"]
              [] outcome = "waiting" -> r
              [] outcome = "restart" -> Restart(r))
        /\ UNCHANGED <<temporaryKeys, persistentKey>>
    BY <1>3 DEF ConnectToServer
  <2>2. r.acquired = IF q.creator # "none" THEN q.acquired ELSE acquired
    BY <1>1 DEF Private
  <2>3. \A x \in Sessions \ {s} : priv'[x] = priv[x]
    BY <2>1 DEF SetPrivate, TypeOK
  <2>4. r \in [DOMAIN r -> {r[f] : f \in DOMAIN r}] /\ "acquired" \in DOMAIN r
        /\ "conn" \in DOMAIN r /\ "bindMsg" \in DOMAIN r /\ "creator" \in DOMAIN r
    BY <1>1 DEF Private
  <2> HIDE DEF q, acquired, r
  <2>5. priv'[s].acquired = r.acquired
    BY <2>1, <2>4 DEF SetPrivate, TypeOK, Restart, DestroyAllConnections
  <2>6. KeysShrink
    BY <2>1 DEF KeysShrink
  <2>7. CASE q.creator = "none" /\ Attached(s)
    <3>1. myKeyCreation[s] = "None"
      BY <1>1, <2>7 DEF LockInv, PrivateInv
    <3>2. acquired = Acquired(q.realDcType)
      BY <2>7 DEF acquired
    <3> QED BY <2>1, <2>2, <2>3, <2>5, <2>7, <3>1, <3>2, LockAcquire
  <2>8. CASE ~(q.creator = "none" /\ Attached(s))
    <3>1. Attached(s) => priv'[s].acquired = priv[s].acquired
      BY <1>1, <2>2, <2>5, <2>8
    <3> QED BY <2>1, <2>3, <2>6, <2>8, <3>1, LockLocal
  <2> QED BY <2>7, <2>8
<1> QED BY <1>2, <1>3

\* applyAuthKey leaves the creator and what it creates alone.
LEMMA ApplyAuthKeyKeeps ==
    ASSUME NEW p \in Private, NEW key
    PROVE  /\ ApplyAuthKey(p, key).acquired = p.acquired
           /\ ApplyAuthKey(p, key).creator = "none" <=> p.creator = "none"
BY DEF ApplyAuthKey, StartCreator, Restart, DestroyAllConnections, Private

\* A restart keeps the key creator and what it was acquired for.
LEMMA RestartKeeps ==
    ASSUME NEW p \in Private
    PROVE  /\ Restart(p).acquired = p.acquired
           /\ Restart(p).creator = "none" <=> p.creator = "none"
           /\ DestroyAllConnections(p).acquired = p.acquired
           /\ DestroyAllConnections(p).creator = "none" <=> p.creator = "none"
BY DEF Restart, DestroyAllConnections, Private

\* Steps of the network threads keep the lock.
LEMMA LockThreadStep ==
    ASSUME TypeOK, OrderInv, LockInv, KeyInv, NEW s \in Sessions, ThreadStep(s)
    PROVE  LockInv'
<1> DEFINE p == priv[s]
<1>0. /\ p \in Private
      /\ PrivateInv(p)
      /\ \A x \in Sessions \ {s} : priv'[x] = priv[x]
      /\ UNCHANGED session
  BY ThreadFrame DEF TypeOK, KeyInv
<1>1. ASSUME NEW r \in Private, r.acquired = p.acquired, SetPrivate(s, r),
             UNCHANGED <<persistentKey, temporaryKeys, creatingKeys, myKeyCreation>>
      PROVE  LockInv'
  <2>1. priv'[s].acquired = p.acquired
    BY <1>1 DEF SetPrivate, TypeOK
  <2> QED BY <1>0, <1>1, <2>1, LockLocal DEF KeysShrink
<1>2. CASE OnStart(s)
  <2>1. PICK outcome \in {"testing", "waiting"} :
          ConnectToServer(s, NewPrivate(DcTypeOf(s), "down"), outcome)
    BY <1>2 DEF OnStart
  <2>2. p.conn = "absent"
    <3>1. queue[s] # <<>> /\ queue[s][1] = "start"
      BY <1>2 DEF OnStart, Takes, TypeOK
    <3> QED BY <3>1 DEF OrderInv, QueueInv, QueueOrder
  <2>3. p.creator = "none" /\ p.acquired = "None"
    BY <1>0, <2>2 DEF PrivateInv
  <2>4. /\ NewPrivate(DcTypeOf(s), "down") \in Private
        /\ NewPrivate(DcTypeOf(s), "down").creator = "none"
        /\ NewPrivate(DcTypeOf(s), "down").acquired = "None"
    <3>1. DcTypeOf(s) \in DcType
      BY DEF DcTypeOf, DcType
    <3> QED BY <3>1, NewPrivateType DEF NewPrivate
  <2> QED BY <1>0, <2>1, <2>3, <2>4, LockConnect
<1>3. CASE OnConnect(s)
  BY <1>0, <1>3, LockConnect DEF OnConnect
<1>4. CASE RetryByTimer(s)
  <2>1. /\ [p EXCEPT !.conn = "down"] \in Private
        /\ [p EXCEPT !.conn = "down"].creator = p.creator
        /\ [p EXCEPT !.conn = "down"].acquired = p.acquired
    BY <1>0 DEF Private
  <2> QED BY <1>0, <1>4, <2>1, LockConnect DEF RetryByTimer
<1>5. CASE OnConfig(s)
  <2>1. CASE p.conn \in {"testing", "up"}
    BY <1>0, <1>1, <1>5, <2>1, LockLocal DEF OnConfig, dcenter, KeysShrink
  <2>2. CASE p.conn \notin {"testing", "up"}
    <3>1. PICK outcome \in {"testing", IF IsCdn THEN "waiting" ELSE "restart"} :
             ConnectToServer(s, p, outcome)
      BY <1>5, <2>2 DEF OnConfig
    <3>2. outcome \in {"testing", "waiting", "restart"}
      OBVIOUS
    <3> QED BY <1>0, <3>1, <3>2, LockConnect
  <2> QED BY <2>1, <2>2
<1>6. CASE OnRestart(s)
  BY <1>0, <1>1, <1>6, RestartType, RestartKeeps DEF OnRestart, dcenter, sessions
<1>7. CASE OnDelete(s)
  <2>1. priv'[s].acquired = "None"
    BY <1>7 DEF OnDelete, SetPrivate, TypeOK, NewPrivate
  <2> QED BY <1>0, <1>7, <2>1, LockFail DEF OnDelete, KeysShrink
<1>8. ASSUME NEW q \in Private
      PROVE  LET r == ApplyAuthKey(q, GetTemporaryKey(s,
                         TemporaryKeyTypeByDcType(q.currentDcType)))
             IN r \in Private /\ r.acquired = q.acquired
  BY KeyTypeOf, GetTemporaryKeyType, ApplyAuthKeyType, ApplyAuthKeyKeeps
<1>9. CASE OnUpdateKey(s)
  BY <1>0, <1>1, <1>8, <1>9 DEF OnUpdateKey, dcenter, sessions
<1>10. CASE OnConnected(s)
  <2>1. /\ [p EXCEPT !.conn = "up"] \in Private
        /\ [p EXCEPT !.conn = "up"].acquired = p.acquired
    BY <1>0 DEF Private
  <2> QED BY <1>1, <1>8, <1>10, <2>1 DEF OnConnected, dcenter, sessions
<1>11. CASE CheckMedia(s)
  <2> DEFINE r == [p EXCEPT !.pc = IF GetTemporaryKey(s, "Regular") # NoKey
                                   THEN "acquireMedia" ELSE "idle"]
  <2>1. r \in Private /\ r.acquired = p.acquired
    BY <1>0 DEF Private
  <2> QED BY <1>1, <1>11, <2>1 DEF CheckMedia, dcenter, sessions
<1>12. CASE AcquireMedia(s)
  <2> DEFINE q == [p EXCEPT !.pc = "idle"]
             acquired == IF Attached(s) THEN Acquired(q.realDcType) ELSE "None"
             r == [q EXCEPT !.creator = "idle", !.acquired = acquired]
             z == CASE acquired = "None" -> q
                    [] acquired # "None" /\ AcquiredDcType(q, acquired) # q.currentDcType
                         -> Restart(r)
                    [] OTHER -> StartCreator(r)
  <2>1. /\ p.creator = "none" /\ p.acquired = "None"
        /\ IF Attached(s) THEN AcquireKeyCreation(s, acquired)
           ELSE UNCHANGED <<myKeyCreation, creatingKeys>>
        /\ SetPrivate(s, z)
        /\ UNCHANGED <<temporaryKeys, persistentKey>>
    BY <1>0, <1>12 DEF AcquireMedia, PrivateInv
  <2>2. q \in Private /\ q.acquired = "None"
    BY <1>0, <2>1 DEF Private
  <2>3. acquired \in CreatingKeyType
    BY AcquiredType DEF CreatingKeyType
  <2> HIDE DEF q, acquired
  <2>4. r \in Private /\ r.acquired = acquired
    BY <2>2, <2>3 DEF Private
  <2>5. z.acquired = acquired
    BY <2>2, <2>4, RestartKeeps DEF StartCreator, Private
  <2>6. priv'[s].acquired = acquired
    BY <2>1, <2>5 DEF SetPrivate, TypeOK
  <2>7. CASE Attached(s)
    <3>1. myKeyCreation[s] = "None"
      BY <2>1, <2>7 DEF LockInv
    <3>2. acquired = Acquired(q.realDcType)
      BY <2>7 DEF acquired
    <3> QED BY <1>0, <2>1, <2>6, <2>7, <3>1, <3>2, LockAcquire
  <2>8. CASE ~Attached(s)
    BY <1>0, <2>1, <2>8, LockLocal DEF KeysShrink
  <2> QED BY <2>7, <2>8
<1>13. ASSUME NEW q \in Private, WithoutCreator(q).acquired = "None"
       PROVE  Restart(WithoutCreator(q)).acquired = "None"
  BY <1>13, WithoutCreatorType, RestartKeeps
<1>14. WithoutCreator(p).acquired = "None"
  BY <1>0 DEF WithoutCreator, Private
<1>15. CASE UnboundFailed(s)
  <2>1. priv'[s].acquired = "None"
    BY <1>0, <1>13, <1>14, <1>15 DEF UnboundFailed, SetPrivate, TypeOK
  <2> QED BY <1>0, <1>15, <2>1, LockFail DEF UnboundFailed, KeysShrink
<1>16. ASSUME NEW key \in TempKeys, NEW created \in PersistentKeys \cup {NoKey},
              UnboundReady(s, key, created)
       PROVE  LockInv'
  <2> DEFINE bindKey == IF created # NoKey THEN created
                        ELSE IF Attached(s) THEN persistentKey ELSE NoKey
             q == [p EXCEPT !.creator = "binding", !.bindPersistentKey = bindKey]
  <2>1. bindKey \in PersistentKeys \cup {NoKey}
    BY DEF TypeOK
  <2>2. /\ UNCHANGED <<temporaryKeys, persistentKey>>
        /\ IF bindKey = NoKey
           THEN /\ ReleaseOnFail(s, p)
                /\ SetPrivate(s, Restart(WithoutCreator(p)))
           ELSE /\ SetPrivate(s, ApplyAuthKey(q, key))
                /\ UNCHANGED <<myKeyCreation, creatingKeys>>
    BY <1>16 DEF UnboundReady
  <2> HIDE DEF bindKey
  <2>3. q \in Private /\ q.acquired = p.acquired
    BY <1>0, <2>1 DEF Private
  <2> HIDE DEF q
  <2>4. CASE bindKey = NoKey
    <3>1. priv'[s].acquired = "None"
      BY <1>0, <1>13, <1>14, <2>2, <2>4 DEF SetPrivate, TypeOK
    <3> QED BY <1>0, <2>2, <2>4, <3>1, LockFail DEF KeysShrink
  <2>5. CASE bindKey # NoKey
    <3>1. ApplyAuthKey(q, key) \in Private /\ ApplyAuthKey(q, key).acquired = p.acquired
      BY <2>3, ApplyAuthKeyType, ApplyAuthKeyKeeps
    <3> QED BY <1>1, <2>2, <2>5, <3>1
  <2> QED BY <2>4, <2>5
<1>17. ASSUME p.creator # "none", Attached(s)
       PROVE  myKeyCreation[s] # "None"
  BY <1>0, <1>17 DEF LockInv, PrivateInv
<1>18. ASSUME NEW key \in TempKeys, UnboundReadyCdn(s, key)
       PROVE  LockInv'
  <2> DEFINE q == ApplyAuthKey(WithoutCreator(p), key)
  <2>1. /\ q \in Private
        /\ q.acquired = "None"
        /\ Restart(q).acquired = "None"
        /\ p.creator # "none"
    BY <1>0, <1>14, <1>18, WithoutCreatorType, ApplyAuthKeyType, ApplyAuthKeyKeeps,
       RestartKeeps DEF UnboundReadyCdn, CreatorRuns
  <2>2. SetPrivate(s, q) \/ SetPrivate(s, Restart(q))
    BY <1>18 DEF UnboundReadyCdn
  <2>3. priv'[s].acquired = "None"
    BY <2>1, <2>2 DEF SetPrivate, TypeOK
  <2>4. CASE Attached(s)
    BY <1>0, <1>17, <1>18, <2>1, <2>3, <2>4, LockDone DEF UnboundReadyCdn
  <2>5. CASE ~Attached(s)
    BY <1>0, <1>18, <2>5, LockLocal DEF UnboundReadyCdn, dcenter, KeysShrink
  <2> QED BY <2>4, <2>5
<1>19. ASSUME NEW msg \in {"none", "sent", "ok", "destroyed", "failed"}
       PROVE  /\ [p EXCEPT !.bindMsg = msg] \in Private
              /\ [p EXCEPT !.bindMsg = msg].acquired = p.acquired
  BY <1>0 DEF Private
<1>20. CASE SendBind(s)
  BY <1>1, <1>19, <1>20 DEF SendBind, dcenter, sessions
<1>21. CASE ServerBind(s)
  <2>1. PICK answer \in {"ok", "destroyed", "failed"} :
          SetPrivate(s, [p EXCEPT !.bindMsg = answer])
    BY <1>21 DEF ServerBind
  <2> QED BY <1>1, <1>19, <1>21, <2>1 DEF ServerBind, dcenter, sessions
<1>22. CASE BindSuccess(s)
  <2> DEFINE q == [WithoutCreator(p) EXCEPT !.bindMsg = "none"]
  <2>1. \A pc : [q EXCEPT !.pc = pc].acquired = "None"
    BY <1>0 DEF WithoutCreator, Private
  <2>2. \E pc : SetPrivate(s, [q EXCEPT !.pc = pc])
    BY <1>22 DEF BindSuccess
  <2>3. priv'[s].acquired = "None" /\ p.creator # "none"
    BY <1>22, <2>1, <2>2 DEF SetPrivate, TypeOK, BindSuccess, BindAnswered
  <2>4. CASE Attached(s)
    BY <1>0, <1>17, <1>22, <2>3, <2>4, LockDone DEF BindSuccess
  <2>5. CASE ~Attached(s)
    BY <1>0, <1>22, <2>5, LockLocal DEF BindSuccess, dcenter, KeysShrink
  <2> QED BY <2>4, <2>5
<1>23. CASE BindDestroyed(s)
  <2> DEFINE r == [p EXCEPT !.bindMsg = "none", !.pc = "destroyKey"]
  <2>1. r \in Private /\ r.acquired = p.acquired
    BY <1>0 DEF Private
  <2> QED BY <1>1, <1>23, <2>1 DEF BindDestroyed, dcenter, sessions
<1>24. CASE BindFailed(s)
  BY <1>1, <1>19, <1>24 DEF BindFailed, dcenter, sessions
<1>25. CASE FinishDestroyKey(s)
  BY <1>0, <1>25, LockDestroy DEF FinishDestroyKey
<1>26. CASE NotifyConnectionInited(s)
  BY <1>0, <1>26, LockLocal
  DEF NotifyConnectionInited, sessions, privates, KeysShrink
<1>27. CASE OnDisconnected(s)
  BY <1>0, <1>1, <1>27, RestartType, RestartKeeps DEF OnDisconnected, dcenter, sessions
<1>28. CASE OnTimeout(s)
  BY <1>0, <1>1, <1>28, DestroyAllConnectionsType, RestartKeeps
  DEF OnTimeout, dcenter, sessions
<1>29. CASE OnKeyRejected(s)
  BY <1>0, <1>29, LockDestroy DEF OnKeyRejected
<1> QED
  BY <1>2, <1>3, <1>4, <1>5, <1>6, <1>7, <1>9, <1>10, <1>11, <1>12, <1>15, <1>16,
     <1>18, <1>20, <1>21, <1>22, <1>23, <1>24, <1>25, <1>26, <1>27, <1>28, <1>29
  DEF ThreadStep, ThreadProgress

\* Steps of the main thread keep it: a creation dies with its session.
LEMMA LockMainStep ==
    ASSUME TypeOK, OrderInv, LockInv, KeyInv,
           \/ MainProgress
           \/ \E s \in Sessions : StopSession(s) \/ KillSession(s)
           \/ ReInitConnection \/ DcOptionsChanged \/ CdnConfigChanged
    PROVE  LockInv'
<1>1. ASSUME UNCHANGED <<temporaryKeys, persistentKey, creatingKeys, myKeyCreation, priv>>,
             \A x \in Sessions : session'[x] = "live" =>
                \/ session[x] = "live"
                \/ myKeyCreation[x] = "None" /\ priv[x].acquired = "None"
      PROVE  LockInv'
  BY <1>1 DEF LockInv, Attached, CreatorOwnsFlag, Creates, PersistentInv
<1>2. ASSUME NEW s \in Sessions, StartSession(s)
      PROVE  LockInv'
  <2>1. myKeyCreation[s] = "None" /\ priv[s].acquired = "None"
    BY <1>2 DEF StartSession, OrderInv, UnstartedInv, KeyInv, PrivateInv
  <2> QED BY <1>1, <1>2, <2>1 DEF StartSession, dcenter, TypeOK
<1>3. ASSUME NEW s \in Sessions, ResumeSession(s) \/ StopSession(s) \/ KillSession(s)
      PROVE  LockInv'
  BY <1>1, <1>3 DEF ResumeSession, StopSession, KillSession, dcenter, TypeOK
<1>4. CASE \/ ReInitConnection \/ DcOptionsChanged \/ CdnConfigChanged
           \/ HandleTemporaryKeyChanged \/ HandlePersistentKeyChanged
  BY <1>1, <1>4
  DEF ReInitConnection, DcOptionsChanged, CdnConfigChanged, HandleTemporaryKeyChanged,
      HandlePersistentKeyChanged, dcenter, sessions
<1>5. CASE HandleKeyDestroyedOnServer
  <2>1. /\ UNCHANGED <<creatingKeys, session, myKeyCreation, priv>>
        /\ KeysShrink
        /\ persistentKey' \in {persistentKey, NoKey}
    BY <1>5 DEF HandleKeyDestroyedOnServer, sessions, KeysShrink
  <2> QED BY <2>1
    DEF LockInv, Attached, CreatorOwnsFlag, Creates, PersistentInv, KeysShrink
<1>6. CASE HandleClear
  <2> DEFINE killed == {s \in Sessions : session[s] = "killed"}
             held == {IndexByType(myKeyCreation[s]) :
                        s \in {x \in killed : myKeyCreation[x] # "None"}}
  <2>1. /\ session' = [s \in Sessions |-> IF s \in killed THEN "gone" ELSE session[s]]
        /\ myKeyCreation' = [s \in Sessions |->
              IF s \in killed THEN "None" ELSE myKeyCreation[s]]
        /\ creatingKeys' = [t \in TemporaryKeyType |-> creatingKeys[t] /\ t \notin held]
        /\ UNCHANGED <<temporaryKeys, persistentKey, priv>>
    BY <1>6 DEF HandleClear
  <2>2. \A x \in Sessions : Attached(x)' => myKeyCreation'[x] = priv'[x].acquired
    BY <2>1 DEF LockInv, Attached
  <2>3. PersistentInv'
    BY <2>1 DEF LockInv, PersistentInv
  <2>4. CreatorOwnsFlag'
    <3> SUFFICES ASSUME NEW x \in Sessions, NEW t \in TemporaryKeyType, Creates(x, t)'
                 PROVE  /\ creatingKeys'[t]
                        /\ temporaryKeys'[t] = NoKey
                        /\ \A other \in Sessions \ {x} : ~Creates(other, t)'
      BY DEF CreatorOwnsFlag
    <3>1. x \notin killed /\ Creates(x, t)
      BY <2>1 DEF Creates
    <3>2. /\ creatingKeys[t]
          /\ temporaryKeys[t] = NoKey
          /\ \A other \in Sessions \ {x} : ~Creates(other, t)
      BY <3>1 DEF LockInv, CreatorOwnsFlag
    <3>3. t \notin held
      BY <3>1, <3>2 DEF Creates
    <3> QED BY <2>1, <3>2, <3>3 DEF Creates
  <2> QED BY <2>2, <2>3, <2>4 DEF LockInv
<1> QED BY <1>2, <1>3, <1>4, <1>5, <1>6 DEF MainProgress

-----------------------------------------------------------------------------
(* KeyInv.                                                                  *)

Installed == {temporaryKeys[t] : t \in TemporaryKeyType}

\* A step of a SessionPrivate that installs no key and hears of no bind: the
\* keys it has afterwards are its own or installed ones.
Keeps(p, r) ==
    IF r.creator = "binding"
    THEN /\ p.creator = "binding"
         /\ r.encryptionKey = p.encryptionKey
         /\ r.bindPersistentKey = p.bindPersistentKey
         /\ r.bindMsg = "ok" => p.bindMsg = "ok"
    ELSE /\ \/ r.encryptionKey \in Installed \cup {NoKey}
            \/ p.creator # "binding" /\ r.encryptionKey = p.encryptionKey
         /\ \/ r.keyId \in Installed \cup {NoKey}
            \/ p.creator # "binding" /\ r.keyId = p.keyId

\* A key that is being bound is a key.
LEMMA BindingKey ==
    ASSUME NEW p, PrivateInv(p), p.creator = "binding"
    PROVE  p.encryptionKey # NoKey /\ p.encryptionKey = p.keyId
BY DEF PrivateInv

\* A step of one session that neither binds, installs nor makes a key keeps KeyInv.
LEMMA KeyLocal ==
    ASSUME TypeOK, KeyInv, NEW s \in Sessions, KeysShrink,
           \A x \in Sessions \ {s} : priv'[x] = priv[x],
           PrivateInv(priv'[s]), Keeps(priv[s], priv'[s]),
           usedTemp \subseteq usedTemp', UNCHANGED <<persistentKey, boundWith>>
    PROVE  KeyInv'
<1> DEFINE p == priv[s]
           r == priv'[s]
<1>1. \A x \in Sessions : PrivateInv(priv'[x])
  BY DEF KeyInv
<1>2. \A x \in Sessions : PrivateInv(priv[x])
  BY DEF KeyInv
<1>3. /\ \A t \in TemporaryKeyType : temporaryKeys[t] \in usedTemp \cup {NoKey}
      /\ \A x \in Sessions : priv[x].encryptionKey \in usedTemp \cup {NoKey}
  BY DEF KeyInv, FreshInv
<1>4. ASSUME NEW x \in Sessions, priv[x].creator = "binding"
      PROVE  /\ \A t \in TemporaryKeyType : temporaryKeys[t] # priv[x].encryptionKey
             /\ \A other \in Sessions \ {x} :
                    priv[other].encryptionKey # priv[x].encryptionKey
  BY <1>4 DEF KeyInv, FreshInv
<1>5. r.encryptionKey \in Installed \cup {NoKey, p.encryptionKey}
  BY DEF Keeps
<1>6. FreshInv'
  <2>1. \A t \in TemporaryKeyType : temporaryKeys'[t] \in usedTemp' \cup {NoKey}
    BY <1>3 DEF KeysShrink
  <2>2. \A x \in Sessions : priv'[x].encryptionKey \in usedTemp' \cup {NoKey}
    BY <1>3, <1>5 DEF Installed
  <2>3. ASSUME NEW x \in Sessions, priv'[x].creator = "binding"
        PROVE  /\ priv[x].creator = "binding"
               /\ priv'[x].encryptionKey = priv[x].encryptionKey
               /\ priv[x].encryptionKey # NoKey
    BY <1>2, <2>3, BindingKey DEF Keeps
  <2>4. ASSUME NEW x \in Sessions, priv'[x].creator = "binding"
        PROVE  \A t \in TemporaryKeyType : temporaryKeys'[t] # priv'[x].encryptionKey
    BY <1>4, <2>3, <2>4 DEF KeysShrink
  <2>5. ASSUME NEW x \in Sessions, priv'[x].creator = "binding",
               NEW other \in Sessions \ {x}
        PROVE  priv'[other].encryptionKey # priv'[x].encryptionKey
    BY <1>4, <1>5, <2>3, <2>5 DEF Installed
  <2> QED BY <2>1, <2>2, <2>4, <2>5 DEF FreshInv
<1>7. InstalledKeysAreBound'
  BY DEF KeyInv, InstalledKeysAreBound, KeysShrink
<1>8. BoundInv'
  <2> SUFFICES ASSUME ~IsCdn, NEW x \in Sessions
               PROVE  IF priv'[x].creator = "binding"
                      THEN priv'[x].bindMsg = "ok" =>
                             boundWith[priv'[x].encryptionKey]
                                = priv'[x].bindPersistentKey
                      ELSE priv'[x].keyId # NoKey => boundWith[priv'[x].keyId] # NoKey
    BY DEF BoundInv
  <2>1. CASE x # s
    BY <2>1 DEF KeyInv, BoundInv
  <2>2. CASE x = s /\ r.creator = "binding"
    BY <2>2 DEF KeyInv, BoundInv, Keeps
  <2>3. CASE x = s /\ r.creator # "binding"
    <3>1. r.keyId \in Installed /\ r.keyId # NoKey => boundWith[r.keyId] # NoKey
      BY DEF KeyInv, InstalledKeysAreBound, Installed
    <3>2. p.creator # "binding" /\ p.keyId # NoKey => boundWith[p.keyId] # NoKey
      BY DEF KeyInv, BoundInv
    <3> QED BY <2>3, <3>1, <3>2 DEF Keeps
  <2> QED BY <2>1, <2>2, <2>3
<1> QED BY <1>1, <1>6, <1>7, <1>8 DEF KeyInv

\* A session whose connections are destroyed keeps its fields consistent.
LEMMA DisconnectInv ==
    ASSUME NEW p \in Private, PrivateInv(p), p.pc \notin {"checkMedia", "acquireMedia"}
    PROVE  /\ PrivateInv(DestroyAllConnections(p)) /\ PrivateInv(Restart(p))
           /\ Keeps(p, DestroyAllConnections(p)) /\ Keeps(p, Restart(p))
BY DEF PrivateInv, Keeps, Restart, DestroyAllConnections, Private

\* The state of a SessionPrivate that has just dropped its temporary key.
LEMMA DestroyedInv ==
    ASSUME NEW p \in Private, NEW q
    PROVE  LET r == [Restart(WithoutCreator(p)) EXCEPT
                        !.encryptionKey = NoKey, !.keyId = NoKey, !.pc = "idle"]
           IN PrivateInv(r) /\ Keeps(q, r)
BY DEF PrivateInv, Keeps, Restart, DestroyAllConnections, WithoutCreator, Private

\* applyAuthKey takes the key it was given or starts the creator it has.
LEMMA ApplyAuthKeyInv ==
    ASSUME NEW p \in Private, PrivateInv(p), NEW key \in TempKeys \cup {NoKey},
           p.conn = "up", p.pc = "idle", p.creator \in {"none", "idle"}
    PROVE  LET r == ApplyAuthKey(p, key)
           IN /\ PrivateInv(r)
              /\ r.creator # "binding"
              /\ r.encryptionKey \in {key, NoKey}
              /\ r.keyId \in {key, NoKey}
              /\ key # NoKey => r.pc = "idle"
<1>1. CASE p.keyId # NoKey
  BY <1>1 DEF ApplyAuthKey, PrivateInv, Restart, DestroyAllConnections, Private
<1>2. CASE p.keyId = NoKey
  BY <1>2 DEF ApplyAuthKey, PrivateInv, StartCreator, Private
<1> QED BY <1>1, <1>2

\* destroyTemporaryKey removes a key and disturbs no other.
LEMMA KeyDestroy ==
    ASSUME TypeOK, KeyInv, NEW s \in Sessions, NEW p \in Private,
           DestroyTemporaryKey(s, p), UNCHANGED <<boundWith, usedTemp>>
    PROVE  KeyInv'
<1>1. KeysShrink /\ UNCHANGED persistentKey
  BY DEF DestroyTemporaryKey, WithoutTemporaryKey, KeysShrink
<1>2. \A x \in Sessions \ {s} : priv'[x] = priv[x]
  BY DEF DestroyTemporaryKey, SetPrivate, TypeOK
<1>3. priv'[s] = [Restart(WithoutCreator(p)) EXCEPT
                    !.encryptionKey = NoKey, !.keyId = NoKey, !.pc = "idle"]
  BY DEF DestroyTemporaryKey, SetPrivate, TypeOK
<1> DEFINE r == [Restart(WithoutCreator(p)) EXCEPT
                    !.encryptionKey = NoKey, !.keyId = NoKey, !.pc = "idle"]
<1>4. PrivateInv(r) /\ Keeps(priv[s], r)
  BY DestroyedInv
<1> HIDE DEF r
<1>5. PrivateInv(priv'[s]) /\ Keeps(priv[s], priv'[s])
  BY <1>3, <1>4 DEF r
<1> QED BY <1>1, <1>2, <1>5, KeyLocal

\* What restart() does to each field.
LEMMA RestartFields ==
    ASSUME NEW p \in Private
    PROVE  /\ Restart(p).conn = "retry"
           /\ Restart(p).creator = IF p.creator = "creating" THEN "idle" ELSE p.creator
           /\ Restart(p).pc = p.pc
           /\ Restart(p).acquired = p.acquired
           /\ Restart(p).bindPersistentKey = p.bindPersistentKey
           /\ Restart(p).encryptionKey = p.encryptionKey
           /\ Restart(p).keyId = p.keyId
           /\ Restart(p).bindMsg = p.bindMsg
BY DEF Restart, DestroyAllConnections, Private

\* connectToServer keeps KeyInv.
LEMMA KeyConnect ==
    ASSUME TypeOK, KeyInv, NEW s \in Sessions,
           NEW p \in Private, PrivateInv(p), p.pc = "idle", Keeps(priv[s], p),
           NEW outcome \in {"testing", "waiting", "restart"},
           ConnectToServer(s, p, outcome), UNCHANGED <<boundWith, usedTemp>>
    PROVE  KeyInv'
<1> DEFINE q == [DestroyAllConnections(p) EXCEPT !.realDcType = DcTypeOf(s)]
           acquired == IF q.creator = "none" /\ Attached(s)
                       THEN Acquired(q.realDcType) ELSE "None"
           r == IF q.creator # "none" THEN q
                ELSE [q EXCEPT
                    !.currentDcType = AcquiredDcType(q, acquired),
                    !.creator = IF acquired = "None" THEN "none" ELSE "idle",
                    !.acquired = acquired]
           Like(z) ==
               /\ PrivateInv(z)
               /\ z.creator = "binding" <=> p.creator = "binding"
               /\ z.encryptionKey = p.encryptionKey
               /\ z.keyId = p.keyId
               /\ z.bindPersistentKey = p.bindPersistentKey
               /\ z.bindMsg \in {p.bindMsg, "none"}
<1>1. q \in Private
  <2>1. DcTypeOf(s) \in DcType
    BY DEF DcTypeOf, DcType
  <2> QED BY <2>1, DestroyAllConnectionsType DEF Private
<1>2. CASE p.realDcType # q.realDcType /\ q.creator # "none"
  <2>1. DestroyTemporaryKey(s, q)
    BY <1>2 DEF ConnectToServer
  <2> HIDE DEF q
  <2> QED BY <1>1, <2>1, KeyDestroy
<1>3. CASE ~(p.realDcType # q.realDcType /\ q.creator # "none")
  <2>1. /\ SetPrivate(s, CASE
              outcome = "testing" ->
                  [r EXCEPT !.conn = "testing", !.bindMsg = "none"]
              [] outcome = "waiting" -> r
              [] outcome = "restart" -> Restart(r))
        /\ UNCHANGED <<temporaryKeys, persistentKey>>
    BY <1>3 DEF ConnectToServer
  <2>2. q.conn # "absent" /\ q.pc = "idle" /\ q.creator # "creating" /\ Like(q)
    BY DEF DestroyAllConnections, PrivateInv, Private
  <2>3. acquired \in CreatingKeyType /\ AcquiredDcType(q, acquired) \in DcType
    BY <1>1, AcquiredType DEF AcquiredDcType, Private, CreatingKeyType, DcType
  <2> HIDE DEF q, acquired
  <2>4. r \in Private
    <3>1. \A type \in DcType, creator \in {"none", "idle"}, a \in CreatingKeyType :
            [q EXCEPT !.currentDcType = type, !.creator = creator, !.acquired = a]
              \in Private
      BY <1>1 DEF Private
    <3>2. (IF acquired = "None" THEN "none" ELSE "idle") \in {"none", "idle"}
      OBVIOUS
    <3> QED BY <1>1, <2>3, <3>1, <3>2
  <2>5. r.pc = "idle" /\ r.creator # "creating" /\ Like(r)
    BY <1>1, <2>2 DEF PrivateInv, Private
  <2> HIDE DEF r
  <2>6. Like([r EXCEPT !.conn = "testing", !.bindMsg = "none"])
    <3> DEFINE z == [r EXCEPT !.conn = "testing", !.bindMsg = "none"]
    <3>1. /\ z.conn = "testing" /\ z.creator = r.creator
          /\ z.pc = r.pc /\ z.acquired = r.acquired
          /\ z.bindPersistentKey = r.bindPersistentKey
          /\ z.encryptionKey = r.encryptionKey
          /\ z.keyId = r.keyId /\ z.bindMsg = "none"
      BY <2>4 DEF Private
    <3> HIDE DEF z
    <3>2. Like(z)
      BY <2>5, <3>1 DEF PrivateInv
    <3> QED BY <3>2 DEF z
  <2>7. Like(Restart(r))
    BY <2>4, <2>5, RestartFields DEF PrivateInv
  <2> HIDE DEF Like
  <2>8. Like(priv'[s])
    BY <2>1, <2>5, <2>6, <2>7 DEF SetPrivate, TypeOK
  <2>9. PrivateInv(priv'[s]) /\ Keeps(priv[s], priv'[s])
    BY <2>8 DEF Like, Keeps
  <2>10. KeysShrink /\ \A x \in Sessions \ {s} : priv'[x] = priv[x]
    BY <2>1 DEF SetPrivate, TypeOK, KeysShrink
  <2> QED BY <2>1, <2>9, <2>10, KeyLocal
<1> QED BY <1>2, <1>3

\* Dropping the key creator keeps the other fields.
LEMMA WithoutCreatorFields ==
    ASSUME NEW p \in Private
    PROVE  /\ WithoutCreator(p).conn = p.conn
           /\ WithoutCreator(p).creator = "none"
           /\ WithoutCreator(p).pc = p.pc
           /\ WithoutCreator(p).acquired = "None"
           /\ WithoutCreator(p).encryptionKey = p.encryptionKey
           /\ WithoutCreator(p).keyId = p.keyId
           /\ WithoutCreator(p).bindMsg = p.bindMsg
BY DEF WithoutCreator, Private

\* A fresh key that is about to be bound.
LEMMA KeyUnboundReady ==
    ASSUME TypeOK, KeyInv, NEW s \in Sessions, NEW key \in TempKeys,
           NEW created \in PersistentKeys \cup {NoKey}, UnboundReady(s, key, created)
    PROVE  KeyInv'
<1> DEFINE p == priv[s]
           bindKey == IF created # NoKey THEN created
                      ELSE IF Attached(s) THEN persistentKey ELSE NoKey
           q == [p EXCEPT !.creator = "binding", !.bindPersistentKey = bindKey]
<1>1. /\ p \in Private /\ PrivateInv(p)
      /\ p.creator = "creating" /\ p.keyId = NoKey /\ p.conn = "up"
      /\ p.bindMsg = "none" /\ p.pc = "idle"
      /\ key \notin usedTemp /\ key # NoKey
  BY KeyCreationAssumption
  DEF UnboundReady, CreatorRuns, Runs, KeyInv, PrivateInv, TypeOK
<1>2. /\ usedTemp' = usedTemp \cup {key}
      /\ UNCHANGED <<temporaryKeys, persistentKey, boundWith>>
      /\ IF bindKey = NoKey
         THEN SetPrivate(s, Restart(WithoutCreator(p)))
         ELSE SetPrivate(s, ApplyAuthKey(q, key))
  BY DEF UnboundReady
<1>3. \A x \in Sessions \ {s} : priv'[x] = priv[x]
  BY <1>2 DEF SetPrivate, TypeOK
<1>4. CASE bindKey = NoKey
  <2>1. priv'[s] = Restart(WithoutCreator(p))
    BY <1>2, <1>4 DEF SetPrivate, TypeOK
  <2>2. WithoutCreator(p) \in Private /\ PrivateInv(WithoutCreator(p))
        /\ Keeps(p, WithoutCreator(p)) /\ WithoutCreator(p).pc = "idle"
    BY <1>1, WithoutCreatorType, WithoutCreatorFields DEF PrivateInv, Keeps
  <2>3. PrivateInv(priv'[s]) /\ Keeps(p, priv'[s])
    BY <1>1, <2>1, <2>2, DisconnectInv, RestartFields DEF Keeps
  <2> QED BY <1>2, <1>3, <2>3, KeyLocal DEF KeysShrink
<1>5. CASE bindKey # NoKey
  <2> HIDE DEF bindKey
  <2>1. bindKey \in PersistentKeys \cup {NoKey}
    BY DEF bindKey, TypeOK
  <2>2. ApplyAuthKey(q, key) = [q EXCEPT !.encryptionKey = key, !.keyId = key]
    BY <1>1, <2>1 DEF ApplyAuthKey, Private
  <2> DEFINE r == priv'[s]
  <2>3. r = [q EXCEPT !.encryptionKey = key, !.keyId = key]
    BY <1>2, <1>5, <2>2 DEF SetPrivate, TypeOK
  <2>4. /\ r.conn = "up" /\ r.pc = "idle" /\ r.creator = "binding"
        /\ r.acquired = p.acquired /\ r.bindPersistentKey = bindKey
        /\ r.encryptionKey = key /\ r.keyId = key /\ r.bindMsg = "none"
    BY <1>1, <2>3 DEF Private
  <2> HIDE DEF r
  <2>5. PrivateInv(r)
    BY <1>1, <1>5, <2>4 DEF PrivateInv
  <2>6. \A x \in Sessions : PrivateInv(priv'[x])
    BY <1>3, <2>5 DEF KeyInv, r
  <2>7. FreshInv'
    <3>1. /\ \A t \in TemporaryKeyType : temporaryKeys[t] \in usedTemp \cup {NoKey}
          /\ \A x \in Sessions : priv[x].encryptionKey \in usedTemp \cup {NoKey}
      BY DEF KeyInv, FreshInv
    <3>2. /\ \A t \in TemporaryKeyType : temporaryKeys'[t] \in usedTemp' \cup {NoKey}
          /\ \A x \in Sessions : priv'[x].encryptionKey \in usedTemp' \cup {NoKey}
      BY <1>2, <1>3, <2>4, <3>1 DEF r
    <3>3. ASSUME NEW x \in Sessions, priv'[x].creator = "binding"
          PROVE  /\ \A t \in TemporaryKeyType : temporaryKeys'[t] # priv'[x].encryptionKey
                 /\ \A other \in Sessions \ {x} :
                        priv'[other].encryptionKey # priv'[x].encryptionKey
      <4>1. CASE x = s
        BY <1>1, <1>2, <1>3, <2>4, <3>1, <4>1 DEF r
      <4>2. CASE x # s
        <5>1. priv[x].creator = "binding" /\ PrivateInv(priv[x])
          BY <1>3, <3>3, <4>2 DEF KeyInv
        <5>2. priv[x].encryptionKey # NoKey
          BY <5>1, BindingKey
        <5> QED BY <1>1, <1>2, <1>3, <2>4, <3>1, <4>2, <5>1, <5>2
            DEF KeyInv, FreshInv, r
      <4> QED BY <4>1, <4>2
    <3> QED BY <3>2, <3>3 DEF FreshInv
  <2>8. InstalledKeysAreBound'
    BY <1>2 DEF KeyInv, InstalledKeysAreBound
  <2>9. BoundInv'
    BY <1>2, <1>3, <2>4 DEF KeyInv, BoundInv, r
  <2> QED BY <2>6, <2>7, <2>8, <2>9 DEF KeyInv
<1> QED BY <1>4, <1>5

\* A key of a CDN data center is installed as it is.
LEMMA KeyUnboundReadyCdn ==
    ASSUME TypeOK, KeyInv, NEW s \in Sessions, NEW key \in TempKeys,
           UnboundReadyCdn(s, key)
    PROVE  KeyInv'
<1> DEFINE p == priv[s]
           q == WithoutCreator(p)
<1>1. /\ p \in Private /\ PrivateInv(p)
      /\ p.creator = "creating" /\ p.keyId = NoKey /\ p.conn = "up"
      /\ p.bindMsg = "none" /\ p.pc = "idle"
      /\ key \notin usedTemp /\ key # NoKey
  BY KeyCreationAssumption
  DEF UnboundReadyCdn, CreatorRuns, Runs, KeyInv, PrivateInv, TypeOK
<1>2. /\ usedTemp' = usedTemp \cup {key}
      /\ IsCdn
      /\ SetPrivate(s, ApplyAuthKey(q, key)) \/ SetPrivate(s, Restart(ApplyAuthKey(q, key)))
      /\ \A t \in TemporaryKeyType : temporaryKeys'[t] \in {temporaryKeys[t], key}
  BY DEF UnboundReadyCdn, ReleaseOnDone, DcReleaseOnDone, dcenter, TypeOK
<1>3. \A x \in Sessions \ {s} : priv'[x] = priv[x]
  BY <1>2 DEF SetPrivate, TypeOK
<1>4. /\ q \in Private /\ PrivateInv(q)
      /\ q.conn = "up" /\ q.pc = "idle" /\ q.creator = "none"
  BY <1>1, WithoutCreatorType, WithoutCreatorFields DEF PrivateInv
<1> HIDE DEF q
<1> DEFINE a == ApplyAuthKey(q, key)
<1>5. /\ a \in Private
      /\ PrivateInv(a)
      /\ a.creator # "binding"
      /\ a.encryptionKey \in {key, NoKey}
      /\ a.pc = "idle"
  BY <1>1, <1>4, ApplyAuthKeyInv, ApplyAuthKeyType
<1> HIDE DEF a
<1>6. /\ PrivateInv(priv'[s])
      /\ priv'[s].creator # "binding"
      /\ priv'[s].encryptionKey \in {key, NoKey}
  <2>1. priv'[s] \in {a, Restart(a)}
    BY <1>2 DEF SetPrivate, TypeOK, a
  <2> QED BY <1>5, <2>1, DisconnectInv, RestartFields
<1>7. \A x \in Sessions : PrivateInv(priv'[x])
  BY <1>3, <1>6 DEF KeyInv
<1>8. FreshInv'
  <2>1. /\ \A t \in TemporaryKeyType : temporaryKeys[t] \in usedTemp \cup {NoKey}
        /\ \A x \in Sessions : priv[x].encryptionKey \in usedTemp \cup {NoKey}
    BY DEF KeyInv, FreshInv
  <2>2. /\ \A t \in TemporaryKeyType : temporaryKeys'[t] \in usedTemp' \cup {NoKey}
        /\ \A x \in Sessions : priv'[x].encryptionKey \in usedTemp' \cup {NoKey}
    BY <1>2, <1>3, <1>6, <2>1
  <2>3. ASSUME NEW x \in Sessions, priv'[x].creator = "binding"
        PROVE  /\ \A t \in TemporaryKeyType : temporaryKeys'[t] # priv'[x].encryptionKey
               /\ \A other \in Sessions \ {x} :
                      priv'[other].encryptionKey # priv'[x].encryptionKey
    <3>1. x # s /\ priv'[x] = priv[x] /\ PrivateInv(priv[x])
      BY <1>3, <1>6, <2>3 DEF KeyInv
    <3>2. priv[x].encryptionKey # NoKey
      BY <2>3, <3>1, BindingKey
    <3>3. priv[x].encryptionKey # key
      BY <1>1, <2>1, <3>2
    <3> QED BY <1>2, <1>3, <1>6, <2>3, <3>1, <3>2, <3>3 DEF KeyInv, FreshInv
  <2> QED BY <2>2, <2>3 DEF FreshInv
<1> QED BY <1>2, <1>7, <1>8 DEF KeyInv, InstalledKeysAreBound, BoundInv

\* The server binds the key of the session that asked, which nobody else has.
LEMMA KeyServerBind ==
    ASSUME TypeOK, KeyInv, NEW s \in Sessions, ServerBind(s)
    PROVE  KeyInv'
<1> DEFINE p == priv[s]
           k == p.encryptionKey
<1>1. PICK answer \in {"ok", "destroyed", "failed"} :
        /\ SetPrivate(s, [p EXCEPT !.bindMsg = answer])
        /\ boundWith' = IF answer = "ok"
             THEN [boundWith EXCEPT ![k] = p.bindPersistentKey] ELSE boundWith
  BY DEF ServerBind
<1>2. /\ p \in Private /\ PrivateInv(p) /\ p.creator = "binding"
      /\ UNCHANGED <<temporaryKeys, persistentKey, usedTemp>>
  BY DEF ServerBind, KeyInv, TypeOK, dcenter
<1>3. /\ \A x \in Sessions \ {s} : priv'[x] = priv[x]
      /\ priv'[s] = [p EXCEPT !.bindMsg = answer]
  BY <1>1 DEF SetPrivate, TypeOK
<1>4. /\ priv'[s].creator = "binding" /\ priv'[s].bindMsg = answer
      /\ priv'[s].encryptionKey = k /\ priv'[s].bindPersistentKey = p.bindPersistentKey
      /\ PrivateInv(priv'[s])
  BY <1>2, <1>3 DEF Private, PrivateInv
<1>5. CASE answer # "ok"
  <2>1. Keeps(p, priv'[s])
    BY <1>2, <1>4, <1>5 DEF Keeps
  <2> QED BY <1>1, <1>2, <1>3, <1>4, <1>5, <2>1, KeyLocal DEF KeysShrink
<1>6. CASE answer = "ok"
  <2>1. k \in TempKeys /\ k # NoKey
    BY <1>2, BindingKey DEF Private
  <2>2. /\ \A t \in TemporaryKeyType : temporaryKeys[t] # k
        /\ \A other \in Sessions \ {s} : priv[other].encryptionKey # k
    BY <1>2 DEF KeyInv, FreshInv
  <2>3. /\ boundWith'[k] = p.bindPersistentKey
        /\ \A other \in TempKeys \ {k} : boundWith'[other] = boundWith[other]
    BY <1>1, <1>6, <2>1 DEF TypeOK
  <2>4. \A x \in Sessions : PrivateInv(priv'[x])
    BY <1>3, <1>4 DEF KeyInv
  <2>5. \A x \in Sessions : /\ priv'[x].creator = priv[x].creator
                            /\ priv'[x].encryptionKey = priv[x].encryptionKey
    BY <1>2, <1>3, <1>4
  <2>6. FreshInv'
    BY <1>2, <2>5 DEF KeyInv, FreshInv
  <2>7. InstalledKeysAreBound'
    BY <1>2, <2>2, <2>3 DEF KeyInv, InstalledKeysAreBound, TypeOK
  <2>8. BoundInv'
    <3> SUFFICES ASSUME ~IsCdn, NEW x \in Sessions
                 PROVE  IF priv'[x].creator = "binding"
                        THEN priv'[x].bindMsg = "ok" =>
                               boundWith'[priv'[x].encryptionKey]
                                  = priv'[x].bindPersistentKey
                        ELSE priv'[x].keyId # NoKey =>
                               boundWith'[priv'[x].keyId] # NoKey
      BY DEF BoundInv
    <3>1. CASE x = s
      BY <1>4, <2>3, <3>1
    <3>2. CASE x # s
      <4>1. /\ PrivateInv(priv[x]) /\ priv[x] \in Private
            /\ priv'[x] = priv[x] /\ priv[x].encryptionKey # k
        BY <1>3, <2>2, <3>2 DEF KeyInv, TypeOK
      <4>2. /\ priv[x].encryptionKey \in TempKeys \cup {NoKey}
            /\ priv[x].keyId \in TempKeys \cup {NoKey}
            /\ priv[x].keyId # NoKey => priv[x].keyId = priv[x].encryptionKey
        BY <4>1 DEF Private, PrivateInv
      <4>3. CASE priv[x].creator = "binding"
        <5>1. priv[x].encryptionKey # NoKey
          BY <4>1, <4>3, BindingKey
        <5> QED BY <2>3, <4>1, <4>2, <4>3, <5>1 DEF KeyInv, BoundInv
      <4>4. CASE priv[x].creator # "binding"
        BY <2>3, <4>1, <4>2, <4>4 DEF KeyInv, BoundInv
      <4> QED BY <4>3, <4>4
    <3> QED BY <3>1, <3>2
  <2> QED BY <2>4, <2>6, <2>7, <2>8 DEF KeyInv
<1> QED BY <1>5, <1>6

\* A bound key is installed, or given up if the persistent key has changed.
LEMMA KeyBindSuccess ==
    ASSUME TypeOK, LockInv, KeyInv, NEW s \in Sessions, BindSuccess(s)
    PROVE  KeyInv'
<1> DEFINE p == priv[s]
           k == p.encryptionKey
           used == p.bindPersistentKey
           r == priv'[s]
<1>1. /\ p \in Private /\ PrivateInv(p) /\ p.creator = "binding" /\ p.bindMsg = "ok"
      /\ UNCHANGED <<boundWith, usedTemp>>
  BY DEF BindSuccess, BindAnswered, KeyInv, TypeOK, server
<1>2. /\ k # NoKey /\ p.keyId = k /\ used # NoKey
      /\ k \in usedTemp
      /\ ~IsCdn => boundWith[k] = used
      /\ \A other \in Sessions \ {s} : priv[other].encryptionKey # k
  <2>1. k # NoKey /\ p.keyId = k /\ used # NoKey
    BY <1>1, BindingKey DEF PrivateInv
  <2> QED BY <1>1, <2>1 DEF KeyInv, FreshInv, BoundInv
<1>3. PICK pc \in {"idle", "destroyKey"} :
        SetPrivate(s, [[WithoutCreator(p) EXCEPT !.bindMsg = "none"] EXCEPT !.pc = pc])
  BY DEF BindSuccess
<1>4. /\ \A x \in Sessions \ {s} : priv'[x] = priv[x]
      /\ r = [[WithoutCreator(p) EXCEPT !.bindMsg = "none"] EXCEPT !.pc = pc]
  BY <1>3 DEF SetPrivate, TypeOK
<1>5. /\ r.conn = p.conn /\ r.pc = pc /\ r.creator = "none" /\ r.acquired = "None"
      /\ r.encryptionKey = k /\ r.keyId = k /\ r.bindMsg = "none"
  BY <1>1, <1>2, <1>4 DEF WithoutCreator, Private
<1>6. PrivateInv(r)
  <2>1. p.conn # "absent"
    BY <1>1 DEF PrivateInv
  <2> HIDE DEF r
  <2> QED BY <1>2, <1>5, <2>1 DEF PrivateInv
<1>7. \/ UNCHANGED <<temporaryKeys, persistentKey>>
      \/ /\ Attached(s)
         /\ DoneAccepted(myKeyCreation[s], used)
         /\ persistentKey' = used
         /\ temporaryKeys' = [temporaryKeys EXCEPT ![IndexByType(myKeyCreation[s])] = k]
  <2>1. [WithoutCreator(p) EXCEPT !.bindMsg = "none"].encryptionKey = k
    BY <1>1 DEF WithoutCreator, Private
  <2>2. \/ UNCHANGED <<temporaryKeys, persistentKey>>
        \/ Attached(s) /\ DcReleaseOnDone(myKeyCreation[s], k, used)
    BY <2>1 DEF BindSuccess, ReleaseOnDone, dcenter
  <2> QED BY <2>2 DEF DcReleaseOnDone, DoneAccepted, dcenter
<1>8. \A t \in TemporaryKeyType : temporaryKeys'[t] \in {temporaryKeys[t], k}
  BY <1>7 DEF TypeOK
<1>9. \A x \in Sessions : PrivateInv(priv'[x])
  BY <1>4, <1>6 DEF KeyInv
<1> HIDE DEF r
<1>10. FreshInv'
  <2>1. /\ \A t \in TemporaryKeyType : temporaryKeys'[t] \in usedTemp' \cup {NoKey}
        /\ \A x \in Sessions : priv'[x].encryptionKey \in usedTemp' \cup {NoKey}
    BY <1>1, <1>2, <1>4, <1>5, <1>8 DEF KeyInv, FreshInv, r
  <2>2. ASSUME NEW x \in Sessions, priv'[x].creator = "binding"
        PROVE  /\ \A t \in TemporaryKeyType : temporaryKeys'[t] # priv'[x].encryptionKey
               /\ \A other \in Sessions \ {x} :
                      priv'[other].encryptionKey # priv'[x].encryptionKey
    <3>1. x # s /\ priv'[x] = priv[x]
      BY <1>4, <1>5, <2>2 DEF r
    <3>2. /\ \A t \in TemporaryKeyType : temporaryKeys[t] # priv[x].encryptionKey
          /\ \A other \in Sessions \ {x} :
                 priv[other].encryptionKey # priv[x].encryptionKey
      BY <2>2, <3>1 DEF KeyInv, FreshInv
    <3>3. priv[x].encryptionKey # k
      BY <1>2, <3>1
    <3>4. \A other \in Sessions : priv'[other].encryptionKey = priv[other].encryptionKey
      BY <1>4, <1>5 DEF r
    <3> QED BY <1>8, <3>1, <3>2, <3>3, <3>4
  <2> QED BY <2>1, <2>2 DEF FreshInv
<1>11. InstalledKeysAreBound'
  <2> SUFFICES ASSUME ~IsCdn, NEW t \in TemporaryKeyType, temporaryKeys'[t] # NoKey
               PROVE  persistentKey' # NoKey /\ boundWith[temporaryKeys'[t]] = persistentKey'
    BY <1>1 DEF InstalledKeysAreBound
  <2>1. temporaryKeys[t] # NoKey =>
          persistentKey # NoKey /\ boundWith[temporaryKeys[t]] = persistentKey
    BY DEF KeyInv, InstalledKeysAreBound
  <2>2. CASE UNCHANGED <<temporaryKeys, persistentKey>>
    BY <2>1, <2>2
  <2>3. CASE /\ DoneAccepted(myKeyCreation[s], used)
             /\ persistentKey' = used
             /\ temporaryKeys'[t] = k
    BY <1>2, <2>3
  <2>4. CASE /\ DoneAccepted(myKeyCreation[s], used)
             /\ persistentKey' = used
             /\ temporaryKeys'[t] = temporaryKeys[t]
    <3>1. myKeyCreation[s] # "Persistent"
      BY <2>1, <2>4 DEF LockInv, PersistentInv
    <3> QED BY <2>1, <2>4, <3>1 DEF DoneAccepted
  <2> QED BY <1>7, <1>8, <2>2, <2>3, <2>4
<1>12. BoundInv'
  <2> SUFFICES ASSUME ~IsCdn, NEW x \in Sessions
               PROVE  IF priv'[x].creator = "binding"
                      THEN priv'[x].bindMsg = "ok" =>
                             boundWith[priv'[x].encryptionKey]
                                = priv'[x].bindPersistentKey
                      ELSE priv'[x].keyId # NoKey => boundWith[priv'[x].keyId] # NoKey
    BY <1>1 DEF BoundInv
  <2>1. CASE x = s
    BY <1>2, <1>5, <2>1 DEF r
  <2>2. CASE x # s
    BY <1>4, <2>2 DEF KeyInv, BoundInv
  <2> QED BY <2>1, <2>2
<1> QED BY <1>9, <1>10, <1>11, <1>12 DEF KeyInv

\* Steps of the network threads keep KeyInv.
LEMMA KeyThreadStep ==
    ASSUME TypeOK, OrderInv, LockInv, KeyInv, NEW s \in Sessions, ThreadStep(s)
    PROVE  KeyInv'
<1> DEFINE p == priv[s]
<1>0. /\ p \in Private
      /\ PrivateInv(p)
      /\ \A x \in Sessions \ {s} : priv'[x] = priv[x]
  BY ThreadFrame DEF TypeOK, KeyInv
<1>1. ASSUME NEW r, PrivateInv(r), Keeps(p, r), SetPrivate(s, r),
             UNCHANGED <<temporaryKeys, persistentKey, boundWith, usedTemp>>
      PROVE  KeyInv'
  <2>1. priv'[s] = r
    BY <1>1 DEF SetPrivate, TypeOK
  <2> QED BY <1>0, <1>1, <2>1, KeyLocal DEF KeysShrink
<1>2. CASE OnStart(s)
  <2>1. PICK outcome \in {"testing", "waiting"} :
          ConnectToServer(s, NewPrivate(DcTypeOf(s), "down"), outcome)
    BY <1>2 DEF OnStart
  <2> DEFINE n == NewPrivate(DcTypeOf(s), "down")
  <2>2. DcTypeOf(s) \in DcType
    BY DEF DcTypeOf, DcType
  <2>3. /\ n \in Private /\ PrivateInv(n) /\ n.pc = "idle" /\ Keeps(p, n)
    BY <2>2, NewPrivateType DEF NewPrivate, PrivateInv, Keeps
  <2> HIDE DEF n
  <2> QED BY <1>2, <2>1, <2>3, KeyConnect DEF OnStart, server, n
<1>3. Keeps(p, p)
  BY DEF Keeps
<1>4. CASE OnConnect(s)
  BY <1>0, <1>3, <1>4, KeyConnect DEF OnConnect, Takes, server
<1>5. CASE RetryByTimer(s)
  <2> DEFINE n == [p EXCEPT !.conn = "down"]
  <2>1. /\ n \in Private
    BY <1>0 DEF Private
  <2>2. p.conn = "retry" /\ p.pc = "idle"
    BY <1>5 DEF RetryByTimer, Runs
  <2>3. PrivateInv(n) /\ n.pc = "idle" /\ Keeps(p, n)
    BY <1>0, <2>2 DEF PrivateInv, Private, Keeps
  <2> QED BY <1>5, <2>1, <2>3, KeyConnect DEF RetryByTimer, server
<1>6. CASE OnConfig(s)
  <2>1. CASE p.conn \in {"testing", "up"}
    BY <1>0, <1>3, <1>6, <2>1, KeyLocal DEF OnConfig, dcenter, server, KeysShrink
  <2>2. CASE p.conn \notin {"testing", "up"}
    <3>1. PICK outcome \in {"testing", IF IsCdn THEN "waiting" ELSE "restart"} :
             ConnectToServer(s, p, outcome)
      BY <1>6, <2>2 DEF OnConfig
    <3>2. outcome \in {"testing", "waiting", "restart"}
      OBVIOUS
    <3> QED BY <1>0, <1>3, <1>6, <3>1, <3>2, KeyConnect DEF OnConfig, Takes, server
  <2> QED BY <2>1, <2>2
<1>7. CASE OnRestart(s)
  BY <1>0, <1>1, <1>7, DisconnectInv DEF OnRestart, Takes, dcenter, server
<1>8. CASE OnDelete(s)
  <2> DEFINE n == NewPrivate("Regular", "absent")
  <2>1. PrivateInv(n) /\ Keeps(p, n)
    BY DEF NewPrivate, PrivateInv, Keeps
  <2> QED BY <1>1, <1>8, <2>1 DEF OnDelete, server
<1>9. ASSUME NEW q \in Private, PrivateInv(q), q.conn = "up", q.pc = "idle",
             q.creator \in {"none", "idle"}
      PROVE  LET r == ApplyAuthKey(q, GetTemporaryKey(s,
                         TemporaryKeyTypeByDcType(q.currentDcType)))
             IN PrivateInv(r) /\ Keeps(p, r)
  <2> DEFINE key == GetTemporaryKey(s, TemporaryKeyTypeByDcType(q.currentDcType))
             r == ApplyAuthKey(q, key)
  <2>1. key \in TempKeys \cup {NoKey} /\ key \in Installed \cup {NoKey}
    BY KeyTypeOf, GetTemporaryKeyType DEF GetTemporaryKey, Installed
  <2> HIDE DEF key
  <2>2. /\ PrivateInv(r) /\ r.creator # "binding"
        /\ r.encryptionKey \in {key, NoKey} /\ r.keyId \in {key, NoKey}
    BY <1>9, <2>1, ApplyAuthKeyInv
  <2> HIDE DEF r
  <2>3. PrivateInv(r) /\ Keeps(p, r)
    BY <2>1, <2>2 DEF Keeps
  <2> QED BY <2>3 DEF r, key
<1>10. CASE OnUpdateKey(s)
  <2>1. CASE p.creator # "none" \/ p.conn # "up"
    BY <1>0, <1>1, <1>3, <1>10, <2>1 DEF OnUpdateKey, dcenter, server
  <2>2. CASE ~(p.creator # "none" \/ p.conn # "up")
    BY <1>0, <1>1, <1>9, <1>10, <2>2 DEF OnUpdateKey, Takes, dcenter, server
  <2> QED BY <2>1, <2>2
<1>11. CASE OnConnected(s)
  <2> DEFINE q == [p EXCEPT !.conn = "up"]
  <2>1. p.conn = "testing" /\ p.pc = "idle"
    BY <1>11 DEF OnConnected, Runs
  <2>2. /\ q \in Private
    BY <1>0 DEF Private
  <2>3. /\ PrivateInv(q) /\ q.conn = "up" /\ q.pc = "idle" /\ Keeps(p, q)
        /\ q.keyId = p.keyId /\ q.creator = p.creator
    BY <1>0, <2>1 DEF PrivateInv, Private, Keeps
  <2>4. q.keyId = NoKey => q.creator \in {"none", "idle"}
    BY <1>0, <2>1, <2>3 DEF PrivateInv, Private
  <2>5. SetPrivate(s, IF q.keyId # NoKey THEN q
          ELSE ApplyAuthKey(q, GetTemporaryKey(s,
                  TemporaryKeyTypeByDcType(q.currentDcType))))
    BY <1>11 DEF OnConnected
  <2> HIDE DEF q
  <2> QED BY <1>1, <1>9, <1>11, <2>2, <2>3, <2>4, <2>5 DEF OnConnected, dcenter, server
<1>12. CASE CheckMedia(s)
  <2>1. ASSUME NEW pc \in {"acquireMedia", "idle"}
        PROVE  PrivateInv([p EXCEPT !.pc = pc]) /\ Keeps(p, [p EXCEPT !.pc = pc])
    <3>1. p.pc = "checkMedia"
      BY <1>12 DEF CheckMedia
    <3> QED BY <1>0, <2>1, <3>1 DEF PrivateInv, Private, Keeps
  <2> QED BY <1>1, <1>12, <2>1 DEF CheckMedia, dcenter, server
<1>13. CASE AcquireMedia(s)
  <2> DEFINE q == [p EXCEPT !.pc = "idle"]
             acquired == IF Attached(s) THEN Acquired(q.realDcType) ELSE "None"
             r == [q EXCEPT !.creator = "idle", !.acquired = acquired]
             z == CASE acquired = "None" -> q
                    [] acquired # "None" /\ AcquiredDcType(q, acquired) # q.currentDcType
                         -> Restart(r)
                    [] OTHER -> StartCreator(r)
  <2>1. /\ p.pc = "acquireMedia" /\ p.creator = "none" /\ p.keyId = NoKey
        /\ SetPrivate(s, z)
        /\ UNCHANGED <<temporaryKeys, persistentKey, boundWith, usedTemp>>
    BY <1>0, <1>13 DEF AcquireMedia, PrivateInv, server
  <2>2. acquired \in CreatingKeyType
    BY AcquiredType DEF CreatingKeyType
  <2> HIDE DEF acquired
  <2>3. q \in Private
    BY <1>0 DEF Private
  <2>4. PrivateInv(q) /\ Keeps(p, q)
    BY <1>0, <2>1 DEF PrivateInv, Private, Keeps
  <2>5. /\ q.pc = "idle" /\ q.creator = "none" /\ q.keyId = NoKey
        /\ q.encryptionKey = p.encryptionKey /\ q.conn = p.conn
        /\ q.bindMsg = p.bindMsg
    BY <1>0, <2>1 DEF Private
  <2> HIDE DEF q
  <2>6. CASE acquired = "None"
    BY <1>1, <2>1, <2>4, <2>6
  <2>7. CASE acquired # "None"
    <3>1. r \in Private
      BY <2>2, <2>3 DEF Private
    <3>2. /\ r.pc = "idle" /\ r.creator = "idle" /\ r.keyId = NoKey
          /\ r.encryptionKey = p.encryptionKey /\ r.conn = p.conn
          /\ r.bindMsg = p.bindMsg /\ r.acquired = acquired
      BY <2>3, <2>5 DEF Private
    <3> HIDE DEF r
    <3>3. p.conn = "up" /\ p.bindMsg = "none"
      BY <1>0, <2>1 DEF PrivateInv
    <3>4. PrivateInv(r) /\ Keeps(p, r)
      BY <2>1, <2>7, <3>2, <3>3 DEF PrivateInv, Keeps
    <3>5. PrivateInv(Restart(r)) /\ Keeps(p, Restart(r))
      BY <3>1, <3>2, <3>4, DisconnectInv, RestartFields DEF Keeps
    <3>6. PrivateInv(StartCreator(r)) /\ Keeps(p, StartCreator(r))
      <4>1. StartCreator(r) = [[r EXCEPT !.creator = "creating"] EXCEPT !.pc = "idle"]
        BY <3>1, <3>2 DEF StartCreator, Private
      <4> DEFINE y == [[r EXCEPT !.creator = "creating"] EXCEPT !.pc = "idle"]
      <4>2. /\ y.pc = "idle" /\ y.creator = "creating" /\ y.keyId = NoKey
            /\ y.encryptionKey = p.encryptionKey /\ y.conn = "up"
            /\ y.bindMsg = "none" /\ y.acquired = acquired
        BY <3>1, <3>2, <3>3 DEF Private
      <4> HIDE DEF y
      <4>3. PrivateInv(y) /\ Keeps(p, y)
        BY <2>1, <2>7, <4>2 DEF PrivateInv, Keeps
      <4> QED BY <4>1, <4>3 DEF y
    <3> QED BY <1>1, <2>1, <2>7, <3>5, <3>6
  <2> QED BY <2>6, <2>7
<1>14. CASE UnboundFailed(s)
  <2>1. WithoutCreator(p) \in Private /\ PrivateInv(WithoutCreator(p))
        /\ Keeps(p, WithoutCreator(p)) /\ WithoutCreator(p).pc = "idle"
    <3>1. p.creator = "creating" /\ p.keyId = NoKey /\ p.pc = "idle"
          /\ p.conn = "up" /\ p.bindMsg = "none"
      BY <1>0, <1>14 DEF UnboundFailed, CreatorRuns, Runs, PrivateInv
    <3> QED BY <1>0, <3>1, WithoutCreatorType, WithoutCreatorFields DEF PrivateInv, Keeps
  <2>2. PrivateInv(Restart(WithoutCreator(p))) /\ Keeps(p, Restart(WithoutCreator(p)))
    BY <2>1, DisconnectInv, RestartFields DEF Keeps
  <2> QED BY <1>1, <1>14, <2>1, <2>2 DEF UnboundFailed, server
<1>15. ASSUME NEW msg \in {"none", "sent"}, p.creator = "binding"
       PROVE  PrivateInv([p EXCEPT !.bindMsg = msg]) /\ Keeps(p, [p EXCEPT !.bindMsg = msg])
  BY <1>0, <1>15 DEF PrivateInv, Private, Keeps
<1>16. CASE SendBind(s)
  BY <1>1, <1>15, <1>16 DEF SendBind, dcenter, server
<1>17. CASE BindDestroyed(s)
  <2> DEFINE r == [p EXCEPT !.bindMsg = "none", !.pc = "destroyKey"]
  <2>1. PrivateInv(r) /\ Keeps(p, r)
    <3>1. p.creator = "binding" /\ p.conn = "up"
      BY <1>17 DEF BindDestroyed, BindAnswered
    <3> QED BY <1>0, <3>1 DEF PrivateInv, Private, Keeps
  <2> QED BY <1>1, <1>17, <2>1 DEF BindDestroyed, dcenter, server
<1>18. CASE BindFailed(s)
  BY <1>1, <1>15, <1>18 DEF BindFailed, BindAnswered, dcenter, server
<1>19. CASE FinishDestroyKey(s)
  BY <1>0, <1>19, KeyDestroy DEF FinishDestroyKey, server
<1>20. CASE NotifyConnectionInited(s)
  BY <1>0, <1>3, <1>20, KeyLocal DEF NotifyConnectionInited, privates, server, KeysShrink
<1>21. CASE OnDisconnected(s)
  BY <1>0, <1>1, <1>21, DisconnectInv DEF OnDisconnected, Runs, dcenter, server
<1>22. CASE OnTimeout(s)
  BY <1>0, <1>1, <1>22, DisconnectInv DEF OnTimeout, Runs, dcenter, server
<1>23. CASE OnKeyRejected(s)
  BY <1>0, <1>23, KeyDestroy DEF OnKeyRejected, server
<1> QED
  BY <1>2, <1>4, <1>5, <1>6, <1>7, <1>8, <1>10, <1>11, <1>12, <1>13, <1>14, <1>16,
     <1>17, <1>18, <1>19, <1>20, <1>21, <1>22, <1>23, KeyServerBind, KeyBindSuccess,
     KeyUnboundReady, KeyUnboundReadyCdn
  DEF ThreadStep, ThreadProgress

\* Steps of the main thread keep it.
LEMMA KeyMainStep ==
    ASSUME TypeOK, KeyInv,
           \/ MainProgress
           \/ \E s \in Sessions : StopSession(s) \/ KillSession(s)
           \/ ReInitConnection \/ DcOptionsChanged \/ CdnConfigChanged
    PROVE  KeyInv'
<1>1. ASSUME UNCHANGED <<temporaryKeys, persistentKey, priv, boundWith, usedTemp>>
      PROVE  KeyInv'
  BY <1>1 DEF KeyInv, FreshInv, InstalledKeysAreBound, BoundInv
<1>2. ASSUME NEW s \in Sessions,
             StartSession(s) \/ ResumeSession(s) \/ StopSession(s) \/ KillSession(s)
      PROVE  KeyInv'
  BY <1>1, <1>2
  DEF StartSession, ResumeSession, StopSession, KillSession, dcenter, server
<1>3. CASE \/ ReInitConnection \/ DcOptionsChanged \/ CdnConfigChanged
           \/ HandleTemporaryKeyChanged \/ HandlePersistentKeyChanged \/ HandleClear
  BY <1>1, <1>3
  DEF ReInitConnection, DcOptionsChanged, CdnConfigChanged, HandleTemporaryKeyChanged,
      HandlePersistentKeyChanged, HandleClear, dcenter, server
<1>4. CASE HandleKeyDestroyedOnServer
  <2>1. /\ UNCHANGED <<priv, boundWith, usedTemp>>
        /\ \/ UNCHANGED <<temporaryKeys, persistentKey>>
           \/ temporaryKeys' = [t \in TemporaryKeyType |-> NoKey]
    BY <1>4 DEF HandleKeyDestroyedOnServer, server
  <2>2. CASE UNCHANGED <<temporaryKeys, persistentKey>>
    BY <1>1, <2>1, <2>2
  <2>3. CASE temporaryKeys' = [t \in TemporaryKeyType |-> NoKey]
    <3>1. \A x \in Sessions : priv[x].creator = "binding" => priv[x].encryptionKey # NoKey
      BY BindingKey DEF KeyInv
    <3>2. FreshInv'
      BY <2>1, <2>3, <3>1 DEF KeyInv, FreshInv
    <3> QED BY <2>1, <2>3, <3>2 DEF KeyInv, InstalledKeysAreBound, BoundInv
  <2> QED BY <2>1, <2>2, <2>3
<1> QED BY <1>2, <1>3, <1>4 DEF MainProgress

-----------------------------------------------------------------------------
(* IInv is inductive.                                                       *)

\* The initial state satisfies IInv.
LEMMA InvInit == Init => IInv
<1> SUFFICES ASSUME Init PROVE IInv
  OBVIOUS
<1>1. TypeOK
  BY TypeInit
<1> DEFINE n == NewPrivate("Regular", "absent")
<1>2. /\ n.conn = "absent" /\ n.creator = "none" /\ n.acquired = "None"
      /\ n.keyId = NoKey /\ n.encryptionKey = NoKey /\ n.bindMsg = "none"
      /\ PrivateInv(n)
  BY DEF NewPrivate, PrivateInv
<1> HIDE DEF n
<1>3. \A s \in Sessions : priv[s] = n
  BY DEF Init, n
<1>4. OrderInv
  <2>1. QueueOrder(<<>>, TRUE, FALSE)
    BY DEF QueueOrder
  <2>2. \A s \in Sessions :
          /\ queue[s] = <<>> /\ hasPrivate[s] = FALSE /\ priv[s].conn = "absent"
          /\ myKeyCreation[s] = "None"
    BY <1>2, <1>3 DEF Init
  <2>3. \A s \in Sessions : QueueInv(s)
    BY <2>1, <2>2 DEF QueueInv, QueueOrder
  <2> QED BY <2>2, <2>3 DEF OrderInv, UnstartedInv
<1>5. LockInv
  BY DEF Init, LockInv, Attached, CreatorOwnsFlag, Creates, PersistentInv
<1>6. KeyInv
  BY <1>2, <1>3 DEF Init, KeyInv, FreshInv, InstalledKeysAreBound, BoundInv
<1> QED BY <1>1, <1>4, <1>5, <1>6 DEF IInv

\* IInv is inductive.
LEMMA InvStep == IInv /\ [Next]_vars => IInv'
<1> SUFFICES ASSUME IInv, [Next]_vars PROVE IInv'
  OBVIOUS
<1>1. TypeOK /\ OrderInv /\ LockInv /\ KeyInv /\ TypeOK'
  BY TypeStep DEF IInv
<1>2. ASSUME NEW s \in Sessions, ThreadStep(s)
      PROVE  IInv'
  BY <1>1, <1>2, OrderThreadStep, LockThreadStep, KeyThreadStep DEF IInv
<1>3. ASSUME \/ MainProgress
             \/ \E s \in Sessions : StopSession(s) \/ KillSession(s)
             \/ ReInitConnection \/ DcOptionsChanged \/ CdnConfigChanged
      PROVE  IInv'
  BY <1>1, <1>3, OrderMainStep, LockMainStep, KeyMainStep DEF IInv
<1>4. ASSUME UNCHANGED <<dcenter, sessions, privates, boundWith, usedTemp>>
      PROVE  IInv'
  <2>1. OrderInv'
    BY <1>1, <1>4 DEF OrderInv, QueueInv, UnstartedInv, sessions, privates
  <2>2. LockInv'
    BY <1>1, <1>4 DEF LockInv, Attached, CreatorOwnsFlag, Creates, PersistentInv,
                      dcenter, sessions, privates
  <2>3. KeyInv'
    BY <1>1, <1>4 DEF KeyInv, FreshInv, InstalledKeysAreBound, BoundInv, dcenter, privates
  <2> QED BY <1>1, <2>1, <2>2, <2>3 DEF IInv
<1>5. ASSUME NEW key \in PersistentKeys, ServerForgets(key)
      PROVE  IInv'
  BY <1>4, <1>5 DEF ServerForgets
<1>6. CASE Progress
  BY <1>2, <1>3, <1>6 DEF Progress, ThreadStep
<1>7. CASE Disturbance
  <2>1. \/ \E s \in Sessions : ThreadStep(s)
        \/ \E s \in Sessions : StopSession(s) \/ KillSession(s)
        \/ ReInitConnection \/ DcOptionsChanged \/ CdnConfigChanged
        \/ \E key \in PersistentKeys : ServerForgets(key)
    BY <1>7, Zenon DEF Disturbance, ThreadStep
  <2> QED BY <1>2, <1>3, <1>5, <2>1
<1>8. CASE UNCHANGED vars
  BY <1>4, <1>8 DEF vars, server
<1> QED BY <1>6, <1>7, <1>8 DEF Next

\* IInv holds in every reachable state.
LEMMA Invariance == Spec => []IInv
BY InvInit, InvStep, PTL DEF Spec

-----------------------------------------------------------------------------
\* The compare-exchange of Dcenter::acquireKeyCreation is a lock: whatever
\* the threads do, at most one session creates a key of a type, it holds the
\* flag, and no such key is installed under its hands.
THEOREM CreationIsExclusive == Spec => []CreatorOwnsFlag
<1>1. IInv => CreatorOwnsFlag
  BY DEF IInv, LockInv
<1> QED BY <1>1, Invariance, PTL

\* Session::_myKeyCreation and SessionPrivate::_keyCreator, which live in two
\* objects and are written at different times, never disagree while the two
\* are attached.
THEOREM SessionsAgree == Spec => []SessionAndPrivateAgree
<1>1. IInv => SessionAndPrivateAgree
  BY DEF IInv, LockInv, KeyInv, SessionAndPrivateAgree, PrivateInv
<1> QED BY <1>1, Invariance, PTL

\* Every temporary key in the Dcenter is bound by the server to the persistent
\* key that is in the Dcenter.
THEOREM InstalledKeysBound == Spec => []InstalledKeysAreBound
<1>1. IInv => InstalledKeysAreBound
  BY DEF IInv, KeyInv
<1> QED BY <1>1, Invariance, PTL

\* No request is sent under a key the server has not bound.
THEOREM SendsUnderBoundKey == Spec => []SendsOnlyUnderBoundKey
<1>1. IInv => SendsOnlyUnderBoundKey
  BY DEF IInv, KeyInv, BoundInv, SendsOnlyUnderBoundKey
<1> QED BY <1>1, Invariance, PTL

\* A Persistent creation that finishes late never replaces a persistent key
\* that was installed meanwhile: it only ever fills an empty slot.
THEOREM PersistentKeyKept == Spec => PersistentKeyNotOverwritten
<1>1. IInv /\ [Next]_vars =>
        [persistentKey' # persistentKey
           => persistentKey = NoKey \/ persistentKey' = NoKey]_vars
  <2> SUFFICES ASSUME IInv, Next, persistentKey' # persistentKey
               PROVE  persistentKey = NoKey \/ persistentKey' = NoKey
    BY DEF vars, dcenter
  <2>1. ASSUME NEW s \in Sessions, NEW key, NEW used, ReleaseOnDone(s, key, used)
        PROVE  persistentKey = NoKey
    <3>1. myKeyCreation[s] = "Persistent"
      BY <2>1 DEF ReleaseOnDone, DcReleaseOnDone, dcenter
    <3> QED BY <3>1 DEF IInv, LockInv, PersistentInv
  <2>2. ASSUME NEW s \in Sessions, NEW p, NEW outcome, ConnectToServer(s, p, outcome)
        PROVE  FALSE
    BY <2>2 DEF ConnectToServer, DestroyTemporaryKey
  <2>3. ASSUME NEW s \in Sessions, ThreadStep(s)
        PROVE  persistentKey = NoKey
    <3>1. CASE OnStart(s) \/ OnConnect(s) \/ RetryByTimer(s)
      BY <2>2, <3>1 DEF OnStart, OnConnect, RetryByTimer
    <3>2. CASE OnConfig(s)
      BY <2>2, <3>2 DEF OnConfig, dcenter
    <3>3. CASE BindSuccess(s)
      BY <2>1, <3>3 DEF BindSuccess, dcenter
    <3>4. ASSUME NEW key, UnboundReadyCdn(s, key)
          PROVE  persistentKey = NoKey
      BY <2>1, <3>4 DEF UnboundReadyCdn, dcenter
    <3>5. ~\/ OnRestart(s) \/ OnDelete(s) \/ OnUpdateKey(s) \/ OnConnected(s)
           \/ CheckMedia(s) \/ AcquireMedia(s) \/ SendBind(s) \/ ServerBind(s)
           \/ BindDestroyed(s) \/ BindFailed(s) \/ NotifyConnectionInited(s)
           \/ OnDisconnected(s) \/ OnTimeout(s) \/ UnboundFailed(s)
      BY DEF OnRestart, OnDelete, OnUpdateKey, OnConnected, CheckMedia, AcquireMedia,
             SendBind, ServerBind, BindDestroyed, BindFailed, NotifyConnectionInited,
             OnDisconnected, OnTimeout, UnboundFailed, dcenter
    <3>6. ~\/ FinishDestroyKey(s) \/ OnKeyRejected(s)
           \/ \E key \in TempKeys, created \in PersistentKeys \cup {NoKey} :
                 UnboundReady(s, key, created)
      BY DEF FinishDestroyKey, OnKeyRejected, DestroyTemporaryKey, UnboundReady
    <3> QED BY <2>3, <3>1, <3>2, <3>3, <3>4, <3>5, <3>6 DEF ThreadStep, ThreadProgress
  <2>4. ~\/ \E s \in Sessions : \/ StartSession(s) \/ ResumeSession(s)
                                \/ StopSession(s) \/ KillSession(s)
         \/ HandleTemporaryKeyChanged \/ HandlePersistentKeyChanged \/ HandleClear
         \/ ReInitConnection \/ DcOptionsChanged \/ CdnConfigChanged
         \/ \E key \in PersistentKeys : ServerForgets(key)
    BY DEF StartSession, ResumeSession, StopSession, KillSession,
           HandleTemporaryKeyChanged, HandlePersistentKeyChanged, HandleClear,
           ReInitConnection, DcOptionsChanged, CdnConfigChanged, ServerForgets, dcenter
  <2>5. CASE HandleKeyDestroyedOnServer
    BY <2>5 DEF HandleKeyDestroyedOnServer
  <2>6. \/ \E s \in Sessions : ThreadStep(s)
        \/ HandleKeyDestroyedOnServer
    BY <2>4, Zenon DEF Next, Progress, MainProgress, Disturbance, ThreadStep
  <2> QED BY <2>3, <2>5, <2>6
<1> QED BY <1>1, Invariance, PTL DEF Spec, PersistentKeyNotOverwritten

-----------------------------------------------------------------------------
(* What Instance saves, and the flags of a CDN data center.                 *)

\* A CDN data center has no persistent key, so nothing is ever bound there.
CdnInv ==
    IsCdn => /\ persistentKey = NoKey
             /\ \A s \in Sessions : priv[s].creator # "binding"

\* Every persistent key that is somewhere was generated at some time.
UsedInv ==
    /\ persistentKey \in usedPersistent \cup {NoKey}
    /\ \A i \in DOMAIN mainQueue :
          mainQueue[i].kind = "destroyed" => mainQueue[i].key \in usedPersistent
    /\ \A s \in Sessions : priv[s].bindPersistentKey \in usedPersistent \cup {NoKey}

\* The persistent key a session has created and is still binding is known to
\* nobody else, and is reported destroyed by nobody but that session.
CreatedKeyIsNew(s) ==
    LET key == priv[s].bindPersistentKey IN
    /\ key # persistentKey
    /\ \A other \in Sessions \ {s} : priv[other].bindPersistentKey # key
    /\ priv[s].pc = "idle" =>
          \A i \in DOMAIN mainQueue : mainQueue[i] # Event("destroyed", key)

CreatedInv ==
    \A s \in Sessions :
       (priv[s].creator = "binding" /\ priv[s].acquired = "Persistent")
          => CreatedKeyIsNew(s)

\* A posted persistent key is the present one, and is not destroyed by an
\* event posted before it.
PostedInv ==
    /\ \A i \in DOMAIN mainQueue : mainQueue[i].kind = "persistent" =>
          /\ mainQueue[i].key = persistentKey
          /\ IsCdn \/ mainQueue[i].key # NoKey
    /\ \A i, j \in DOMAIN mainQueue :
          (i < j /\ mainQueue[i].kind = "destroyed" /\ mainQueue[j].kind = "persistent")
              => mainQueue[i].key # mainQueue[j].key

SavedInv ==
    /\ CdnInv
    /\ UsedInv
    /\ CreatedInv
    /\ PostedInv
    /\ SavedKeyCatchesUp
    /\ IsCdn => FlagHasCreator

\* What a SessionPrivate goes on binding is what it was binding before.
BinderKept(p, r) ==
    /\ r.bindPersistentKey \in {p.bindPersistentKey, NoKey}
    /\ r.creator = "binding" =>
          /\ p.creator = "binding"
          /\ r.acquired = p.acquired
          /\ r.pc = "idle" => p.pc = "idle"

\* A step of s takes a free flag, gives its own back, or touches no flag.
FlagKept(s) ==
    \/ UNCHANGED <<creatingKeys, myKeyCreation>>
    \/ /\ myKeyCreation[s] = "None"
       /\ \E type : AcquireKeyCreation(s, Acquired(type))
    \/ /\ myKeyCreation' = [myKeyCreation EXCEPT ![s] = "None"]
       /\ DcReleaseOnFail(myKeyCreation[s])

\* At most an event that is about no persistent key is posted.
NeutralPost ==
    \/ UNCHANGED mainQueue
    \/ PostMain(Event("temporary", NoKey))
    \/ PostMain(Event("clear", NoKey))

\* A step of s that persistent keys do not notice.
Quiet(s) ==
    /\ BinderKept(priv[s], priv'[s])
    /\ FlagKept(s)
    /\ NeutralPost
    /\ UNCHANGED <<persistentKey, keysForWrite, usedPersistent>>

\* Destroying the temporary key ends what the session was binding.
LEMMA QuietDestroy ==
    ASSUME TypeOK, NEW s \in Sessions, NEW p \in Private,
           DestroyTemporaryKey(s, p), UNCHANGED <<keysForWrite, usedPersistent>>
    PROVE  Quiet(s)
<1>1. priv'[s] = [Restart(WithoutCreator(p)) EXCEPT
                    !.encryptionKey = NoKey, !.keyId = NoKey, !.pc = "idle"]
  BY DEF DestroyTemporaryKey, SetPrivate, TypeOK
<1>2. priv'[s].creator = "none" /\ priv'[s].bindPersistentKey = NoKey
  BY <1>1 DEF WithoutCreator, Restart, DestroyAllConnections, Private
<1>3. FlagKept(s)
  BY DEF DestroyTemporaryKey, ReleaseOnFail, FlagKept
<1>4. NeutralPost /\ UNCHANGED persistentKey
  BY DEF DestroyTemporaryKey, NeutralPost
<1> QED BY <1>2, <1>3, <1>4 DEF Quiet, BinderKept

\* connectToServer leaves what is bound alone.
LEMMA QuietConnect ==
    ASSUME TypeOK, LockInv, NEW s \in Sessions, PrivateInv(priv[s]),
           priv[s].pc = "idle",
           NEW p \in Private, p.pc = "idle", BinderKept(priv[s], p),
           p.creator = "none" <=> priv[s].creator = "none",
           NEW outcome \in {"testing", "waiting", "restart"},
           ConnectToServer(s, p, outcome), UNCHANGED <<keysForWrite, usedPersistent>>
    PROVE  Quiet(s)
<1> DEFINE q == [DestroyAllConnections(p) EXCEPT !.realDcType = DcTypeOf(s)]
           acquired == IF q.creator = "none" /\ Attached(s)
                       THEN Acquired(q.realDcType) ELSE "None"
           r == IF q.creator # "none" THEN q
                ELSE [q EXCEPT
                    !.currentDcType = AcquiredDcType(q, acquired),
                    !.creator = IF acquired = "None" THEN "none" ELSE "idle",
                    !.acquired = acquired]
           Like(z) ==
               /\ z.bindPersistentKey = p.bindPersistentKey
               /\ z.creator = "binding" => p.creator = "binding"
               /\ z.creator = "binding" => z.acquired = p.acquired
<1>1. q \in Private
  <2>1. DcTypeOf(s) \in DcType
    BY DEF DcTypeOf, DcType
  <2> QED BY <2>1, DestroyAllConnectionsType DEF Private
<1>2. Like(q) /\ (q.creator = "none" <=> priv[s].creator = "none")
  BY DEF DestroyAllConnections, Private
<1>3. CASE p.realDcType # q.realDcType /\ q.creator # "none"
  <2>1. DestroyTemporaryKey(s, q)
    BY <1>3 DEF ConnectToServer
  <2> HIDE DEF q
  <2> QED BY <1>1, <2>1, QuietDestroy
<1>4. CASE ~(p.realDcType # q.realDcType /\ q.creator # "none")
  <2>1. /\ IF q.creator = "none" /\ Attached(s)
           THEN AcquireKeyCreation(s, acquired)
           ELSE UNCHANGED <<myKeyCreation, creatingKeys>>
        /\ SetPrivate(s, CASE
              outcome = "testing" ->
                  [r EXCEPT !.conn = "testing", !.bindMsg = "none"]
              [] outcome = "waiting" -> r
              [] outcome = "restart" -> Restart(r))
        /\ UNCHANGED <<persistentKey, mainQueue>>
    BY <1>4 DEF ConnectToServer
  <2>2. acquired \in CreatingKeyType /\ AcquiredDcType(q, acquired) \in DcType
    BY <1>1, AcquiredType DEF AcquiredDcType, Private, CreatingKeyType, DcType
  <2>3. q.creator = "none" /\ Attached(s) => acquired = Acquired(q.realDcType)
    OBVIOUS
  <2> HIDE DEF q, acquired
  <2>4. r \in Private
    <3>1. \A type \in DcType, creator \in {"none", "idle"}, a \in CreatingKeyType :
            [q EXCEPT !.currentDcType = type, !.creator = creator, !.acquired = a]
              \in Private
      BY <1>1 DEF Private
    <3>2. (IF acquired = "None" THEN "none" ELSE "idle") \in {"none", "idle"}
      OBVIOUS
    <3> QED BY <1>1, <2>2, <3>1, <3>2
  <2>5. Like(r)
    BY <1>1, <1>2 DEF Private
  <2> HIDE DEF r
  <2>6. Like([r EXCEPT !.conn = "testing", !.bindMsg = "none"])
    BY <2>4, <2>5 DEF Private
  <2>7. Like(Restart(r))
    BY <2>4, <2>5, RestartFields
  <2> HIDE DEF Like
  <2>8. Like(priv'[s])
    BY <2>1, <2>5, <2>6, <2>7 DEF SetPrivate, TypeOK
  <2>9. BinderKept(priv[s], priv'[s])
    BY <2>8 DEF Like, BinderKept
  <2>10. FlagKept(s)
    <3>1. CASE q.creator = "none" /\ Attached(s)
      <4>1. myKeyCreation[s] = "None"
        BY <1>2, <3>1 DEF LockInv, PrivateInv
      <4> QED BY <2>1, <2>3, <3>1, <4>1 DEF FlagKept
    <3>2. CASE ~(q.creator = "none" /\ Attached(s))
      BY <2>1, <3>2 DEF FlagKept
    <3> QED BY <3>1, <3>2
  <2> QED BY <2>1, <2>9, <2>10 DEF Quiet, NeutralPost
<1> QED BY <1>3, <1>4

\* applyAuthKey leaves what is bound alone.
LEMMA ApplyAuthKeyBinds ==
    ASSUME NEW p \in Private, NEW key
    PROVE  /\ ApplyAuthKey(p, key).bindPersistentKey = p.bindPersistentKey
           /\ ApplyAuthKey(p, key).creator = "binding" <=> p.creator = "binding"
           /\ ApplyAuthKey(p, key).acquired = p.acquired
BY DEF ApplyAuthKey, StartCreator, Restart, DestroyAllConnections, Private

\* Most steps of a network thread are quiet.
LEMMA QuietStep ==
    ASSUME TypeOK, OrderInv, LockInv, KeyInv, NEW s \in Sessions, ThreadStep(s)
    PROVE  \/ Quiet(s)
           \/ BindSuccess(s)
           \/ BindDestroyed(s)
           \/ \E key \in TempKeys, created \in PersistentKeys \cup {NoKey} :
                 UnboundReady(s, key, created)
           \/ \E key \in TempKeys : UnboundReadyCdn(s, key)
<1> DEFINE p == priv[s]
<1>0. p \in Private /\ PrivateInv(p) /\ BinderKept(p, p)
  BY DEF TypeOK, KeyInv, BinderKept
<1>1. ASSUME NEW r, SetPrivate(s, r), BinderKept(p, r), FlagKept(s), NeutralPost,
             UNCHANGED <<persistentKey, keysForWrite, usedPersistent>>
      PROVE  Quiet(s)
  <2>1. priv'[s] = r
    BY <1>1 DEF SetPrivate, TypeOK
  <2> QED BY <1>1, <2>1 DEF Quiet
<1>2. ASSUME NEW r, SetPrivate(s, r), BinderKept(p, r),
             UNCHANGED <<dcenter, keysForWrite, mainQueue, myKeyCreation, usedPersistent>>
      PROVE  Quiet(s)
  BY <1>1, <1>2 DEF FlagKept, NeutralPost, dcenter
<1>3. CASE OnStart(s)
  <2> DEFINE n == NewPrivate(DcTypeOf(s), "down")
  <2>1. PICK outcome \in {"testing", "waiting"} : ConnectToServer(s, n, outcome)
    BY <1>3 DEF OnStart
  <2>2. DcTypeOf(s) \in DcType
    BY DEF DcTypeOf, DcType
  <2>3. /\ n \in Private /\ n.pc = "idle" /\ n.creator = "none"
        /\ BinderKept(p, n)
    BY <2>2, NewPrivateType DEF NewPrivate, BinderKept
  <2>4. p.conn = "absent" /\ p.pc = "idle" /\ p.creator = "none"
    <3>1. queue[s] # <<>> /\ queue[s][1] = "start"
      BY <1>3 DEF OnStart, Takes, TypeOK
    <3>2. p.conn = "absent"
      BY <3>1 DEF OrderInv, QueueInv, QueueOrder
    <3> QED BY <1>0, <3>2 DEF PrivateInv
  <2> HIDE DEF n
  <2> QED BY <1>0, <1>3, <2>1, <2>3, <2>4, QuietConnect DEF OnStart, server
<1>4. CASE OnConnect(s)
  BY <1>0, <1>4, QuietConnect DEF OnConnect, Takes, server
<1>5. CASE RetryByTimer(s)
  <2> DEFINE n == [p EXCEPT !.conn = "down"]
  <2>1. /\ n \in Private /\ n.creator = p.creator /\ n.pc = p.pc
        /\ BinderKept(p, n)
    BY <1>0 DEF Private, BinderKept
  <2> QED BY <1>0, <1>5, <2>1, QuietConnect DEF RetryByTimer, Runs, server
<1>6. CASE OnConfig(s)
  <2>1. CASE p.conn \in {"testing", "up"}
    BY <1>0, <1>6, <2>1 DEF OnConfig, Quiet, FlagKept, NeutralPost, dcenter, server
  <2>2. CASE p.conn \notin {"testing", "up"}
    <3>1. PICK outcome \in {"testing", IF IsCdn THEN "waiting" ELSE "restart"} :
             ConnectToServer(s, p, outcome)
      BY <1>6, <2>2 DEF OnConfig
    <3>2. outcome \in {"testing", "waiting", "restart"}
      OBVIOUS
    <3> QED BY <1>0, <1>6, <3>1, <3>2, QuietConnect DEF OnConfig, Takes, server
  <2> QED BY <2>1, <2>2
<1>7. BinderKept(p, Restart(p)) /\ BinderKept(p, DestroyAllConnections(p))
  BY <1>0 DEF Restart, DestroyAllConnections, Private, BinderKept
<1>8. CASE OnRestart(s) \/ OnDisconnected(s) \/ OnTimeout(s)
  BY <1>2, <1>7, <1>8
  DEF OnRestart, OnDisconnected, OnTimeout, instance, sessions, server
<1>9. CASE OnDelete(s)
  <2>1. BinderKept(p, NewPrivate("Regular", "absent"))
    BY DEF BinderKept, NewPrivate
  <2> QED
    BY <1>1, <1>9, <2>1
    DEF OnDelete, ReleaseOnFail, FlagKept, NeutralPost, instance, server
<1>10. ASSUME NEW q \in Private, q.creator # "binding",
              q.bindPersistentKey = p.bindPersistentKey, NEW key
       PROVE  BinderKept(p, ApplyAuthKey(q, key))
  BY <1>10, ApplyAuthKeyBinds DEF BinderKept
<1>11. CASE OnUpdateKey(s)
  BY <1>0, <1>2, <1>10, <1>11 DEF OnUpdateKey, instance, sessions, server
<1>12. CASE OnConnected(s)
  <2> DEFINE q == [p EXCEPT !.conn = "up"]
  <2>1. /\ q \in Private /\ q.creator = p.creator /\ q.keyId = p.keyId
        /\ q.bindPersistentKey = p.bindPersistentKey
        /\ BinderKept(p, q)
    BY <1>0 DEF Private, BinderKept
  <2>2. q.keyId = NoKey => q.creator # "binding"
    BY <1>0, <2>1 DEF PrivateInv
  <2>3. SetPrivate(s, IF q.keyId # NoKey THEN q
          ELSE ApplyAuthKey(q, GetTemporaryKey(s,
                  TemporaryKeyTypeByDcType(q.currentDcType))))
    BY <1>12 DEF OnConnected
  <2> HIDE DEF q
  <2> QED BY <1>2, <1>10, <1>12, <2>1, <2>2, <2>3
          DEF OnConnected, instance, sessions, server
<1>13. CASE CheckMedia(s)
  <2>1. p.creator = "none"
    BY <1>0, <1>13 DEF CheckMedia, PrivateInv
  <2>2. \A pc : BinderKept(p, [p EXCEPT !.pc = pc])
    BY <1>0, <2>1 DEF Private, BinderKept
  <2> QED BY <1>2, <1>13, <2>2 DEF CheckMedia, instance, sessions, server
<1>14. CASE AcquireMedia(s)
  <2> DEFINE q == [p EXCEPT !.pc = "idle"]
             acquired == IF Attached(s) THEN Acquired(q.realDcType) ELSE "None"
             r == [q EXCEPT !.creator = "idle", !.acquired = acquired]
             z == CASE acquired = "None" -> q
                    [] acquired # "None" /\ AcquiredDcType(q, acquired) # q.currentDcType
                         -> Restart(r)
                    [] OTHER -> StartCreator(r)
  <2>1. /\ p.creator = "none"
        /\ IF Attached(s) THEN AcquireKeyCreation(s, acquired)
           ELSE UNCHANGED <<myKeyCreation, creatingKeys>>
        /\ SetPrivate(s, z)
        /\ UNCHANGED <<persistentKey, mainQueue, keysForWrite, usedPersistent>>
    BY <1>0, <1>14 DEF AcquireMedia, PrivateInv, instance, server
  <2>2. acquired \in CreatingKeyType
    BY AcquiredType DEF CreatingKeyType
  <2>3. Attached(s) => acquired = Acquired(q.realDcType)
    OBVIOUS
  <2> HIDE DEF acquired
  <2>4. /\ q \in Private /\ q.creator = "none"
        /\ q.bindPersistentKey = p.bindPersistentKey
    BY <1>0, <2>1 DEF Private
  <2> HIDE DEF q
  <2>5. /\ r \in Private /\ r.creator = "idle"
        /\ r.bindPersistentKey = p.bindPersistentKey
    BY <2>2, <2>4 DEF Private
  <2> HIDE DEF r
  <2>6. /\ Restart(r).creator # "binding" /\ StartCreator(r).creator # "binding"
        /\ Restart(r).bindPersistentKey = p.bindPersistentKey
        /\ StartCreator(r).bindPersistentKey = p.bindPersistentKey
    BY <2>5, RestartFields DEF StartCreator, Private
  <2>7. BinderKept(p, z)
    BY <2>4, <2>6 DEF BinderKept
  <2>8. FlagKept(s)
    <3>1. CASE Attached(s)
      <4>1. myKeyCreation[s] = "None"
        BY <1>0, <2>1, <3>1 DEF LockInv, PrivateInv
      <4> QED BY <2>1, <2>3, <3>1, <4>1 DEF FlagKept
    <3>2. CASE ~Attached(s)
      BY <2>1, <3>2 DEF FlagKept
    <3> QED BY <3>1, <3>2
  <2> HIDE DEF z
  <2> QED BY <1>1, <2>1, <2>7, <2>8 DEF NeutralPost
<1>15. BinderKept(p, WithoutCreator(p)) /\ BinderKept(p, Restart(WithoutCreator(p)))
  <2>1. /\ WithoutCreator(p) \in Private /\ WithoutCreator(p).creator = "none"
        /\ WithoutCreator(p).bindPersistentKey = NoKey
    BY <1>0, WithoutCreatorType DEF WithoutCreator, Private
  <2> QED BY <2>1, RestartFields DEF BinderKept
<1>16. CASE UnboundFailed(s)
  BY <1>1, <1>15, <1>16
  DEF UnboundFailed, ReleaseOnFail, FlagKept, NeutralPost, instance, server
<1>17. \A msg : BinderKept(p, [p EXCEPT !.bindMsg = msg])
  BY <1>0 DEF Private, BinderKept
<1>18. CASE SendBind(s) \/ BindFailed(s)
  BY <1>2, <1>17, <1>18 DEF SendBind, BindFailed, instance, sessions, server
<1>19. CASE ServerBind(s)
  BY <1>2, <1>17, <1>19 DEF ServerBind, instance, sessions
<1>20. CASE FinishDestroyKey(s) \/ OnKeyRejected(s)
  BY <1>0, <1>20, QuietDestroy DEF FinishDestroyKey, OnKeyRejected, server
<1>21. CASE NotifyConnectionInited(s)
  BY <1>0, <1>21
  DEF NotifyConnectionInited, Quiet, FlagKept, NeutralPost, instance, sessions,
      privates, server
<1> QED
  BY <1>3, <1>4, <1>5, <1>6, <1>8, <1>9, <1>11, <1>12, <1>13, <1>14, <1>16, <1>18,
     <1>19, <1>20, <1>21
  DEF ThreadStep, ThreadProgress

\* What posting and taking events of the main thread does to its queue.
LEMMA PostedEvents ==
    ASSUME TypeOK, NEW event, PostMain(event)
    PROVE  /\ DOMAIN mainQueue' = DOMAIN mainQueue \cup {Len(mainQueue) + 1}
           /\ \A i \in DOMAIN mainQueue :
                 i < Len(mainQueue) + 1 /\ mainQueue'[i] = mainQueue[i]
           /\ mainQueue'[Len(mainQueue) + 1] = event
           /\ Len(mainQueue) + 1 \notin DOMAIN mainQueue
<1>1. mainQueue \in Seq(MainEvent) /\ mainQueue' = Append(mainQueue, event)
  BY DEF TypeOK, PostMain
<1> QED BY <1>1

\* ... the queue without its head.
LEMMA TakenEvents ==
    ASSUME TypeOK, NEW kind, MainTakes(kind)
    PROVE  /\ 1 \in DOMAIN mainQueue
           /\ Head(mainQueue) = mainQueue[1]
           /\ mainQueue[1].kind = kind
           /\ \A i \in DOMAIN mainQueue' :
                 i + 1 \in DOMAIN mainQueue /\ mainQueue'[i] = mainQueue[i + 1]
           /\ \A i \in DOMAIN mainQueue :
                 i # 1 => i - 1 \in DOMAIN mainQueue' /\ mainQueue'[i - 1] = mainQueue[i]
           /\ DOMAIN mainQueue \subseteq Nat /\ DOMAIN mainQueue' \subseteq Nat
<1>1. /\ mainQueue \in Seq(MainEvent) /\ mainQueue # <<>>
      /\ mainQueue' = Tail(mainQueue) /\ Head(mainQueue).kind = kind
  BY DEF TypeOK, MainTakes
<1>2. /\ Len(mainQueue) \in Nat \ {0}
      /\ DOMAIN mainQueue = 1..Len(mainQueue)
      /\ Head(mainQueue) = mainQueue[1]
      /\ DOMAIN mainQueue' = 1..(Len(mainQueue) - 1)
      /\ \A i \in 1..(Len(mainQueue) - 1) : mainQueue'[i] = mainQueue[i + 1]
  BY <1>1
<1> QED BY <1>1, <1>2

\* A created key stays new while its session binds it: it is not installed,
\* nor reported destroyed.
LEMMA CreatedKept ==
    ASSUME TypeOK, CreatedInv, \A x \in Sessions : PrivateInv(priv'[x]),
           \A x \in Sessions : BinderKept(priv[x], priv'[x]),
           \A x \in Sessions :
              (priv[x].creator = "binding" /\ priv[x].acquired = "Persistent"
                 /\ priv'[x].creator = "binding")
                => /\ priv[x].bindPersistentKey # persistentKey'
                   /\ priv'[x].pc = "idle" =>
                        \A i \in DOMAIN mainQueue' :
                           mainQueue'[i] # Event("destroyed", priv[x].bindPersistentKey)
    PROVE  CreatedInv'
<1> SUFFICES ASSUME NEW x \in Sessions, priv'[x].creator = "binding",
                    priv'[x].acquired = "Persistent"
             PROVE  CreatedKeyIsNew(x)'
  BY DEF CreatedInv
<1>1. /\ priv'[x].bindPersistentKey # NoKey
      /\ priv'[x].bindPersistentKey = priv[x].bindPersistentKey
      /\ priv[x].creator = "binding"
      /\ priv[x].acquired = "Persistent"
  BY DEF BinderKept, PrivateInv
<1>2. CreatedKeyIsNew(x)
  BY <1>1 DEF CreatedInv
<1>3. \A other \in Sessions \ {x} :
        priv'[other].bindPersistentKey # priv[x].bindPersistentKey
  BY <1>1, <1>2 DEF CreatedKeyIsNew, BinderKept
<1> QED BY <1>1, <1>3 DEF CreatedKeyIsNew

\* A step that posts at most a neutral event keeps what is known of the keys.
LEMMA SavedNeutral ==
    ASSUME TypeOK, SavedInv, NeutralPost, \A x \in Sessions : PrivateInv(priv'[x]),
           \A x \in Sessions : BinderKept(priv[x], priv'[x]),
           UNCHANGED <<persistentKey, keysForWrite, usedPersistent>>
    PROVE  /\ CdnInv' /\ UsedInv' /\ CreatedInv' /\ PostedInv'
           /\ SavedKeyCatchesUp'
<1>1. /\ \A i \in DOMAIN mainQueue' :
             mainQueue'[i].kind \in {"destroyed", "persistent"} =>
                i \in DOMAIN mainQueue /\ mainQueue'[i] = mainQueue[i]
      /\ \A i \in DOMAIN mainQueue :
             i \in DOMAIN mainQueue' /\ mainQueue'[i] = mainQueue[i]
  BY PostedEvents DEF NeutralPost, Event
<1>2. CdnInv'
  BY DEF SavedInv, CdnInv, BinderKept
<1>3. UsedInv'
  BY <1>1 DEF SavedInv, UsedInv, BinderKept
<1>4. CreatedInv'
  <2>1. ASSUME NEW x \in Sessions, priv[x].creator = "binding",
               priv[x].acquired = "Persistent", priv'[x].creator = "binding"
        PROVE  /\ priv[x].bindPersistentKey # persistentKey'
               /\ priv'[x].pc = "idle" =>
                    \A i \in DOMAIN mainQueue' :
                       mainQueue'[i] # Event("destroyed", priv[x].bindPersistentKey)
    <3>1. CreatedKeyIsNew(x) /\ (priv'[x].pc = "idle" => priv[x].pc = "idle")
      BY <2>1 DEF SavedInv, CreatedInv, BinderKept
    <3> QED BY <1>1, <3>1 DEF CreatedKeyIsNew, Event
  <2>2. CreatedInv
    BY DEF SavedInv
  <2> QED BY <2>1, <2>2, CreatedKept
<1>5. PostedInv'
  BY <1>1 DEF SavedInv, PostedInv
<1>6. SavedKeyCatchesUp'
  BY <1>1 DEF SavedInv, SavedKeyCatchesUp
<1> QED BY <1>2, <1>3, <1>4, <1>5, <1>6

\* A step that keeps the flags keeps their creators.
LEMMA FlagsKept ==
    ASSUME TypeOK, FlagHasCreator, NEW s \in Sessions, FlagKept(s)
    PROVE  FlagHasCreator'
<1>1. CASE UNCHANGED <<creatingKeys, myKeyCreation>>
  BY <1>1 DEF FlagHasCreator, Creates
<1>2. ASSUME NEW type, myKeyCreation[s] = "None", AcquireKeyCreation(s, Acquired(type))
      PROVE  FlagHasCreator'
  <2> DEFINE a == Acquired(type)
  <2>1. /\ myKeyCreation' = [myKeyCreation EXCEPT ![s] = a]
        /\ creatingKeys' = IF a = "None" THEN creatingKeys
               ELSE [creatingKeys EXCEPT ![IndexByType(a)] = TRUE]
    BY <1>2 DEF AcquireKeyCreation
  <2> HIDE DEF a
  <2>2. ASSUME NEW t \in TemporaryKeyType, creatingKeys'[t]
        PROVE  \E x \in Sessions : Creates(x, t)'
    <3>1. CASE a # "None" /\ t = IndexByType(a)
      BY <2>1, <3>1 DEF Creates, TypeOK
    <3>2. CASE ~(a # "None" /\ t = IndexByType(a))
      <4>1. creatingKeys[t]
        BY <2>1, <2>2, <3>2 DEF TypeOK
      <4>2. PICK x \in Sessions : Creates(x, t)
        BY <4>1 DEF FlagHasCreator
      <4>3. x # s
        BY <1>2, <4>2 DEF Creates
      <4> QED BY <2>1, <4>2, <4>3 DEF Creates, TypeOK
    <3> QED BY <3>1, <3>2
  <2> QED BY <2>2 DEF FlagHasCreator
<1>3. CASE /\ myKeyCreation' = [myKeyCreation EXCEPT ![s] = "None"]
           /\ DcReleaseOnFail(myKeyCreation[s])
  <2>1. ASSUME NEW t \in TemporaryKeyType, creatingKeys'[t]
        PROVE  \E x \in Sessions : Creates(x, t)'
    <3>1. creatingKeys[t] /\ t # IndexByType(myKeyCreation[s])
      BY <1>3, <2>1 DEF DcReleaseOnFail, TypeOK
    <3>2. PICK x \in Sessions : Creates(x, t)
      BY <3>1 DEF FlagHasCreator
    <3>3. x # s
      BY <3>1, <3>2 DEF Creates
    <3> QED BY <1>3, <3>2, <3>3 DEF Creates, TypeOK
  <2> QED BY <2>1 DEF FlagHasCreator
<1> QED BY <1>1, <1>2, <1>3 DEF FlagKept

\* A quiet step keeps SavedInv.
LEMMA SavedQuiet ==
    ASSUME TypeOK, SavedInv, KeyInv', NEW s \in Sessions, ThreadStep(s), Quiet(s)
    PROVE  SavedInv'
<1>1. \A x \in Sessions : PrivateInv(priv'[x])
  BY DEF KeyInv
<1>2. \A x \in Sessions : BinderKept(priv[x], priv'[x])
  <2>1. \A x \in Sessions \ {s} : priv'[x] = priv[x]
    BY ThreadFrame DEF TypeOK
  <2>2. BinderKept(priv[s], priv'[s])
    BY DEF Quiet
  <2> QED BY <2>1, <2>2 DEF BinderKept
<1>3. NeutralPost /\ UNCHANGED <<persistentKey, keysForWrite, usedPersistent>>
  BY DEF Quiet
<1>4. IsCdn => FlagHasCreator'
  BY FlagsKept DEF SavedInv, Quiet
<1> QED BY <1>1, <1>2, <1>3, <1>4, SavedNeutral DEF SavedInv

\* destroyOldEnoughPersistentKey is called by a session that binds no more.
LEMMA SavedBindDestroyed ==
    ASSUME TypeOK, SavedInv, KeyInv, KeyInv', NEW s \in Sessions, BindDestroyed(s)
    PROVE  SavedInv'
<1> DEFINE p == priv[s]
           key == p.bindPersistentKey
           last == Len(mainQueue) + 1
<1>1. /\ p \in Private /\ p.creator = "binding"
      /\ key # NoKey
      /\ ~IsCdn
  BY DEF TypeOK, KeyInv, PrivateInv, BindDestroyed, BindAnswered, SavedInv, CdnInv
<1>2. /\ priv' = [priv EXCEPT ![s] = [p EXCEPT !.bindMsg = "none", !.pc = "destroyKey"]]
      /\ PostMain(Event("destroyed", key))
      /\ UNCHANGED <<persistentKey, keysForWrite, usedPersistent>>
  BY DEF BindDestroyed, SetPrivate, dcenter, server
<1>3. /\ priv'[s].bindPersistentKey = key /\ priv'[s].creator = "binding"
      /\ priv'[s].acquired = p.acquired /\ priv'[s].pc = "destroyKey"
      /\ \A x \in Sessions \ {s} : priv'[x] = priv[x]
  BY <1>1, <1>2 DEF TypeOK, Private
<1>4. key \in usedPersistent
  BY <1>1 DEF SavedInv, UsedInv
<1>5. /\ DOMAIN mainQueue' = DOMAIN mainQueue \cup {last}
      /\ \A i \in DOMAIN mainQueue : i < last /\ mainQueue'[i] = mainQueue[i]
      /\ mainQueue'[last].kind = "destroyed"
      /\ mainQueue'[last].key = key
      /\ last \notin DOMAIN mainQueue
      /\ last \in Nat /\ DOMAIN mainQueue \subseteq Nat
  <2>1. /\ DOMAIN mainQueue' = DOMAIN mainQueue \cup {last}
        /\ \A i \in DOMAIN mainQueue : i < last /\ mainQueue'[i] = mainQueue[i]
        /\ mainQueue'[last] = Event("destroyed", key)
        /\ last \notin DOMAIN mainQueue
    BY <1>2, PostedEvents
  <2>2. last \in Nat /\ DOMAIN mainQueue \subseteq Nat
    BY DEF TypeOK
  <2> HIDE DEF last, key
  <2>3. mainQueue'[last].kind = "destroyed" /\ mainQueue'[last].key = key
    BY <2>1 DEF Event
  <2> QED BY <2>1, <2>2, <2>3
<1> HIDE DEF last, key, p
<1>6. CdnInv'
  BY <1>1 DEF CdnInv
<1>7. UsedInv'
  BY <1>2, <1>3, <1>4, <1>5 DEF SavedInv, UsedInv, key
<1>8. CreatedInv'
  <2>1. \A x \in Sessions : PrivateInv(priv'[x])
    BY DEF KeyInv
  <2>2. \A x \in Sessions : BinderKept(priv[x], priv'[x])
    BY <1>1, <1>3 DEF BinderKept, key, p
  <2>3. ASSUME NEW x \in Sessions, priv[x].creator = "binding",
               priv[x].acquired = "Persistent", priv'[x].creator = "binding"
        PROVE  /\ priv[x].bindPersistentKey # persistentKey'
               /\ priv'[x].pc = "idle" =>
                    \A i \in DOMAIN mainQueue' :
                       mainQueue'[i] # Event("destroyed", priv[x].bindPersistentKey)
    <3>1. CreatedKeyIsNew(x)
      BY <2>3 DEF SavedInv, CreatedInv
    <3>2. CASE x = s
      BY <1>2, <1>3, <3>1, <3>2 DEF CreatedKeyIsNew
    <3>3. CASE x # s
      <4>1. priv[x].bindPersistentKey # key
        BY <3>1, <3>3 DEF CreatedKeyIsNew, key, p
      <4> QED BY <1>2, <1>3, <1>5, <3>1, <3>3, <4>1 DEF CreatedKeyIsNew, Event
    <3> QED BY <3>2, <3>3
  <2>4. CreatedInv
    BY DEF SavedInv
  <2> QED BY <2>1, <2>2, <2>3, <2>4, CreatedKept
<1>9. PostedInv'
  <2>1. \A i \in DOMAIN mainQueue' : mainQueue'[i].kind = "persistent" =>
           /\ i \in DOMAIN mainQueue
           /\ mainQueue'[i] = mainQueue[i]
    BY <1>5
  <2>2. \A i, j \in DOMAIN mainQueue' :
           i < j /\ mainQueue'[j].kind = "persistent" =>
              i \in DOMAIN mainQueue /\ mainQueue'[i] = mainQueue[i]
    BY <1>5, <2>1
  <2> QED BY <1>2, <2>1, <2>2 DEF SavedInv, PostedInv
<1>10. SavedKeyCatchesUp'
  BY <1>2, <1>5 DEF SavedInv, SavedKeyCatchesUp
<1> QED BY <1>1, <1>6, <1>7, <1>8, <1>9, <1>10 DEF SavedInv

\* A key installed by a Persistent creation is posted where none is.
LEMMA SavedInstall ==
    ASSUME TypeOK, LockInv, SavedInv, KeyInv, KeyInv', NEW s \in Sessions,
           priv[s].creator = "binding", priv[s].pc = "idle",
           priv[s].acquired = "Persistent", myKeyCreation[s] = "Persistent",
           priv'[s].creator = "none", priv'[s].bindPersistentKey = NoKey,
           \A x \in Sessions \ {s} : priv'[x] = priv[x],
           persistentKey' = priv[s].bindPersistentKey,
           PostMain(Event("persistent", priv[s].bindPersistentKey)),
           UNCHANGED <<keysForWrite, usedPersistent>>
    PROVE  SavedInv'
<1> DEFINE key == priv[s].bindPersistentKey
           last == Len(mainQueue) + 1
<1>1. key # NoKey /\ ~IsCdn /\ persistentKey = NoKey
  BY DEF KeyInv, PrivateInv, SavedInv, CdnInv, LockInv, PersistentInv
<1>2. CreatedKeyIsNew(s)
  BY DEF SavedInv, CreatedInv
<1>3. /\ DOMAIN mainQueue' = DOMAIN mainQueue \cup {last}
      /\ \A i \in DOMAIN mainQueue : i < last /\ mainQueue'[i] = mainQueue[i]
      /\ mainQueue'[last].kind = "persistent"
      /\ mainQueue'[last].key = key
      /\ last \notin DOMAIN mainQueue
      /\ last \in Nat /\ DOMAIN mainQueue \subseteq Nat
  <2>1. /\ DOMAIN mainQueue' = DOMAIN mainQueue \cup {last}
        /\ \A i \in DOMAIN mainQueue : i < last /\ mainQueue'[i] = mainQueue[i]
        /\ mainQueue'[last] = Event("persistent", key)
        /\ last \notin DOMAIN mainQueue
    BY PostedEvents
  <2>2. last \in Nat /\ DOMAIN mainQueue \subseteq Nat
    BY DEF TypeOK
  <2> HIDE DEF last, key
  <2>3. mainQueue'[last].kind = "persistent" /\ mainQueue'[last].key = key
    BY <2>1 DEF Event
  <2> QED BY <2>1, <2>2, <2>3
<1>4. \A i \in DOMAIN mainQueue : mainQueue[i].kind # "persistent"
  BY <1>1 DEF SavedInv, PostedInv
<1>5. \A i \in DOMAIN mainQueue : ~(mainQueue[i].kind = "destroyed" /\ mainQueue[i].key = key)
  <2>1. \A i \in DOMAIN mainQueue : mainQueue[i] # Event("destroyed", key)
    BY <1>2 DEF CreatedKeyIsNew
  <2>2. \A i \in DOMAIN mainQueue : mainQueue[i] \in MainEvent
    BY DEF TypeOK
  <2>3. \A e \in MainEvent : e.kind = "destroyed" /\ e.key = key => e = Event("destroyed", key)
    BY DEF MainEvent, Event
  <2> QED BY <2>1, <2>2, <2>3
<1> HIDE DEF last
<1>6. CdnInv'
  BY <1>1 DEF CdnInv
<1>7. UsedInv'
  <2>1. key \in usedPersistent
    BY <1>1 DEF SavedInv, UsedInv
  <2>2. \A i \in DOMAIN mainQueue' :
           mainQueue'[i].kind = "destroyed" => mainQueue'[i].key \in usedPersistent
    BY <1>3 DEF SavedInv, UsedInv
  <2>3. \A x \in Sessions : priv'[x].bindPersistentKey \in usedPersistent \cup {NoKey}
    BY DEF SavedInv, UsedInv
  <2> QED BY <2>1, <2>2, <2>3 DEF UsedInv
<1>8. CreatedInv'
  <2>1. \A x \in Sessions : PrivateInv(priv'[x])
    BY DEF KeyInv
  <2>2. \A x \in Sessions : BinderKept(priv[x], priv'[x])
    BY DEF BinderKept
  <2>3. ASSUME NEW x \in Sessions, priv[x].creator = "binding",
               priv[x].acquired = "Persistent", priv'[x].creator = "binding"
        PROVE  /\ priv[x].bindPersistentKey # persistentKey'
               /\ priv'[x].pc = "idle" =>
                    \A i \in DOMAIN mainQueue' :
                       mainQueue'[i] # Event("destroyed", priv[x].bindPersistentKey)
    <3>1. CreatedKeyIsNew(x) /\ x # s /\ priv'[x] = priv[x]
      BY <2>3 DEF SavedInv, CreatedInv
    <3>2. priv[x].bindPersistentKey # key
      BY <3>1 DEF CreatedKeyIsNew
    <3>3. ASSUME NEW i \in DOMAIN mainQueue', priv[x].pc = "idle"
          PROVE  mainQueue'[i] # Event("destroyed", priv[x].bindPersistentKey)
      BY <1>3, <3>1, <3>3 DEF CreatedKeyIsNew, Event
    <3> QED BY <3>1, <3>2, <3>3
  <2>4. CreatedInv
    BY DEF SavedInv
  <2> QED BY <2>1, <2>2, <2>3, <2>4, CreatedKept
<1>9. PostedInv'
  <2>1. \A i \in DOMAIN mainQueue' : mainQueue'[i].kind = "persistent" => i = last
    BY <1>3, <1>4
  <2>2. \A i \in DOMAIN mainQueue' : mainQueue'[i].kind = "destroyed" => mainQueue'[i].key # key
    BY <1>3, <1>5
  <2> HIDE DEF key
  <2>3. persistentKey' = key
    BY DEF key
  <2> QED BY <1>1, <1>3, <2>1, <2>2, <2>3 DEF PostedInv
<1>10. SavedKeyCatchesUp'
  BY <1>3 DEF SavedKeyCatchesUp
<1> QED BY <1>1, <1>6, <1>7, <1>8, <1>9, <1>10 DEF SavedInv

\* The answer to a bind ends the creation, installed or not.
LEMMA SavedBindSuccess ==
    ASSUME TypeOK, LockInv, SavedInv, KeyInv, KeyInv', NEW s \in Sessions, BindSuccess(s)
    PROVE  SavedInv'
<1> DEFINE p == priv[s]
           used == p.bindPersistentKey
           q == [WithoutCreator(p) EXCEPT !.bindMsg = "none"]
           type == myKeyCreation[s]
<1>1. /\ p \in Private /\ p.creator = "binding" /\ p.pc = "idle"
      /\ ~IsCdn
  BY DEF TypeOK, BindSuccess, BindAnswered, Runs, SavedInv, CdnInv
<1>2. \E pc : SetPrivate(s, [q EXCEPT !.pc = pc])
  BY DEF BindSuccess
<1>3. /\ priv'[s].creator = "none" /\ priv'[s].bindPersistentKey = NoKey
      /\ \A x \in Sessions \ {s} : priv'[x] = priv[x]
  BY <1>1, <1>2 DEF SetPrivate, WithoutCreator, TypeOK, Private
<1>4. UNCHANGED <<keysForWrite, usedPersistent>>
  BY DEF BindSuccess, server
<1>5. ASSUME NeutralPost, UNCHANGED persistentKey
      PROVE  SavedInv'
  <2>1. \A x \in Sessions : PrivateInv(priv'[x])
    BY DEF KeyInv
  <2>2. \A x \in Sessions : BinderKept(priv[x], priv'[x])
    BY <1>3 DEF BinderKept
  <2> QED BY <1>1, <1>4, <1>5, <2>1, <2>2, SavedNeutral DEF SavedInv
<1>6. CASE ~Attached(s)
  BY <1>5, <1>6 DEF BindSuccess, dcenter, NeutralPost
<1>7. CASE Attached(s)
  <2>1. PICK key : ReleaseOnDone(s, key, used)
    BY <1>7 DEF BindSuccess
  <2>2. CASE ~DoneAccepted(type, used)
    BY <1>5, <2>1, <2>2 DEF ReleaseOnDone, DcReleaseOnDone, dcenter, NeutralPost
  <2>3. CASE DoneAccepted(type, used) /\ type # "Persistent"
    BY <1>5, <2>1, <2>3 DEF ReleaseOnDone, DcReleaseOnDone, NeutralPost
  <2>4. CASE DoneAccepted(type, used) /\ type = "Persistent"
    <3>1. /\ persistentKey' = used
          /\ PostMain(Event("persistent", used))
      BY <2>1, <2>4 DEF ReleaseOnDone, DcReleaseOnDone
    <3>2. p.acquired = "Persistent"
      BY <1>7, <2>4 DEF LockInv
    <3> QED BY <1>1, <1>3, <1>4, <2>4, <3>1, <3>2, SavedInstall
  <2> QED BY <2>2, <2>3, <2>4
<1> QED BY <1>6, <1>7

\* A fresh persistent key is one nobody knows.
LEMMA SavedUnboundReady ==
    ASSUME TypeOK, SavedInv, KeyInv', NEW s \in Sessions, ThreadStep(s),
           NEW key \in TempKeys, NEW created \in PersistentKeys \cup {NoKey},
           UnboundReady(s, key, created)
    PROVE  SavedInv'
<1> DEFINE p == priv[s]
           bindKey == IF created # NoKey THEN created
                      ELSE IF Attached(s) THEN persistentKey ELSE NoKey
           q == [p EXCEPT !.creator = "binding", !.bindPersistentKey = bindKey]
<1>1. /\ p \in Private /\ p.creator = "creating" /\ p.pc = "idle"
      /\ ~IsCdn
      /\ IF p.acquired = "Persistent"
         THEN created \in PersistentKeys \ usedPersistent
         ELSE created = NoKey
      /\ usedPersistent' = usedPersistent \cup ({created} \ {NoKey})
      /\ UNCHANGED <<persistentKey, keysForWrite, mainQueue>>
  BY DEF TypeOK, UnboundReady, CreatorRuns, Runs, instance
<1>2. \A x \in Sessions \ {s} : priv'[x] = priv[x]
  BY ThreadFrame DEF TypeOK
<1>3. CASE bindKey = NoKey
  <2>1. /\ ReleaseOnFail(s, p)
        /\ SetPrivate(s, Restart(WithoutCreator(p)))
        /\ created = NoKey
    BY <1>3 DEF UnboundReady
  <2>2. usedPersistent' = usedPersistent
    BY <1>1, <2>1
  <2>3. /\ WithoutCreator(p) \in Private /\ WithoutCreator(p).creator = "none"
        /\ WithoutCreator(p).bindPersistentKey = NoKey
    BY <1>1, WithoutCreatorType DEF WithoutCreator, Private
  <2>4. BinderKept(p, Restart(WithoutCreator(p)))
    BY <2>3, RestartFields DEF BinderKept
  <2>5. BinderKept(priv[s], priv'[s])
    BY <2>1, <2>4 DEF SetPrivate, TypeOK
  <2>6. FlagKept(s)
    BY <2>1 DEF ReleaseOnFail, FlagKept
  <2>7. Quiet(s)
    BY <1>1, <2>2, <2>5, <2>6 DEF Quiet, NeutralPost
  <2> QED BY <2>7, SavedQuiet
<1>4. CASE bindKey # NoKey
  <2>1. SetPrivate(s, ApplyAuthKey(q, key))
    BY <1>4 DEF UnboundReady
  <2>2. /\ bindKey \in PersistentKeys \cup {NoKey}
        /\ created # NoKey => bindKey = created
        /\ created = NoKey => bindKey = persistentKey
    BY <1>4 DEF TypeOK
  <2> HIDE DEF bindKey
  <2>3. q \in Private /\ q.creator = "binding" /\ q.bindPersistentKey = bindKey
        /\ q.acquired = p.acquired
    BY <1>1, <2>2 DEF Private
  <2> HIDE DEF q
  <2>4. /\ priv'[s].creator = "binding" /\ priv'[s].bindPersistentKey = bindKey
        /\ priv'[s].acquired = p.acquired
    BY <2>1, <2>3, ApplyAuthKeyBinds DEF SetPrivate, TypeOK
  <2>5. /\ NoKey \notin usedPersistent
        /\ bindKey \in usedPersistent' \cup {NoKey}
    <3>1. NoKey \notin usedPersistent
      BY KeyCreationAssumption DEF TypeOK
    <3>2. bindKey \in usedPersistent' \cup {NoKey}
      BY <1>1, <2>2 DEF SavedInv, UsedInv
    <3> QED BY <3>1, <3>2
  <2>6. CdnInv'
    BY <1>1 DEF CdnInv
  <2>7. UsedInv'
    <3>1. \A x \in Sessions : priv'[x].bindPersistentKey \in usedPersistent' \cup {NoKey}
      BY <1>1, <1>2, <2>4, <2>5 DEF SavedInv, UsedInv
    <3> QED BY <1>1, <3>1 DEF SavedInv, UsedInv
  <2>8. CreatedInv'
    <3> SUFFICES ASSUME NEW x \in Sessions, priv'[x].creator = "binding",
                        priv'[x].acquired = "Persistent"
                 PROVE  CreatedKeyIsNew(x)'
      BY DEF CreatedInv
    <3>1. CASE x = s
      <4>1. created \in PersistentKeys \ usedPersistent /\ created # NoKey
        BY <1>1, <2>4, <3>1, KeyCreationAssumption
      <4>2. bindKey = created
        BY <2>2, <4>1
      <4>3. created # persistentKey
        BY <4>1 DEF SavedInv, UsedInv
      <4>4. \A other \in Sessions \ {s} : priv'[other].bindPersistentKey # created
        BY <1>2, <4>1 DEF SavedInv, UsedInv
      <4>5. \A i \in DOMAIN mainQueue : mainQueue[i] # Event("destroyed", created)
        BY <4>1 DEF SavedInv, UsedInv, Event
      <4> QED BY <1>1, <2>4, <3>1, <4>2, <4>3, <4>4, <4>5 DEF CreatedKeyIsNew
    <3>2. CASE x # s
      <4>1. priv'[x] = priv[x] /\ CreatedKeyIsNew(x)
        BY <1>2, <3>2 DEF SavedInv, CreatedInv
      <4>2. priv[x].bindPersistentKey # NoKey
        BY <4>1 DEF KeyInv, PrivateInv
      <4>3. priv[x].bindPersistentKey \in usedPersistent
        BY <4>2 DEF SavedInv, UsedInv
      <4>4. bindKey # priv[x].bindPersistentKey
        BY <1>1, <2>2, <4>1, <4>3 DEF CreatedKeyIsNew
      <4> QED BY <1>1, <1>2, <2>4, <4>1, <4>4 DEF CreatedKeyIsNew
    <3> QED BY <3>1, <3>2
  <2>9. PostedInv' /\ SavedKeyCatchesUp'
    BY <1>1 DEF SavedInv, PostedInv, SavedKeyCatchesUp
  <2> QED BY <1>1, <2>6, <2>7, <2>8, <2>9 DEF SavedInv
<1> QED BY <1>3, <1>4

\* In a CDN data center every finished creation is accepted and gives its
\* flag back.
LEMMA SavedUnboundReadyCdn ==
    ASSUME TypeOK, SavedInv, KeyInv, KeyInv', NEW s \in Sessions, ThreadStep(s),
           NEW key \in TempKeys, UnboundReadyCdn(s, key)
    PROVE  SavedInv'
<1> DEFINE q == ApplyAuthKey(WithoutCreator(priv[s]), key)
           type == myKeyCreation[s]
           last == Len(mainQueue) + 1
<1>1. /\ IsCdn
      /\ SetPrivate(s, q) \/ SetPrivate(s, Restart(q))
      /\ UNCHANGED <<keysForWrite, usedPersistent>>
      /\ persistentKey = NoKey
      /\ \A x \in Sessions : priv[x].creator # "binding"
  BY DEF UnboundReadyCdn, SavedInv, CdnInv
<1>2. /\ WithoutCreator(priv[s]) \in Private
      /\ WithoutCreator(priv[s]).creator = "none"
      /\ WithoutCreator(priv[s]).bindPersistentKey = NoKey
  <2>1. priv[s] \in Private
    BY DEF TypeOK
  <2> QED BY <2>1, WithoutCreatorType DEF WithoutCreator, Private
<1>3. q \in Private /\ q.creator # "binding" /\ q.bindPersistentKey = NoKey
  BY <1>2, ApplyAuthKeyType, ApplyAuthKeyBinds
<1> HIDE DEF q
<1>4. /\ priv'[s].creator # "binding" /\ priv'[s].bindPersistentKey = NoKey
      /\ \A x \in Sessions \ {s} : priv'[x] = priv[x]
  <2>1. Restart(q).creator # "binding" /\ Restart(q).bindPersistentKey = NoKey
    BY <1>3, RestartFields
  <2>2. \A r : SetPrivate(s, r) =>
           priv'[s] = r /\ \A x \in Sessions \ {s} : priv'[x] = priv[x]
    BY DEF SetPrivate, TypeOK
  <2> QED BY <1>1, <1>3, <2>1, <2>2
<1>5. /\ CreatedInv'
      /\ \A x \in Sessions : priv'[x].bindPersistentKey \in usedPersistent' \cup {NoKey}
  BY <1>1, <1>4 DEF CreatedInv, SavedInv, UsedInv
<1>6. CASE ~Attached(s)
  <2>1. UNCHANGED <<dcenter, mainQueue, myKeyCreation>>
    BY <1>6 DEF UnboundReadyCdn
  <2>2. Quiet(s)
    BY <1>1, <1>4, <2>1 DEF Quiet, BinderKept, FlagKept, NeutralPost, dcenter
  <2> QED BY <2>2, SavedQuiet
<1>7. CASE Attached(s)
  <2>1. ReleaseOnDone(s, key, NoKey)
    BY <1>7 DEF UnboundReadyCdn
  <2>2. /\ DoneAccepted(type, NoKey)
        /\ persistentKey' = NoKey
        /\ DcReleaseOnFail(type)
        /\ myKeyCreation' = [myKeyCreation EXCEPT ![s] = "None"]
    BY <1>1, <2>1 DEF ReleaseOnDone, DcReleaseOnDone, DoneAccepted, DcReleaseOnFail
  <2>3. FlagHasCreator'
    <3>1. FlagKept(s)
      BY <2>2 DEF FlagKept
    <3> QED BY <1>1, <3>1, FlagsKept DEF SavedInv
  <2>4. CASE type # "Persistent"
    <3>1. NeutralPost
      BY <2>1, <2>2, <2>4 DEF ReleaseOnDone, NeutralPost
    <3>2. \A x \in Sessions : PrivateInv(priv'[x])
      BY DEF KeyInv
    <3>3. \A x \in Sessions : BinderKept(priv[x], priv'[x])
      BY <1>1, <1>4 DEF BinderKept
    <3> QED BY <1>1, <2>2, <2>3, <3>1, <3>2, <3>3, SavedNeutral DEF SavedInv
  <2>5. CASE type = "Persistent"
    <3>1. PostMain(Event("persistent", NoKey))
      BY <2>1, <2>2, <2>5 DEF ReleaseOnDone
    <3>2. /\ DOMAIN mainQueue' = DOMAIN mainQueue \cup {last}
          /\ \A i \in DOMAIN mainQueue : i < last /\ mainQueue'[i] = mainQueue[i]
          /\ mainQueue'[last] = Event("persistent", NoKey)
          /\ last \notin DOMAIN mainQueue
      BY <3>1, PostedEvents
    <3> HIDE DEF last
    <3>3. mainQueue'[last].kind = "persistent" /\ mainQueue'[last].key = NoKey
      BY <3>2 DEF Event
    <3>4. \A i \in DOMAIN mainQueue' : mainQueue'[i].kind = "destroyed" =>
             mainQueue'[i].key \in usedPersistent
      BY <3>2, <3>3 DEF SavedInv, UsedInv
    <3>5. \A i \in DOMAIN mainQueue' : mainQueue'[i].kind = "persistent" =>
             mainQueue'[i].key = NoKey
      BY <1>1, <3>2, <3>3 DEF SavedInv, PostedInv
    <3>6. NoKey \notin usedPersistent
      BY KeyCreationAssumption DEF TypeOK
    <3>7. PostedInv'
      BY <1>1, <2>2, <3>4, <3>5, <3>6 DEF PostedInv
    <3>8. UsedInv'
      BY <1>1, <1>5, <2>2, <3>4 DEF UsedInv
    <3>9. SavedKeyCatchesUp'
      BY <3>2, <3>3 DEF SavedKeyCatchesUp
    <3>10. CdnInv'
      BY <1>1, <1>4, <2>2 DEF CdnInv
    <3> QED BY <1>5, <2>3, <3>7, <3>8, <3>9, <3>10 DEF SavedInv
  <2> QED BY <2>4, <2>5
<1> QED BY <1>6, <1>7

\* Steps of a network thread keep SavedInv.
LEMMA SavedThreadStep ==
    ASSUME IInv, IInv', SavedInv, NEW s \in Sessions, ThreadStep(s)
    PROVE  SavedInv'
<1>1. /\ TypeOK /\ OrderInv /\ LockInv /\ KeyInv
      /\ KeyInv'
  BY DEF IInv
<1>2. ASSUME NEW key \in TempKeys, NEW created \in PersistentKeys \cup {NoKey},
             UnboundReady(s, key, created)
      PROVE  SavedInv'
  BY <1>1, <1>2, SavedUnboundReady
<1>3. ASSUME NEW key \in TempKeys, UnboundReadyCdn(s, key)
      PROVE  SavedInv'
  BY <1>1, <1>3, SavedUnboundReadyCdn
<1> QED
  BY <1>1, <1>2, <1>3, QuietStep, SavedQuiet, SavedBindSuccess, SavedBindDestroyed

\* Taking an event that no persistent key notices keeps what is known of them.
LEMMA SavedTaken ==
    ASSUME TypeOK, SavedInv, KeyInv, NEW kind, MainTakes(kind), UNCHANGED priv,
           UNCHANGED usedPersistent,
           persistentKey' \in {persistentKey, NoKey},
           \/ UNCHANGED persistentKey
           \/ \A i \in DOMAIN mainQueue' : mainQueue'[i].kind # "persistent",
           (\A i \in DOMAIN mainQueue' : mainQueue'[i].kind # "persistent")
              => keysForWrite' = persistentKey'
    PROVE  /\ CdnInv' /\ UsedInv' /\ CreatedInv' /\ PostedInv'
           /\ SavedKeyCatchesUp'
<1>1. /\ \A i \in DOMAIN mainQueue' :
             i + 1 \in DOMAIN mainQueue /\ mainQueue'[i] = mainQueue[i + 1]
      /\ DOMAIN mainQueue' \subseteq Nat
  BY TakenEvents
<1>2. \A i, j \in DOMAIN mainQueue' : i < j => i + 1 < j + 1
  BY <1>1
<1>3. CdnInv'
  BY DEF SavedInv, CdnInv
<1>4. UsedInv'
  BY <1>1 DEF SavedInv, UsedInv
<1>5. CreatedInv'
  <2>1. \A x \in Sessions : PrivateInv(priv'[x])
    BY DEF KeyInv
  <2>2. \A x \in Sessions : BinderKept(priv[x], priv'[x])
    BY DEF BinderKept
  <2>3. ASSUME NEW x \in Sessions, priv[x].creator = "binding",
               priv[x].acquired = "Persistent", priv'[x].creator = "binding"
        PROVE  /\ priv[x].bindPersistentKey # persistentKey'
               /\ priv'[x].pc = "idle" =>
                    \A i \in DOMAIN mainQueue' :
                       mainQueue'[i] # Event("destroyed", priv[x].bindPersistentKey)
    <3>1. CreatedKeyIsNew(x) /\ priv[x].bindPersistentKey # NoKey
      BY <2>3 DEF SavedInv, CreatedInv, KeyInv, PrivateInv
    <3> QED BY <1>1, <3>1 DEF CreatedKeyIsNew
  <2>4. CreatedInv
    BY DEF SavedInv
  <2> QED BY <2>1, <2>2, <2>3, <2>4, CreatedKept
<1>6. PostedInv'
  BY <1>1, <1>2 DEF SavedInv, PostedInv
<1>7. SavedKeyCatchesUp'
  BY DEF SavedKeyCatchesUp
<1> QED BY <1>3, <1>4, <1>5, <1>6, <1>7

\* Steps of the main thread keep SavedInv.
LEMMA SavedMainStep ==
    ASSUME TypeOK, SavedInv, KeyInv,
           \/ MainProgress
           \/ \E s \in Sessions : StopSession(s) \/ KillSession(s)
           \/ ReInitConnection \/ DcOptionsChanged \/ CdnConfigChanged
    PROVE  SavedInv'
<1>1. ASSUME UNCHANGED <<creatingKeys, myKeyCreation>>
      PROVE  IsCdn => FlagHasCreator'
  BY <1>1 DEF SavedInv, FlagHasCreator, Creates
<1>2. ASSUME NeutralPost, UNCHANGED <<persistentKey, keysForWrite, creatingKeys,
                                       myKeyCreation, priv, usedPersistent>>
      PROVE  SavedInv'
  <2>1. /\ \A x \in Sessions : PrivateInv(priv'[x])
        /\ \A x \in Sessions : BinderKept(priv[x], priv'[x])
    BY <1>2 DEF KeyInv, BinderKept
  <2> QED BY <1>1, <1>2, <2>1, SavedNeutral DEF SavedInv
<1>3. ASSUME NEW s \in Sessions,
             StartSession(s) \/ ResumeSession(s) \/ StopSession(s) \/ KillSession(s)
      PROVE  SavedInv'
  BY <1>2, <1>3
  DEF StartSession, ResumeSession, StopSession, KillSession, NeutralPost, dcenter,
      instance, server
<1>4. CASE ReInitConnection \/ DcOptionsChanged \/ CdnConfigChanged
  BY <1>2, <1>4
  DEF ReInitConnection, DcOptionsChanged, CdnConfigChanged, NeutralPost, dcenter,
      instance, sessions, server
<1>5. ASSUME NEW kind, MainTakes(kind), kind # "persistent",
             UNCHANGED <<persistentKey, keysForWrite, priv, usedPersistent>>
      PROVE  CdnInv' /\ UsedInv' /\ CreatedInv' /\ PostedInv' /\ SavedKeyCatchesUp'
  <2>1. (\A i \in DOMAIN mainQueue' : mainQueue'[i].kind # "persistent")
           => keysForWrite' = persistentKey'
    <3>1. /\ mainQueue[1].kind = kind
          /\ \A i \in DOMAIN mainQueue :
                i # 1 => i - 1 \in DOMAIN mainQueue' /\ mainQueue'[i - 1] = mainQueue[i]
      BY <1>5, TakenEvents
    <3> QED BY <1>5, <3>1 DEF SavedInv, SavedKeyCatchesUp
  <2> QED BY <1>5, <2>1, SavedTaken
<1>6. CASE HandleTemporaryKeyChanged
  BY <1>1, <1>5, <1>6 DEF HandleTemporaryKeyChanged, dcenter, sessions, server, SavedInv
<1>7. CASE HandlePersistentKeyChanged
  <2>1. /\ MainTakes("persistent")
        /\ keysForWrite' = Head(mainQueue).key
        /\ UNCHANGED <<persistentKey, creatingKeys, myKeyCreation, priv, usedPersistent>>
    BY <1>7 DEF HandlePersistentKeyChanged, dcenter, sessions, server
  <2>2. Head(mainQueue).key = persistentKey
    <3>1. /\ 1 \in DOMAIN mainQueue /\ Head(mainQueue) = mainQueue[1]
          /\ mainQueue[1].kind = "persistent"
      BY <2>1, TakenEvents
    <3> QED BY <3>1 DEF SavedInv, PostedInv
  <2> QED BY <1>1, <2>1, <2>2, SavedTaken DEF SavedInv
<1>8. CASE HandleKeyDestroyedOnServer
  <2>1. /\ MainTakes("destroyed")
        /\ UNCHANGED <<creatingKeys, myKeyCreation, priv, usedPersistent>>
        /\ IF persistentKey = Head(mainQueue).key
           THEN persistentKey' = NoKey /\ keysForWrite' = NoKey
           ELSE UNCHANGED <<persistentKey, keysForWrite>>
    BY <1>8 DEF HandleKeyDestroyedOnServer, sessions, server
  <2>2. CASE persistentKey = Head(mainQueue).key
    <3>1. \A i \in DOMAIN mainQueue' : mainQueue'[i].kind # "persistent"
      <4> SUFFICES ASSUME NEW i \in DOMAIN mainQueue', mainQueue'[i].kind = "persistent"
                   PROVE  FALSE
        OBVIOUS
      <4>1. /\ 1 \in DOMAIN mainQueue /\ Head(mainQueue) = mainQueue[1]
            /\ mainQueue[1].kind = "destroyed"
            /\ i + 1 \in DOMAIN mainQueue /\ mainQueue'[i] = mainQueue[i + 1]
            /\ i \in Nat /\ i + 1 # 1
            /\ DOMAIN mainQueue \subseteq Nat
        BY <2>1, TakenEvents
      <4>2. 1 < i + 1
        <5>1. mainQueue \in Seq(MainEvent)
          BY DEF TypeOK
        <5> QED BY <4>1, <5>1
      <4>3. mainQueue[i + 1].key = persistentKey
        BY <4>1 DEF SavedInv, PostedInv
      <4>4. mainQueue[1].key # mainQueue[i + 1].key
        BY <4>1, <4>2 DEF SavedInv, PostedInv
      <4> QED BY <2>2, <4>1, <4>3, <4>4
    <3> QED BY <1>1, <2>1, <2>2, <3>1, SavedTaken DEF SavedInv
  <2>3. CASE persistentKey # Head(mainQueue).key
    BY <1>1, <1>5, <2>1, <2>3 DEF SavedInv
  <2> QED BY <2>2, <2>3
<1>9. CASE HandleClear
  <2> DEFINE killed == {s \in Sessions : session[s] = "killed"}
             held == {IndexByType(myKeyCreation[s]) :
                        s \in {x \in killed : myKeyCreation[x] # "None"}}
  <2>1. /\ MainTakes("clear")
        /\ myKeyCreation' = [s \in Sessions |->
              IF s \in killed THEN "None" ELSE myKeyCreation[s]]
        /\ creatingKeys' = [t \in TemporaryKeyType |-> creatingKeys[t] /\ t \notin held]
        /\ UNCHANGED <<persistentKey, keysForWrite, priv, usedPersistent>>
    BY <1>9 DEF HandleClear, server
  <2>2. ASSUME IsCdn
        PROVE  FlagHasCreator'
    <3> SUFFICES ASSUME NEW t \in TemporaryKeyType, creatingKeys'[t]
                 PROVE  \E x \in Sessions : Creates(x, t)'
      BY DEF FlagHasCreator
    <3>1. creatingKeys[t] /\ t \notin held
      BY <2>1
    <3>2. PICK x \in Sessions : Creates(x, t)
      BY <2>2, <3>1 DEF SavedInv, FlagHasCreator
    <3>3. x \notin killed
      BY <3>1, <3>2 DEF Creates
    <3> QED BY <2>1, <3>2, <3>3 DEF Creates
  <2> QED BY <1>5, <2>1, <2>2 DEF SavedInv
<1> QED BY <1>3, <1>4, <1>6, <1>7, <1>8, <1>9 DEF MainProgress

\* SavedInv holds at launch.
LEMMA SavedInit == Init => SavedInv
<1> SUFFICES ASSUME Init PROVE SavedInv
  OBVIOUS
<1>1. \A s \in Sessions : priv[s].creator = "none" /\ priv[s].bindPersistentKey = NoKey
  BY DEF Init, NewPrivate
<1>2. mainQueue = <<>> /\ persistentKey = LoadedKey /\ keysForWrite = LoadedKey
      /\ usedPersistent = {LoadedKey} \ {NoKey}
      /\ creatingKeys = [t \in TemporaryKeyType |-> FALSE]
  BY DEF Init
<1>3. CdnInv /\ UsedInv /\ CreatedInv
  BY <1>1, <1>2, KeyCreationAssumption DEF CdnInv, UsedInv, CreatedInv
<1>4. PostedInv /\ SavedKeyCatchesUp /\ FlagHasCreator
  BY <1>2 DEF PostedInv, SavedKeyCatchesUp, FlagHasCreator
<1> QED BY <1>3, <1>4 DEF SavedInv

\* SavedInv is inductive, given IInv.
LEMMA SavedStep == IInv /\ IInv' /\ SavedInv /\ [Next]_vars => SavedInv'
<1> SUFFICES ASSUME IInv, IInv', SavedInv, [Next]_vars PROVE SavedInv'
  OBVIOUS
<1>1. ASSUME NEW s \in Sessions, ThreadStep(s)
      PROVE  SavedInv'
  BY <1>1, SavedThreadStep
<1>2. ASSUME \/ MainProgress
             \/ \E s \in Sessions : StopSession(s) \/ KillSession(s)
             \/ ReInitConnection \/ DcOptionsChanged \/ CdnConfigChanged
      PROVE  SavedInv'
  BY <1>2, SavedMainStep DEF IInv
<1>3. ASSUME UNCHANGED <<dcenter, instance, sessions, privates, usedPersistent>>
      PROVE  SavedInv'
  BY <1>3
  DEF SavedInv, CdnInv, UsedInv, CreatedInv, CreatedKeyIsNew, PostedInv,
      SavedKeyCatchesUp, FlagHasCreator, Creates, dcenter, instance, sessions, privates
<1>4. ASSUME NEW key \in PersistentKeys, ServerForgets(key)
      PROVE  SavedInv'
  BY <1>3, <1>4 DEF ServerForgets
<1>5. CASE Progress
  BY <1>1, <1>2, <1>5 DEF Progress, ThreadStep
<1>6. CASE Disturbance
  <2>1. \/ \E s \in Sessions : ThreadStep(s)
        \/ \E s \in Sessions : StopSession(s) \/ KillSession(s)
        \/ ReInitConnection \/ DcOptionsChanged \/ CdnConfigChanged
        \/ \E key \in PersistentKeys : ServerForgets(key)
    BY <1>6, Zenon DEF Disturbance, ThreadStep
  <2> QED BY <1>1, <1>2, <1>4, <2>1
<1>7. CASE UNCHANGED vars
  BY <1>3, <1>7 DEF vars, server
<1> QED BY <1>5, <1>6, <1>7 DEF Next

\* SavedInv holds in every reachable state.
LEMMA SavedInvariance == Spec => []SavedInv
BY SavedInit, SavedStep, Invariance, PTL DEF Spec

-----------------------------------------------------------------------------
\* Two threads post what happens to the persistent key, and the main thread
\* hears of it later: when it has heard everything, what it writes to disk is
\* the persistent key of the Dcenter, however creations, installations and
\* destructions of keys were interleaved.
THEOREM SavedKeyIsInstalled == Spec => []SavedKeyCatchesUp
<1>1. SavedInv => SavedKeyCatchesUp
  BY DEF SavedInv
<1> QED BY <1>1, SavedInvariance, PTL

\* In a CDN data center no creation flag is left behind: a session that waits
\* for a key waits for somebody.  With bound keys a refused one is left set.
THEOREM CdnFlagHasCreator ==
    ASSUME IsCdn
    PROVE  Spec => []FlagHasCreator
<1>1. SavedInv => FlagHasCreator
  BY DEF SavedInv
<1> QED BY <1>1, SavedInvariance, PTL

=============================================================================
