-------------------------- MODULE KeyCreationTypes --------------------------
(* Type correctness of KeyCreation, for any number of sessions and keys.    *)
EXTENDS KeyCreation, SequenceTheorems, TLAPS

-----------------------------------------------------------------------------
(* The helpers of SessionPrivate give a SessionPrivate back.                *)

\* A new SessionPrivate is one.
LEMMA NewPrivateType ==
    ASSUME NEW type \in DcType, NEW conn \in {"absent", "down"}
    PROVE  NewPrivate(type, conn) \in Private
BY DEF NewPrivate, Private, CreatingKeyType

\* The operators on a SessionPrivate return one: destroyAllConnections, ...
LEMMA DestroyAllConnectionsType ==
    ASSUME NEW p \in Private
    PROVE  DestroyAllConnections(p) \in Private
BY ZenonT(60) DEF DestroyAllConnections, Private

\* ... restart, ...
LEMMA RestartType ==
    ASSUME NEW p \in Private
    PROVE  Restart(p) \in Private
BY DestroyAllConnectionsType DEF Restart, Private

\* ... the state of a connection attempt, ...
LEMMA TestingType ==
    ASSUME NEW p \in Private
    PROVE  [p EXCEPT !.conn = "testing", !.bindMsg = "none"] \in Private
BY Zenon DEF Private

\* ... clearUnboundKeyCreator, ...
LEMMA WithoutCreatorType ==
    ASSUME NEW p \in Private
    PROVE  WithoutCreator(p) \in Private
BY DEF WithoutCreator, Private, CreatingKeyType

\* ... the start of a key creator, ...
LEMMA StartCreatorType ==
    ASSUME NEW p \in Private
    PROVE  StartCreator(p) \in Private
BY DEF StartCreator, Private

\* ... and applyAuthKey.
LEMMA ApplyAuthKeyType ==
    ASSUME NEW p \in Private, NEW key \in TempKeys \cup {NoKey}
    PROVE  ApplyAuthKey(p, key) \in Private
<1>1. [p EXCEPT !.encryptionKey = key] \in Private
  BY DEF Private
<1>2. [p EXCEPT !.encryptionKey = key, !.keyId = NoKey] \in Private
  BY DEF Private
<1>3. [p EXCEPT !.encryptionKey = key, !.keyId = key] \in Private
  BY DEF Private
<1>4. [p EXCEPT !.encryptionKey = NoKey, !.pc = "checkMedia"] \in Private
  BY DEF Private
<1>5. [p EXCEPT !.encryptionKey = NoKey] \in Private
  BY DEF Private
<1> QED BY <1>1, <1>2, <1>3, <1>4, <1>5, RestartType, StartCreatorType DEF ApplyAuthKey

\* Posting keeps the type of the network threads' queues.
LEMMA PostToType ==
    ASSUME NEW S, NEW events \in Seq(PrivateEvent), PostTo(S, events),
           queue \in [Sessions -> Seq(PrivateEvent)]
    PROVE  queue' \in [Sessions -> Seq(PrivateEvent)]
BY ConcatProperties DEF PostTo

-----------------------------------------------------------------------------
(* Typing of the shared parts of the actions.                               *)

\* Posting keeps the type of the main queue.
LEMMA PostMainType ==
    ASSUME NEW event \in MainEvent, PostMain(event), mainQueue \in Seq(MainEvent)
    PROVE  mainQueue' \in Seq(MainEvent)
BY AppendProperties DEF PostMain

\* Taking an event keeps the type of the main queue, ...
LEMMA MainTakesType ==
    ASSUME NEW kind, MainTakes(kind), mainQueue \in Seq(MainEvent)
    PROVE  /\ mainQueue' \in Seq(MainEvent)
           /\ Head(mainQueue) \in MainEvent
BY HeadTailProperties DEF MainTakes

\* ... and of the queue of a network thread.
LEMMA TakesType ==
    ASSUME NEW s \in Sessions, NEW event, Takes(s, event),
           queue \in [Sessions -> Seq(PrivateEvent)]
    PROVE  queue' \in [Sessions -> Seq(PrivateEvent)]
BY HeadTailProperties DEF Takes

\* acquireKeyCreation returns a CreatingKeyType.
LEMMA AcquiredType ==
    ASSUME NEW type
    PROVE  Acquired(type) \in CreatingKeyType
BY DEF Acquired, CreatingKeyType

\* destroyTemporaryKey keeps all types.
LEMMA DestroyTemporaryKeyType ==
    ASSUME TypeOK, NEW s \in Sessions, NEW p \in Private,
           DestroyTemporaryKey(s, p)
    PROVE  /\ temporaryKeys' \in [TemporaryKeyType -> TempKeys \cup {NoKey}]
           /\ persistentKey' = persistentKey
           /\ creatingKeys' \in [TemporaryKeyType -> BOOLEAN]
           /\ connectionInited' \in BOOLEAN
           /\ mainQueue' \in Seq(MainEvent)
           /\ myKeyCreation' \in [Sessions -> CreatingKeyType]
           /\ priv' \in [Sessions -> Private]
<1>1. Event("temporary", NoKey) \in MainEvent
  BY DEF Event, MainEvent
<1>2. mainQueue' \in Seq(MainEvent)
  BY <1>1, PostMainType DEF DestroyTemporaryKey, TypeOK
<1>3. [Restart(WithoutCreator(p)) EXCEPT
          !.encryptionKey = NoKey, !.keyId = NoKey, !.pc = "idle"] \in Private
  <2>1. Restart(WithoutCreator(p)) \in Private
    BY WithoutCreatorType, RestartType
  <2> QED BY <2>1 DEF Private
<1>4. priv' \in [Sessions -> Private]
  BY <1>3 DEF DestroyTemporaryKey, SetPrivate, TypeOK
<1>5. /\ creatingKeys' \in [TemporaryKeyType -> BOOLEAN]
      /\ myKeyCreation' \in [Sessions -> CreatingKeyType]
  BY DEF DestroyTemporaryKey, ReleaseOnFail, DcReleaseOnFail, TypeOK, CreatingKeyType
<1>6. /\ temporaryKeys' \in [TemporaryKeyType -> TempKeys \cup {NoKey}]
      /\ connectionInited' \in BOOLEAN
      /\ persistentKey' = persistentKey
  BY DEF DestroyTemporaryKey, WithoutTemporaryKey, TypeOK
<1> QED BY <1>2, <1>4, <1>5, <1>6

\* connectToServer keeps the types it changes.
LEMMA ConnectToServerType ==
    ASSUME TypeOK, NEW s \in Sessions, NEW p \in Private,
           NEW outcome \in {"testing", "waiting", "restart"},
           ConnectToServer(s, p, outcome)
    PROVE  /\ temporaryKeys' \in [TemporaryKeyType -> TempKeys \cup {NoKey}]
           /\ persistentKey' = persistentKey
           /\ creatingKeys' \in [TemporaryKeyType -> BOOLEAN]
           /\ connectionInited' \in BOOLEAN
           /\ mainQueue' \in Seq(MainEvent)
           /\ myKeyCreation' \in [Sessions -> CreatingKeyType]
           /\ priv' \in [Sessions -> Private]
<1> DEFINE q == [DestroyAllConnections(p) EXCEPT !.realDcType = DcTypeOf(s)]
           acquired == IF q.creator = "none" /\ Attached(s)
                       THEN Acquired(q.realDcType) ELSE "None"
           r == IF q.creator # "none" THEN q
                ELSE [q EXCEPT
                    !.currentDcType = AcquiredDcType(q, acquired),
                    !.creator = IF acquired = "None" THEN "none" ELSE "idle",
                    !.acquired = acquired]
<1>1. q \in Private
  <2>1. DcTypeOf(s) \in DcType
    BY DEF DcTypeOf, DcType
  <2> QED BY <2>1, DestroyAllConnectionsType DEF Private
<1>2. acquired \in CreatingKeyType
  BY AcquiredType DEF CreatingKeyType
<1> HIDE DEF q, acquired
<1>3. r \in Private
  <2>1. AcquiredDcType(q, acquired) \in DcType
    BY <1>1 DEF AcquiredDcType, Private, DcType
  <2>2. \A type \in DcType, creator \in {"none", "idle"}, a \in CreatingKeyType :
          [q EXCEPT !.currentDcType = type, !.creator = creator, !.acquired = a]
            \in Private
    BY <1>1 DEF Private
  <2>3. (IF acquired = "None" THEN "none" ELSE "idle") \in {"none", "idle"}
    OBVIOUS
  <2> QED BY <1>1, <1>2, <2>1, <2>2, <2>3
<1> HIDE DEF r
<1>4. CASE p.realDcType # q.realDcType /\ q.creator # "none"
  <2>1. DestroyTemporaryKey(s, q)
    BY <1>4 DEF ConnectToServer, q
  <2> QED BY <1>1, <2>1, DestroyTemporaryKeyType
<1>5. CASE ~(p.realDcType # q.realDcType /\ q.creator # "none")
  <2>1. /\ IF q.creator = "none" /\ Attached(s)
           THEN AcquireKeyCreation(s, acquired)
           ELSE UNCHANGED <<myKeyCreation, creatingKeys>>
        /\ SetPrivate(s, CASE
              outcome = "testing" ->
                  [r EXCEPT !.conn = "testing", !.bindMsg = "none"]
              [] outcome = "waiting" -> r
              [] outcome = "restart" -> Restart(r))
        /\ UNCHANGED <<temporaryKeys, persistentKey, connectionInited, mainQueue>>
    BY <1>5 DEF ConnectToServer, q, acquired, r
  <2>2. /\ creatingKeys' \in [TemporaryKeyType -> BOOLEAN]
        /\ myKeyCreation' \in [Sessions -> CreatingKeyType]
    BY <2>1, <1>2 DEF AcquireKeyCreation, TypeOK
  <2>3. /\ [r EXCEPT !.conn = "testing", !.bindMsg = "none"] \in Private
        /\ Restart(r) \in Private
    BY <1>3, RestartType, TestingType
  <2>4. priv' \in [Sessions -> Private]
    BY <2>1, <2>3, <1>3 DEF SetPrivate, TypeOK
  <2> QED BY <2>1, <2>2, <2>4 DEF TypeOK
<1> QED BY <1>4, <1>5

\* Session::start keeps the types it changes.
LEMMA SessionStartType ==
    ASSUME TypeOK, NEW s \in Sessions, SessionStart(s)
    PROVE  /\ queue' \in [Sessions -> Seq(PrivateEvent)]
           /\ hasPrivate' \in [Sessions -> BOOLEAN]
<1>1. /\ <<"delete", "start">> \in Seq(PrivateEvent)
      /\ <<"start">> \in Seq(PrivateEvent)
  BY DEF PrivateEvent
<1> QED BY <1>1, ConcatProperties DEF SessionStart, TypeOK

\* Session::killConnection keeps the types it changes.
LEMMA KillConnectionType ==
    ASSUME TypeOK, NEW s \in Sessions, KillConnection(s)
    PROVE  /\ queue' \in [Sessions -> Seq(PrivateEvent)]
           /\ hasPrivate' \in [Sessions -> BOOLEAN]
<1>1. "delete" \in PrivateEvent
  BY DEF PrivateEvent
<1> QED BY <1>1, AppendProperties DEF KillConnection, TypeOK

\* Finishing a creation keeps the types it changes.
LEMMA ReleaseOnDoneType ==
    ASSUME TypeOK, NEW s \in Sessions, NEW key \in TempKeys \cup {NoKey},
           NEW used \in PersistentKeys \cup {NoKey}, ReleaseOnDone(s, key, used)
    PROVE  /\ temporaryKeys' \in [TemporaryKeyType -> TempKeys \cup {NoKey}]
           /\ persistentKey' \in PersistentKeys \cup {NoKey}
           /\ creatingKeys' \in [TemporaryKeyType -> BOOLEAN]
           /\ connectionInited' \in BOOLEAN
           /\ mainQueue' \in Seq(MainEvent)
           /\ myKeyCreation' \in [Sessions -> CreatingKeyType]
<1>1. /\ Event("temporary", NoKey) \in MainEvent
      /\ Event("persistent", used) \in MainEvent
  BY DEF Event, MainEvent
<1>2. mainQueue' \in Seq(MainEvent)
  BY <1>1, PostMainType DEF ReleaseOnDone, TypeOK
<1>3. myKeyCreation' \in [Sessions -> CreatingKeyType]
  BY DEF ReleaseOnDone, TypeOK, CreatingKeyType
<1>4. DcReleaseOnDone(myKeyCreation[s], key, used)
  BY DEF ReleaseOnDone
<1> QED BY <1>2, <1>3, <1>4 DEF DcReleaseOnDone, TypeOK, dcenter

\* getTemporaryKey returns a temporary key or none.
LEMMA GetTemporaryKeyType ==
    ASSUME TypeOK, NEW s \in Sessions, NEW type \in TemporaryKeyType
    PROVE  GetTemporaryKey(s, type) \in TempKeys \cup {NoKey}
BY DEF GetTemporaryKey, TypeOK

\* Every dc type has a TemporaryKeyType.
LEMMA KeyTypeOf ==
    ASSUME NEW type
    PROVE  TemporaryKeyTypeByDcType(type) \in TemporaryKeyType
BY DEF TemporaryKeyTypeByDcType, TemporaryKeyType

\* Steps of the main thread keep the types.
LEMMA MainTypeStep ==
    ASSUME TypeOK,
           \/ MainProgress
           \/ \E s \in Sessions : StopSession(s) \/ KillSession(s)
           \/ ReInitConnection \/ DcOptionsChanged \/ CdnConfigChanged
    PROVE  TypeOK'
<1>0. /\ <<"restart">> \in Seq(PrivateEvent)
      /\ <<"config">> \in Seq(PrivateEvent)
      /\ <<"updateKey">> \in Seq(PrivateEvent)
      /\ <<"updateKey", "restart">> \in Seq(PrivateEvent)
  BY DEF PrivateEvent
<1>1. ASSUME NEW s \in Sessions, StartSession(s)
      PROVE  TypeOK'
  BY <1>1, SessionStartType DEF StartSession, TypeOK, dcenter, instance, server
<1>2. ASSUME NEW s \in Sessions, ResumeSession(s)
      PROVE  TypeOK'
  BY <1>2, SessionStartType DEF ResumeSession, TypeOK, dcenter, instance, server
<1>3. ASSUME NEW s \in Sessions, StopSession(s)
      PROVE  TypeOK'
  BY <1>3, KillConnectionType DEF StopSession, TypeOK, dcenter, instance, server
<1>4. ASSUME NEW s \in Sessions, KillSession(s)
      PROVE  TypeOK'
  <2>1. Event("clear", NoKey) \in MainEvent
    BY DEF Event, MainEvent
  <2> QED
    BY <1>4, <2>1, KillConnectionType, PostMainType
    DEF KillSession, TypeOK, dcenter, server
<1>5. ASSUME ReInitConnection
      PROVE  TypeOK'
  BY <1>0, <1>5, PostToType DEF ReInitConnection, TypeOK, instance, sessions, server
<1>6. ASSUME DcOptionsChanged
      PROVE  TypeOK'
  BY <1>0, <1>6, PostToType DEF DcOptionsChanged, TypeOK, dcenter, sessions, server
<1>7. ASSUME CdnConfigChanged
      PROVE  TypeOK'
  BY <1>0, <1>7, PostToType
  DEF CdnConfigChanged, TypeOK, dcenter, instance, sessions, server
<1>8. ASSUME HandleTemporaryKeyChanged
      PROVE  TypeOK'
  BY <1>0, <1>8, PostToType, MainTakesType
  DEF HandleTemporaryKeyChanged, DcTemporaryKeyChanged, TypeOK, dcenter,
      sessions, server
<1>9. ASSUME HandlePersistentKeyChanged
      PROVE  TypeOK'
  <2>1. Head(mainQueue).key \in PersistentKeys \cup {NoKey}
    BY <1>9, MainTakesType DEF HandlePersistentKeyChanged, MainEvent, TypeOK
  <2> QED
    BY <1>0, <1>9, <2>1, PostToType, MainTakesType
    DEF HandlePersistentKeyChanged, DcTemporaryKeyChanged, TypeOK, dcenter,
        sessions, server
<1>10. ASSUME HandleKeyDestroyedOnServer
       PROVE  TypeOK'
  <2>1. /\ queue' \in [Sessions -> Seq(PrivateEvent)]
        /\ mainQueue' \in Seq(MainEvent)
    BY <1>0, <1>10, PostToType, MainTakesType DEF HandleKeyDestroyedOnServer, TypeOK
  <2> QED
    BY <1>10, <2>1 DEF HandleKeyDestroyedOnServer, TypeOK, sessions, server
<1>11. ASSUME HandleClear
       PROVE  TypeOK'
  <2>1. mainQueue' \in Seq(MainEvent)
    BY <1>11, MainTakesType DEF HandleClear, TypeOK
  <2>2. /\ session' \in [Sessions -> {"none", "live", "killed", "gone"}]
        /\ myKeyCreation' \in [Sessions -> CreatingKeyType]
    BY <1>11 DEF HandleClear, TypeOK, CreatingKeyType
  <2>3. creatingKeys' \in [TemporaryKeyType -> BOOLEAN]
    BY <1>11 DEF HandleClear, TypeOK
  <2> QED
    BY <1>11, <2>1, <2>2, <2>3 DEF HandleClear, TypeOK, server
<1> QED
  BY <1>1, <1>2, <1>3, <1>4, <1>5, <1>6, <1>7, <1>8, <1>9, <1>10, <1>11
  DEF MainProgress

\* Steps of the network threads keep the types.
LEMMA ThreadTypeStep ==
    ASSUME TypeOK, NEW s \in Sessions,
           \/ ThreadProgress(s)
           \/ OnDisconnected(s) \/ OnTimeout(s) \/ OnKeyRejected(s)
           \/ UnboundFailed(s)
    PROVE  TypeOK'
<1> DEFINE p == priv[s]
<1>0. p \in Private
  BY DEF TypeOK
<1>1. ASSUME NEW outcome \in {"testing", "waiting", "restart"},
             NEW q \in Private, ConnectToServer(s, q, outcome),
             queue' \in [Sessions -> Seq(PrivateEvent)],
             UNCHANGED <<keysForWrite, mediaOnly, session, hasPrivate, server>>
      PROVE  TypeOK'
  BY <1>1, ConnectToServerType DEF TypeOK, server
<1>2. CASE OnStart(s)
  <2>1. DcTypeOf(s) \in DcType
    BY DEF DcTypeOf, DcType
  <2>2. NewPrivate(DcTypeOf(s), "down") \in Private
    BY <2>1, NewPrivateType
  <2> QED BY <1>1, <1>2, <2>2, TakesType DEF OnStart, TypeOK
<1>3. CASE OnConnect(s)
  BY <1>0, <1>1, <1>3, TakesType DEF OnConnect, TypeOK
<1>4. CASE RetryByTimer(s)
  <2>1. [p EXCEPT !.conn = "down"] \in Private
    BY <1>0 DEF Private
  <2> QED BY <1>1, <1>4, <2>1 DEF RetryByTimer, TypeOK
<1>5. CASE OnConfig(s)
  <2>1. CASE priv[s].conn \in {"testing", "up"}
    BY <1>5, <2>1, TakesType DEF OnConfig, TypeOK, dcenter, server
  <2>2. CASE priv[s].conn \notin {"testing", "up"}
    <3>1. PICK outcome \in {"testing", IF IsCdn THEN "waiting" ELSE "restart"} :
             ConnectToServer(s, priv[s], outcome)
      BY <1>5, <2>2 DEF OnConfig
    <3>2. outcome \in {"testing", "waiting", "restart"}
      OBVIOUS
    <3> QED BY <1>0, <1>1, <1>5, <3>1, <3>2, TakesType DEF OnConfig, TypeOK
  <2> QED BY <2>1, <2>2
<1>6. ASSUME NEW q \in Private, SetPrivate(s, q),
             queue' \in [Sessions -> Seq(PrivateEvent)],
             UNCHANGED <<dcenter, instance, sessions, server>>
      PROVE  TypeOK'
  BY <1>6 DEF SetPrivate, TypeOK, dcenter, instance, sessions, server
<1>7. CASE OnRestart(s)
  BY <1>0, <1>6, <1>7, RestartType, TakesType DEF OnRestart, TypeOK
<1>8. CASE OnDelete(s)
  <2>1. NewPrivate("Regular", "absent") \in Private
    BY NewPrivateType DEF DcType
  <2>2. priv' \in [Sessions -> Private]
    BY <1>8, <2>1 DEF OnDelete, SetPrivate, TypeOK
  <2>3. /\ creatingKeys' \in [TemporaryKeyType -> BOOLEAN]
        /\ myKeyCreation' \in [Sessions -> CreatingKeyType]
    BY <1>8 DEF OnDelete, ReleaseOnFail, DcReleaseOnFail, TypeOK, CreatingKeyType
  <2> QED BY <1>8, <2>2, <2>3, TakesType DEF OnDelete, TypeOK, instance, server
<1>9. ASSUME NEW q \in Private
      PROVE  ApplyAuthKey(q, GetTemporaryKey(s,
                TemporaryKeyTypeByDcType(q.currentDcType))) \in Private
  BY KeyTypeOf, GetTemporaryKeyType, ApplyAuthKeyType
<1>10. CASE OnUpdateKey(s)
  BY <1>0, <1>6, <1>9, <1>10, TakesType DEF OnUpdateKey, TypeOK
<1>11. CASE OnConnected(s)
  <2>1. [p EXCEPT !.conn = "up"] \in Private
    BY <1>0 DEF Private
  <2> QED BY <1>6, <1>9, <1>11, <2>1 DEF OnConnected, TypeOK
<1>12. CASE OnDisconnected(s)
  BY <1>0, <1>6, <1>12, RestartType DEF OnDisconnected, TypeOK
<1>13. CASE OnTimeout(s)
  <2>1. queue' \in [Sessions -> Seq(PrivateEvent)]
    <3>1. "connect" \in PrivateEvent
      BY DEF PrivateEvent
    <3>2. Append(queue[s], "connect") \in Seq(PrivateEvent)
      BY <3>1, AppendProperties DEF TypeOK
    <3> QED BY <1>13, <3>2 DEF OnTimeout, TypeOK
  <2> QED BY <1>0, <1>6, <1>13, <2>1, DestroyAllConnectionsType DEF OnTimeout
<1>14. CASE OnKeyRejected(s)
  BY <1>0, <1>14, DestroyTemporaryKeyType DEF OnKeyRejected, TypeOK, server
<1>15. CASE FinishDestroyKey(s)
  BY <1>0, <1>15, DestroyTemporaryKeyType DEF FinishDestroyKey, TypeOK, server
<1>16. CASE CheckMedia(s)
  <2>1. [p EXCEPT !.pc = IF GetTemporaryKey(s, "Regular") # NoKey
                         THEN "acquireMedia" ELSE "idle"] \in Private
    BY <1>0 DEF Private
  <2> QED BY <1>6, <1>16, <2>1 DEF CheckMedia, TypeOK
<1>17. CASE AcquireMedia(s)
  <2> DEFINE q == [p EXCEPT !.pc = "idle"]
             acquired == IF Attached(s) THEN Acquired(q.realDcType) ELSE "None"
             r == [q EXCEPT !.creator = "idle", !.acquired = acquired]
  <2>1. q \in Private
    BY <1>0 DEF Private
  <2>2. acquired \in CreatingKeyType
    BY AcquiredType DEF CreatingKeyType
  <2> HIDE DEF q, acquired
  <2>3. r \in Private
    BY <2>1, <2>2 DEF Private
  <2>4. priv' \in [Sessions -> Private]
    BY <1>17, <2>1, <2>3, RestartType, StartCreatorType
    DEF AcquireMedia, SetPrivate, TypeOK, q, acquired
  <2>5. /\ creatingKeys' \in [TemporaryKeyType -> BOOLEAN]
        /\ myKeyCreation' \in [Sessions -> CreatingKeyType]
    BY <1>17, <2>2 DEF AcquireMedia, AcquireKeyCreation, TypeOK, q, acquired
  <2> QED BY <1>17, <2>4, <2>5 DEF AcquireMedia, TypeOK, instance, server
<1>18. CASE UnboundFailed(s)
  <2>1. priv' \in [Sessions -> Private]
    BY <1>0, <1>18, WithoutCreatorType, RestartType
    DEF UnboundFailed, SetPrivate, TypeOK
  <2>2. /\ creatingKeys' \in [TemporaryKeyType -> BOOLEAN]
        /\ myKeyCreation' \in [Sessions -> CreatingKeyType]
    BY <1>18 DEF UnboundFailed, ReleaseOnFail, DcReleaseOnFail, TypeOK, CreatingKeyType
  <2> QED BY <1>18, <2>1, <2>2 DEF UnboundFailed, TypeOK, instance, server
<1>19. ASSUME NEW key \in TempKeys, NEW created \in PersistentKeys \cup {NoKey},
              UnboundReady(s, key, created)
       PROVE  TypeOK'
  <2> DEFINE bindKey == IF created # NoKey THEN created
                        ELSE IF Attached(s) THEN persistentKey ELSE NoKey
             q == [p EXCEPT !.creator = "binding", !.bindPersistentKey = bindKey]
  <2>1. bindKey \in PersistentKeys \cup {NoKey}
    BY DEF TypeOK
  <2> HIDE DEF bindKey
  <2>2. q \in Private
    BY <1>0, <2>1 DEF Private
  <2>3. priv' \in [Sessions -> Private]
    <3>1. ApplyAuthKey(q, key) \in Private /\ Restart(WithoutCreator(p)) \in Private
      BY <1>0, <2>2, ApplyAuthKeyType, WithoutCreatorType, RestartType
    <3>2. SetPrivate(s, ApplyAuthKey(q, key)) \/ SetPrivate(s, Restart(WithoutCreator(p)))
      BY <1>19 DEF UnboundReady, bindKey
    <3> QED BY <3>1, <3>2 DEF SetPrivate, TypeOK
  <2>4. /\ creatingKeys' \in [TemporaryKeyType -> BOOLEAN]
        /\ myKeyCreation' \in [Sessions -> CreatingKeyType]
    BY <1>19
    DEF UnboundReady, ReleaseOnFail, DcReleaseOnFail, TypeOK, CreatingKeyType
  <2>5. usedTemp' \subseteq TempKeys /\ usedPersistent' \subseteq PersistentKeys
    BY <1>19 DEF UnboundReady, TypeOK
  <2> QED BY <1>19, <2>3, <2>4, <2>5 DEF UnboundReady, TypeOK, instance
<1>20. ASSUME NEW key \in TempKeys, UnboundReadyCdn(s, key)
       PROVE  TypeOK'
  <2> DEFINE q == ApplyAuthKey(WithoutCreator(p), key)
  <2>1. q \in Private /\ Restart(q) \in Private
    BY <1>0, ApplyAuthKeyType, WithoutCreatorType, RestartType
  <2>2. priv' \in [Sessions -> Private]
    BY <1>20, <2>1 DEF UnboundReadyCdn, SetPrivate, TypeOK
  <2>3. CASE Attached(s)
    <3>1. ReleaseOnDone(s, key, NoKey)
      BY <1>20, <2>3 DEF UnboundReadyCdn
    <3> QED BY <1>20, <2>2, <3>1, ReleaseOnDoneType DEF UnboundReadyCdn, TypeOK
  <2>4. CASE ~Attached(s)
    BY <1>20, <2>2, <2>4 DEF UnboundReadyCdn, TypeOK, dcenter
  <2> QED BY <2>3, <2>4
<1>21. CASE SendBind(s)
  <2>1. [p EXCEPT !.bindMsg = "sent"] \in Private
    BY <1>0 DEF Private
  <2> QED BY <1>6, <1>21, <2>1 DEF SendBind, TypeOK
<1>22. CASE ServerBind(s)
  <2>1. ASSUME NEW answer \in {"ok", "destroyed", "failed"}
        PROVE  [p EXCEPT !.bindMsg = answer] \in Private
    BY <1>0 DEF Private
  <2>2. PICK answer \in {"ok", "destroyed", "failed"} :
            priv' = [priv EXCEPT ![s] = [p EXCEPT !.bindMsg = answer]]
    BY <1>22 DEF ServerBind, SetPrivate
  <2>3. priv' \in [Sessions -> Private]
    BY <2>1, <2>2, Zenon DEF TypeOK
  <2>4. boundWith' \in [TempKeys -> PersistentKeys \cup {NoKey}]
    BY <1>0, <1>22 DEF ServerBind, TypeOK, Private
  <2> QED BY <1>22, <2>3, <2>4 DEF ServerBind, TypeOK, dcenter, instance, sessions
<1>23. CASE BindSuccess(s)
  <2> DEFINE q == [WithoutCreator(p) EXCEPT !.bindMsg = "none"]
  <2>1. q \in Private
    BY <1>0, WithoutCreatorType DEF Private
  <2>2. ASSUME NEW pc \in {"idle", "destroyKey"}
        PROVE  [q EXCEPT !.pc = pc] \in Private
    BY <2>1 DEF Private
  <2>3. priv' \in [Sessions -> Private]
    BY <1>23, <2>2 DEF BindSuccess, SetPrivate, TypeOK
  <2>4. CASE Attached(s)
    <3>1. /\ q.encryptionKey \in TempKeys \cup {NoKey}
          /\ p.bindPersistentKey \in PersistentKeys \cup {NoKey}
      BY <1>0, <2>1 DEF Private
    <3>2. ReleaseOnDone(s, q.encryptionKey, p.bindPersistentKey)
      BY <1>23, <2>4 DEF BindSuccess
    <3> QED
      BY <1>23, <2>3, <3>1, <3>2, ReleaseOnDoneType DEF BindSuccess, TypeOK, server
  <2>5. CASE ~Attached(s)
    BY <1>23, <2>3, <2>5 DEF BindSuccess, TypeOK, dcenter, server
  <2> QED BY <2>4, <2>5
<1>24. CASE BindDestroyed(s)
  <2>1. Event("destroyed", p.bindPersistentKey) \in MainEvent
    BY <1>0 DEF Event, MainEvent, Private
  <2>2. [p EXCEPT !.bindMsg = "none", !.pc = "destroyKey"] \in Private
    BY <1>0 DEF Private
  <2> QED
    BY <1>24, <2>1, <2>2, PostMainType
    DEF BindDestroyed, SetPrivate, TypeOK, dcenter, sessions, server
<1>25. CASE BindFailed(s)
  <2>1. [p EXCEPT !.bindMsg = "none"] \in Private
    BY <1>0 DEF Private
  <2> QED BY <1>6, <1>25, <2>1 DEF BindFailed, TypeOK
<1>26. CASE NotifyConnectionInited(s)
  BY <1>26 DEF NotifyConnectionInited, TypeOK, instance, sessions, privates, server
<1> QED
  BY <1>2, <1>3, <1>4, <1>5, <1>7, <1>8, <1>10, <1>11, <1>12, <1>13, <1>14, <1>15,
     <1>16, <1>17, <1>18, <1>19, <1>20, <1>21, <1>22, <1>23, <1>24, <1>25, <1>26
  DEF ThreadProgress

\* The initial state has the types.
LEMMA TypeInit == Init => TypeOK
<1> SUFFICES ASSUME Init PROVE TypeOK
  OBVIOUS
<1>1. NewPrivate("Regular", "absent") \in Private
  BY NewPrivateType DEF DcType
<1>2. /\ priv \in [Sessions -> Private]
      /\ queue \in [Sessions -> Seq(PrivateEvent)]
      /\ mainQueue \in Seq(MainEvent)
  BY <1>1 DEF Init
<1>3. /\ session \in [Sessions -> {"none", "live", "killed", "gone"}]
      /\ hasPrivate \in [Sessions -> BOOLEAN]
      /\ myKeyCreation \in [Sessions -> CreatingKeyType]
  BY DEF Init, CreatingKeyType
<1>4. /\ temporaryKeys \in [TemporaryKeyType -> TempKeys \cup {NoKey}]
      /\ persistentKey \in PersistentKeys \cup {NoKey}
      /\ creatingKeys \in [TemporaryKeyType -> BOOLEAN]
      /\ connectionInited \in BOOLEAN
      /\ keysForWrite \in PersistentKeys \cup {NoKey}
      /\ mediaOnly \in BOOLEAN
  BY KeyCreationAssumption DEF Init
<1>5. /\ forgotten \subseteq PersistentKeys
      /\ boundWith \in [TempKeys -> PersistentKeys \cup {NoKey}]
      /\ usedTemp \subseteq TempKeys
      /\ usedPersistent \subseteq PersistentKeys
  BY KeyCreationAssumption DEF Init
<1> QED BY <1>2, <1>3, <1>4, <1>5 DEF TypeOK

\* Every step keeps the types.
LEMMA TypeStep == TypeOK /\ [Next]_vars => TypeOK'
<1> SUFFICES ASSUME TypeOK, [Next]_vars PROVE TypeOK'
  OBVIOUS
<1>1. CASE Progress
  BY <1>1, MainTypeStep, ThreadTypeStep DEF Progress
<1>2. CASE Disturbance
  <2>1. ASSUME NEW key \in PersistentKeys, ServerForgets(key)
        PROVE  TypeOK'
    BY <2>1
    DEF ServerForgets, TypeOK, dcenter, instance, sessions, privates
  <2> QED BY <1>2, <2>1, MainTypeStep, ThreadTypeStep DEF Disturbance
<1>3. CASE UNCHANGED vars
  BY <1>3 DEF TypeOK, vars, dcenter, instance, sessions, privates, server
<1> QED BY <1>1, <1>2, <1>3 DEF Next

\* Every reachable state is well typed, for any sessions and keys.
THEOREM TypeCorrect == Spec => []TypeOK
BY TypeInit, TypeStep, PTL DEF Spec
=============================================================================
