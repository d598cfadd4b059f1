---------------------------- MODULE KeyCreation ----------------------------
(***************************************************************************)
(* How the sessions of one data center agree on its authorization keys.    *)
(*                                                                         *)
(* A Dcenter (details/mtproto_dcenter.cpp) holds one persistent key, one   *)
(* temporary key per key type and one "somebody is creating this key" flag *)
(* per key type.  Every Session of that data center (session.cpp) lives in *)
(* the main thread, runs a SessionPrivate (session_private.cpp) in a       *)
(* network thread, and talks to it through posted events.  Sessions of one *)
(* data center run in different threads, so every critical section of the  *)
(* Dcenter is one atomic step here and everything between two of them may  *)
(* interleave.                                                             *)
(***************************************************************************)
EXTENDS Naturals, Sequences

CONSTANTS
    Sessions,        \* Session objects of this data center
    MediaSessions,   \* those with a download or upload shift
    IsCdn,           \* the data center is a CDN one (no persistent key)
    TempKeys,        \* temporary keys that may be created
    PersistentKeys,  \* persistent keys that may exist
    LoadedKey,       \* persistent key read from disk at launch, or NoKey
    NoKey,           \* nullptr
    MaxQueue         \* bound on every posted events queue

ASSUME KeyCreationAssumption ==
    /\ MediaSessions \subseteq Sessions
    /\ IsCdn \in BOOLEAN
    /\ NoKey \notin TempKeys
    /\ NoKey \notin PersistentKeys
    /\ LoadedKey \in PersistentKeys \cup {NoKey}
    /\ IsCdn => LoadedKey = NoKey
    /\ MaxQueue \in Nat

VARIABLES
    \* Dcenter
    temporaryKeys, persistentKey, creatingKeys, connectionInited,
    \* Instance, main thread
    keysForWrite, mainQueue, mediaOnly,
    \* Session, main thread
    session, hasPrivate, myKeyCreation,
    \* SessionPrivate, network threads: the object and the thread's queue
    priv, queue,
    \* the server, and the keys ever generated
    forgotten, boundWith, usedTemp, usedPersistent

dcenter == <<temporaryKeys, persistentKey, creatingKeys, connectionInited>>
instance == <<keysForWrite, mainQueue, mediaOnly>>
sessions == <<session, hasPrivate, myKeyCreation>>
privates == <<priv, queue>>
server == <<forgotten, boundWith, usedTemp, usedPersistent>>
vars == <<dcenter, instance, sessions, privates, server>>

DcType == {"Regular", "MediaCluster", "Cdn"}
TemporaryKeyType == {"Regular", "MediaCluster"}
CreatingKeyType ==
    {"None", "Persistent", "TemporaryRegular", "TemporaryMediaCluster"}

TemporaryKeyTypeByDcType(type) ==
    IF type = "MediaCluster" THEN "MediaCluster" ELSE "Regular"

IndexByType(creating) ==
    IF creating = "TemporaryMediaCluster" THEN "MediaCluster" ELSE "Regular"

-----------------------------------------------------------------------------
(* DcOptions::dcType: a session with a media shift is a media cluster one   *)
(* while the configuration lists media-only endpoints for the data center.  *)
DcTypeOf(s) ==
    IF IsCdn THEN "Cdn"
    ELSE IF s \in MediaSessions /\ mediaOnly THEN "MediaCluster"
    ELSE "Regular"

-----------------------------------------------------------------------------
(* Dcenter: each operator is one critical section.                          *)

\* Mutants: the wrong enumeration, no compare-exchange, no look at the
\* persistent key.
AcquiredKeyType(type) ==
    LET keyType == TemporaryKeyTypeByDcType(type) IN
    IF temporaryKeys[keyType] # NoKey THEN "None" ELSE keyType

AcquiredWithoutExchange(type) ==
    LET keyType == TemporaryKeyTypeByDcType(type) IN
    IF temporaryKeys[keyType] # NoKey THEN "None"
    ELSE IF keyType = "MediaCluster" /\ temporaryKeys["Regular"] # NoKey
    THEN "TemporaryMediaCluster"
    ELSE IF type # "Cdn" /\ persistentKey = NoKey THEN "Persistent"
    ELSE "TemporaryRegular"

AcquiredAlwaysPersistent(type) ==
    IF temporaryKeys[TemporaryKeyTypeByDcType(type)] # NoKey
         \/ creatingKeys["Regular"]
    THEN "None" ELSE "Persistent"

\* What acquireKeyCreation returns; it sets the flag iff that is not "None".
Acquired(type) ==
    LET keyType == TemporaryKeyTypeByDcType(type) IN
    IF temporaryKeys[keyType] # NoKey THEN "None"
    ELSE IF keyType = "MediaCluster" /\ temporaryKeys["Regular"] # NoKey
    THEN IF creatingKeys["MediaCluster"] THEN "None"
         ELSE "TemporaryMediaCluster"
    ELSE IF creatingKeys["Regular"] THEN "None"
    ELSE IF type # "Cdn" /\ persistentKey = NoKey THEN "Persistent"
    ELSE "TemporaryRegular"

\* Session::acquireKeyCreation through an attached SessionData.
AcquireKeyCreation(s, acquired) ==
    /\ myKeyCreation' = [myKeyCreation EXCEPT ![s] = acquired]
    /\ creatingKeys' = IF acquired = "None" THEN creatingKeys
          ELSE [creatingKeys EXCEPT ![IndexByType(acquired)] = TRUE]

\* Mutant: the persistent key is not compared.
DoneAlwaysAccepted(type, usedForBind) == TRUE

\* Whether Dcenter::releaseKeyCreationOnDone installs the key.
DoneAccepted(type, usedForBind) ==
    type = "Persistent" \/ persistentKey = usedForBind

\* Dcenter::releaseKeyCreationOnDone.  The refusing return leaves the flag.
DcReleaseOnDone(type, key, usedForBind) ==
    IF DoneAccepted(type, usedForBind)
    THEN /\ persistentKey' = IF type = "Persistent" THEN usedForBind
                             ELSE persistentKey
         /\ temporaryKeys' = [temporaryKeys EXCEPT ![IndexByType(type)] = key]
         /\ creatingKeys' = [creatingKeys EXCEPT ![IndexByType(type)] = FALSE]
         /\ connectionInited' = FALSE
    ELSE UNCHANGED dcenter

\* Dcenter::releaseKeyCreationOnFail.
DcReleaseOnFail(type) ==
    creatingKeys' = [creatingKeys EXCEPT ![IndexByType(type)] = FALSE]

\* The temporary keys left by Dcenter::destroyTemporaryKey.
WithoutTemporaryKey(key) ==
    [t \in TemporaryKeyType |->
        IF temporaryKeys[t] = key THEN NoKey ELSE temporaryKeys[t]]

HasTemporaryKey(key) ==
    key # NoKey /\ \E t \in TemporaryKeyType : temporaryKeys[t] = key

-----------------------------------------------------------------------------
(* SessionPrivate: its fields, and the helpers that touch nothing else.     *)
(*   conn     "absent"  no object        "down"    no connection            *)
(*            "retry"   _retryTimer runs "testing" _testConnections         *)
(*            "up"      _connection                                         *)
(*   creator  "none"    no _keyCreator   "idle"    neither _creator nor     *)
(*            "creating" _creator runs             _binder                  *)
(*            "binding" _binder present                                     *)
(*   pc       where a handler stands between two critical sections          *)
(*   bindMsg  the bind request: "none" is _bindMsgId = 0, then on its way   *)
(*            ("sent") and answered by the server                           *)

Private ==
    [conn : {"absent", "down", "retry", "testing", "up"},
     pc : {"idle", "checkMedia", "acquireMedia", "destroyKey"},
     realDcType : DcType,
     currentDcType : DcType,
     creator : {"none", "idle", "creating", "binding"},
     acquired : CreatingKeyType,
     bindPersistentKey : PersistentKeys \cup {NoKey},
     encryptionKey : TempKeys \cup {NoKey},
     keyId : TempKeys \cup {NoKey},
     bindMsg : {"none", "sent", "ok", "destroyed", "failed"}]

NewPrivate(type, conn) ==
    [conn |-> conn, pc |-> "idle", realDcType |-> type,
     currentDcType |-> type, creator |-> "none", acquired |-> "None",
     bindPersistentKey |-> NoKey, encryptionKey |-> NoKey, keyId |-> NoKey,
     bindMsg |-> "none"]

\* destroyAllConnections: the creator loses its DcKeyCreator, not its binder.
DestroyAllConnections(p) ==
    [p EXCEPT !.conn = IF @ = "retry" THEN "retry" ELSE "down",
              !.creator = IF @ = "creating" THEN "idle" ELSE @]

\* restart: the retry timer is running when it returns.
Restart(p) == [DestroyAllConnections(p) EXCEPT !.conn = "retry"]

\* releaseKeyCreationOnFail, the part inside SessionPrivate.
WithoutCreator(p) ==
    [p EXCEPT !.creator = "none", !.acquired = "None",
              !.bindPersistentKey = NoKey]

\* The start of the DcKeyCreator at the end of applyAuthKey.
StartCreator(p) ==
    [p EXCEPT !.creator = IF @ = "idle" THEN "creating" ELSE @,
              !.pc = "idle"]

\* applyAuthKey with a connection, up to noMediaKeyWithExistingRegularKey.
ApplyAuthKey(p, key) ==
    IF p.keyId # NoKey
    THEN IF p.keyId = key THEN [p EXCEPT !.encryptionKey = key]
         ELSE Restart([p EXCEPT !.encryptionKey = key, !.keyId = NoKey])
    ELSE IF key # NoKey
    THEN [p EXCEPT !.encryptionKey = key, !.keyId = key]
    ELSE IF p.creator = "none" /\ p.currentDcType = "MediaCluster"
    THEN [p EXCEPT !.encryptionKey = NoKey, !.pc = "checkMedia"]
    ELSE StartCreator([p EXCEPT !.encryptionKey = NoKey])

-----------------------------------------------------------------------------
(* Posting.  InvokeQueued keeps the order of the events posted to one       *)
(* thread; deleteLater is such an event, so an old SessionPrivate is gone   *)
(* before the first event of its successor runs.                            *)

PrivateEvent == {"start", "connect", "restart", "config", "updateKey", "delete"}
MainEvent ==
    [kind : {"temporary", "persistent", "destroyed", "clear"},
     key : PersistentKeys \cup {NoKey}]

Event(kind, key) == [kind |-> kind, key |-> key]

Attached(s) == session[s] = "live"

Room(q, n) == Len(q) + n <= MaxQueue

PostMain(event) ==
    /\ Room(mainQueue, 1)
    /\ mainQueue' = Append(mainQueue, event)

\* InvokeQueued(_private, ...) for all the sessions in S that have one.
PostTo(S, events) ==
    /\ \A s \in S : hasPrivate[s] => Room(queue[s], Len(events))
    /\ queue' = [s \in Sessions |->
          IF s \in S /\ hasPrivate[s] THEN queue[s] \o events ELSE queue[s]]

-----------------------------------------------------------------------------
Init ==
    /\ temporaryKeys = [t \in TemporaryKeyType |-> NoKey]
    /\ persistentKey = LoadedKey
    /\ creatingKeys = [t \in TemporaryKeyType |-> FALSE]
    /\ connectionInited = FALSE
    /\ keysForWrite = LoadedKey
    /\ mainQueue = <<>>
    /\ mediaOnly \in BOOLEAN
    /\ session = [s \in Sessions |-> "none"]
    /\ hasPrivate = [s \in Sessions |-> FALSE]
    /\ myKeyCreation = [s \in Sessions |-> "None"]
    /\ priv = [s \in Sessions |-> NewPrivate("Regular", "absent")]
    /\ queue = [s \in Sessions |-> <<>>]
    /\ forgotten = {}
    /\ boundWith = [k \in TempKeys |-> NoKey]
    /\ usedTemp = {}
    /\ usedPersistent = {LoadedKey} \ {NoKey}

-----------------------------------------------------------------------------
(* Main thread: Instance and Session.                                       *)

\* Session::start: killConnection, then a new SessionPrivate.  Its
\* constructor posts the first connectToServer.
SessionStart(s) ==
    LET events == IF hasPrivate[s] THEN <<"delete", "start">> ELSE <<"start">>
    IN /\ Room(queue[s], Len(events))
       /\ queue' = [queue EXCEPT ![s] = @ \o events]
       /\ hasPrivate' = [hasPrivate EXCEPT ![s] = TRUE]

StartSession(s) ==
    /\ session[s] = "none"
    /\ session' = [session EXCEPT ![s] = "live"]
    /\ SessionStart(s)
    /\ UNCHANGED <<dcenter, instance, myKeyCreation, priv, server>>

\* Session::needToResumeAndSend of a stopped session.
ResumeSession(s) ==
    /\ session[s] = "live"
    /\ ~hasPrivate[s]
    /\ SessionStart(s)
    /\ UNCHANGED <<dcenter, instance, session, myKeyCreation, priv, server>>

\* Session::killConnection: the SessionPrivate is deleted by its thread.
KillConnection(s) ==
    /\ hasPrivate[s] => Room(queue[s], 1)
    /\ queue' = IF hasPrivate[s]
                THEN [queue EXCEPT ![s] = Append(@, "delete")] ELSE queue
    /\ hasPrivate' = [hasPrivate EXCEPT ![s] = FALSE]

StopSession(s) ==
    /\ session[s] = "live"
    /\ hasPrivate[s]
    /\ KillConnection(s)
    /\ UNCHANGED <<dcenter, instance, session, myKeyCreation, priv, server>>

\* killSession: Session::kill stops it and detaches SessionData at once, the
\* object is destroyed by a posted _sessionsToDestroy.clear().
KillSession(s) ==
    /\ session[s] = "live"
    /\ session' = [session EXCEPT ![s] = "killed"]
    /\ KillConnection(s)
    /\ PostMain(Event("clear", NoKey))
    /\ UNCHANGED <<dcenter, keysForWrite, mediaOnly, myKeyCreation, priv, server>>

Live == {s \in Sessions : session[s] = "live"}

\* Instance::reInitConnection of the data center: restart of every session.
ReInitConnection ==
    /\ Live # {}
    /\ connectionInited' = FALSE
    /\ PostTo(Live, <<"restart">>)
    /\ UNCHANGED <<temporaryKeys, persistentKey, creatingKeys, instance,
                   sessions, priv, server>>

\* A new configuration: watchDcOptionsChanges posts dcOptionsChanged.
DcOptionsChanged ==
    /\ ~IsCdn
    /\ mediaOnly' = ~mediaOnly
    /\ PostTo(Live, <<"config">>)
    /\ UNCHANGED <<dcenter, keysForWrite, mainQueue, sessions, priv, server>>

\* CDN configuration: watchDcOptionsChanges posts cdnConfigChanged.
CdnConfigChanged ==
    /\ IsCdn
    /\ Live # {}
    /\ PostTo(Live, <<"config">>)
    /\ UNCHANGED <<dcenter, instance, sessions, priv, server>>

\* Instance::dcTemporaryKeyChanged: watchDcKeyChanges of every session.
DcTemporaryKeyChanged == PostTo(Live, <<"updateKey">>)

MainTakes(kind) ==
    /\ mainQueue # <<>>
    /\ Head(mainQueue).kind = kind
    /\ mainQueue' = Tail(mainQueue)

HandleTemporaryKeyChanged ==
    /\ MainTakes("temporary")
    /\ DcTemporaryKeyChanged
    /\ UNCHANGED <<dcenter, keysForWrite, mediaOnly, sessions, priv, server>>

\* Instance::dcPersistentKeyChanged with the key installed by a session.
HandlePersistentKeyChanged ==
    /\ MainTakes("persistent")
    /\ DcTemporaryKeyChanged
    /\ keysForWrite' = Head(mainQueue).key
    /\ UNCHANGED <<dcenter, mediaOnly, sessions, priv, server>>

\* Mutant: the destroyed key stays in _keysForWrite.
KeyDestroyedButSaved ==
    /\ MainTakes("destroyed")
    /\ IF persistentKey = Head(mainQueue).key
       THEN /\ temporaryKeys' = [t \in TemporaryKeyType |-> NoKey]
            /\ persistentKey' = NoKey
            /\ connectionInited' = FALSE
            /\ PostTo(Live, <<"updateKey", "restart">>)
       ELSE /\ PostTo(Live, <<"restart">>)
            /\ UNCHANGED <<temporaryKeys, persistentKey, connectionInited>>
    /\ UNCHANGED <<creatingKeys, keysForWrite, mediaOnly, sessions, priv, server>>

\* Instance::keyDestroyedOnServer: Dcenter::destroyConfirmedForgottenKey and
\* dcPersistentKeyChanged(nullptr) if the key is still the persistent one,
\* then restart of every session of the data center.
HandleKeyDestroyedOnServer ==
    /\ MainTakes("destroyed")
    /\ IF persistentKey = Head(mainQueue).key
       THEN /\ temporaryKeys' = [t \in TemporaryKeyType |-> NoKey]
            /\ persistentKey' = NoKey
            /\ connectionInited' = FALSE
            /\ keysForWrite' = NoKey
            /\ PostTo(Live, <<"updateKey", "restart">>)
       ELSE /\ PostTo(Live, <<"restart">>)
            /\ UNCHANGED <<temporaryKeys, persistentKey, connectionInited,
                           keysForWrite>>
    /\ UNCHANGED <<creatingKeys, mediaOnly, sessions, priv, server>>

\* Mutant: ~Session does not give the flag back.
ClearWithoutRelease ==
    LET killed == {s \in Sessions : session[s] = "killed"} IN
    /\ MainTakes("clear")
    /\ session' = [s \in Sessions |->
          IF s \in killed THEN "gone" ELSE session[s]]
    /\ myKeyCreation' = [s \in Sessions |->
          IF s \in killed THEN "None" ELSE myKeyCreation[s]]
    /\ UNCHANGED <<dcenter, keysForWrite, mediaOnly, hasPrivate, privates, server>>

\* _sessionsToDestroy.clear(): every ~Session gives its creation flag back.
HandleClear ==
    LET killed == {s \in Sessions : session[s] = "killed"}
        held == {IndexByType(myKeyCreation[s]) :
                    s \in {x \in killed : myKeyCreation[x] # "None"}}
    IN /\ MainTakes("clear")
       /\ session' = [s \in Sessions |->
              IF s \in killed THEN "gone" ELSE session[s]]
       /\ myKeyCreation' = [s \in Sessions |->
              IF s \in killed THEN "None" ELSE myKeyCreation[s]]
       /\ creatingKeys' = [t \in TemporaryKeyType |->
              creatingKeys[t] /\ t \notin held]
       /\ UNCHANGED <<temporaryKeys, persistentKey, connectionInited,
                      keysForWrite, mediaOnly, hasPrivate, priv, queue, server>>

-----------------------------------------------------------------------------
(* Network threads: SessionPrivate.                                         *)

SetPrivate(s, p) == priv' = [priv EXCEPT ![s] = p]

\* Mutant: Session::_myKeyCreation is read, not exchanged.
ReleaseWithoutExchange(s, p) ==
    IF p.creator # "none" /\ Attached(s)
    THEN /\ DcReleaseOnFail(myKeyCreation[s])
         /\ UNCHANGED myKeyCreation
    ELSE UNCHANGED <<myKeyCreation, creatingKeys>>

\* releaseKeyCreationOnFail, the part in Session and Dcenter.
ReleaseOnFail(s, p) ==
    IF p.creator # "none" /\ Attached(s)
    THEN /\ myKeyCreation' = [myKeyCreation EXCEPT ![s] = "None"]
         /\ DcReleaseOnFail(myKeyCreation[s])
    ELSE UNCHANGED <<myKeyCreation, creatingKeys>>

\* Mutant: no applyAuthKey(nullptr).
DestroyKeyButUseIt(s, p) ==
    /\ ReleaseOnFail(s, p)
    /\ IF Attached(s) /\ HasTemporaryKey(p.encryptionKey)
       THEN /\ temporaryKeys' = WithoutTemporaryKey(p.encryptionKey)
            /\ connectionInited' = FALSE
            /\ PostMain(Event("temporary", NoKey))
       ELSE UNCHANGED <<temporaryKeys, connectionInited, mainQueue>>
    /\ SetPrivate(s, [Restart(WithoutCreator(p)) EXCEPT !.pc = "idle"])
    /\ UNCHANGED persistentKey

\* destroyTemporaryKey: applyAuthKey(nullptr) and restart included.
DestroyTemporaryKey(s, p) ==
    /\ ReleaseOnFail(s, p)
    /\ IF Attached(s) /\ HasTemporaryKey(p.encryptionKey)
       THEN /\ temporaryKeys' = WithoutTemporaryKey(p.encryptionKey)
            /\ connectionInited' = FALSE
            /\ PostMain(Event("temporary", NoKey))
       ELSE UNCHANGED <<temporaryKeys, connectionInited, mainQueue>>
    /\ SetPrivate(s, [Restart(WithoutCreator(p)) EXCEPT
          !.encryptionKey = NoKey, !.keyId = NoKey, !.pc = "idle"])
    /\ UNCHANGED persistentKey

\* The data center type tryAcquireKeyCreation returns.
AcquiredDcType(p, acquired) ==
    IF acquired # "None" /\ acquired # "TemporaryMediaCluster"
         /\ p.realDcType = "MediaCluster"
    THEN "Regular" ELSE p.realDcType

\* connectToServer.  Its last part finds endpoints or does not: "testing"
\* connects, "waiting" has asked for a configuration, "restart" has just
\* received one that does not help.
ConnectToServer(s, p, outcome) ==
    LET q == [DestroyAllConnections(p) EXCEPT !.realDcType = DcTypeOf(s)]
        acquired == IF q.creator = "none" /\ Attached(s)
                    THEN Acquired(q.realDcType) ELSE "None"
        r == IF q.creator # "none" THEN q
             ELSE [q EXCEPT
                !.currentDcType = AcquiredDcType(q, acquired),
                !.creator = IF acquired = "None" THEN "none" ELSE "idle",
                !.acquired = acquired]
    IN IF p.realDcType # q.realDcType /\ q.creator # "none"
       THEN DestroyTemporaryKey(s, q)
       ELSE /\ IF q.creator = "none" /\ Attached(s)
               THEN AcquireKeyCreation(s, acquired)
               ELSE UNCHANGED <<myKeyCreation, creatingKeys>>
            /\ SetPrivate(s, CASE
                  outcome = "testing" ->
                      [r EXCEPT !.conn = "testing", !.bindMsg = "none"]
                  [] outcome = "waiting" -> r
                  [] outcome = "restart" -> Restart(r))
            /\ UNCHANGED <<temporaryKeys, persistentKey, connectionInited,
                           mainQueue>>

Takes(s, event) ==
    /\ priv[s].pc = "idle"
    /\ queue[s] # <<>>
    /\ Head(queue[s]) = event
    /\ queue' = [queue EXCEPT ![s] = Tail(@)]

Runs(s) == priv[s].conn # "absent" /\ priv[s].pc = "idle"

\* The first event of a new SessionPrivate.
OnStart(s) ==
    /\ Takes(s, "start")
    /\ \E outcome \in {"testing", "waiting"} :
          ConnectToServer(s, NewPrivate(DcTypeOf(s), "down"), outcome)
    /\ UNCHANGED <<keysForWrite, mediaOnly, session, hasPrivate, server>>

\* connectToServer posted by a timeout.
OnConnect(s) ==
    /\ Takes(s, "connect")
    /\ \E outcome \in {"testing", "waiting"} :
          ConnectToServer(s, priv[s], outcome)
    /\ UNCHANGED <<keysForWrite, mediaOnly, session, hasPrivate, server>>

\* retryByTimer: the timer has just stopped.
RetryByTimer(s) ==
    /\ Runs(s)
    /\ priv[s].conn = "retry"
    /\ \E outcome \in {"testing", "waiting"} :
          ConnectToServer(s, [priv[s] EXCEPT !.conn = "down"], outcome)
    /\ UNCHANGED <<keysForWrite, mediaOnly, session, hasPrivate, queue, server>>

\* dcOptionsChanged and cdnConfigChanged: connectToServer(true).
OnConfig(s) ==
    /\ Takes(s, "config")
    /\ IF priv[s].conn \in {"testing", "up"}
       THEN UNCHANGED <<dcenter, mainQueue, myKeyCreation, priv>>
       ELSE \E outcome \in {"testing", IF IsCdn THEN "waiting" ELSE "restart"} :
              ConnectToServer(s, priv[s], outcome)
    /\ UNCHANGED <<keysForWrite, mediaOnly, session, hasPrivate, server>>

OnRestart(s) ==
    /\ Takes(s, "restart")
    /\ SetPrivate(s, Restart(priv[s]))
    /\ UNCHANGED <<dcenter, instance, sessions, server>>

\* ~SessionPrivate
OnDelete(s) ==
    /\ Takes(s, "delete")
    /\ ReleaseOnFail(s, priv[s])
    /\ SetPrivate(s, NewPrivate("Regular", "absent"))
    /\ UNCHANGED <<temporaryKeys, persistentKey, connectionInited, instance,
                   session, hasPrivate, server>>

GetTemporaryKey(s, type) ==
    IF Attached(s) THEN temporaryKeys[type] ELSE NoKey

OnUpdateKey(s) ==
    LET p == priv[s] IN
    /\ Takes(s, "updateKey")
    /\ SetPrivate(s,
          IF p.creator # "none" \/ p.conn # "up" THEN p
          ELSE ApplyAuthKey(p, GetTemporaryKey(s,
                  TemporaryKeyTypeByDcType(p.currentDcType))))
    /\ UNCHANGED <<dcenter, instance, sessions, server>>

\* onConnected, confirmBestConnection, then checkAuthKey.
OnConnected(s) ==
    LET p == [priv[s] EXCEPT !.conn = "up"] IN
    /\ Runs(s)
    /\ priv[s].conn = "testing"
    /\ SetPrivate(s, IF p.keyId # NoKey THEN p
          ELSE ApplyAuthKey(p, GetTemporaryKey(s,
                  TemporaryKeyTypeByDcType(p.currentDcType))))
    /\ UNCHANGED <<dcenter, instance, sessions, queue, server>>

\* onDisconnected, onError other than -404, a broken packet, checkSentRequests.
OnDisconnected(s) ==
    /\ Runs(s)
    /\ priv[s].conn \in {"testing", "up"}
    /\ SetPrivate(s, Restart(priv[s]))
    /\ UNCHANGED <<dcenter, instance, sessions, queue, server>>

\* waitConnectedFailed, waitReceivedFailed: connectToServer is posted.  A post
\* behind the object's own deletion is dropped with the object.
OnTimeout(s) ==
    /\ Runs(s)
    /\ priv[s].conn \in {"testing", "up"}
    /\ IF \E i \in DOMAIN queue[s] : queue[s][i] = "delete"
       THEN UNCHANGED queue
       ELSE /\ Room(queue[s], 1)
            /\ queue' = [queue EXCEPT ![s] = Append(@, "connect")]
    /\ SetPrivate(s, DestroyAllConnections(priv[s]))
    /\ UNCHANGED <<dcenter, instance, sessions, server>>

\* handleError(-404), or AUTH_KEY_PERM_EMPTY in an rpc_result.
OnKeyRejected(s) ==
    /\ Runs(s)
    /\ priv[s].conn = "up"
    /\ DestroyTemporaryKey(s, priv[s])
    /\ UNCHANGED <<keysForWrite, mediaOnly, session, hasPrivate, queue, server>>

\* applyAuthKey: the read of noMediaKeyWithExistingRegularKey.
CheckMedia(s) ==
    /\ priv[s].pc = "checkMedia"
    /\ SetPrivate(s, [priv[s] EXCEPT !.pc =
          IF GetTemporaryKey(s, "Regular") # NoKey THEN "acquireMedia"
          ELSE "idle"])
    /\ UNCHANGED <<dcenter, instance, sessions, queue, server>>

\* applyAuthKey: tryAcquireKeyCreation after that read.  A changed type only
\* restarts, it is not stored in _currentDcType.
AcquireMedia(s) ==
    LET p == [priv[s] EXCEPT !.pc = "idle"]
        acquired == IF Attached(s) THEN Acquired(p.realDcType) ELSE "None"
        q == [p EXCEPT !.creator = "idle", !.acquired = acquired]
    IN /\ priv[s].pc = "acquireMedia"
       /\ IF Attached(s) THEN AcquireKeyCreation(s, acquired)
          ELSE UNCHANGED <<myKeyCreation, creatingKeys>>
       /\ SetPrivate(s, CASE
             acquired = "None" -> p
             [] acquired # "None" /\ AcquiredDcType(p, acquired) # p.currentDcType
                  -> Restart(q)
             [] OTHER -> StartCreator(q))
       /\ UNCHANGED <<temporaryKeys, persistentKey, connectionInited, instance,
                      session, hasPrivate, queue, server>>

CreatorRuns(s) == Runs(s) /\ priv[s].creator = "creating"

\* unboundReady with an error.  An unknown public key of a CDN data center
\* asks for the CDN configuration and keeps the connection.
UnboundFailed(s) ==
    /\ CreatorRuns(s)
    /\ ReleaseOnFail(s, priv[s])
    /\ \E p \in {Restart(WithoutCreator(priv[s]))}
               \cup (IF IsCdn THEN {WithoutCreator(priv[s])} ELSE {}) :
          SetPrivate(s, p)
    /\ UNCHANGED <<temporaryKeys, persistentKey, connectionInited, instance,
                   session, hasPrivate, queue, server>>

\* unboundReady with fresh keys, not a CDN data center: bind and use the key.
UnboundReady(s, key, created) ==
    LET p == priv[s]
        bindKey == IF created # NoKey THEN created
                   ELSE IF Attached(s) THEN persistentKey ELSE NoKey
    IN /\ CreatorRuns(s)
       /\ ~IsCdn
       /\ key \in TempKeys \ usedTemp
       /\ IF p.acquired = "Persistent"
          THEN created \in PersistentKeys \ usedPersistent
          ELSE created = NoKey
       /\ usedTemp' = usedTemp \cup {key}
       /\ usedPersistent' = usedPersistent \cup ({created} \ {NoKey})
       /\ IF bindKey = NoKey
          THEN /\ ReleaseOnFail(s, p)
               /\ SetPrivate(s, Restart(WithoutCreator(p)))
          ELSE /\ SetPrivate(s, ApplyAuthKey([p EXCEPT !.creator = "binding",
                     !.bindPersistentKey = bindKey], key))
               /\ UNCHANGED <<myKeyCreation, creatingKeys>>
       /\ UNCHANGED <<temporaryKeys, persistentKey, connectionInited, instance,
                      session, hasPrivate, queue, forgotten, boundWith>>

\* Session::releaseGenericKeyCreationOnDone of an attached session.
ReleaseOnDone(s, key, usedForBind) ==
    LET type == myKeyCreation[s] IN
    /\ myKeyCreation' = [myKeyCreation EXCEPT ![s] = "None"]
    /\ DcReleaseOnDone(type, key, usedForBind)
    /\ IF DoneAccepted(type, usedForBind)
       THEN PostMain(IF type = "Persistent" THEN Event("persistent", usedForBind)
                     ELSE Event("temporary", NoKey))
       ELSE UNCHANGED mainQueue

\* unboundReady in a CDN data center: the key is installed without a bind.
UnboundReadyCdn(s, key) ==
    LET p == WithoutCreator(priv[s]) IN
    /\ CreatorRuns(s)
    /\ IsCdn
    /\ key \in TempKeys \ usedTemp
    /\ usedTemp' = usedTemp \cup {key}
    /\ IF Attached(s)
       THEN /\ ReleaseOnDone(s, key, NoKey)
            /\ SetPrivate(s,
                 IF DoneAccepted(myKeyCreation[s], NoKey)
                 THEN ApplyAuthKey(p, key) ELSE Restart(ApplyAuthKey(p, key)))
       ELSE /\ SetPrivate(s, Restart(ApplyAuthKey(p, key)))
            /\ UNCHANGED <<dcenter, mainQueue, myKeyCreation>>
    /\ UNCHANGED <<keysForWrite, mediaOnly, session, hasPrivate, queue,
                   forgotten, boundWith, usedPersistent>>

\* tryToSend: the bind request goes out once per _bindMsgId.
SendBind(s) ==
    /\ Runs(s)
    /\ priv[s].conn = "up"
    /\ priv[s].keyId # NoKey
    /\ priv[s].creator = "binding"
    /\ priv[s].bindMsg = "none"
    /\ SetPrivate(s, [priv[s] EXCEPT !.bindMsg = "sent"])
    /\ UNCHANGED <<dcenter, instance, sessions, queue, server>>

BindAnswered(s) ==
    /\ Runs(s)
    /\ priv[s].conn = "up"
    /\ priv[s].creator = "binding"

\* handleBindResponse, DcKeyBindState::Success.
BindSuccess(s) ==
    LET p == [WithoutCreator(priv[s]) EXCEPT !.bindMsg = "none"] IN
    /\ BindAnswered(s)
    /\ priv[s].bindMsg = "ok"
    /\ IF Attached(s)
       THEN /\ ReleaseOnDone(s, p.encryptionKey, priv[s].bindPersistentKey)
            /\ SetPrivate(s, [p EXCEPT !.pc =
                 IF DoneAccepted(myKeyCreation[s], priv[s].bindPersistentKey)
                 THEN "idle" ELSE "destroyKey"])
       ELSE /\ SetPrivate(s, [p EXCEPT !.pc = "destroyKey"])
            /\ UNCHANGED <<dcenter, mainQueue, myKeyCreation>>
    /\ UNCHANGED <<keysForWrite, mediaOnly, session, hasPrivate, queue, server>>

\* handleBindResponse, DefinitelyDestroyed with destroyOldEnoughPersistentKey.
\* A key of this launch may be old enough by now, the loaded one always is.
BindDestroyed(s) ==
    /\ BindAnswered(s)
    /\ priv[s].bindMsg = "destroyed"
    /\ PostMain(Event("destroyed", priv[s].bindPersistentKey))
    /\ SetPrivate(s, [priv[s] EXCEPT !.bindMsg = "none", !.pc = "destroyKey"])
    /\ UNCHANGED <<dcenter, keysForWrite, mediaOnly, sessions, queue, server>>

\* handleBindResponse, Failed, or DefinitelyDestroyed with a young key:
\* the bind request is sent again.
BindFailed(s) ==
    /\ BindAnswered(s)
    /\ \/ priv[s].bindMsg = "failed"
       \/ /\ priv[s].bindMsg = "destroyed"
          /\ priv[s].bindPersistentKey # LoadedKey
    /\ SetPrivate(s, [priv[s] EXCEPT !.bindMsg = "none"])
    /\ UNCHANGED <<dcenter, instance, sessions, queue, server>>

\* handleReceived after HandleResult::DestroyTemporaryKey.
FinishDestroyKey(s) ==
    /\ priv[s].pc = "destroyKey"
    /\ DestroyTemporaryKey(s, priv[s])
    /\ UNCHANGED <<keysForWrite, mediaOnly, session, hasPrivate, queue, server>>

\* A good rpc_result of a request wrapped into initConnection.
NotifyConnectionInited(s) ==
    /\ Runs(s)
    /\ priv[s].conn = "up"
    /\ priv[s].keyId # NoKey
    /\ priv[s].creator = "none"
    /\ Attached(s)
    /\ connectionInited' = TRUE
    /\ UNCHANGED <<temporaryKeys, persistentKey, creatingKeys, instance,
                   sessions, privates, server>>

-----------------------------------------------------------------------------
(* The server: it binds a key unless it has forgotten the persistent one.   *)

ServerBind(s) ==
    LET p == priv[s] IN
    /\ p.bindMsg = "sent"
    /\ p.creator = "binding"
    /\ \E answer \in {IF p.bindPersistentKey \in forgotten
                       THEN "destroyed" ELSE "ok", "failed"} :
          /\ SetPrivate(s, [p EXCEPT !.bindMsg = answer])
          /\ boundWith' = IF answer = "ok"
               THEN [boundWith EXCEPT ![p.encryptionKey] = p.bindPersistentKey]
               ELSE boundWith
    /\ UNCHANGED <<dcenter, instance, sessions, queue, forgotten, usedTemp,
                   usedPersistent>>

ServerForgets(key) ==
    /\ key \in usedPersistent \ forgotten
    /\ forgotten' = forgotten \cup {key}
    /\ UNCHANGED <<dcenter, instance, sessions, privates, boundWith, usedTemp,
                   usedPersistent>>

-----------------------------------------------------------------------------
(* The steps by which the system makes progress, and the ones that disturb  *)
(* it: the user, the configuration, the network and the server at work.     *)

MainProgress ==
    \/ \E s \in Sessions : StartSession(s) \/ ResumeSession(s)
    \/ HandleTemporaryKeyChanged \/ HandlePersistentKeyChanged
    \/ HandleKeyDestroyedOnServer \/ HandleClear

ThreadProgress(s) ==
    \/ OnStart(s) \/ OnConnect(s) \/ RetryByTimer(s) \/ OnConfig(s)
    \/ OnRestart(s) \/ OnDelete(s) \/ OnUpdateKey(s) \/ OnConnected(s)
    \/ CheckMedia(s) \/ AcquireMedia(s)
    \/ \E key \in TempKeys, created \in PersistentKeys \cup {NoKey} :
          UnboundReady(s, key, created)
    \/ \E key \in TempKeys : UnboundReadyCdn(s, key)
    \/ SendBind(s) \/ ServerBind(s)
    \/ BindSuccess(s) \/ BindDestroyed(s) \/ BindFailed(s)
    \/ FinishDestroyKey(s) \/ NotifyConnectionInited(s)

Disturbance ==
    \/ \E s \in Sessions :
          \/ StopSession(s) \/ KillSession(s)
          \/ OnDisconnected(s) \/ OnTimeout(s) \/ OnKeyRejected(s)
          \/ UnboundFailed(s)
    \/ ReInitConnection \/ DcOptionsChanged \/ CdnConfigChanged
    \/ \E key \in PersistentKeys : ServerForgets(key)

Progress == MainProgress \/ \E s \in Sessions : ThreadProgress(s)

Next == Progress \/ Disturbance

Spec == Init /\ [][Next]_vars

-----------------------------------------------------------------------------
\* Every variable keeps the shape of the fields it stands for.
TypeOK ==
    /\ temporaryKeys \in [TemporaryKeyType -> TempKeys \cup {NoKey}]
    /\ persistentKey \in PersistentKeys \cup {NoKey}
    /\ creatingKeys \in [TemporaryKeyType -> BOOLEAN]
    /\ connectionInited \in BOOLEAN
    /\ keysForWrite \in PersistentKeys \cup {NoKey}
    /\ mainQueue \in Seq(MainEvent)
    /\ mediaOnly \in BOOLEAN
    /\ session \in [Sessions -> {"none", "live", "killed", "gone"}]
    /\ hasPrivate \in [Sessions -> BOOLEAN]
    /\ myKeyCreation \in [Sessions -> CreatingKeyType]
    /\ priv \in [Sessions -> Private]
    /\ queue \in [Sessions -> Seq(PrivateEvent)]
    /\ forgotten \subseteq PersistentKeys
    /\ boundWith \in [TempKeys -> PersistentKeys \cup {NoKey}]
    /\ usedTemp \subseteq TempKeys
    /\ usedPersistent \subseteq PersistentKeys

Creates(s, t) == myKeyCreation[s] # "None" /\ IndexByType(myKeyCreation[s]) = t

\* The Expects() of Dcenter::releaseKeyCreationOnDone and OnFail: a session
\* that is creating a key of some type has the creation flag of that type
\* set, no such key is installed meanwhile, and it is the only one.
CreatorOwnsFlag ==
    \A s \in Sessions, t \in TemporaryKeyType : Creates(s, t) =>
        /\ creatingKeys[t]
        /\ temporaryKeys[t] = NoKey
        /\ \A other \in Sessions \ {s} : ~Creates(other, t)

\* The Expects() of Session::acquireKeyCreation and of the three releases:
\* Session::_myKeyCreation of an attached session, written from the network
\* thread, is always what that thread's key creator was made for.
SessionAndPrivateAgree ==
    \A s \in Sessions : Attached(s) =>
        /\ myKeyCreation[s] = priv[s].acquired
        /\ priv[s].creator = "none" <=> priv[s].acquired = "None"

\* An installed temporary key is one the server has bound to the very
\* persistent key that is installed with it, whatever sessions, key
\* destructions and binds were interleaved.
InstalledKeysAreBound ==
    ~IsCdn => \A t \in TemporaryKeyType : temporaryKeys[t] # NoKey =>
        /\ persistentKey # NoKey
        /\ boundWith[temporaryKeys[t]] = persistentKey

\* Requests are sent only without a key creator (tryToSend), and then the
\* session's key is one the server has bound: no request can go out under a
\* key whose bind was lost, refused or overtaken.
SendsOnlyUnderBoundKey ==
    ~IsCdn => \A s \in Sessions :
        (Runs(s) /\ priv[s].creator = "none" /\ priv[s].keyId # NoKey)
            => boundWith[priv[s].keyId] # NoKey

\* What Instance will write to disk is the persistent key of the Dcenter, as
\* soon as the notifications about persistent keys are handled.
SavedKeyCatchesUp ==
    (\A i \in DOMAIN mainQueue : mainQueue[i].kind # "persistent")
        => keysForWrite = persistentKey

\* A finished Persistent creation stores its key without looking at the one
\* that is there; it never replaces one, which would lose the authorization.
PersistentKeyNotOverwritten ==
    [][persistentKey' # persistentKey
         => persistentKey = NoKey \/ persistentKey' = NoKey]_vars

\* "someone is creating already, waiting" (session_private.cpp:2478): a set
\* creation flag belongs to a session that is creating.
FlagHasCreator ==
    \A t \in TemporaryKeyType : creatingKeys[t] => \E s \in Sessions : Creates(s, t)

-----------------------------------------------------------------------------
(* The inductive invariant behind the safety properties above.              *)

\* What holds of a SessionPrivate on its own.
PrivateInv(p) ==
    /\ p.creator = "none" <=> p.acquired = "None"
    /\ p.conn = "absent" => p.creator = "none" /\ p.keyId = NoKey /\ p.pc = "idle"
    /\ p.pc \in {"checkMedia", "acquireMedia"} =>
          p.creator = "none" /\ p.keyId = NoKey /\ p.conn = "up"
    /\ p.creator = "creating" => p.keyId = NoKey /\ p.conn = "up"
    /\ p.creator = "binding" => p.keyId # NoKey /\ p.bindPersistentKey # NoKey
    /\ p.keyId # NoKey => p.encryptionKey = p.keyId
    /\ (p.conn \in {"testing", "up"} /\ p.creator # "binding") => p.bindMsg = "none"

\* The posted events of one session: a new SessionPrivate starts only behind
\* the deletion of the old one.
QueueOrder(q, absent, has) ==
    /\ \A i \in 2..Len(q) : q[i] = "start" => q[i - 1] = "delete"
    /\ (q # <<>> /\ q[1] = "start") => absent
    /\ ~has => IF q = <<>> THEN absent ELSE q[Len(q)] = "delete"

QueueInv(s) == QueueOrder(queue[s], priv[s].conn = "absent", hasPrivate[s])

UnstartedInv(s) == session[s] = "none" =>
    /\ myKeyCreation[s] = "None"
    /\ priv[s].conn = "absent"
    /\ queue[s] = <<>>
    /\ ~hasPrivate[s]

\* A persistent key is being created only while there is none.
PersistentInv ==
    \A s \in Sessions : myKeyCreation[s] = "Persistent" => persistentKey = NoKey

\* Temporary keys are fresh, so the one being bound is nobody else's.
FreshInv ==
    /\ \A t \in TemporaryKeyType : temporaryKeys[t] \in usedTemp \cup {NoKey}
    /\ \A s \in Sessions : priv[s].encryptionKey \in usedTemp \cup {NoKey}
    /\ \A s \in Sessions : priv[s].creator = "binding" =>
          /\ \A t \in TemporaryKeyType : temporaryKeys[t] # priv[s].encryptionKey
          /\ \A other \in Sessions \ {s} :
                priv[other].encryptionKey # priv[s].encryptionKey

BoundInv ==
    ~IsCdn => \A s \in Sessions :
        IF priv[s].creator = "binding"
        THEN priv[s].bindMsg = "ok" =>
               boundWith[priv[s].encryptionKey] = priv[s].bindPersistentKey
        ELSE priv[s].keyId # NoKey => boundWith[priv[s].keyId] # NoKey

LockInv ==
    /\ \A s \in Sessions : Attached(s) => myKeyCreation[s] = priv[s].acquired
    /\ CreatorOwnsFlag
    /\ PersistentInv

KeyInv ==
    /\ \A s \in Sessions : PrivateInv(priv[s])
    /\ FreshInv
    /\ InstalledKeysAreBound
    /\ BoundInv

OrderInv == \A s \in Sessions : QueueInv(s) /\ UnstartedInv(s)

IInv == TypeOK /\ OrderInv /\ LockInv /\ KeyInv
=============================================================================
