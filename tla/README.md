# TLA+ models of the core of AlexgramDesktop

AlexgramDesktop is a fork of Telegram Desktop. Most of it is presentation on one
thread, and a good part of the repository is vendored. Its own hard logic is the
MTProto client in `Telegram/SourceFiles/mtproto/`: sessions on several network
threads that share keys, maps of requests and a clock, talk to the main thread
through queued calls, and have to survive lost connections, repeated messages and a
server that forgets keys. Above it stands the ordering of updates, which come out of
order and with gaps; below it the cache database, whose log is compacted while it is
written and has to survive a crash. This project models these parts, checks them
with TLC on small instances, and proves their safety properties with TLAPS for every
value of the constants.

File names below without a directory are in `Telegram/SourceFiles/mtproto/`.

## 1. Inventory

| Component | State | Operations | Hard behaviour | What makes it correct |
|---|---|---|---|---|
| **Key creation** (`details/mtproto_dcenter.cpp`, `session.cpp`, `session_private.cpp`, `details/mtproto_bound_key_creator.cpp`) | per dc: persistent key, two temporary keys, two "somebody creates it" flags; per session: `_myKeyCreation` (main thread object), `_keyCreator`, `_encryptionKey`, `_keyId`, `_currentDcType` (network thread) | acquire, create, bind, install, fail, destroy; start, restart, stop and kill a session | several threads, a lock held over round trips, keys destroyed while they are bound, queued notifications, an object deleted under its owner | one creator per key; installed keys are bound to the installed persistent key; no request under an unbound key; a key is never overwritten; the lock is given back |
| **Sending** (`session_private.cpp`, `session.cpp`, `mtp_instance.cpp`) | `toSend`, `haveSent`, `haveReceived`, `_ackedIds`, `_resendingIds`, `_sentContainers`, `_stateRequestData`, timers, `_parserMap`, `_requestMap`, `_delayedRequests`, the clock | send alone or in a container, renumber, acknowledge, answer, error, resend, new session, cancel, check state | two threads and two mutexes, resends racing answers, a clock put back, bounded id memory | no request with handlers is forgotten; each waiting one will be sent; answers reach their request; containers are valid; everything is answered in the end |
| **Received ids** (`details/mtproto_received_ids_manager.cpp`) | the `kIdsBufferSize` largest ids, acknowledgements to send | register, look up, shrink, reset | repeated and late messages, forgotten ids | nothing handled twice; the session reset only when it must be; nothing acknowledged that was neither handled nor given up with its packet |
| **Instance** (`mtp_instance.cpp`) | sessions, dcs, `_requestMap`, `_parserMap`, `_requestsByDc`, `_dependentRequests`, `_delayedRequests`, `_authWaiters`, `_authExportRequests` | route, migrate, export and import authorization, delay, cancel, destroy keys | waiters left behind by a failed step, requests waiting for requests, sessions killed with requests in them | a request is held in one place; whoever waits has somebody to end the waiting; every request ends |
| **Connections** (`connection_*.cpp`, `details/mtproto_*_socket.cpp`) | test connections, priorities, timers | race several endpoints, choose, time out | timeouts racing answers | the best connection wins, none leaks |
| **Key exchange** (`details/mtproto_dc_key_creator.cpp`) | one attempt per key | the Diffie-Hellman exchange | numbers, not control | out of reach of these tools |
| **Updates** (`../api/api_updates.cpp`, `../data/data_pts_waiter.cpp`) | per box: `_good`, `_last`, `_count`, the queue of postponed updates, `_requesting`, two reasons to wait; timers shared by all boxes | apply, postpone, get difference, try again | updates out of order and with gaps, a timer with two owners, failing differences | none skipped; what is postponed or missing is asked for; a client that holds back updates has an answer coming |
| **Cache database** (`../../lib_storage/storage/cache`) | the map of keys to places, bundled removes, the log, its compacted copy, a file per value | put, get, remove, move, copy, prune, compact, open | crashes between any two writes, compaction on another queue beside writes, failing file operations | get returns the value last put, or none; what can be read now can be read after a crash |
| **Local files** (`../storage`) | copies of each file | write, read | crashes | the newest complete copy is read |
| **Loaders** (`../storage/download_manager_mtproto.cpp`, `../storage/file_upload.cpp`) | parts per session, limits | balance, time out, retry | many sessions, counters | counters agree with requests |
| **Libraries** (`lib_crl`, `lib_rpl`, `lib_base`) | queues, guards, streams | post, run, guard | concurrency inside the library | order and lifetime |
| **Everything else** (data, history, UI, media, calls, export, platform, `alex/`) | caches, widgets, databases | | | not modelled |

How the parts interact: the main thread's `Instance` gives requests to a
`Session`, which puts them into the shared `SessionData` and queues a call to its
`SessionPrivate` on a network thread. `SessionPrivate` sends through a connection
and puts answers into `SessionData`, from where the main thread calls handlers. All
sessions of a dc share its `Dcenter` (mutex and atomics); a change of keys is posted
to the main thread, which tells every session of the dc. All sessions of the
process share the clock of `base::unixtime`.

`PROJECT.json` has the complete list of components and the hazards, each at its
line with the properties that would catch it.

## 2. Plan

Order by weight in the system:

1. `KeyCreation`: checked; all safety properties proved. To do: the abstract
   specification `DcKeys` (a dc with a persistent key and keys bound to it, no
   sessions) and the proof that `KeyCreation` implements it.
2. `SessionSend`: checked; all safety properties proved, three of them without
   the steps that finding 2 and two observations are about (section 6).
3. `ReceivedIds`: checked and proved. It takes what a message does when it is
   handled as a result only; what `SessionPrivate::handleOneReceived` does to the
   maps of requests is in 2.
4. `InstanceRequests`: checked; all safety properties proved.
5. `PtsUpdates`: checked; all safety properties proved. To do: the queue by seq.
6. `CacheBinlog`, which implements `CacheStore`: checked; safety and the refinement
   proved. To do: `clear()` with its versions and the cleaner.
7. The copies of a local file; `ConcurrentSender`; the race of connections in
   `SessionPrivate`.
8. `DownloadManager`; the downloader in `alex/`.

The modules share no state. `InstanceRequests` takes a session as a place a request
stays in until it is answered, which is what `SessionSend` shows of a session
(`RequestNotLost`, `RequestsAnswered`), and `SessionSend` takes a connection with a
key as given, which is what `KeyCreation` is about.

## 3. The modules

### KeyCreation

One dc, any number of sessions. `temporaryKeys`, `persistentKey`, `creatingKeys`,
`connectionInited` are the fields of `Dcenter`; `session`, `hasPrivate`,
`myKeyCreation` those of the `Session`s; `priv[s]` is the `SessionPrivate` (its
key, key creator, connection and where it stands between two critical sections)
and `queue[s]` the calls queued for it; `mainQueue` the calls queued for the main
thread; `keysForWrite` what the instance will save. `forgotten` and `boundWith`
are the server's, `usedTemp` and `usedPersistent` make created keys fresh.

Every lock of `Dcenter`'s mutex is one step. `applyAuthKey()` looks at the dc
several times and is split there: `CheckMedia`, `AcquireMedia`. Only
`destroyTemporaryKey()` is one step with two locks in it, the release of the creation
and the destruction of the key (`session_private.cpp:2642-2645`). Events on a network
thread (`OnStart`, `OnConnect`, `OnRestart`, `OnUpdateKey`, `OnDelete`...) are taken
in the order they were queued. A `SessionPrivate` is deleted by a queued call, so
it may run after `~Session` (`HandleClear`) has released the creation: it is then
no longer `Attached` and every call through `SessionData` does nothing, as in
`SessionData::withSession`.

The exchange of the keys is one step, `UnboundReady` or `UnboundFailed`: the code
between is in one thread and only its result is visible. The bind is three:
sent, handled by the server, received.

### SessionSend

One session, its two threads and the server. `toSend` and `haveSent` are the two
maps with their mutexes; `request[r]` is the shared request object, whose message
id both threads read and write; `io` says what the network thread holds between
two critical sections, `main` the same for the main thread in `cancel()` and
`processCallback()`. Message ids are numbers from `clock`: the local clock may
start ahead of the server's, and a forced update puts it back, after which new ids
are smaller than old ones.

`TryToSendSingle` takes a request from `toSend` and `SendSingle` puts it into
`haveSent`, as the code locks the two maps one after the other;
`TryToSendContainer` holds both. `PrepareToSend` renumbers what is old, too new or
of another session (`replaceMsgId` in all maps and containers). A resend is the
steps `ResendTake`, `ResendPut`, `ResendDone`, because the code unlocks `haveSent`
before it locks `toSend`. The server answers a message once per session, with
`done`, with an error by its handling (`fail`, `delay`: sent again after a delay,
`now`: sent again at once), or rejects it: `resend`, `reset` (a new session) and
`fatal` (answered locally). `wire`, `replied`, `carried`, `used` and `answered`
are history for the server and the properties.

Abstractions: acknowledgements, pings, `http_wait` and resend requests matter
only for whether a send is a container; `msg_detailed_info` acknowledges as
`ReceiveAck` does; the unforced time update of `bad_server_salt` counts as a
correction of the clock. One `tryToSend()` reads the clock in one step. Requests
that wait for other requests (`after`) are in `InstanceRequests`.

### ReceivedIds

`idsNeedAck` holds the keys of the manager's map, `acks` and `resend` what will be
acknowledged and asked for. A packet registers its message (`HandleReceived`), then,
if it is a container, more of them (`HandleContained`), then the map is shrunk to
`kIdsBufferSize` ids. A message may be a `msg_detailed_info` about another one, which
is then acknowledged or asked for.

As in the code an acknowledgement is recorded before the id is registered and the
message handled. Handling ends with success or not: `Failed` stands for `Ignored`,
`ParseError`, `RestartConnection` and `DestroyTemporaryKey`, which do the same to this
state. That ends the packet with all containers around the message, or, as does a
message too old, with a reset of the session (`needReset`); a container may also turn
out to be malformed (`HandleMalformed`), after the acknowledgement of its next message
was recorded. `restart()` changes nothing here (`PacketDone`), only
`changeSessionId()` does. `tried` counts how often a message was given to its handler;
`failed` are the messages a packet ended at: the one that was not handled and the
packet's own.

The messages of a container within a container count as the outer one's.

### InstanceRequests

The registry on the main thread: `requestMap`, `parserMap`, `requestsByDc`,
`dependent`, `delayed`, `authWaiters`, `authExport` and `badGuest` are the fields of
the same names. A dc with a shift is a number as in `core_types.h`, so that
`BareDcId`, `ShiftDcId` and the sign that marks requests of the main dc are computed
as there (`ShiftedParts` proves that they are). `inSession[r]` is the session that has the request, `batch` the answers
`Session::tryToReceive()` has taken and not yet handed out. One action is one call
of a function on the main thread: `SendRequest`, `Cancel`, one turn of
`checkDelayedRequests()`, and for each answer of the batch one of the branches of
`processCallback()` and `onErrorDefault()`. `Unregister` is `unregisterRequest()`
with the chain of dependent requests it removes and sends. `abandoned` and `broken`
record what was dropped with a killed session or a failed authorization, so that
the properties can say that nothing else is.

Assumed of the server: an import is never answered with 401 or a migration, and a
`*_MIGRATE_*` error names another dc than the request's.

### PtsUpdates

One `PtsWaiter` with its owner `Api::Updates`: the common box or a channel
(`isChannel`, chosen at the start). `good`, `last`, `count`, `queue`, `requesting`
and the two `waitingFor...` are its fields; `byPts` and `afterFail` say whether a
time is set for this box in the maps behind the two shared timers. The server makes
`LastUpdate` updates, `Pts[k]` being its pts with the k-th, which never falls: the
difference is the update's pts_count. Each comes pushed, in a result, as an
"affected" result, or not at all, in any order. `UpdateAndApply` has one disjunct
for each way through the three functions of that name; `ReceiveUnloaded` is an
update about a peer that is not known, which is dropped for a difference.
A difference comes whole or in slices and may fail `MaxFails` times; for the common
box the answer may be `updates.differenceTooLong` (`DifferenceTooLong`), which the code
only logs. `tooLong` marks it. `updates.channelDifferenceTooLong` is taken as a
difference that brings everything: the history is loaded again in its place.

`flushed` marks that `applySkippedUpdates()` stopped the waiting while a gap was
left (`ptsReceived()` does so, see the observations).

### CacheBinlog and CacheStore

`CacheStore` is the promise of a cache: `get()` returns the value last put under the
key, or none; values may go, and come back when the database is opened again.
`CacheBinlog` is `DatabaseObject` and `CompactorObject`: the map, the bundled
removes and the stale keys in memory; value files, `binlog` and `binlog-ready` on
disk; `task` the place a handler of the database has reached between two writes;
`compactor` the state of the compaction and the message between the two queues.
A log is a sequence of records and whether blocks of an unfinished one stand behind
it. `Replayed` is what reading a log leaves in the map. The compactor reads keys
chunk by chunk, asks the database for their entries, writes them once, then copies
what came in the meantime in rounds, and the database copies the rest before the
two renamings (`CompactorDone`, `MoveEmpties`, `MoveRenames`). The process may be
killed between any two writes and be started again (`Crash`, `Open`), and every
operation of the file system may fail. `Implements` is the refinement: `store` is
what `get()` finds, or, while the database is closed, what it would find. `Damage`
is what `CacheStore` grants a cache that has lost a record of its log: anything may
be found from then on.

A place is new each time (it is drawn at random from 2^56), a record is one unit
long (so that one written over a record cut short covers it; in the code blocks of a
longer one may stay behind it, `storage_encrypted_file.cpp:221`), `staleRemoveChunk` is 1, and the deletion of a file that a put replaced does
not fail. `lossy` marks errors of the file system that may cost the whole log: a
failed renaming after the old one was emptied, and a directory given up. `misread`
marks that a compaction which began over an unfinished record was done, and is what
`damaged` is mapped to; see the observations.

### Proof modules and MC modules

The theorems about a module stand in the module of its name with `Proofs` at the
end, those about the types of `KeyCreation` in `KeyCreationTypes`. `MCKeyCreation` and
`MCSessionSend` only add a counter to the specification: the steps of `Disturbance`
(failures, the user, the server's unusual answers) happen at most `MaxDisturbances`
times in a behaviour, those of `Progress` without limit. Mutants, the plausible mistakes each
property is tested against, stand before the definition they change.

## 4. Runs

| Run | States | Shows |
|---|---|---|
| `key_creation` | 1.4 M | A main and a media session, key loaded from disk, two disturbances: the lock, the agreement of the threads and the keys are right, also when the server forgets the persistent key and a new one is created. |
| `key_creation_cdn` | 1.0 M | A CDN dc, three disturbances: no binding, and a set flag always has a creator. |
| `key_flag` (violation) | | With binding it need not: see finding 1. |
| `send` | 0.6 M | Two requests, one of which fills a container: none lost, none waiting unnoticed, none held twice or resent after its answer, and with fairness each is answered or cancelled in the end. |
| `send_clock` | 1.2 M | The clock starts ahead and is put back: containers valid, nothing lost. One request has no handlers. |
| `send_errors` | 1.0 M | Errors retried at once, fatal notifications: answers, containers and locking still right. |
| `send_gap` (violation) | | Finding 2. |
| `received_ids` | 1.6 M | Two of five ids remembered; every order of packets, containers and repetitions, with messages whose handling fails: none handled twice, no reset without need, no acknowledgement of a message that was passed over. |
| `requests` | 0.6 M | Three requests of callers, two dcs, two sessions of the second, two errors of any kind: the maps agree, a request is in one place, waiting ends, `cancel()` finds what it cancels, and what was not dropped ends. |
| `requests_import` (violation) | | After a failed import nobody asks for an export: finding 3. |
| `pts` | 1.1 M | Four updates with counts 1, 1, 2 and 0, a failing difference and one too long, both kinds of boxes: nothing skipped, gaps and postponed updates pursued, requests answered or retried, gaps closed in the end. |
| `cache` | 1.5 M | Two keys, three puts or moves, one end of the process, one failure: values survive a crash, the compacted log agrees with the live one, and the database implements `CacheStore`. |

**Bounds.** Key creation needs two sessions for every race of the lock and three
temporary keys so that a key can be destroyed, created again and destroyed while it
is bound; two persistent keys let one be forgotten and replaced (with `LoadedKey = NoKey`,
a first launch, the instance has 2.0 million states and the same properties hold). `MaxQueue` bounds
how many queued calls of a kind the main thread or a network thread may lag behind;
two lets every pair be reordered between threads. Temporary keys are symmetric: no
definition tells them apart. Two requests are the least for a container, for a cut
container (`Large`) and for one request overtaking the other. `MaxIds` is the number
of ids made with one setting of the clock: `send` has the same states with 10 and
with 12, so two disturbances never need more. With three disturbances and 11 ids it
has ten million states and its invariants hold too. `IdsBufferSize` is at least as large
as the ids there can be in `send`, so that `_ackedIds` is not trimmed (see the
observations). Five ids with a buffer of two leave ids older, between and newer
than a full map. Three requests are the least for a chain of two that wait, and
for two that wait for an authorization beside the one that asks for it; six ids
leave one for the export and one for the import of each dc; two errors let one
request be sent again twice, or two once. Four updates give a gap of two, an update
that moves pts by two and one that does not move it. With two keys one can be
removed, moved or compacted while the other is written; three writes let a key be
put, replaced and put again around a compaction; `maxBundledRecords` of two makes
bundles that wait and that are full, and an excess of one lets a compaction start
after any replacement or remove. Keys are symmetric.

**Deadlock.** `received_ids` checks it. The others may stop: when all keys are
installed and nothing disturbs the sessions, or all requests are answered, or all
updates are applied, or the fresh keys, ids or writes of the bound are used up.

**Fairness.** In `send`, weak fairness of the main thread's steps and of the
network thread's: both are event loops that run what is queued, and the network
thread's include `Connected`, as the retry timer of `SessionPrivate` reconnects for
ever. And of the server's final answers to messages on the wire: the code has no way
to go on without them, and the property is about what the client does. Nothing is assumed of disturbances; there
are finitely many in a behaviour. The error answered at once is left out of this
run (`Errors` has no `now`) because of finding 2. In `requests`, weak fairness of
answers, of `tryToReceive()` and of the timer of delayed requests together: the
server answers what a session holds (`RequestsAnswered` is about that) and the main
thread runs its queue. In `pts`, weak fairness of the server's answers and of the
two timers. Callers, lost updates and errors are under no obligation.

## 5. Findings

Each is a run that TLC ends with a counterexample; the text in the code is quoted
in `PROJECT.json`.

1. **The creation flag is left set** (`key_flag`, `details/mtproto_dcenter.cpp:143`).
   A temporary key whose persistent key changed during the binding is refused, and
   the flag stays set although session and network thread have forgotten it. All
   sessions of that dc wait until the program is restarted.
2. **A handler that is away** (`send_gap`, `mtp_instance.cpp:1153`). An
   acknowledgement that comes while the main thread handles an error with the handler
   outside `_parserMap` drops the request that was sent again.
3. **Waiters of a failed import** (`requests_import`, `mtp_instance.cpp:1303`).
   `importFail()` keeps the requests that wait for the authorization and sends
   nothing; later requests that get a 401 see waiters and ask for no export.

`RequestNotLost` is checked to hold in `send` and `send_clock`, where the cause of
2 is excluded by `Errors`; the theorem about it allows these errors, and excludes only
the step of 2 itself. `SentUnderItsId` and `AnsweredNotResent` are checked
without fatal notifications, after which a request that is retried is in both maps
(the code has a TODO about it); the theorems about them have that hypothesis.

**Observations**, seen while modelling; no run is spent on them:

- `session_private.cpp:2463`: the restart "Dc type changed for creation" keeps the
  old dc type, because a key creator exists by then (`tryAcquireKeyCreation`).
- `session_private.cpp:2190`: when `_ackedIds` is full, the id of an old request may
  be erased between being added and being looked up, and its answer is dropped
  (`RequestNotLost` fails with `IdsBufferSize = 1`).
- `session_private.cpp:597`: only the first container of a new session gets new ids;
  requests cut off by `kCutContainerOnSize` follow with the old ones.
- `session_private.cpp:1387` and `1509`: a message is acknowledged although its
  handling fails (line 1528), and as its id is registered it is not handled when it
  comes again: what it carried is lost for this session. `AcksHandled` says that no
  other messages are acknowledged unhandled, those behind it in its container
  for example.
- `session_private.cpp:980`: the timer that checks the state of sent requests is
  started in the container branch only.
- `mtp_instance.cpp:1255`: `importDone()` asks `getSession()` for the signed id of a
  request of the main dc, and `setMainDcId()` may kill the session it has just given
  other waiters to. `setMainDcId()` drops what is in the sessions it kills.
  `exportFail()` neither fails nor resends the waiters it clears.
- `../data/data_channel.h:460`: `ptsReceived()` that notices a gap starts the waiting
  ("1s wait for skipped seq or pts in updates.", `../data/data_pts_waiter.h:23`) and
  `applySkippedUpdates()` stops it in the same call; the gap is closed by the next
  update, difference or short poll.
- `../api/api_updates.cpp:521`: `updates.differenceTooLong` is only logged. The common
  box stays requesting, with no request and no timer, and `getDifference()` returns
  early from then on: its gaps are never closed. `RequestComes` says that this is
  the only way there.
- `../api/api_updates.cpp:250`: the first `getState` has no fail handler.
- `storage_cache_database_object.cpp:1082`: `moveIfEmpty()` does not look whether the
  log is open, and a crash between its two records loses the entry; `CrashKeepsValues`
  speaks of what the map holds and does not see it.
- `storage_cache_binlog_reader.cpp:105`: behind a record cut short by a crash the log
  goes on at the cut, while the size a compaction starts from counts the cut record
  too. The compactor then takes records that come later for ones it has read, and
  what they say may be missing in the compacted log: an old value can come back, or
  a value can be lost. It takes the cut, a compaction, and writes during it. The
  model records it as `misread`; with two ends of the process and four writes
  `Implements` fails if `CacheStore` has no `Damage`.
- `storage_cache_compactor.cpp:115`: `start()` goes on after `fail()`, harmless as the
  guard is gone by then; a failed `compactorDone()` still resets the delay of the next
  compaction.

## 6. Proofs

All theorems are `Spec => []...` or action properties of the specification without
counters, for every value of the constants that satisfies the module's assumption.

**KeyCreation.** `TypeCorrect` first (`KeyCreationTypes`). The properties are not
inductive alone; `IInv` is `TypeOK /\ OrderInv /\ LockInv /\ KeyInv`:

- `OrderInv`: a new `SessionPrivate` starts only behind the deletion of the old one
  in the thread's queue, and a session that was never started has nothing. Without
  it two objects of a session could run and both create.
- `LockInv`: an attached session and its network thread agree on what is created;
  a creator has its flag, alone, with no such key installed; a persistent key is
  created only while there is none.
- `KeyInv`: the fields of each `SessionPrivate` fit together; temporary keys are
  fresh, so that the one being bound belongs to one session; installed keys are
  bound to the installed persistent key; a session without creator has a bound key.

Each part has one lemma per kind of step (`LockAcquire`, `LockDone`, `KeyServerBind`,
...), then one for all steps of the main thread and one for those of a network
thread. From it follow `CreationIsExclusive`, `SessionsAgree`, `InstalledKeysBound`,
`SendsUnderBoundKey` and, with the step, `PersistentKeyKept`.

That the saved key catches up with the dc's (`SavedKeyIsInstalled`) needs `SavedInv`
beside `IInv`, because what the main thread saves depends on the order in which
installations and destructions were posted:

- `UsedInv`: every persistent key that is anywhere was generated.
- `CreatedInv`: the persistent key that a session has created and is binding is not
  installed, is bound by nobody else, and no destruction of it is posted. Otherwise
  its installation could be followed by a destruction meant for another.
- `PostedInv`: a posted persistent key is the present one, and no destruction of it
  stands before it in the queue of the main thread.
- `CdnInv`: a CDN dc has no persistent key and no session that binds one. With it
  the flags of a CDN always have a creator (`CdnFlagHasCreator`); without the
  hypothesis `IsCdn` they need not (finding 1).

**SessionSend.** `WakeupsKept`: `NoLostWakeup` says nothing while a resend is under
way, so `WakeInv` adds that a resend with work left has promised a send, and that
whatever is in `toSend` on a live connection has a queued or a promised send.

The other theorems rest on `TInv`: the types, what the network thread holds at each
place, and `IdsInv`: every message id was given once, although the clock may be put
back in between, so that a message carries one request, and every map keyed by ids
agrees with what was carried. `AnswersMatch` is part of it. `ContainersValid` follows
from it and the step, as what a container takes gets its id before the container.

- `ReplacingIsLocked`: `TurnInv` says that a request which no resend has forced into
  a container is at one place: in `toSend`, sent on its own, delayed, or about to be
  answered. So what goes the path without the lock has no id yet.
- `RequestsAreKept`: `KeptInv` says where a request with handlers is, at each place
  of both threads, for all errors and any `IdsBufferSize`. The theorem is about
  behaviours without two kinds of steps, in each of which the request is lost:
  `AckedWhileAway`, an acknowledgement of a request whose handler `processCallback()`
  holds (finding 2), and `AnswerTrimmed`, an answer for a message whose id `_ackedIds`
  drops as it is added, because that many larger ones are in it (the observation about
  `session_private.cpp:2190`). `AnsweredStays` says that an id is found otherwise.
- `SentOnlyOnce`, `AnsweredForGood`: `OnceInv` says that a request is at one place,
  also one that was resent, by what the maps say of its ids: `haveSent` has it under
  the id it carries, and an id remembered as resent or acknowledged excludes that it
  is still sent under it. Hypothesis: no fatal notifications, because of the code's
  TODO.

**ReceivedIds.** `IInv` says that an id that was given to its handler is known or older
than every id of a full map (`ForgottenAreOlder`), that known ids were given to it
(`KnownAreTried`), that the id that resets the session is older than a full map and
ends the packet (`ResetEnds`), and that acknowledgements are of ids that were given to
their handlers, of messages a packet ended at, or of that id (`AcksTried`).
`NoDoubleHandling`, `ResetsJustified` and `AcksAreHandled` follow; the argument
that a shrunk map is still full uses the cardinality theorems of finite sets.

**InstanceRequests.** `IInv` is the types, the checked properties, and what they need:
`FreeIds` (an id not given out is nowhere), `AfterOlder` (a request waits for an older
one, so the chain that `unregisterRequest()` walks through ends and never meets
itself), `AuthTargets` and `WaitersOfOneDc` (exports and imports know their dc, and a
caller's request waits for one dc). `Held` and `OneAuth` say what `HeldOnce` and
`OneAuthPerDc` say without counting; the counts follow from the theorems of finite
sets. That a waiting request is registered, and so is sent when the one it waits for
ends, is what makes the early returns of the loop harmless.

**PtsUpdates.** The code compares two numbers, `_last` and `_count`, and takes it that
nothing is missing when they are equal. `CountIsSeen` says why: the updates seen
since `good` cover disjoint intervals of pts between `good` and `last`, and `count` is
`good` plus the number of values they cover (`Seen`); when that is all of them, every
update in between was seen. `Positions` and `RequestFits` say that `good`, `last` and a
request are at pts the server had, `SentOnce` that no update comes twice, and
`Pursued` why a gap has its timer. `GoodIsComplete`, `PostponedPursued`, `GapPursued` and
`RequestsCome` follow for any number of updates and any counts, zero included;
`DifferenceTooLong` is the one step that leaves a box requesting with nothing to come.

**CacheBinlog.** `IInv` is `TypeOK /\ Phased /\ TaskKnown /\ (~misread => Undamaged)`.
`Phased` and `TaskKnown` say what runs when. `Undamaged` is about `Readings`, the map and
what reading each of the logs on the disk would give:

- `OwnPlaces`: in each of them a key has a place of its own, and the place a put has
  drawn is in none before it is written there.
- `HarmlessPlaces`: a place holds the value last put under its key, or nothing; so an
  old log read after a crash brings no old value back.
- `RemovedAreGone`: a bundled remove is of a key that is not in the map.
- `LogFollows`: the log gives each key of the map its place.
- `CompactorAgrees`: what the compactor has gathered so far (`Gathers`) is what the
  live log says, unless a record that it has still to copy says otherwise.

`ValuesSurvive` and `CompactionAgrees` follow. The lemmas under them say what a record
appended to a log, a log put behind another and a list of entries written as records
leave in the map (`Replayed`).

The refinement (`CacheIsImplemented`): the initial states map to each other
(`InitImplements`), and every step is `Promised`: it loses a record (`Damage`), or
changes nothing that was put, so that what is found is still the last value or
none (`Change`), or stores or removes one value (`Put`, `Remove`). The mapping of the
variables is that of `Implements`.

**Only model-checked:** liveness (`RequestsAnswered`, `RequestsEnd`, `GapsClose`), which
the prover cannot do. Every other
property of the passing runs is stated by a theorem listed in `PROJECT.json`. No
RECURSIVE operator is used.

## 7. Not modelled

- Bytes: serialization, encryption, compression, dumping.
- `DcType::Temporary`, the sessions that destroy keys after a logout: they have no
  other session to race with.
- Sockets and the choice of an endpoint; a session sees connected, disconnected,
  timed out.
- What an update changes in the data, the queue of updates by seq, range
  differences, and the common difference that waits for channels.
- Of the cache database: times of use and sizes (they choose what is pruned),
  statistics, `clear()` with its versions and the cleaner, a change of settings.
- The clock changed by another thread between two ids of one container.
- The components marked `not_modelled` in `PROJECT.json`, with the reason there.

The repository has two million lines of implementation, of which the user interface,
the data model it shows and vendored libraries are nearly all; the models cover the
part whose correctness depends on order, failure and concurrency, a small share of
the lines.
