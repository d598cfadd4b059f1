---------------------------- MODULE CacheBinlog ----------------------------
(***************************************************************************)
(* The cache database of lib_storage/storage/cache: DatabaseObject, which  *)
(* keeps a map of keys to places in memory, the values in one file per     *)
(* place and the changes of the map in a binlog, and CompactorObject,      *)
(* which runs on a queue of its own and writes a shorter binlog beside the *)
(* live one.  The process may be killed between any two writes.            *)
(*                                                                         *)
(* A record of the log takes one unit, whatever its bytes.  The times of   *)
(* use, the sizes and the tags of entries only choose what is pruned; here *)
(* anything may be.  A place is drawn at random from 2^56 names, here it   *)
(* is new; and so is a value that is put, unless it is copied or put again.*)
(***************************************************************************)
EXTENDS Integers, Sequences, FiniteSets, FiniteSetsExt

CONSTANTS
    Keys,
    NoKey,              \* the key of no task
    maxBundledRecords,  \* Settings::maxBundledRecords
    compactAfterExcess, \* Settings::compactAfterExcess, in units
    MaxWrites,          \* bound on the puts and moves
    MaxCrashes,         \* bound on the times the process ends
    MaxFails            \* bound on the failed operations of the file system

ASSUME KeysAssumption == IsFiniteSet(Keys) /\ NoKey \notin Keys
ASSUME SettingsAssumption ==
    maxBundledRecords \in Nat \ {0} /\ compactAfterExcess \in Nat \ {0}
ASSUME BoundsAssumption ==
    MaxWrites \in Nat /\ MaxCrashes \in Nat /\ MaxFails \in Nat

VARIABLES
    \* memory of the database, on its queue
    running,        \* the database was opened and not closed since
    open,           \* _binlog.isOpen()
    map,            \* _map: the place of a key's value, 0 if there is none
    removing,       \* _removing: removes not yet in the binlog
    stale,          \* _stale: keys that a prune has still to remove
    excess,         \* _binlogExcessLength
    task,           \* the handler the database is in the middle of
    \* memory of the compactor and the messages between the two
    compactor,
    \* the disk
    files,          \* the value in the file of a place, 0 if there is no file
    binlog,         \* "binlog"
    ready,          \* "binlog-ready": a set of at most one log
    \* history and bounds
    last,           \* the value last put under a key and not removed since
    lossy,          \* an error of the file system has cost entries of the log
    misread,        \* a compaction begun over an unfinished record was done:
                    \* the compacted log may lack a record of the live one
    writes, crashes, fails

memory == <<running, open, map, removing, stale, excess>>
disk == <<files, binlog, ready>>
bounds == <<writes, crashes, fails>>
history == <<last, lossy, misread>>
vars == <<memory, task, compactor, disk, history, bounds>>

Places == 1 .. MaxWrites
Values == 1 .. MaxWrites

\* A record stores entries and removes keys: Store and MultiStore have only
\* the first, MultiRemove only the second.
Entries == [key : Keys, place : Places]
Record(stored, removed) == [stored |-> stored, removed |-> removed]
Records == [stored : SUBSET Entries, removed : SUBSET Keys]

\* A log is its records and the blocks of an unfinished record behind them.
Log(records, torn) == [records |-> records, torn |-> torn]
EmptyLog == Log(<<>>, 0)
Logs == [records : Seq(Records), torn : 0 .. 1]

\* File::size() counts the unfinished record too.
Size(log) == Len(log.records) + log.torn

\* Writing goes on behind the last record that could be read, over an
\* unfinished one.
Appended(log, record) == Log(Append(log.records, record), 0)

Touches(record, k) == k \in record.removed \/ \E e \in record.stored : e.key = k

\* The place of k that the log leaves in the map: processRecordStore() and
\* processRecordMultiRemove() over the records in their order.
Replayed(records, k) ==
    LET I == {i \in DOMAIN records : Touches(records[i], k)}
        record == records[Max(I)]
    IN  IF I = {} \/ k \in record.removed THEN 0
        ELSE (CHOOSE e \in record.stored : e.key = k).place

\* What the records of a log add to _binlogExcessLength as they are read: a
\* unit for a remove's head, for each of its keys, and for an entry that is
\* replaced.
Excess(records) ==
    LET Before(i) == SubSeq(records, 1, i - 1)
        Lines == (DOMAIN records) \X Keys
    IN  Cardinality({i \in DOMAIN records : records[i].removed # {}})
          + Cardinality({x \in Lines : x[2] \in records[x[1]].removed})
          + Cardinality({x \in Lines :
                /\ \E e \in records[x[1]].stored : e.key = x[2]
                /\ Replayed(Before(x[1]), x[2]) # 0})

-----------------------------------------------------------------------------
\* The compactor.  `phase' says which of its calls is next: parseChunk() or
\* the catching up on its own queue, getManyRaw(), compactorDone() or
\* compactorFail() on the database's.
NoCompactor ==
    [phase |-> "none", till |-> 0, pos |-> 0, keys |-> {}, raws |-> {},
     list |-> {}, compact |-> <<>>, grown |-> 0, excess |-> 0, clean |-> TRUE]

Phases == {"none", "parse", "asked", "values", "catchUp", "done", "fail"}

NewCompactor(log, length) ==
    [NoCompactor EXCEPT !.phase = "parse", !.till = Size(log),
                        !.excess = length, !.clean = log.torn = 0]

\* checkCompactor(), which follows every change.  A prune that is due or the
\* delay after a failure may keep it from starting.
CheckCompactor ==
    \/ compactor' = compactor
    \/ /\ compactor.phase = "none"
       /\ excess' >= compactAfterExcess
       /\ open'
       /\ compactor' = NewCompactor(binlog', excess')

Failing == fails < MaxFails /\ fails' = fails + 1

Idle == [step |-> "idle", key |-> NoKey, place |-> 0, was |-> 0]
Task(step, k, place, was) ==
    [step |-> step, key |-> k, place |-> place, was |-> was]
Steps == {"idle", "wrote", "logged", "moving", "ready", "emptied"}

TypeOK ==
    /\ running \in BOOLEAN /\ open \in BOOLEAN
    /\ map \in [Keys -> Places \cup {0}]
    /\ removing \subseteq Keys /\ Cardinality(removing) < maxBundledRecords
    /\ stale \subseteq Keys
    /\ excess \in Nat
    /\ task \in [step : Steps, key : Keys \cup {NoKey},
                 place : Places \cup {0}, was : Places \cup {0}]
    /\ compactor \in
         [phase : Phases, till : Nat, pos : Nat, keys : SUBSET Keys,
          raws : SUBSET Entries, list : SUBSET Entries,
          compact : Seq(Records), grown : Nat, excess : Nat, clean : BOOLEAN]
    /\ files \in [Places -> Values \cup {0}]
    /\ binlog \in Logs
    /\ ready \subseteq Logs /\ Cardinality(ready) <= 1
    /\ last \in [Keys -> Values \cup {0}]
    /\ lossy \in BOOLEAN /\ misread \in BOOLEAN
    /\ writes \in 0 .. MaxWrites /\ crashes \in 0 .. MaxCrashes
    /\ fails \in 0 .. MaxFails

Init ==
    /\ running = TRUE /\ open = TRUE
    /\ map = [k \in Keys |-> 0]
    /\ removing = {} /\ stale = {} /\ excess = 0
    /\ task = Idle
    /\ compactor = NoCompactor
    /\ files = [p \in Places |-> 0] /\ binlog = EmptyLog /\ ready = {}
    /\ last = [k \in Keys |-> 0]
    /\ lossy = FALSE /\ misread = FALSE
    /\ writes = 0 /\ crashes = 0 /\ fails = 0

-----------------------------------------------------------------------------
\* Parts of the handlers.

\* writeMultiRemove() of the keys in R, which _removing holds by now.
WriteMultiRemove(R) ==
    /\ removing' = {}
    /\ \/ /\ open
          /\ binlog' = Appended(binlog, Record({}, R))
          /\ excess' = excess + 1 + Cardinality(R)
          /\ UNCHANGED <<open, fails>>
       \/ /\ IF open THEN Failing ELSE UNCHANGED fails
          /\ open' = FALSE
          /\ UNCHANGED <<excess, binlog>>

\* Mutant: the bundle is written when it is more than full.
AddRemovingLate(k) ==
    IF Cardinality(removing \cup {k}) > maxBundledRecords
    THEN WriteMultiRemove(removing \cup {k})
    ELSE /\ removing' = removing \cup {k}
         /\ UNCHANGED <<open, excess, binlog, fails>>

\* The bundled remove of k, written at once when the bundle is full.
AddRemoving(k) ==
    IF Cardinality(removing \cup {k}) = maxBundledRecords
    THEN WriteMultiRemove(removing \cup {k})
    ELSE /\ removing' = removing \cup {k}
         /\ UNCHANGED <<open, excess, binlog, fails>>

\* Mutant: the file is left to be deleted with the record.
RemoveEntryKeepsFile(k) ==
    \/ /\ open /\ map[k] # 0
       /\ map' = [map EXCEPT ![k] = 0]
       /\ AddRemoving(k)
       /\ last' = [last EXCEPT ![k] = 0]
       /\ UNCHANGED files
    \/ /\ ~open \/ map[k] = 0
       /\ UNCHANGED <<map, removing, open, excess, binlog, files, last, fails>>

\* remove(): the entry goes at once, its record later.  A file that cannot be
\* deleted is reported (it matters only as long as the record is not written).
RemoveEntry(k) ==
    \/ /\ open /\ map[k] # 0
       /\ map' = [map EXCEPT ![k] = 0]
       /\ AddRemoving(k)
       /\ files' = [files EXCEPT ![map[k]] = 0]
       /\ last' = [last EXCEPT ![k] = 0]
    \/ /\ open /\ map[k] # 0
       /\ map' = [map EXCEPT ![k] = 0]
       /\ Failing
       /\ Cardinality(removing \cup {k}) < maxBundledRecords
       /\ removing' = removing \cup {k}
       /\ UNCHANGED <<open, excess, binlog, files, last>>
    \/ /\ ~open \/ map[k] = 0
       /\ UNCHANGED <<map, removing, open, excess, binlog, files, last, fails>>

\* get() finds the entry's file and its checksum.
Readable(k) == map[k] # 0 /\ files[map[k]] # 0

\* The database's queue runs one handler after the other.
Ready == running /\ task.step = "idle"

\* compactorFail(): the compactor is forgotten, and "binlog-ready" deleted.
CompactorFail ==
    /\ compactor' = NoCompactor
    /\ ready' = {}

-----------------------------------------------------------------------------
\* Operations of the database.

\* put() of the value that is there already only records the access.
PutSame(k) ==
    /\ Ready /\ open /\ Readable(k)
    /\ removing' = removing \ {k} /\ stale' = stale \ {k}
    /\ UNCHANGED <<running, open, map, excess, task, disk, history, bounds>>
    /\ CheckCompactor

\* Mutant: a bundled remove of the key is left to be written after the put.
PutValueKeepsRemove(k, v) ==
    /\ Ready /\ open /\ writes < MaxWrites
    /\ stale' = stale \ {k}
    /\ writes' = writes + 1
    /\ files' = [files EXCEPT ![writes'] = v]
    /\ task' = Task("wrote", k, writes', map[k])
    /\ UNCHANGED <<running, open, map, removing, excess, compactor, binlog, ready,
                   history, crashes, fails>>

\* put() of another one: it is written to a file of its own first.
PutValue(k, v) ==
    /\ Ready /\ open /\ writes < MaxWrites
    /\ removing' = removing \ {k} /\ stale' = stale \ {k}
    /\ writes' = writes + 1
    /\ files' = [files EXCEPT ![writes'] = v]
    /\ task' = Task("wrote", k, writes', map[k])
    /\ UNCHANGED <<running, open, map, excess, compactor, binlog, ready,
                   history, crashes, fails>>

Put(k) == PutValue(k, writes + 1)

\* The file cannot be written; what put() has erased by then stays erased.
PutFail(k) ==
    /\ Ready /\ open /\ Failing
    /\ removing' = removing \ {k} /\ stale' = stale \ {k}
    /\ UNCHANGED <<running, open, map, excess, task, compactor, disk, history,
                   writes, crashes>>

\* writeKeyPlace(): the record, and the entry of the map.
WriteKeyPlace ==
    /\ running /\ task.step = "wrote"
    /\ binlog' = Appended(binlog, Record({[key |-> task.key,
                                           place |-> task.place]}, {}))
    /\ map' = [map EXCEPT ![task.key] = task.place]
    /\ excess' = excess + (IF map[task.key] # 0 THEN 1 ELSE 0)
    /\ last' = [last EXCEPT ![task.key] = files[task.place]]
    /\ task' = [task EXCEPT !.step = "logged"]
    /\ UNCHANGED <<running, open, removing, stale, compactor, files, ready,
                   lossy, misread, bounds>>

WriteKeyPlaceFail ==
    /\ running /\ task.step = "wrote" /\ Failing
    /\ open' = FALSE
    /\ files' = [files EXCEPT ![task.place] = 0]
    /\ task' = Idle
    /\ UNCHANGED <<running, map, removing, stale, excess, compactor, binlog,
                   ready, history, writes, crashes>>

\* The end of put(): the file of the value it replaced is deleted.
PutDone ==
    /\ running /\ task.step = "logged"
    /\ files' = [p \in Places |-> IF p = task.was THEN 0 ELSE files[p]]
    /\ task' = Idle
    /\ UNCHANGED <<memory, binlog, ready, history, bounds>>
    /\ CheckCompactor

PutIfEmpty(k) == map[k] = 0 /\ Put(k)

CopyIfEmpty(from, to) ==
    map[to] = 0 /\ Readable(from) /\ PutValue(to, files[map[from]])

\* get(): an entry without its file is removed, an access is recorded.
Get(k) ==
    /\ Ready /\ map[k] # 0
    /\ IF Readable(k)
       THEN UNCHANGED <<map, removing, open, excess, binlog, files, last, fails>>
       ELSE RemoveEntry(k)
    /\ UNCHANGED <<running, stale, task, ready, lossy, misread, writes, crashes>>
    /\ IF Readable(k) THEN CheckCompactor ELSE UNCHANGED compactor

Remove(k) ==
    /\ Ready /\ map[k] # 0
    /\ RemoveEntry(k)
    /\ UNCHANGED <<running, stale, task, compactor, ready, lossy, misread, writes,
                   crashes>>

\* moveIfEmpty(): the old key is removed from the log at once, with the
\* removes bundled so far.
MoveIfEmpty(from, to) ==
    /\ Ready /\ writes < MaxWrites
    /\ map[to] = 0 /\ map[from] # 0
    /\ writes' = writes + 1
    /\ map' = [map EXCEPT ![from] = 0]
    /\ WriteMultiRemove(removing \cup {from})
    /\ task' = IF open' THEN Task("moving", to, map[from], 0) ELSE Idle
    /\ last' = IF open' THEN [last EXCEPT ![from] = 0] ELSE last
    /\ UNCHANGED <<running, stale, compactor, files, ready, lossy, misread,
                   crashes>>

\* writeExistingPlace(): the record and the entry of the new key.
WriteExistingPlace ==
    /\ running /\ task.step = "moving"
    /\ removing' = removing \ {task.key} /\ stale' = stale \ {task.key}
    /\ task' = Idle
    /\ \/ /\ binlog' = Appended(binlog, Record({[key |-> task.key,
                                                 place |-> task.place]}, {}))
          /\ map' = [map EXCEPT ![task.key] = task.place]
          /\ last' = [last EXCEPT ![task.key] = files[task.place]]
          /\ UNCHANGED <<open, fails>>
       \/ /\ Failing
          /\ open' = FALSE
          /\ UNCHANGED <<binlog, map, last>>
    /\ UNCHANGED <<running, excess, compactor, files, ready, lossy, misread,
                   writes, crashes>>

\* _writeBundlesTimer.
WriteBundles ==
    /\ Ready /\ removing # {}
    /\ WriteMultiRemove(removing)
    /\ UNCHANGED <<running, map, stale, task, files, ready, history,
                   writes, crashes>>
    /\ CheckCompactor

\* prune() or clearByTag() chooses entries.  With staleRemoveChunk = 1 the
\* first goes at once, the others in calls of clearStaleChunk() of their own.
MarkStale(S) ==
    /\ Ready
    /\ S # {} /\ \A k \in S : map[k] # 0
    /\ \/ /\ stale # {}
          /\ stale' = stale \cup S
          /\ UNCHANGED <<map, removing, open, excess, binlog, files, last,
                         fails, compactor>>
       \/ /\ stale = {}
          /\ \E k \in S :
                /\ stale' = S \ {k}
                /\ RemoveEntry(k)
                /\ IF stale' = {} THEN CheckCompactor ELSE UNCHANGED compactor
    /\ UNCHANGED <<running, task, ready, lossy, misread, writes, crashes>>

ClearStaleChunk ==
    /\ Ready
    /\ \E k \in stale :
          /\ stale' = stale \ {k}
          /\ RemoveEntry(k)
    /\ IF stale' = {} THEN CheckCompactor ELSE UNCHANGED compactor
    /\ UNCHANGED <<running, task, ready, lossy, misread, writes, crashes>>

-----------------------------------------------------------------------------
\* The compactor's queue.

\* parseChunk(): the keys of some more records, as many as the blocks read
\* hold.  Blocks of an unfinished record end the reading or make it fail.
ParseChunk ==
    /\ compactor.phase = "parse"
    /\ LET records == binlog.records
           end == IF Len(records) < compactor.till THEN Len(records)
                  ELSE compactor.till
           Stored(q) == {e.key : e \in UNION {records[i].stored :
                                              i \in compactor.pos + 1 .. q}}
           Asked(q) == [compactor EXCEPT !.phase = "asked", !.pos = q,
                                         !.keys = Stored(q)]
           Finished == [compactor EXCEPT
                !.phase = "catchUp", !.pos = 0, !.list = {},
                !.compact = IF compactor.list = {} THEN <<>>
                            ELSE <<Record(compactor.list, {})>>]
       IN  \/ \E q \in compactor.pos + 1 .. end :
                /\ Stored(q) # {}
                /\ compactor' = Asked(q)
           \/ /\ Stored(end) = {}
              /\ compactor' = Finished
           \/ /\ end < compactor.till
              /\ compactor' = [compactor EXCEPT !.phase = "fail"]
    /\ UNCHANGED <<memory, task, disk, history, bounds>>

\* processValues(): a key is written once.
ProcessValues ==
    /\ compactor.phase = "values"
    /\ LET written == {e.key : e \in compactor.list}
           added == {e \in compactor.raws : e.key \notin written}
       IN  compactor' = [compactor EXCEPT !.phase = "parse", !.raws = {},
                                          !.list = @ \cup added]
    /\ UNCHANGED <<memory, task, disk, history, bounds>>

\* CatchUp() copies what the live log has got behind `till'.
CaughtUp(c) ==
    [c EXCEPT !.till = Size(binlog),
              !.compact = @ \o SubSeq(binlog.records, c.till + 1,
                                      Len(binlog.records))]

\* One round of finalize(): again, unless nothing came or more and more comes.
CatchUpRound ==
    /\ compactor.phase = "catchUp"
    /\ LET grown == Size(binlog) - compactor.till
           over == grown = 0 \/ (compactor.grown > 0 /\ grown >= compactor.grown)
       IN  compactor' = [CaughtUp(compactor) EXCEPT
                !.grown = IF over THEN 0 ELSE grown,
                !.phase = IF over THEN "done" ELSE "catchUp"]
    /\ UNCHANGED <<memory, task, disk, history, bounds>>

\* A file of the compactor cannot be read or written.
CompactorBreaks ==
    /\ compactor.phase \in {"parse", "values", "catchUp"}
    /\ Failing
    /\ compactor' = [compactor EXCEPT !.phase = "fail"]
    /\ UNCHANGED <<memory, task, disk, history, writes, crashes>>

-----------------------------------------------------------------------------
\* Calls of the compactor on the database's queue.

\* getManyRaw(): the entries the map has now.
GetManyRaw ==
    /\ Ready /\ compactor.phase = "asked"
    /\ compactor' = [compactor EXCEPT
            !.phase = "values", !.keys = {},
            !.raws = {[key |-> k, place |-> map[k]] :
                        k \in {j \in compactor.keys : map[j] # 0}}]
    /\ UNCHANGED <<memory, task, disk, history, bounds>>

HandleFail ==
    /\ Ready /\ compactor.phase = "fail"
    /\ CompactorFail
    /\ UNCHANGED <<memory, task, files, binlog, history, bounds>>

\* Mutant: what came after the compactor's last round is not copied.
CompactorDoneAtOnce ==
    /\ Ready /\ open /\ compactor.phase = "done"
    /\ ready' = {Log(compactor.compact, 0)}
    /\ task' = [Idle EXCEPT !.step = "ready"]
    /\ open' = FALSE
    /\ misread' = (misread \/ ~compactor.clean)
    /\ UNCHANGED <<running, map, removing, stale, excess, compactor, files,
                   binlog, last, lossy, bounds>>

\* compactorDone(): the last records are copied, then "binlog-temp" becomes
\* "binlog-ready".
CompactorDone ==
    /\ Ready /\ open /\ compactor.phase = "done"
    /\ compactor' = CaughtUp(compactor)
    /\ ready' = {Log(compactor'.compact, 0)}
    /\ task' = [Idle EXCEPT !.step = "ready"]
    /\ open' = FALSE
    /\ misread' = (misread \/ ~compactor.clean)
    /\ UNCHANGED <<running, map, removing, stale, excess, files, binlog,
                   last, lossy, bounds>>

\* The catching up or the first renaming fails, the catching up always if the
\* binlog was closed, as its size is 0 then.
CompactorDoneFail ==
    /\ Ready /\ compactor.phase = "done"
    /\ IF open THEN Failing ELSE UNCHANGED fails
    /\ CompactorFail
    /\ UNCHANGED <<memory, task, files, binlog, history, writes,
                   crashes>>

\* File::Move(): the destination is locked for writing, which empties it,
\* and deleted.
MoveEmpties ==
    /\ running /\ task.step = "ready"
    /\ binlog' = EmptyLog
    /\ task' = [Idle EXCEPT !.step = "emptied"]
    /\ UNCHANGED <<memory, compactor, files, ready, history, bounds>>

\* The source is renamed, and the new log opened at its end.
MoveRenames ==
    /\ running /\ task.step = "emptied"
    /\ binlog' = CHOOSE log \in ready : TRUE
    /\ ready' = {}
    /\ open' = TRUE
    /\ excess' = excess - compactor.excess
    /\ compactor' = NoCompactor
    /\ task' = Idle
    /\ UNCHANGED <<running, map, removing, stale, files, history,
                   bounds>>

\* The source is renamed, but cannot be opened again: the binlog stays closed.
ReopenFail ==
    /\ running /\ task.step = "emptied" /\ Failing
    /\ binlog' = CHOOSE log \in ready : TRUE
    /\ CompactorFail
    /\ task' = Idle
    /\ UNCHANGED <<memory, files, history, writes, crashes>>

\* The lock, the deletion or the renaming fails: the binlog stays closed.
MoveFail ==
    /\ running /\ task.step \in {"ready", "emptied"} /\ Failing
    /\ CompactorFail
    /\ lossy' = (lossy \/ task.step = "emptied")
    /\ task' = Idle
    /\ UNCHANGED <<memory, files, binlog, last, misread, writes, crashes>>

-----------------------------------------------------------------------------
\* The process.

ClearState ==
    /\ running' = FALSE /\ open' = FALSE
    /\ map' = [k \in Keys |-> 0]
    /\ stale' = {} /\ excess' = 0
    /\ task' = Idle
    /\ compactor' = NoCompactor

Ends == crashes < MaxCrashes /\ crashes' = crashes + 1

\* close() writes the bundled removes.
Close ==
    /\ Ready /\ Ends
    /\ removing' = {}
    /\ binlog' = IF open /\ removing # {}
                 THEN Appended(binlog, Record({}, removing)) ELSE binlog
    /\ ClearState
    /\ UNCHANGED <<files, ready, history, writes, fails>>

\* The process is killed.  If it was about to write a record, some blocks of
\* it may be there.
Crash ==
    /\ running /\ Ends
    /\ \/ UNCHANGED binlog
       \/ /\ open
          /\ task.step \in {"wrote", "moving"} \/ removing # {}
          /\ binlog' = [binlog EXCEPT !.torn = 1]
    /\ removing' = {}
    /\ ClearState
    /\ UNCHANGED <<files, ready, history, writes, fails>>

\* openBinlog(): a log that was ready takes the place of the old one, and is
\* read.
OpenedLog == IF ready = {} THEN binlog ELSE CHOOSE log \in ready : TRUE

Open ==
    /\ ~running
    /\ running' = TRUE /\ open' = TRUE
    /\ binlog' = OpenedLog
    /\ ready' = {}
    /\ map' = [k \in Keys |-> Replayed(binlog'.records, k)]
    /\ excess' = Excess(binlog'.records)
    /\ CheckCompactor
    /\ UNCHANGED <<removing, stale, task, files, history, bounds>>

\* openNewBinlog(): the log cannot be used, and the directory is given up.
OpenNewBinlog ==
    /\ ~running /\ Failing
    /\ running' = TRUE /\ open' = TRUE
    /\ binlog' = EmptyLog /\ ready' = {} /\ files' = [p \in Places |-> 0]
    /\ map' = [k \in Keys |-> 0]
    /\ excess' = 0
    /\ lossy' = TRUE
    /\ UNCHANGED <<removing, stale, task, compactor, last, misread, writes,
                   crashes>>

Database ==
    \/ WriteKeyPlace \/ WriteKeyPlaceFail \/ PutDone \/ WriteExistingPlace
    \/ WriteBundles \/ ClearStaleChunk
    \/ GetManyRaw \/ HandleFail \/ CompactorDone \/ CompactorDoneFail
    \/ MoveEmpties \/ MoveRenames \/ ReopenFail \/ MoveFail

Callers ==
    \/ \E k \in Keys : \/ PutSame(k) \/ Put(k) \/ PutFail(k) \/ PutIfEmpty(k)
                       \/ Get(k) \/ Remove(k)
    \/ \E k, j \in Keys : CopyIfEmpty(k, j) \/ MoveIfEmpty(k, j)
    \/ \E S \in SUBSET Keys : MarkStale(S)

Compactor == ParseChunk \/ ProcessValues \/ CatchUpRound \/ CompactorBreaks

Process == Close \/ Crash \/ Open \/ OpenNewBinlog

Next == Database \/ Callers \/ Compactor \/ Process

Spec == Init /\ [][Next]_vars

-----------------------------------------------------------------------------
\* What get() would find for k after the process ended now and was started
\* again.
Found(k) ==
    LET place == Replayed(OpenedLog.records, k)
    IN  IF place = 0 THEN 0 ELSE files[place]

\* What get() finds for k.
Gotten(k) == IF map[k] = 0 THEN 0 ELSE files[map[k]]

\* A value that get() finds is found after a crash too, at every moment: in
\* the middle of a put that replaces it, with removes of it or of others
\* still bundled, while the log is compacted, and between the two renamings
\* that install the compacted log.
CrashKeepsValues ==
    running /\ ~lossy /\ ~misread =>
        \A k \in Keys : Readable(k) => Found(k) = Gotten(k)

\* The compacted log says what the live one says: when it is ready to be
\* installed each key has the place the live log gives it, or none if the
\* map has none (its remove is still bundled, or was lost with an error).
\* An older place would bring a removed or replaced value back.
CompactedAgrees ==
    task.step = "ready" /\ ~misread =>
        \A log \in ready, k \in Keys :
            LET new == Replayed(log.records, k) IN
            \/ new = Replayed(binlog.records, k)
            \/ new = 0 /\ map[k] = 0

\* The database implements the cache its callers see: get() returns the value
\* last put under the key, or none.
Cache == INSTANCE CacheStore WITH
    store <- [k \in Keys |-> IF running THEN Gotten(k) ELSE Found(k)],
    damaged <- misread
Implements == Cache!Spec

=============================================================================
