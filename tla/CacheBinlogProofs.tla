-------------------------- MODULE CacheBinlogProofs --------------------------
(***************************************************************************)
(* Proofs about CacheBinlog: the database implements CacheStore, whatever  *)
(* the number of keys, puts and crashes.  As long as no compaction went    *)
(* over an unfinished record, the logs on the disk give each key the place *)
(* the map gives it, or one whose value is the last put or is deleted; and *)
(* what the compactor has gathered is what the live log says, unless a     *)
(* record it has still to copy says otherwise.                             *)
(***************************************************************************)
EXTENDS CacheBinlog, FiniteSetTheorems, SequenceTheorems, WellFoundedInduction,
        TLAPS

-----------------------------------------------------------------------------
(* The inductive invariant. *)

\* What runs when: the parts of memory that are empty while the process does
\* not run, and the handlers that need the log open or have closed it.
Phased ==
    /\ ~running => /\ ~open /\ removing = {} /\ task = Idle
                   /\ compactor.phase = "none"
    /\ task.step \in {"wrote", "logged", "moving"} => open
    /\ task.step \in {"ready", "emptied"} =>
            ~open /\ ready # {} /\ compactor.phase = "done"
    /\ running /\ ready # {} => task.step \in {"ready", "emptied"}
    /\ compactor.phase # "none" =>
        /\ compactor.excess <= excess
        /\ task.step \notin {"ready", "emptied"} => compactor.till <= Size(binlog)

\* A handler that is about to write a record has its key and its place.
TaskKnown ==
    task.step \in {"wrote", "moving"} => task.key \in Keys /\ task.place \in Places

\* The logs that may be read again.
KnownLogs == {binlog} \cup ready

\* The places of the keys that are read now, or that a start would read.
Reading(log) == [k \in Keys |-> Replayed(log.records, k)]
Readings == {map} \cup {Reading(log) : log \in KnownLogs}

\* Each key has a place of its own, one that was drawn already.
OwnPlaces ==
    /\ \A r \in Readings :
        /\ \A k \in Keys : r[k] <= writes
        /\ \A j, k \in Keys : r[j] = r[k] /\ r[k] # 0 => j = k
    /\ task.step \in {"wrote", "moving"} =>
        /\ task.key \in Keys /\ task.place \in 1 .. writes
        /\ \A r \in Readings, k \in Keys : r[k] # task.place

\* A place holds the value last put under the key, or nothing.
HarmlessPlaces ==
    \A r \in Readings, k \in Keys : r[k] # 0 => files[r[k]] \in {0, last[k]}

\* Removes that are not in the log yet are of keys that are not in the map,
\* nor will be when the handler is done.
RemovedAreGone ==
    /\ \A k \in removing : map[k] = 0
    /\ task.step = "wrote" => task.key \notin removing

\* The log follows the map, unless it was lost with an error.
LogFollows ==
    running /\ (open \/ ~lossy \/ compactor.phase # "none") =>
        \A k \in Keys :
            map[k] # 0 => Replayed(OpenedLog.records, k) = map[k]

\* The compactor has still to copy a record about k.
Beyond(k) ==
    \E i \in compactor.till + 1 .. Len(binlog.records) :
        Touches(binlog.records[i], k)

\* The entries the compactor has asked for are the live log's, and those it
\* has not are in records still to be read.
Gathers ==
    /\ compactor.phase \in {"parse", "values"} => compactor.keys = {}
    /\ compactor.phase \in {"parse", "asked"} => compactor.raws = {}
    /\ \A e \in compactor.list \cup compactor.raws :
        ~Beyond(e.key) => e.place = Replayed(binlog.records, e.key)
    /\ \A k \in Keys : map[k] # 0 /\ ~Beyond(k) =>
        \/ k \in compactor.keys
        \/ \E e \in compactor.list \cup compactor.raws : e.key = k
        \/ \E i \in compactor.pos + 1 .. compactor.till :
             \E e \in binlog.records[i].stored : e.key = k

\* A log that says of k what the live one says, or that it is not there.
Agrees(records, k) ==
    \/ Replayed(records, k) = Replayed(binlog.records, k)
    \/ Replayed(records, k) = 0 /\ map[k] = 0

CompactorAgrees ==
    /\ compactor.phase # "none" /\ compactor.clean
    /\ task.step \notin {"ready", "emptied"}
    => /\ binlog.torn = 0 /\ compactor.till <= Len(binlog.records)
       /\ compactor.phase \in {"parse", "asked", "values"} => Gathers
       /\ compactor.phase \in {"catchUp", "done"} =>
            \A k \in Keys : ~Beyond(k) => Agrees(compactor.compact, k)

\* What holds until a record of the log is lost.
Undamaged ==
    /\ OwnPlaces /\ HarmlessPlaces /\ RemovedAreGone /\ LogFollows
    /\ CompactorAgrees /\ CompactedAgrees

IInv == TypeOK /\ Phased /\ TaskKnown /\ (~misread => Undamaged)

-----------------------------------------------------------------------------
(* What a log leaves in the map. *)

\* What one record says of a key it touches.
Said(record, k) ==
    IF k \in record.removed THEN 0
    ELSE (CHOOSE e \in record.stored : e.key = k).place

\* The last of some positions is one of them.
LEMMA LastOne ==
    ASSUME NEW n \in Nat, NEW I \in SUBSET (1 .. n), I # {}
    PROVE  Max(I) \in I /\ \A i \in I : i <= Max(I)
<1> DEFINE Back == {n - i : i \in I}
<1>1. Back \subseteq Nat /\ Back # {}
  <2>1. \A i \in I : n - i \in Nat
    OBVIOUS
  <2>2. PICK i \in I : TRUE
    OBVIOUS
  <2>3. n - i \in Back
    BY <2>2
  <2> QED
    BY <2>1, <2>3
<1>2. IsWellFoundedOn(OpToRel(<, Nat), Nat)
    BY NatLessThanWellFounded
<1>3. PICK b \in Back : \A y \in Back : ~(<<y, b>> \in OpToRel(<, Nat))
    BY <1>1, <1>2, WFMin
<1>4. PICK i \in I : b = n - i
    BY <1>3
<1>5. \A j \in I : i >= j
  <2> SUFFICES ASSUME NEW j \in I PROVE i >= j
    OBVIOUS
  <2>1. n - j \in Nat /\ n - i \in Nat /\ n - j \in Back
    OBVIOUS
  <2>2. ~(n - j < n - i)
    BY <1>3, <1>4, <2>1 DEF OpToRel
  <2> QED
    BY <2>2
<1>6. Max(I) \in I /\ \A y \in I : Max(I) >= y
    BY <1>5 DEF Max
<1> QED
    BY <1>6

LEMMA UntouchedReplay ==
    ASSUME NEW records \in Seq(Records), NEW k \in Keys,
           \A i \in 1 .. Len(records) : ~Touches(records[i], k)
    PROVE  Replayed(records, k) = 0
BY LenProperties DEF Replayed

\* The last record that touches a key decides.
LEMMA TouchedReplay ==
    ASSUME NEW records \in Seq(Records), NEW k \in Keys,
           NEW i \in 1 .. Len(records), Touches(records[i], k),
           \A j \in 1 .. Len(records) : j > i => ~Touches(records[j], k)
    PROVE  Replayed(records, k) = Said(records[i], k)
<1> DEFINE I == {j \in 1 .. Len(records) : Touches(records[j], k)}
<1>1. DOMAIN records = 1 .. Len(records) /\ Len(records) \in Nat
    BY LenProperties
<1>2. i \in I /\ I \in SUBSET (1 .. Len(records))
    OBVIOUS
<1>3. Max(I) \in I /\ i <= Max(I)
    BY <1>1, <1>2, LastOne
<1>4. Max(I) = i
    BY <1>3
<1>5. {j \in DOMAIN records : Touches(records[j], k)} = I
    BY <1>1
<1> HIDE DEF I
<1>6. Replayed(records, k) = IF I = {} THEN 0 ELSE Said(records[Max(I)], k)
  <2>1. Replayed(records, k) =
            IF \/ {j \in DOMAIN records : Touches(records[j], k)} = {}
               \/ k \in records[Max({j \in DOMAIN records :
                                        Touches(records[j], k)})].removed
            THEN 0
            ELSE (CHOOSE e \in records[Max({j \in DOMAIN records :
                            Touches(records[j], k)})].stored : e.key = k).place
    BY Zenon DEF Replayed
  <2>2. Replayed(records, k) =
            IF I = {} \/ k \in records[Max(I)].removed THEN 0
            ELSE (CHOOSE e \in records[Max(I)].stored : e.key = k).place
    BY <1>5, <2>1, Zenon
  <2> QED
    BY <2>2, Zenon DEF Said
<1> QED
    BY <1>2, <1>4, <1>6

\* A key that is touched is touched a last time.
LEMMA LastTouch ==
    ASSUME NEW records \in Seq(Records), NEW k \in Keys,
           NEW t \in 1 .. Len(records), Touches(records[t], k)
    PROVE  \E i \in t .. Len(records) :
              /\ Touches(records[i], k)
              /\ \A j \in 1 .. Len(records) : j > i => ~Touches(records[j], k)
              /\ Replayed(records, k) = Said(records[i], k)
<1> DEFINE I == {j \in 1 .. Len(records) : Touches(records[j], k)}
<1>1. Len(records) \in Nat
    BY LenProperties
<1>2. t \in I /\ I \in SUBSET (1 .. Len(records))
    OBVIOUS
<1>3. Max(I) \in I /\ \A j \in I : j <= Max(I)
    BY <1>1, <1>2, LastOne
<1>4. Max(I) \in t .. Len(records) /\ Touches(records[Max(I)], k)
    BY <1>1, <1>2, <1>3
<1>5. \A j \in 1 .. Len(records) : j > Max(I) => ~Touches(records[j], k)
    BY <1>1, <1>3
<1>6. Replayed(records, k) = Said(records[Max(I)], k)
    BY <1>3, <1>4, <1>5, TouchedReplay
<1> QED
    BY <1>4, <1>5, <1>6

LEMMA SaidType ==
    ASSUME NEW record \in Records, NEW k \in Keys, Touches(record, k)
    PROVE  /\ Said(record, k) \in Places \cup {0}
           /\ Said(record, k) # 0 =>
                \E e \in record.stored : e.key = k /\ e.place = Said(record, k)
<1>1. CASE k \in record.removed
    BY <1>1 DEF Said
<1>2. CASE k \notin record.removed
  <2>1. PICK e \in record.stored : e.key = k
    BY <1>2 DEF Touches
  <2> DEFINE f == CHOOSE x \in record.stored : x.key = k
  <2>2. f \in record.stored /\ f.key = k
    BY <2>1
  <2>3. Said(record, k) = f.place
    BY <1>2 DEF Said
  <2>4. f \in Entries
    BY <2>2 DEF Records
  <2> HIDE DEF f
  <2> QED
    BY <2>2, <2>3, <2>4 DEF Entries
<1> QED
    BY <1>1, <1>2

LEMMA ReplayedType ==
    ASSUME NEW records \in Seq(Records), NEW k \in Keys
    PROVE  Replayed(records, k) \in Places \cup {0}
<1>1. CASE \A i \in 1 .. Len(records) : ~Touches(records[i], k)
    BY <1>1, UntouchedReplay
<1>2. CASE \E i \in 1 .. Len(records) : Touches(records[i], k)
  <2>1. PICK t \in 1 .. Len(records) : Touches(records[t], k)
    BY <1>2
  <2>2. PICK i \in t .. Len(records) :
            Touches(records[i], k) /\ Replayed(records, k) = Said(records[i], k)
    BY <2>1, LastTouch
  <2>3. records[i] \in Records
    BY <2>1, <2>2, ElementOfSeq, LenProperties
  <2> QED
    BY <2>2, <2>3, SaidType
<1> QED
    BY <1>1, <1>2

\* A place that is read was stored.
LEMMA ReplayedWasStored ==
    ASSUME NEW records \in Seq(Records), NEW k \in Keys,
           Replayed(records, k) # 0
    PROVE  \E i \in 1 .. Len(records) : \E e \in records[i].stored :
              /\ e.key = k /\ e.place = Replayed(records, k)
              /\ \A j \in 1 .. Len(records) : j > i => ~Touches(records[j], k)
<1>1. PICK t \in 1 .. Len(records) : Touches(records[t], k)
    BY UntouchedReplay
<1>2. PICK i \in t .. Len(records) :
        /\ Touches(records[i], k) /\ Replayed(records, k) = Said(records[i], k)
        /\ \A j \in 1 .. Len(records) : j > i => ~Touches(records[j], k)
    BY <1>1, LastTouch
<1>3. records[i] \in Records /\ i \in 1 .. Len(records)
    BY <1>1, <1>2, ElementOfSeq, LenProperties
<1> QED
    BY <1>2, <1>3, SaidType

LEMMA EmptyReplay ==
    ASSUME NEW k \in Keys
    PROVE  Replayed(<<>>, k) = 0
<1>1. <<>> \in Seq(Records) /\ Len(<<>>) = 0
    BY EmptySeq
<1>2. ASSUME NEW records \in Seq(Records), Len(records) = 0
      PROVE  Replayed(records, k) = 0
  <2>1. \A i \in 1 .. Len(records) : ~Touches(records[i], k)
    BY <1>2
  <2> QED
    BY <2>1, UntouchedReplay
<1> QED
    BY <1>1, <1>2

LEMMA AppendReplay ==
    ASSUME NEW records \in Seq(Records), NEW record \in Records, NEW k \in Keys
    PROVE  Replayed(Append(records, record), k) =
              IF Touches(record, k) THEN Said(record, k)
              ELSE Replayed(records, k)
<1> DEFINE new == Append(records, record)
<1>1. /\ new \in Seq(Records) /\ Len(new) = Len(records) + 1
      /\ \A i \in 1 .. Len(records) : new[i] = records[i]
      /\ new[Len(records) + 1] = record
    BY AppendProperties
<1>2. Len(records) \in Nat
    BY LenProperties
<1> HIDE DEF new
<1>3. CASE Touches(record, k)
  <2>1. Replayed(new, k) = Said(new[Len(records) + 1], k)
    BY <1>1, <1>2, <1>3, TouchedReplay
  <2> QED
    BY <1>1, <1>3, <2>1 DEF new
<1>4. CASE ~Touches(record, k) /\ \A i \in 1 .. Len(records) : ~Touches(records[i], k)
  <2>1. \A i \in 1 .. Len(new) : ~Touches(new[i], k)
    BY <1>1, <1>2, <1>4
  <2>2. Replayed(new, k) = 0 /\ Replayed(records, k) = 0
    BY <1>1, <1>4, <2>1, UntouchedReplay
  <2> QED
    BY <1>4, <2>2 DEF new
<1>5. CASE ~Touches(record, k) /\ \E i \in 1 .. Len(records) : Touches(records[i], k)
  <2>1. PICK t \in 1 .. Len(records) : Touches(records[t], k)
    BY <1>5
  <2>2. PICK i \in t .. Len(records) :
        /\ Touches(records[i], k) /\ Replayed(records, k) = Said(records[i], k)
        /\ \A j \in 1 .. Len(records) : j > i => ~Touches(records[j], k)
    BY <2>1, LastTouch
  <2>3. i \in 1 .. Len(records)
    BY <2>1, <2>2, <1>2
  <2>4. \A j \in 1 .. Len(new) : j > i => ~Touches(new[j], k)
    BY <1>1, <1>2, <1>5, <2>2
  <2>5. Replayed(new, k) = Said(new[i], k)
    BY <1>1, <1>2, <2>2, <2>3, <2>4, TouchedReplay
  <2> QED
    BY <1>1, <1>5, <2>2, <2>3, <2>5 DEF new
<1> QED
    BY <1>3, <1>4, <1>5

LEMMA OneReplay ==
    ASSUME NEW record \in Records, NEW k \in Keys
    PROVE  Replayed(<<record>>, k) =
              IF Touches(record, k) THEN Said(record, k) ELSE 0
<1>1. <<>> \in Seq(Records)
    BY EmptySeq
<1>2. Append(<<>>, record) = <<record>>
    OBVIOUS
<1>3. Replayed(Append(<<>>, record), k) =
        IF Touches(record, k) THEN Said(record, k) ELSE Replayed(<<>>, k)
    BY <1>1, AppendReplay
<1> QED
    BY <1>2, <1>3, EmptyReplay

\* One log behind the other.
LEMMA ConcatReplay ==
    ASSUME NEW a \in Seq(Records), NEW b \in Seq(Records), NEW k \in Keys
    PROVE  Replayed(a \o b, k) =
              IF \E i \in 1 .. Len(b) : Touches(b[i], k) THEN Replayed(b, k)
              ELSE Replayed(a, k)
<1> DEFINE new == a \o b
<1>1. /\ new \in Seq(Records) /\ Len(new) = Len(a) + Len(b)
      /\ \A i \in 1 .. Len(a) + Len(b) :
            new[i] = IF i <= Len(a) THEN a[i] ELSE b[i - Len(a)]
    BY ConcatProperties
<1>2. Len(a) \in Nat /\ Len(b) \in Nat
    BY LenProperties
<1>3. /\ \A i \in 1 .. Len(a) : new[i] = a[i]
      /\ \A i \in 1 .. Len(b) : new[Len(a) + i] = b[i]
      /\ \A j \in 1 .. Len(new) : j > Len(a) =>
            j - Len(a) \in 1 .. Len(b) /\ new[j] = b[j - Len(a)]
    BY <1>1, <1>2
<1> HIDE DEF new
<1>4. CASE \E i \in 1 .. Len(b) : Touches(b[i], k)
  <2>1. PICK t \in 1 .. Len(b) : Touches(b[t], k)
    BY <1>4
  <2>2. PICK i \in t .. Len(b) :
        /\ Touches(b[i], k) /\ Replayed(b, k) = Said(b[i], k)
        /\ \A j \in 1 .. Len(b) : j > i => ~Touches(b[j], k)
    BY <2>1, LastTouch
  <2>3. Len(a) + i \in 1 .. Len(new) /\ new[Len(a) + i] = b[i]
    BY <1>1, <1>2, <1>3, <2>1, <2>2
  <2>4. \A j \in 1 .. Len(new) : j > Len(a) + i => ~Touches(new[j], k)
    <3> SUFFICES ASSUME NEW j \in 1 .. Len(new), j > Len(a) + i
                 PROVE  ~Touches(new[j], k)
      OBVIOUS
    <3>1. i \in Nat /\ j > Len(a) /\ j - Len(a) > i
      BY <1>2, <2>1, <2>2
    <3>2. j - Len(a) \in 1 .. Len(b) /\ new[j] = b[j - Len(a)]
      BY <1>3, <3>1
    <3> QED
      BY <2>2, <3>1, <3>2
  <2>5. Replayed(new, k) = Said(b[i], k)
    BY <1>1, <2>2, <2>3, <2>4, TouchedReplay
  <2> QED
    BY <1>4, <2>2, <2>5 DEF new
<1>5. CASE /\ ~\E i \in 1 .. Len(b) : Touches(b[i], k)
           /\ \E i \in 1 .. Len(a) : Touches(a[i], k)
  <2>1. PICK t \in 1 .. Len(a) : Touches(a[t], k)
    BY <1>5
  <2>2. PICK i \in t .. Len(a) :
        /\ Touches(a[i], k) /\ Replayed(a, k) = Said(a[i], k)
        /\ \A j \in 1 .. Len(a) : j > i => ~Touches(a[j], k)
    BY <2>1, LastTouch
  <2>3. i \in 1 .. Len(new) /\ new[i] = a[i]
    BY <1>1, <1>2, <1>3, <2>1, <2>2
  <2>4. \A j \in 1 .. Len(new) : j > i => ~Touches(new[j], k)
    <3> SUFFICES ASSUME NEW j \in 1 .. Len(new), j > i PROVE ~Touches(new[j], k)
      OBVIOUS
    <3>1. CASE j <= Len(a)
      BY <1>3, <2>2, <3>1
    <3>2. CASE j > Len(a)
      BY <1>3, <1>5, <3>2
    <3> QED
      BY <3>1, <3>2, <1>2
  <2>5. Replayed(new, k) = Said(a[i], k)
    BY <1>1, <2>2, <2>3, <2>4, TouchedReplay
  <2> QED
    BY <1>5, <2>2, <2>5 DEF new
<1>6. CASE /\ ~\E i \in 1 .. Len(b) : Touches(b[i], k)
           /\ ~\E i \in 1 .. Len(a) : Touches(a[i], k)
  <2>1. \A j \in 1 .. Len(new) : ~Touches(new[j], k)
    <3> SUFFICES ASSUME NEW j \in 1 .. Len(new) PROVE ~Touches(new[j], k)
      OBVIOUS
    <3>1. CASE j <= Len(a)
      BY <1>3, <1>6, <3>1
    <3>2. CASE j > Len(a)
      BY <1>3, <1>6, <3>2
    <3> QED
      BY <3>1, <3>2, <1>2
  <2> QED
    BY <1>1, <1>6, <2>1, UntouchedReplay DEF new
<1> QED
    BY <1>4, <1>5, <1>6

\* What is behind a position decides if it touches the key.
LEMMA TailReplay ==
    ASSUME NEW records \in Seq(Records), NEW k \in Keys,
           NEW from \in 0 .. Len(records)
    PROVE  LET tail == SubSeq(records, from + 1, Len(records)) IN
           /\ tail \in Seq(Records)
           /\ (\E i \in 1 .. Len(tail) : Touches(tail[i], k)) <=>
                (\E i \in from + 1 .. Len(records) : Touches(records[i], k))
           /\ (\E i \in from + 1 .. Len(records) : Touches(records[i], k))
                => Replayed(tail, k) = Replayed(records, k)
<1> DEFINE tail == SubSeq(records, from + 1, Len(records))
<1>1. /\ Len(records) \in Nat /\ from \in Nat /\ from <= Len(records)
      /\ \A i \in 1 .. Len(records) : records[i] \in Records
    BY LenProperties, ElementOfSeq
<1>2. \A i \in from + 1 .. Len(records) : records[i] \in Records
    BY <1>1
<1>3. /\ tail \in Seq(Records)
      /\ Len(tail) = IF from + 1 <= Len(records)
                     THEN Len(records) - (from + 1) + 1 ELSE 0
      /\ \A i \in 1 .. Len(records) - (from + 1) + 1 :
            tail[i] = records[from + 1 + i - 1]
    BY <1>1, <1>2, SubSeqProperties
<1> HIDE DEF tail
<1>4. Len(tail) = Len(records) - from
    BY <1>1, <1>3
<1>5. \A i \in 1 .. Len(tail) : tail[i] = records[from + i]
                                /\ from + i \in from + 1 .. Len(records)
    BY <1>1, <1>3, <1>4
<1>6. \A i \in from + 1 .. Len(records) :
        i - from \in 1 .. Len(tail) /\ tail[i - from] = records[i]
    BY <1>1, <1>4, <1>5
<1>7. (\E i \in 1 .. Len(tail) : Touches(tail[i], k)) <=>
      (\E i \in from + 1 .. Len(records) : Touches(records[i], k))
    BY <1>5, <1>6
<1>8. ASSUME \E i \in from + 1 .. Len(records) : Touches(records[i], k)
      PROVE  Replayed(tail, k) = Replayed(records, k)
  <2>1. PICK t \in 1 .. Len(tail) : Touches(tail[t], k)
    BY <1>7, <1>8
  <2>2. PICK i \in t .. Len(tail) :
        /\ Touches(tail[i], k) /\ Replayed(tail, k) = Said(tail[i], k)
        /\ \A j \in 1 .. Len(tail) : j > i => ~Touches(tail[j], k)
    BY <1>3, <2>1, LastTouch
  <2>3. i \in 1 .. Len(tail)
    BY <2>1, <2>2
  <2>4. from + i \in 1 .. Len(records) /\ Touches(records[from + i], k)
        /\ records[from + i] = tail[i]
    BY <1>1, <1>5, <2>2, <2>3
  <2>5. \A j \in 1 .. Len(records) : j > from + i => ~Touches(records[j], k)
    <3> SUFFICES ASSUME NEW j \in 1 .. Len(records), j > from + i
                 PROVE  ~Touches(records[j], k)
      OBVIOUS
    <3>1. j \in from + 1 .. Len(records) /\ j - from > i
      BY <1>1, <2>3
    <3> QED
      BY <1>6, <2>2, <3>1
  <2>6. Replayed(records, k) = Said(records[from + i], k)
    BY <2>4, <2>5, TouchedReplay
  <2> QED
    BY <2>2, <2>4, <2>6
<1> QED
    BY <1>3, <1>7, <1>8 DEF tail

-----------------------------------------------------------------------------
(* What the handlers do, as far as the invariant is concerned. *)

\* A remove of R is written to the log.
Removes(R) == binlog' = Appended(binlog, Record({}, R))

\* An entry of k is given up, with the file of its value.
Forgets(k) ==
    /\ open /\ map[k] # 0
    /\ map' = [map EXCEPT ![k] = 0]
    /\ files' = [files EXCEPT ![map[k]] = 0]
    /\ last' = [last EXCEPT ![k] = 0]

\* The memory and the disk lose entries, or the log is closed.
Loses ==
    /\ map' \in [Keys -> Places \cup {0}]
    /\ \A k \in Keys : map'[k] \in {map[k], 0}
    /\ removing' \subseteq Keys /\ Cardinality(removing') < maxBundledRecords
    /\ \A k \in removing' : k \in removing \/ map'[k] = 0
    /\ open' \in BOOLEAN /\ (open' => open)
    /\ excess' \in Nat /\ excess <= excess'
    /\ \/ binlog' = binlog
       \/ \E R \in SUBSET Keys :
            Removes(R) /\ \A k \in R : k \in removing \/ map'[k] = 0
    /\ files' \in [Places -> Values \cup {0}]
    /\ \A p \in Places : files'[p] \in {files[p], 0}
    /\ last' = last \/ \E k \in Keys : Forgets(k)
    /\ fails' \in 0 .. MaxFails

\* What becomes of the compactor meanwhile.
CompactorSpared ==
    \/ compactor' = compactor /\ UNCHANGED ready
    \/ compactor' = NoCompactor /\ ready' = {}
    \/ /\ compactor.phase = "none" /\ open' /\ UNCHANGED ready
       /\ compactor' = NewCompactor(binlog', excess')

\* A handler that ends and has stored nothing.
DropStep ==
    /\ running /\ task.step \notin {"ready", "emptied"}
    /\ Loses /\ CompactorSpared
    /\ stale' \subseteq Keys
    /\ task' = Idle \/ (task' = task /\ task.step = "idle")
    /\ writes' \in {writes, writes + 1} /\ writes' <= MaxWrites
    /\ UNCHANGED <<running, lossy, misread, crashes>>

\* The record and the entry of the key that a handler is at.
StoreStep ==
    /\ running /\ task.step \in {"wrote", "moving"}
    /\ binlog' = Appended(binlog, Record({[key |-> task.key,
                                           place |-> task.place]}, {}))
    /\ map' = [map EXCEPT ![task.key] = task.place]
    /\ last' = [last EXCEPT ![task.key] = files[task.place]]
    /\ removing' \subseteq removing /\ stale' \subseteq stale
    /\ task.step = "moving" => task.key \notin removing'
    /\ task' = Idle \/ task' = [task EXCEPT !.step = "logged"]
    /\ excess' \in {excess, excess + 1}
    /\ UNCHANGED <<running, open, compactor, files, ready, lossy, misread,
                   bounds>>

\* The compactor gathers or copies.
CompactorStep ==
    /\ UNCHANGED <<memory, task, disk, history, writes, crashes>>
    /\ fails' \in 0 .. MaxFails
    /\ ParseChunk \/ ProcessValues \/ CatchUpRound \/ CompactorBreaks
         \/ GetManyRaw

-----------------------------------------------------------------------------
(* The handlers do so. *)

LEMMA RemovingStays ==
    ASSUME TypeOK, NEW R \in SUBSET removing
    PROVE  R \subseteq Keys /\ Cardinality(R) < maxBundledRecords
<1>1. IsFiniteSet(removing)
    BY KeysAssumption, FS_Subset DEF TypeOK
<1>2. Cardinality(R) <= Cardinality(removing) /\ IsFiniteSet(R)
    BY <1>1, FS_Subset
<1>3. Cardinality(R) \in Nat /\ Cardinality(removing) \in Nat
    BY <1>1, <1>2, FS_CardinalityType
<1> QED
    BY <1>2, <1>3, SettingsAssumption DEF TypeOK

LEMMA MultiRemoveDoes ==
    ASSUME TypeOK, NEW R \in SUBSET Keys, WriteMultiRemove(R)
    PROVE  /\ removing' = {} /\ Cardinality(removing') < maxBundledRecords
           /\ open' \in BOOLEAN /\ (open' => open)
           /\ excess' \in Nat /\ excess <= excess'
           /\ binlog' = binlog \/ Removes(R)
           /\ open' => Removes(R)
           /\ fails' \in 0 .. MaxFails
<1>1. removing' = {} /\ Cardinality({}) = 0
    BY FS_EmptySet DEF WriteMultiRemove
<1>2. Cardinality(removing') < maxBundledRecords
    BY <1>1, SettingsAssumption
<1>3. Cardinality(R) \in Nat
    BY KeysAssumption, FS_Subset, FS_CardinalityType
<1>4. CASE /\ open
           /\ binlog' = Appended(binlog, Record({}, R))
           /\ excess' = excess + 1 + Cardinality(R)
           /\ UNCHANGED <<open, fails>>
    BY <1>1, <1>2, <1>3, <1>4 DEF TypeOK, Removes
<1>5. CASE /\ IF open THEN Failing ELSE UNCHANGED fails
           /\ open' = FALSE
           /\ UNCHANGED <<excess, binlog>>
  <2>1. fails' \in 0 .. MaxFails
    BY <1>5, BoundsAssumption DEF TypeOK, Failing
  <2>2. excess' \in Nat /\ excess <= excess'
    BY <1>5 DEF TypeOK
  <2>3. binlog' = binlog /\ ~open' /\ open' \in BOOLEAN
    BY <1>5
  <2> QED
    BY <1>1, <1>2, <2>1, <2>2, <2>3
<1> QED
    BY <1>4, <1>5 DEF WriteMultiRemove

LEMMA AddRemovingDoes ==
    ASSUME TypeOK, NEW k \in Keys, AddRemoving(k)
    PROVE  /\ removing' \subseteq removing \cup {k}
           /\ Cardinality(removing') < maxBundledRecords
           /\ open' \in BOOLEAN /\ (open' => open)
           /\ excess' \in Nat /\ excess <= excess'
           /\ binlog' = binlog \/ Removes(removing \cup {k})
           /\ fails' \in 0 .. MaxFails
<1>1. removing \cup {k} \in SUBSET Keys
    BY DEF TypeOK
<1>2. CASE Cardinality(removing \cup {k}) = maxBundledRecords
  <2>1. WriteMultiRemove(removing \cup {k})
    BY <1>2 DEF AddRemoving
  <2> QED
    BY <1>1, <2>1, MultiRemoveDoes
<1>3. CASE Cardinality(removing \cup {k}) # maxBundledRecords
  <2>1. removing' = removing \cup {k} /\ UNCHANGED <<open, excess, binlog, fails>>
    BY <1>3 DEF AddRemoving
  <2>2. IsFiniteSet(removing)
    BY KeysAssumption, FS_Subset DEF TypeOK
  <2>3. /\ IsFiniteSet(removing \cup {k})
        /\ Cardinality(removing \cup {k}) = Cardinality(removing)
             \/ Cardinality(removing \cup {k}) = Cardinality(removing) + 1
    BY <2>2, FS_AddElement
  <2>4. Cardinality(removing) \in Nat /\ Cardinality(removing) < maxBundledRecords
    BY <2>2, FS_CardinalityType DEF TypeOK
  <2>5. Cardinality(removing \cup {k}) < maxBundledRecords
    BY <1>3, <2>3, <2>4, SettingsAssumption
  <2> QED
    BY <2>1, <2>5 DEF TypeOK
<1> QED
    BY <1>2, <1>3

LEMMA RemoveEntryLoses ==
    ASSUME TypeOK, NEW k \in Keys, RemoveEntry(k)
    PROVE  Loses
<1>1. CASE /\ open /\ map[k] # 0
           /\ map' = [map EXCEPT ![k] = 0]
           /\ AddRemoving(k)
           /\ files' = [files EXCEPT ![map[k]] = 0]
           /\ last' = [last EXCEPT ![k] = 0]
  <2>1. /\ map' \in [Keys -> Places \cup {0}]
        /\ \A j \in Keys : map'[j] \in {map[j], 0}
        /\ map'[k] = 0
    BY <1>1 DEF TypeOK
  <2>2. /\ files' \in [Places -> Values \cup {0}]
        /\ \A p \in Places : files'[p] \in {files[p], 0}
    BY <1>1 DEF TypeOK
  <2>3. Forgets(k)
    BY <1>1 DEF Forgets
  <2>4. /\ removing' \subseteq removing \cup {k}
        /\ Cardinality(removing') < maxBundledRecords
        /\ open' \in BOOLEAN /\ (open' => open)
        /\ excess' \in Nat /\ excess <= excess'
        /\ binlog' = binlog \/ Removes(removing \cup {k})
        /\ fails' \in 0 .. MaxFails
    BY <1>1, AddRemovingDoes
  <2>5. removing \cup {k} \in SUBSET Keys
    BY DEF TypeOK
  <2> HIDE DEF Removes, Forgets
  <2>6. /\ removing' \subseteq Keys
        /\ \A j \in removing' : j \in removing \/ map'[j] = 0
        /\ \A j \in removing \cup {k} : j \in removing \/ map'[j] = 0
    BY <2>1, <2>4, <2>5
  <2> QED
    BY <2>1, <2>2, <2>3, <2>4, <2>5, <2>6 DEF Loses
<1>2. CASE /\ open /\ map[k] # 0
           /\ map' = [map EXCEPT ![k] = 0]
           /\ Failing
           /\ Cardinality(removing \cup {k}) < maxBundledRecords
           /\ removing' = removing \cup {k}
           /\ UNCHANGED <<open, excess, binlog, files, last>>
  <2>1. /\ map' \in [Keys -> Places \cup {0}]
        /\ \A j \in Keys : map'[j] \in {map[j], 0}
        /\ map'[k] = 0
    BY <1>2 DEF TypeOK
  <2>2. fails' \in 0 .. MaxFails
    BY <1>2, BoundsAssumption DEF TypeOK, Failing
  <2> QED
    BY <1>2, <2>1, <2>2 DEF TypeOK, Loses
<1>3. CASE UNCHANGED <<map, removing, open, excess, binlog, files, last, fails>>
    BY <1>3 DEF TypeOK, Loses
<1> QED
    BY <1>1, <1>2, <1>3 DEF RemoveEntry

LEMMA NothingLoses ==
    ASSUME TypeOK,
           UNCHANGED <<map, excess, binlog, last>>,
           open' \in BOOLEAN, open' => open,
           removing' \subseteq removing,
           files' \in [Places -> Values \cup {0}],
           \A p \in Places : files'[p] \in {files[p], 0},
           fails' \in 0 .. MaxFails
    PROVE  Loses
<1>1. removing' \subseteq Keys /\ Cardinality(removing') < maxBundledRecords
    BY RemovingStays
<1>2. /\ map' \in [Keys -> Places \cup {0}]
      /\ \A k \in Keys : map'[k] \in {map[k], 0}
    BY DEF TypeOK
<1>3. excess' \in Nat /\ excess <= excess'
    BY DEF TypeOK
<1>4. \A k \in removing' : k \in removing
    OBVIOUS
<1>5. binlog' = binlog /\ last' = last
    OBVIOUS
<1> QED
    BY <1>1, <1>2, <1>3, <1>4, <1>5 DEF Loses

LEMMA NothingCompacts ==
    ASSUME CheckCompactor, UNCHANGED ready
    PROVE  CompactorSpared
BY DEF CheckCompactor, CompactorSpared

LEMMA PutSameDrops ==
    ASSUME TypeOK, NEW k \in Keys, PutSame(k)
    PROVE  DropStep
<1>1. Loses
  <2>1. \A p \in Places : files'[p] \in {files[p], 0}
    BY DEF PutSame, disk
  <2>2. fails' \in 0 .. MaxFails /\ files' \in [Places -> Values \cup {0}]
    BY DEF PutSame, TypeOK, disk, bounds
  <2>3. UNCHANGED <<map, open, excess, binlog, last>> /\ removing' \subseteq removing
    BY DEF PutSame, disk, history
  <2> QED
    BY <2>1, <2>2, <2>3, NothingLoses DEF TypeOK
<1>2. CompactorSpared
    BY NothingCompacts DEF PutSame, disk
<1> HIDE DEF Loses, CompactorSpared
<1> QED
    BY <1>1, <1>2 DEF PutSame, DropStep, Ready, TypeOK, history, bounds

LEMMA PutFailDrops ==
    ASSUME TypeOK, NEW k \in Keys, PutFail(k)
    PROVE  DropStep
<1>1. Loses
  <2>1. /\ \A p \in Places : files'[p] \in {files[p], 0}
        /\ files' \in [Places -> Values \cup {0}]
    BY DEF PutFail, disk, TypeOK
  <2>2. fails' \in 0 .. MaxFails
    BY BoundsAssumption DEF PutFail, TypeOK, Failing
  <2>3. UNCHANGED <<map, open, excess, binlog, last>> /\ removing' \subseteq removing
    BY DEF PutFail, disk, history
  <2> QED
    BY <2>1, <2>2, <2>3, NothingLoses DEF TypeOK
<1>2. CompactorSpared
    BY DEF PutFail, disk, CompactorSpared
<1> HIDE DEF Loses, CompactorSpared
<1> QED
    BY <1>1, <1>2 DEF PutFail, DropStep, Ready, TypeOK, history, bounds

LEMMA PutDoneDrops ==
    ASSUME TypeOK, PutDone
    PROVE  DropStep
<1>1. Loses
  <2>1. /\ \A p \in Places : files'[p] \in {files[p], 0}
        /\ files' \in [Places -> Values \cup {0}]
    BY DEF PutDone, TypeOK
  <2>2. fails' \in 0 .. MaxFails
    BY DEF PutDone, TypeOK, bounds
  <2>3. UNCHANGED <<map, open, excess, binlog, last>> /\ removing' \subseteq removing
    BY DEF PutDone, memory, history
  <2> QED
    BY <2>1, <2>2, <2>3, NothingLoses DEF TypeOK
<1>2. CompactorSpared
    BY NothingCompacts DEF PutDone
<1>3. /\ running /\ task.step \notin {"ready", "emptied"}
      /\ stale' \subseteq Keys /\ task' = Idle
      /\ writes' \in {writes, writes + 1} /\ writes' <= MaxWrites
      /\ UNCHANGED <<running, lossy, misread, crashes>>
    BY DEF PutDone, TypeOK, memory, history, bounds
<1> HIDE DEF Loses, CompactorSpared
<1> QED
    BY <1>1, <1>2, <1>3 DEF DropStep

LEMMA WriteKeyPlaceFailDrops ==
    ASSUME TypeOK, WriteKeyPlaceFail
    PROVE  DropStep
<1>1. Loses
  <2>1. /\ \A p \in Places : files'[p] \in {files[p], 0}
        /\ files' \in [Places -> Values \cup {0}]
    BY DEF WriteKeyPlaceFail, TypeOK
  <2>2. fails' \in 0 .. MaxFails
    BY BoundsAssumption DEF WriteKeyPlaceFail, TypeOK, Failing
  <2>3. UNCHANGED <<map, removing, excess, binlog, last>> /\ open' = FALSE
    BY DEF WriteKeyPlaceFail, history
  <2> QED
    BY <2>1, <2>2, <2>3, NothingLoses DEF TypeOK
<1>2. CompactorSpared
    BY DEF WriteKeyPlaceFail, CompactorSpared
<1>3. /\ running /\ task.step \notin {"ready", "emptied"}
      /\ stale' \subseteq Keys /\ task' = Idle
      /\ writes' \in {writes, writes + 1} /\ writes' <= MaxWrites
      /\ UNCHANGED <<running, lossy, misread, crashes>>
    BY DEF WriteKeyPlaceFail, TypeOK, history
<1> HIDE DEF Loses, CompactorSpared
<1> QED
    BY <1>1, <1>2, <1>3 DEF DropStep

\* writeExistingPlace() that fails.
LEMMA WriteExistingPlaceFailDrops ==
    ASSUME TypeOK, WriteExistingPlace, open' = FALSE, Failing,
           UNCHANGED <<binlog, map, last>>
    PROVE  DropStep
<1>1. Loses
  <2>1. /\ \A p \in Places : files'[p] \in {files[p], 0}
        /\ files' \in [Places -> Values \cup {0}]
    BY DEF WriteExistingPlace, TypeOK
  <2>2. fails' \in 0 .. MaxFails
    BY BoundsAssumption DEF TypeOK, Failing
  <2>3. excess' = excess /\ removing' \in SUBSET removing
    BY DEF WriteExistingPlace
  <2> QED
    BY <2>1, <2>2, <2>3, NothingLoses DEF TypeOK
<1>2. CompactorSpared
    BY DEF WriteExistingPlace, CompactorSpared
<1>3. /\ running /\ task.step \notin {"ready", "emptied"}
      /\ stale' \subseteq Keys /\ task' = Idle
      /\ writes' \in {writes, writes + 1} /\ writes' <= MaxWrites
      /\ UNCHANGED <<running, lossy, misread, crashes>>
    BY DEF WriteExistingPlace, TypeOK
<1> HIDE DEF Loses, CompactorSpared
<1> QED
    BY <1>1, <1>2, <1>3 DEF DropStep

LEMMA WriteBundlesDrops ==
    ASSUME TypeOK, WriteBundles
    PROVE  DropStep
<1>1. Loses
  <2>1. /\ \A p \in Places : files'[p] \in {files[p], 0}
        /\ files' \in [Places -> Values \cup {0}]
    BY DEF WriteBundles, TypeOK
  <2>2. removing \in SUBSET Keys /\ WriteMultiRemove(removing)
    BY DEF WriteBundles, TypeOK
  <2>3. /\ removing' = {} /\ Cardinality(removing') < maxBundledRecords
        /\ open' \in BOOLEAN /\ (open' => open)
        /\ excess' \in Nat /\ excess <= excess'
        /\ binlog' = binlog \/ Removes(removing)
        /\ fails' \in 0 .. MaxFails
    BY <2>2, MultiRemoveDoes
  <2>4. UNCHANGED <<map, last>>
    BY DEF WriteBundles, history
  <2>5. removing' \subseteq Keys /\ map' \in [Keys -> Places \cup {0}]
    BY <2>3, <2>4 DEF TypeOK
  <2> HIDE DEF Removes
  <2> QED
    BY <2>1, <2>2, <2>3, <2>4, <2>5 DEF Loses
<1>2. CompactorSpared
    BY NothingCompacts DEF WriteBundles
<1> HIDE DEF Loses, CompactorSpared
<1> QED
    BY <1>1, <1>2 DEF WriteBundles, DropStep, Ready, TypeOK, history

LEMMA RemoveDrops ==
    ASSUME TypeOK, NEW k \in Keys, Remove(k)
    PROVE  DropStep
<1>1. Loses
    BY RemoveEntryLoses DEF Remove
<1>2. CompactorSpared
    BY DEF Remove, CompactorSpared
<1> HIDE DEF Loses, CompactorSpared
<1> QED
    BY <1>1, <1>2 DEF Remove, DropStep, Ready, TypeOK

LEMMA GetDrops ==
    ASSUME TypeOK, NEW k \in Keys, Get(k)
    PROVE  DropStep
<1>1. CASE Readable(k)
  <2>1. UNCHANGED <<map, removing, open, excess, binlog, files, last, fails>>
    BY <1>1 DEF Get
  <2>2. Loses
    BY <2>1, NothingLoses DEF TypeOK
  <2>3. CompactorSpared
    BY <1>1, NothingCompacts DEF Get
  <2> HIDE DEF Loses, CompactorSpared
  <2> QED
    BY <2>2, <2>3 DEF Get, DropStep, Ready, TypeOK
<1>2. CASE ~Readable(k)
  <2>1. Loses
    BY <1>2, RemoveEntryLoses DEF Get
  <2>2. CompactorSpared
    BY <1>2 DEF Get, CompactorSpared
  <2> HIDE DEF Loses, CompactorSpared
  <2> QED
    BY <2>1, <2>2 DEF Get, DropStep, Ready, TypeOK
<1> QED
    BY <1>1, <1>2

LEMMA MarkStaleDrops ==
    ASSUME TypeOK, NEW S \in SUBSET Keys, MarkStale(S)
    PROVE  DropStep
<1>1. CASE /\ stale # {}
           /\ stale' = stale \cup S
           /\ UNCHANGED <<map, removing, open, excess, binlog, files, last,
                          fails, compactor>>
  <2>1. Loses
    BY <1>1, NothingLoses DEF TypeOK
  <2>2. CompactorSpared
    BY <1>1 DEF MarkStale, CompactorSpared
  <2> HIDE DEF Loses, CompactorSpared
  <2> QED
    BY <1>1, <2>1, <2>2 DEF MarkStale, DropStep, Ready, TypeOK
<1>2. CASE \E k \in S :
                /\ stale' = S \ {k}
                /\ RemoveEntry(k)
                /\ IF stale' = {} THEN CheckCompactor ELSE UNCHANGED compactor
  <2>1. PICK k \in S : /\ stale' = S \ {k}
                       /\ RemoveEntry(k)
                       /\ IF stale' = {} THEN CheckCompactor
                          ELSE UNCHANGED compactor
    BY <1>2
  <2>2. Loses
    BY <2>1, RemoveEntryLoses
  <2>3. UNCHANGED ready
    BY DEF MarkStale
  <2>4. CompactorSpared
    BY <2>1, <2>3, NothingCompacts DEF CompactorSpared
  <2>5. stale' \subseteq Keys
    BY <2>1
  <2> HIDE DEF Loses, CompactorSpared
  <2> QED
    BY <2>2, <2>4, <2>5 DEF MarkStale, DropStep, Ready, TypeOK
<1> QED
    BY <1>1, <1>2 DEF MarkStale

LEMMA ClearStaleChunkDrops ==
    ASSUME TypeOK, ClearStaleChunk
    PROVE  DropStep
<1>1. PICK k \in stale : stale' = stale \ {k} /\ RemoveEntry(k)
    BY DEF ClearStaleChunk
<1>2. Loses
    BY <1>1, RemoveEntryLoses DEF TypeOK
<1>3. UNCHANGED ready /\ IF stale' = {} THEN CheckCompactor ELSE UNCHANGED compactor
    BY DEF ClearStaleChunk
<1>4. CompactorSpared
    BY <1>3, NothingCompacts DEF CompactorSpared
<1>5. stale' \subseteq Keys
    BY <1>1 DEF TypeOK
<1> HIDE DEF Loses, CompactorSpared
<1> QED
    BY <1>2, <1>4, <1>5 DEF ClearStaleChunk, DropStep, Ready, TypeOK

\* compactorFail(), on its own or after the last catching up.
LEMMA CompactorFailDrops ==
    ASSUME TypeOK, HandleFail \/ CompactorDoneFail
    PROVE  DropStep
<1>1. Loses
  <2>1. fails' \in 0 .. MaxFails
    <3>1. Failing \/ fails' = fails
      BY DEF HandleFail, CompactorDoneFail, bounds
    <3> QED
      BY <3>1, BoundsAssumption DEF Failing, TypeOK
  <2>2. UNCHANGED <<map, removing, open, excess, binlog, files, last>>
    BY DEF HandleFail, CompactorDoneFail, memory, history
  <2> QED
    BY <2>1, <2>2, NothingLoses DEF TypeOK
<1>2. CompactorSpared
    BY DEF HandleFail, CompactorDoneFail, CompactorFail, CompactorSpared
<1> HIDE DEF Loses, CompactorSpared
<1> QED
    BY <1>1, <1>2
       DEF HandleFail, CompactorDoneFail, DropStep, Ready, TypeOK, memory,
           history, bounds

-----------------------------------------------------------------------------
(* What the parts of the invariant rest on. *)

CompactorType ==
    [phase : Phases, till : Nat, pos : Nat, keys : SUBSET Keys,
     raws : SUBSET Entries, list : SUBSET Entries,
     compact : Seq(Records), grown : Nat, excess : Nat, clean : BOOLEAN]

LEMMA NoCompactorType == NoCompactor \in CompactorType
<1>1. <<>> \in Seq(Records)
    BY EmptySeq
<1> QED
    BY <1>1 DEF NoCompactor, CompactorType, Phases

LEMMA SizeType ==
    ASSUME NEW log \in Logs
    PROVE  /\ Size(log) \in Nat /\ Len(log.records) <= Size(log)
           /\ log.torn = 0 => Size(log) = Len(log.records)
<1>1. log.records \in Seq(Records) /\ log.torn \in 0 .. 1
    BY DEF Logs
<1>2. Len(log.records) \in Nat
    BY <1>1, LenProperties
<1> QED
    BY <1>1, <1>2 DEF Size

LEMMA NewCompactorType ==
    ASSUME NEW log \in Logs, NEW length \in Nat
    PROVE  /\ NewCompactor(log, length) \in CompactorType
           /\ NewCompactor(log, length).phase = "parse"
           /\ NewCompactor(log, length).excess = length
<1>1. <<>> \in Seq(Records)
    BY EmptySeq
<1>2. Size(log) \in Nat
    BY SizeType
<1> QED
    BY <1>1, <1>2 DEF NewCompactor, NoCompactor, CompactorType, Phases

\* A record is appended.
LEMMA AppendedLog ==
    ASSUME NEW log \in Logs, NEW record \in Records
    PROVE  /\ Appended(log, record) \in Logs
           /\ Appended(log, record).records = Append(log.records, record)
           /\ Appended(log, record).torn = 0
           /\ Size(log) <= Size(Appended(log, record))
<1>1. log.records \in Seq(Records) /\ log.torn \in 0 .. 1
    BY DEF Logs
<1>2. /\ Append(log.records, record) \in Seq(Records)
      /\ Len(Append(log.records, record)) = Len(log.records) + 1
    BY <1>1, AppendProperties
<1>3. Len(log.records) \in Nat
    BY <1>1, LenProperties
<1> HIDE DEF Records
<1> QED
    BY <1>1, <1>2, <1>3 DEF Appended, Log, Logs, Size

LEMMA RemoveRecord ==
    ASSUME NEW R \in SUBSET Keys
    PROVE  /\ Record({}, R) \in Records
           /\ \A k \in Keys : Touches(Record({}, R), k) <=> k \in R
           /\ \A k \in R : Said(Record({}, R), k) = 0
BY DEF Record, Records, Touches, Said

LEMMA StoreRecord ==
    ASSUME NEW e \in Entries
    PROVE  /\ Record({e}, {}) \in Records
           /\ \A k \in Keys : Touches(Record({e}, {}), k) <=> k = e.key
           /\ Said(Record({e}, {}), e.key) = e.place
<1>1. Record({e}, {}).stored = {e} /\ Record({e}, {}).removed = {}
    BY DEF Record
<1>2. (CHOOSE x \in {e} : x.key = e.key) = e
    OBVIOUS
<1>3. Said(Record({e}, {}), e.key) = e.place
    BY <1>1, <1>2 DEF Said
<1>4. Record({e}, {}) \in Records
    BY DEF Record, Records
<1>5. \A k \in Keys : Touches(Record({e}, {}), k) <=> k = e.key
    BY <1>1 DEF Touches
<1> QED
    BY <1>3, <1>4, <1>5

\* A log with a remove behind it.
LEMMA RemoveReplay ==
    ASSUME NEW log \in Logs, NEW R \in SUBSET Keys, NEW k \in Keys
    PROVE  Replayed(Appended(log, Record({}, R)).records, k) =
              IF k \in R THEN 0 ELSE Replayed(log.records, k)
<1>1. log.records \in Seq(Records)
    BY DEF Logs
<1>2. Record({}, R) \in Records
    BY RemoveRecord
<1>3. Appended(log, Record({}, R)).records = Append(log.records, Record({}, R))
    BY <1>2, AppendedLog
<1>4. Replayed(Append(log.records, Record({}, R)), k) =
        IF Touches(Record({}, R), k) THEN Said(Record({}, R), k)
        ELSE Replayed(log.records, k)
    BY <1>1, <1>2, AppendReplay
<1> QED
    BY <1>3, <1>4, RemoveRecord

LEMMA StoreReplay ==
    ASSUME NEW log \in Logs, NEW e \in Entries, NEW k \in Keys
    PROVE  Replayed(Appended(log, Record({e}, {})).records, k) =
              IF k = e.key THEN e.place ELSE Replayed(log.records, k)
<1>1. log.records \in Seq(Records)
    BY DEF Logs
<1>2. Record({e}, {}) \in Records
    BY StoreRecord
<1>3. Appended(log, Record({e}, {})).records = Append(log.records, Record({e}, {}))
    BY <1>2, AppendedLog
<1>4. Replayed(Append(log.records, Record({e}, {})), k) =
        IF Touches(Record({e}, {}), k) THEN Said(Record({e}, {}), k)
        ELSE Replayed(log.records, k)
    BY <1>1, <1>2, AppendReplay
<1> QED
    BY <1>3, <1>4, StoreRecord

LEMMA OpenedIsKnown == OpenedLog \in KnownLogs /\ (ready = {} => OpenedLog = binlog)
BY DEF OpenedLog, KnownLogs

LEMMA ReadingsType ==
    ASSUME TypeOK
    PROVE  /\ KnownLogs \subseteq Logs
           /\ Readings \subseteq [Keys -> Places \cup {0}]
<1>1. KnownLogs \subseteq Logs
    BY DEF TypeOK, KnownLogs
<1>2. \A log \in KnownLogs : log.records \in Seq(Records)
    BY <1>1 DEF Logs
<1>3. \A log \in KnownLogs : Reading(log) \in [Keys -> Places \cup {0}]
    BY <1>2, ReplayedType DEF Reading
<1> QED
    BY <1>1, <1>3 DEF Readings, TypeOK

\* No key gets a place that it has not had.
Shrinks ==
    \A r2 \in Readings' : \E r \in Readings : \A k \in Keys : r2[k] \in {r[k], 0}

LEMMA LogsShrink ==
    ASSUME \E r \in Readings : \A k \in Keys : map'[k] \in {r[k], 0},
           \A log2 \in KnownLogs' : \E log \in KnownLogs : \A k \in Keys :
              Replayed(log2.records, k) \in {Replayed(log.records, k), 0}
    PROVE  Shrinks
<1> SUFFICES ASSUME NEW r2 \in Readings'
             PROVE  \E r \in Readings : \A k \in Keys : r2[k] \in {r[k], 0}
    BY DEF Shrinks
<1>1. CASE r2 = map'
    BY <1>1
<1>2. CASE r2 # map'
  <2>1. PICK log2 \in KnownLogs' : r2 = [k \in Keys |-> Replayed(log2.records, k)]
    BY <1>2 DEF Readings, Reading
  <2>2. PICK log \in KnownLogs : \A k \in Keys :
            Replayed(log2.records, k) \in {Replayed(log.records, k), 0}
    OBVIOUS
  <2>3. Reading(log) \in Readings
    BY DEF Readings
  <2>4. \A k \in Keys : r2[k] \in {Reading(log)[k], 0}
    BY <2>1, <2>2 DEF Reading
  <2> QED
    BY <2>3, <2>4
<1> QED
    BY <1>1, <1>2

LEMMA OwnPlacesShrink ==
    ASSUME TypeOK, OwnPlaces, Shrinks,
           writes' \in {writes, writes + 1},
           task' = task \/ task'.step \notin {"wrote", "moving"}
    PROVE  OwnPlaces'
<1>1. writes \in Nat
    BY BoundsAssumption DEF TypeOK
<1>2. Readings \subseteq [Keys -> Places \cup {0}]
    BY ReadingsType
<1>3. ASSUME NEW r2 \in Readings'
      PROVE  /\ \A k \in Keys : r2[k] <= writes'
             /\ \A j, k \in Keys : r2[j] = r2[k] /\ r2[k] # 0 => j = k
  <2>1. PICK r \in Readings : \A k \in Keys : r2[k] \in {r[k], 0}
    BY DEF Shrinks
  <2>2. /\ \A k \in Keys : r[k] <= writes /\ r[k] \in Places \cup {0}
        /\ \A j, k \in Keys : r[j] = r[k] /\ r[k] # 0 => j = k
    BY <1>2 DEF OwnPlaces
  <2>3. \A k \in Keys : r2[k] <= writes'
    BY <1>1, <2>1, <2>2 DEF Places
  <2> QED
    BY <2>1, <2>2, <2>3
<1>4. ASSUME task'.step \in {"wrote", "moving"}
      PROVE  /\ task'.key \in Keys /\ task'.place \in 1 .. writes'
             /\ \A r2 \in Readings', k \in Keys : r2[k] # task'.place
  <2>1. /\ task' = task /\ task.key \in Keys /\ task.place \in 1 .. writes
        /\ \A r \in Readings, k \in Keys : r[k] # task.place
    BY <1>4 DEF OwnPlaces
  <2>2. task.place \in 1 .. writes' /\ task.place # 0
    BY <1>1, <2>1
  <2>3. ASSUME NEW r2 \in Readings', NEW k \in Keys
        PROVE  r2[k] # task.place
    <3>1. PICK r \in Readings : r2[k] \in {r[k], 0}
      BY DEF Shrinks
    <3> QED
      BY <2>1, <2>2, <3>1
  <2> QED
    BY <2>1, <2>2, <2>3
<1> QED
    BY <1>3, <1>4 DEF OwnPlaces

LEMMA HarmlessShrink ==
    ASSUME TypeOK, HarmlessPlaces, Shrinks, last' = last,
           \A p \in Places : files'[p] \in {files[p], 0}
    PROVE  HarmlessPlaces'
<1> SUFFICES ASSUME NEW r2 \in Readings', NEW k \in Keys, r2[k] # 0
             PROVE  files'[r2[k]] \in {0, last'[k]}
    BY DEF HarmlessPlaces
<1>1. PICK r \in Readings : r2[k] \in {r[k], 0}
    BY DEF Shrinks
<1>2. r2[k] = r[k] /\ r[k] \in Places
    BY <1>1, ReadingsType
<1>3. files[r[k]] \in {0, last[k]}
    BY <1>2 DEF HarmlessPlaces
<1> QED
    BY <1>2, <1>3

\* The places of a key that is given up are one and the same.
LEMMA HarmlessForgets ==
    ASSUME TypeOK, HarmlessPlaces, LogFollows, Shrinks, running, ready = {},
           NEW k \in Keys, Forgets(k), KnownLogs' = {binlog'}
    PROVE  HarmlessPlaces'
<1>1. /\ open /\ map[k] # 0 /\ map[k] \in Places
      /\ files' = [files EXCEPT ![map[k]] = 0]
      /\ last' = [last EXCEPT ![k] = 0]
    BY DEF Forgets, TypeOK
<1>2. Replayed(binlog.records, k) = map[k]
    BY <1>1, OpenedIsKnown DEF LogFollows
<1>3. \A r \in Readings : r[k] = map[k]
    BY <1>2 DEF Readings, Reading, KnownLogs
<1> SUFFICES ASSUME NEW r2 \in Readings', NEW j \in Keys, r2[j] # 0
             PROVE  files'[r2[j]] \in {0, last'[j]}
    BY DEF HarmlessPlaces
<1>4. PICK r \in Readings : r2[j] \in {r[j], 0}
    BY DEF Shrinks
<1>5. r2[j] = r[j] /\ r[j] \in Places /\ files[r[j]] \in {0, last[j]}
    BY <1>4, ReadingsType DEF HarmlessPlaces
<1>6. CASE j = k
    BY <1>1, <1>3, <1>5, <1>6 DEF TypeOK
<1>7. CASE j # k
  <2>1. last'[j] = last[j]
    BY <1>1, <1>7 DEF TypeOK
  <2>2. files'[r[j]] \in {0, files[r[j]]}
    BY <1>1, <1>5 DEF TypeOK
  <2> QED
    BY <1>5, <2>1, <2>2
<1> QED
    BY <1>6, <1>7

\* Records that are appended are copied later, so what was gathered stands.
LEMMA CompactorKeeps ==
    ASSUME TypeOK, CompactorAgrees, compactor' = compactor,
           task.step \notin {"ready", "emptied"},
           \/ /\ binlog' = binlog
              /\ \A k \in Keys : map'[k] \in {map[k], 0}
           \/ \E record \in Records :
                /\ binlog' = Appended(binlog, record)
                /\ \A k \in Keys :
                    map'[k] \in {map[k], 0} \/ Touches(record, k)
    PROVE  CompactorAgrees'
<1> SUFFICES ASSUME compactor.phase # "none", compactor.clean
             PROVE  /\ binlog'.torn = 0
                    /\ compactor.till <= Len(binlog'.records)
                    /\ compactor.phase \in {"parse", "asked", "values"} => Gathers'
                    /\ compactor.phase \in {"catchUp", "done"} =>
                         \A k \in Keys : ~Beyond(k)' => Agrees(compactor.compact, k)'
    BY DEF CompactorAgrees
<1> DEFINE old == binlog.records
           new == binlog'.records
<1>1. /\ binlog.torn = 0 /\ compactor.till <= Len(old)
      /\ compactor.phase \in {"parse", "asked", "values"} => Gathers
      /\ compactor.phase \in {"catchUp", "done"} =>
            \A k \in Keys : ~Beyond(k) => Agrees(compactor.compact, k)
    BY DEF CompactorAgrees
<1>2. old \in Seq(Records) /\ Len(old) \in Nat /\ binlog \in Logs
    BY LenProperties DEF TypeOK, Logs
<1>3. compactor.till \in Nat
    BY DEF TypeOK
<1>4. /\ binlog'.torn = 0 /\ Len(old) <= Len(new) /\ Len(new) \in Nat
      /\ \A i \in 1 .. Len(old) : new[i] = old[i]
      /\ \A k \in Keys : ~Beyond(k)' =>
            /\ ~Beyond(k)
            /\ Replayed(new, k) = Replayed(old, k)
            /\ map'[k] \in {map[k], 0}
  <2>1. CASE /\ binlog' = binlog
             /\ \A k \in Keys : map'[k] \in {map[k], 0}
    BY <1>1, <1>2, <2>1 DEF Beyond
  <2>2. CASE \E record \in Records :
                /\ binlog' = Appended(binlog, record)
                /\ \A k \in Keys : map'[k] \in {map[k], 0} \/ Touches(record, k)
    <3>1. PICK record \in Records :
                /\ binlog' = Appended(binlog, record)
                /\ \A k \in Keys : map'[k] \in {map[k], 0} \/ Touches(record, k)
      BY <2>2
    <3>2. new = Append(old, record) /\ binlog'.torn = 0
      BY <1>2, <3>1, AppendedLog
    <3>3. /\ Len(new) = Len(old) + 1 /\ new[Len(old) + 1] = record
          /\ \A i \in 1 .. Len(old) : new[i] = old[i]
      BY <1>2, <3>2, AppendProperties
    <3> HIDE DEF old, new
    <3>4. ASSUME NEW k \in Keys, ~Beyond(k)'
          PROVE  /\ ~Beyond(k)
                 /\ Replayed(new, k) = Replayed(old, k)
                 /\ map'[k] \in {map[k], 0}
      <4>1. ~\E i \in compactor.till + 1 .. Len(new) : Touches(new[i], k)
        BY <3>4 DEF Beyond, new
      <4>2. ~Touches(record, k)
        <5>1. Len(old) + 1 \in compactor.till + 1 .. Len(new)
          BY <1>1, <1>2, <1>3, <3>3 DEF old
        <5> QED
          BY <3>3, <4>1, <5>1
      <4>3. \A i \in compactor.till + 1 .. Len(old) :
                i \in compactor.till + 1 .. Len(new) /\ new[i] = old[i]
        BY <1>2, <1>3, <3>3 DEF old
      <4>4. ~Beyond(k)
        BY <4>1, <4>3 DEF Beyond, old
      <4>5. Replayed(Append(old, record), k) = Replayed(old, k)
        BY <1>2, <4>2, AppendReplay DEF old
      <4> QED
        BY <3>1, <3>2, <4>2, <4>4, <4>5
    <3>5. Len(old) <= Len(new) /\ Len(new) \in Nat
      BY <1>2, <3>3 DEF old
    <3> QED
      BY <3>2, <3>3, <3>4, <3>5
  <2> HIDE DEF old, new
  <2> QED
    BY <2>1, <2>2
<1> HIDE DEF old, new
<1>5. ASSUME compactor.phase \in {"parse", "asked", "values"} PROVE Gathers'
  <2>0. /\ compactor.list \in SUBSET Entries /\ compactor.raws \in SUBSET Entries
    BY DEF TypeOK
  <2>1. /\ compactor.phase \in {"parse", "values"} => compactor.keys = {}
        /\ compactor.phase \in {"parse", "asked"} => compactor.raws = {}
        /\ \A e \in compactor.list \cup compactor.raws :
            ~Beyond(e.key) => e.place = Replayed(old, e.key)
        /\ \A k \in Keys : map[k] # 0 /\ ~Beyond(k) =>
            \/ k \in compactor.keys
            \/ \E e \in compactor.list \cup compactor.raws : e.key = k
            \/ \E i \in compactor.pos + 1 .. compactor.till :
                 \E e \in old[i].stored : e.key = k
    BY <1>1, <1>5 DEF Gathers, old
  <2>2. \A e \in compactor.list \cup compactor.raws :
            ~Beyond(e.key)' => e.place = Replayed(new, e.key)
    <3> SUFFICES ASSUME NEW e \in compactor.list \cup compactor.raws,
                        ~Beyond(e.key)'
                 PROVE  e.place = Replayed(new, e.key)
      OBVIOUS
    <3>1. e.key \in Keys
      BY <2>0 DEF Entries
    <3> QED
      BY <1>4, <2>1, <3>1
  <2>3. \A k \in Keys : map'[k] # 0 /\ ~Beyond(k)' =>
            \/ k \in compactor.keys
            \/ \E e \in compactor.list \cup compactor.raws : e.key = k
            \/ \E i \in compactor.pos + 1 .. compactor.till :
                 \E e \in new[i].stored : e.key = k
    <3> SUFFICES ASSUME NEW k \in Keys, map'[k] # 0, ~Beyond(k)',
                        k \notin compactor.keys,
                        ~\E e \in compactor.list \cup compactor.raws : e.key = k
                 PROVE  \E i \in compactor.pos + 1 .. compactor.till :
                           \E e \in new[i].stored : e.key = k
      OBVIOUS
    <3>1. map[k] # 0 /\ ~Beyond(k)
      BY <1>4
    <3>2. PICK i \in compactor.pos + 1 .. compactor.till :
                 \E e \in old[i].stored : e.key = k
      BY <2>1, <3>1
    <3>3. compactor.pos \in Nat
      BY DEF TypeOK
    <3>4. i \in 1 .. Len(old)
      BY <1>1, <1>2, <1>3, <3>2, <3>3 DEF old
    <3>5. new[i] = old[i]
      BY <1>4, <3>4
    <3> QED
      BY <3>2, <3>5
  <2> QED
    BY <2>1, <2>2, <2>3 DEF Gathers, new
<1>6. ASSUME compactor.phase \in {"catchUp", "done"}, NEW k \in Keys, ~Beyond(k)'
      PROVE  Agrees(compactor.compact, k)'
  <2>1. Agrees(compactor.compact, k)
    BY <1>1, <1>4, <1>6
  <2> QED
    BY <1>4, <1>6, <2>1 DEF Agrees, old, new
<1>7. compactor.till <= Len(new)
  BY <1>1, <1>2, <1>3, <1>4 DEF old
<1> QED
    BY <1>4, <1>5, <1>6, <1>7 DEF new

\* A compactor that begins has all the entries of the map before it.
LEMMA NewCompactorAgrees ==
    ASSUME binlog' \in Logs, NEW length \in Nat,
           compactor' = NewCompactor(binlog', length),
           \A k \in Keys : map'[k] # 0 => Replayed(binlog'.records, k) = map'[k]
    PROVE  CompactorAgrees'
<1>1. /\ compactor'.phase = "parse" /\ compactor'.till = Size(binlog')
      /\ compactor'.keys = {} /\ compactor'.raws = {} /\ compactor'.list = {}
      /\ compactor'.pos = 0 /\ compactor'.clean = (binlog'.torn = 0)
    BY DEF NewCompactor, NoCompactor
<1> SUFFICES ASSUME binlog'.torn = 0
             PROVE  compactor'.till <= Len(binlog'.records) /\ Gathers'
    BY <1>1 DEF CompactorAgrees
<1>2. compactor'.till = Len(binlog'.records)
    BY <1>1, SizeType
<1>3. binlog'.records \in Seq(Records)
    BY DEF Logs
<1>4. ASSUME NEW k \in Keys, map'[k] # 0
      PROVE  \E i \in compactor'.pos + 1 .. compactor'.till :
                 \E e \in binlog'.records[i].stored : e.key = k
  <2>1. Replayed(binlog'.records, k) # 0
    BY <1>4
  <2>2. PICK i \in 1 .. Len(binlog'.records) :
            \E e \in binlog'.records[i].stored : e.key = k
    BY <1>3, <2>1, ReplayedWasStored
  <2>3. i \in compactor'.pos + 1 .. compactor'.till
    BY <1>1, <1>2
  <2> QED
    BY <2>2, <2>3
<1>5. Len(binlog'.records) \in Nat
    BY <1>3, LenProperties
<1> QED
    BY <1>1, <1>2, <1>4, <1>5 DEF Gathers

\* After a handler that ends and has stored nothing.
LEMMA DropType ==
    ASSUME TypeOK, DropStep
    PROVE  TypeOK'
<1>1. compactor \in CompactorType
    BY DEF TypeOK, CompactorType
<1>2. binlog' \in Logs
  <2>1. ASSUME NEW R \in SUBSET Keys, Removes(R) PROVE binlog' \in Logs
    <3>1. Record({}, R) \in Records
      BY RemoveRecord
    <3> QED
      BY <2>1, <3>1, AppendedLog DEF Removes, TypeOK
  <2> QED
    BY <2>1 DEF DropStep, Loses, TypeOK
<1>3. excess' \in Nat
    BY DEF DropStep, Loses
<1>4. compactor' \in CompactorType
    BY <1>1, <1>2, <1>3, NoCompactorType, NewCompactorType
       DEF DropStep, CompactorSpared
<1>5. ready' \subseteq Logs /\ Cardinality(ready') <= 1
  <2>1. Cardinality({}) <= 1
    BY FS_EmptySet
  <2> QED
    BY <2>1 DEF DropStep, CompactorSpared, TypeOK
<1>6. task' \in [step : Steps, key : Keys \cup {NoKey},
                 place : Places \cup {0}, was : Places \cup {0}]
    BY DEF DropStep, TypeOK, Idle, Steps
<1>7. last' \in [Keys -> Values \cup {0}]
    BY DEF DropStep, Loses, Forgets, TypeOK
<1>8. writes' \in 0 .. MaxWrites
    BY BoundsAssumption DEF DropStep, TypeOK
<1>9. /\ map' \in [Keys -> Places \cup {0}]
      /\ removing' \subseteq Keys /\ Cardinality(removing') < maxBundledRecords
      /\ open' \in BOOLEAN
      /\ files' \in [Places -> Values \cup {0}]
      /\ fails' \in 0 .. MaxFails
    BY DEF DropStep, Loses
<1>10. /\ running' \in BOOLEAN /\ stale' \subseteq Keys
       /\ lossy' \in BOOLEAN /\ misread' \in BOOLEAN
       /\ crashes' \in 0 .. MaxCrashes
    BY DEF DropStep, TypeOK
<1> QED
    BY <1>2, <1>3, <1>4, <1>5, <1>6, <1>7, <1>8, <1>9, <1>10
       DEF TypeOK, CompactorType

LEMMA DropPhased ==
    ASSUME TypeOK, Phased, DropStep
    PROVE  Phased' /\ ready = {} /\ ready' = {}
<1>1. running /\ running' /\ task.step \notin {"ready", "emptied"}
    BY DEF DropStep
<1>2. ready = {}
    BY <1>1 DEF Phased
<1>3. ready' = {}
    BY <1>2 DEF DropStep, CompactorSpared
<1>4. task'.step = "idle"
    BY DEF DropStep, Idle
<1>5. compactor'.phase # "none" =>
        compactor'.excess <= excess' /\ compactor'.till <= Size(binlog')
  <2>0. binlog' \in Logs /\ Size(binlog) <= Size(binlog')
    <3>1. TypeOK'
      BY DropType
    <3>2. Size(binlog) \in Nat
      BY SizeType DEF TypeOK
    <3>3. \A R \in SUBSET Keys : Record({}, R) \in Records
      BY RemoveRecord
    <3> QED
      BY <3>1, <3>2, <3>3, AppendedLog DEF DropStep, Loses, Removes, TypeOK
  <2>1. excess <= excess' /\ excess' \in Nat /\ excess \in Nat
    BY DEF DropStep, Loses, TypeOK
  <2>2. CASE compactor' = compactor
    <3>1. compactor.excess \in Nat /\ compactor.till \in Nat
      BY DEF TypeOK
    <3>2. Size(binlog) \in Nat /\ Size(binlog') \in Nat
      BY <2>0, SizeType DEF TypeOK
    <3> QED
      BY <1>1, <2>0, <2>1, <2>2, <3>1, <3>2 DEF Phased
  <2>3. CASE compactor' = NoCompactor
    BY <2>3 DEF NoCompactor
  <2>4. CASE compactor' = NewCompactor(binlog', excess')
    <3>1. compactor'.excess = excess' /\ compactor'.till = Size(binlog')
      BY <2>4 DEF NewCompactor, NoCompactor
    <3>2. Size(binlog') \in Nat
      BY <2>0, SizeType
    <3> QED
      BY <2>1, <3>1, <3>2
  <2> QED
    BY <2>2, <2>3, <2>4 DEF DropStep, CompactorSpared
<1> QED
    BY <1>1, <1>2, <1>3, <1>4, <1>5 DEF Phased

LEMMA DropShrinks ==
    ASSUME TypeOK, DropStep, ready = {}, ready' = {}, RemovedAreGone
    PROVE  /\ Shrinks
           /\ \/ binlog' = binlog
              \/ \E R \in SUBSET Keys : Removes(R) /\ \A k \in R : map'[k] = 0
<1>1. Loses
    BY DEF DropStep
<1>2. \/ binlog' = binlog
      \/ \E R \in SUBSET Keys : Removes(R) /\ \A k \in R : map'[k] = 0
  <2>1. CASE binlog' = binlog
    BY <2>1
  <2>2. ASSUME NEW R \in SUBSET Keys, Removes(R),
               \A k \in R : k \in removing \/ map'[k] = 0
        PROVE  \A k \in R : map'[k] = 0
    BY <1>1, <2>2 DEF RemovedAreGone, Loses
  <2> HIDE DEF Removes
  <2>3. binlog' = binlog \/
        \E R \in SUBSET Keys :
            Removes(R) /\ \A k \in R : k \in removing \/ map'[k] = 0
    BY <1>1 DEF Loses
  <2> QED
    BY <2>1, <2>2, <2>3
<1>3. binlog \in Logs
    BY DEF TypeOK
<1>4. \A k \in Keys :
        Replayed(binlog'.records, k) \in {Replayed(binlog.records, k), 0}
  <2>1. CASE binlog' = binlog
    BY <2>1
  <2>2. CASE \E R \in SUBSET Keys : Removes(R) /\ \A k \in R : map'[k] = 0
    BY <1>3, <2>2, RemoveReplay DEF Removes
  <2> QED
    BY <1>2, <2>1, <2>2
<1>5. KnownLogs' = {binlog'} /\ KnownLogs = {binlog}
    BY DEF KnownLogs
<1>6. \A log2 \in KnownLogs' : \E log \in KnownLogs : \A k \in Keys :
              Replayed(log2.records, k) \in {Replayed(log.records, k), 0}
    BY <1>4, <1>5
<1>7. \E r \in Readings : \A k \in Keys : map'[k] \in {r[k], 0}
    BY <1>1 DEF Readings, Loses
<1>8. Shrinks
    BY <1>6, <1>7, LogsShrink
<1> QED
    BY <1>2, <1>8

LEMMA DropUndamaged ==
    ASSUME TypeOK, Phased, DropStep, Undamaged
    PROVE  Undamaged'
<1>1. ready = {} /\ ready' = {} /\ Phased'
    BY DropPhased
<1>2. TypeOK'
    BY DropType
<1>3. /\ OwnPlaces /\ HarmlessPlaces /\ RemovedAreGone /\ LogFollows
      /\ CompactorAgrees
    BY DEF Undamaged
<1>4. Loses /\ CompactorSpared
    BY DEF DropStep
<1>5. /\ Shrinks
      /\ \/ binlog' = binlog
         \/ \E R \in SUBSET Keys : Removes(R) /\ \A k \in R : map'[k] = 0
    BY <1>1, <1>3, DropShrinks
<1>6. running /\ running' /\ task.step \notin {"ready", "emptied"}
      /\ task'.step = "idle"
    BY DEF DropStep, Idle
<1>7. OwnPlaces'
  <2>1. writes' \in {writes, writes + 1}
        /\ task'.step \notin {"wrote", "moving"}
    BY <1>6 DEF DropStep
  <2> QED
    BY <1>3, <1>5, <2>1, OwnPlacesShrink
<1>8. HarmlessPlaces'
  <2>1. CASE last' = last
    <3>1. \A p \in Places : files'[p] \in {files[p], 0}
      BY <1>4 DEF Loses
    <3> QED
      BY <1>3, <1>5, <2>1, <3>1, HarmlessShrink
  <2>2. ASSUME NEW k \in Keys, Forgets(k) PROVE HarmlessPlaces'
    <3>1. KnownLogs' = {binlog'}
      BY <1>1 DEF KnownLogs
    <3> QED
      BY <1>1, <1>3, <1>5, <1>6, <2>2, <3>1, HarmlessForgets
  <2>3. last' = last \/ \E k \in Keys : Forgets(k)
    BY <1>4 DEF Loses
  <2> HIDE DEF Forgets
  <2> QED
    BY <2>1, <2>2, <2>3
<1>9. RemovedAreGone'
  <2>1. ASSUME NEW k \in removing' PROVE map'[k] = 0
    <3>1. k \in Keys /\ map'[k] \in {map[k], 0} /\ (k \in removing \/ map'[k] = 0)
      BY <1>4 DEF Loses
    <3> QED
      BY <1>3, <3>1 DEF RemovedAreGone
  <2> QED
    BY <1>6, <2>1 DEF RemovedAreGone
<1>10. LogFollows'
  <2> SUFFICES ASSUME open' \/ ~lossy' \/ compactor'.phase # "none",
                      NEW k \in Keys, map'[k] # 0
               PROVE  Replayed(OpenedLog'.records, k) = map'[k]
    BY DEF LogFollows, OpenedLog
  <2>1. open \/ ~lossy \/ compactor.phase # "none"
    <3>1. open' => open
      BY <1>4 DEF Loses
    <3>2. lossy' = lossy
      BY DEF DropStep
    <3>3. compactor'.phase # "none" => compactor.phase # "none" \/ open'
      BY <1>4 DEF CompactorSpared, NoCompactor
    <3> QED
      BY <3>1, <3>2, <3>3
  <2>2. map'[k] = map[k] /\ map[k] # 0
    BY <1>4 DEF Loses
  <2>3. Replayed(binlog.records, k) = map[k]
    BY <1>1, <1>3, <1>6, <2>1, <2>2 DEF LogFollows, OpenedLog
  <2>4. Replayed(binlog'.records, k) = Replayed(binlog.records, k)
    <3>1. CASE binlog' = binlog
      BY <3>1
    <3>2. CASE \E R \in SUBSET Keys : Removes(R) /\ \A j \in R : map'[j] = 0
      <4>1. PICK R \in SUBSET Keys : Removes(R) /\ \A j \in R : map'[j] = 0
        BY <3>2
      <4>2. k \notin R
        BY <2>2, <4>1
      <4>3. binlog \in Logs
        BY DEF TypeOK
      <4> QED
        BY <4>1, <4>2, <4>3, RemoveReplay DEF Removes
    <3> QED
      BY <1>5, <3>1, <3>2
  <2>5. OpenedLog' = binlog'
    BY <1>1 DEF OpenedLog
  <2> QED
    BY <2>2, <2>3, <2>4, <2>5
<1>11. CompactorAgrees'
  <2>1. CASE compactor' = compactor
    <3>1. \A k \in Keys : map'[k] \in {map[k], 0}
      BY <1>4 DEF Loses
    <3>2. \A R \in SUBSET Keys : Record({}, R) \in Records
      BY RemoveRecord
    <3>3. \/ binlog' = binlog
          \/ \E record \in Records : binlog' = Appended(binlog, record)
      BY <1>5, <3>2 DEF Removes
    <3>4. \/ /\ binlog' = binlog
             /\ \A k \in Keys : map'[k] \in {map[k], 0}
          \/ \E record \in Records :
                /\ binlog' = Appended(binlog, record)
                /\ \A k \in Keys :
                    map'[k] \in {map[k], 0} \/ Touches(record, k)
      BY <3>1, <3>3
    <3> QED
      BY <1>3, <1>6, <2>1, <3>4, CompactorKeeps
  <2>2. CASE compactor' = NoCompactor
    BY <2>2 DEF NoCompactor, CompactorAgrees
  <2>3. CASE open' /\ compactor' = NewCompactor(binlog', excess')
    <3>1. \A k \in Keys : map'[k] # 0 => Replayed(binlog'.records, k) = map'[k]
      BY <1>1, <1>6, <1>10, <2>3 DEF LogFollows, OpenedLog
    <3>2. binlog' \in Logs /\ excess' \in Nat
      BY <1>2 DEF TypeOK
    <3> QED
      BY <2>3, <3>1, <3>2, NewCompactorAgrees
  <2> QED
    BY <1>4, <2>1, <2>2, <2>3 DEF CompactorSpared
<1>12. CompactedAgrees'
    BY <1>6 DEF CompactedAgrees
<1> QED
    BY <1>7, <1>8, <1>9, <1>10, <1>11, <1>12 DEF Undamaged

-----------------------------------------------------------------------------
(* A put or a move writes its record. *)

LEMMA WriteKeyPlaceStores ==
    ASSUME TypeOK, WriteKeyPlace
    PROVE  StoreStep
<1>1. excess' \in {excess, excess + 1}
    BY DEF WriteKeyPlace, TypeOK
<1>2. /\ removing' \subseteq removing /\ stale' \subseteq stale
      /\ task' = [task EXCEPT !.step = "logged"]
      /\ running /\ task.step = "wrote"
    BY DEF WriteKeyPlace
<1>3. /\ binlog' = Appended(binlog, Record({[key |-> task.key,
                                             place |-> task.place]}, {}))
      /\ map' = [map EXCEPT ![task.key] = task.place]
      /\ last' = [last EXCEPT ![task.key] = files[task.place]]
      /\ UNCHANGED <<running, open, compactor, files, ready, lossy, misread,
                     bounds>>
    BY DEF WriteKeyPlace
<1> QED
    BY <1>1, <1>2, <1>3 DEF StoreStep

LEMMA WriteExistingPlaceStores ==
    ASSUME TypeOK, WriteExistingPlace
    PROVE  StoreStep \/ DropStep
<1>1. CASE /\ binlog' = Appended(binlog, Record({[key |-> task.key,
                                                  place |-> task.place]}, {}))
           /\ map' = [map EXCEPT ![task.key] = task.place]
           /\ last' = [last EXCEPT ![task.key] = files[task.place]]
           /\ UNCHANGED <<open, fails>>
    BY <1>1 DEF WriteExistingPlace, StoreStep, bounds
<1>2. CASE /\ Failing
           /\ open' = FALSE
           /\ UNCHANGED <<binlog, map, last>>
    BY <1>2, WriteExistingPlaceFailDrops
<1> QED
    BY <1>1, <1>2 DEF WriteExistingPlace

\* What is known of the handler that is about to write its record.
LEMMA StoreFacts ==
    ASSUME TypeOK, Phased, StoreStep
    PROVE  /\ running /\ open /\ ready = {} /\ ready' = {}
           /\ task'.step \in {"idle", "logged"}
           /\ task' \in [step : Steps, key : Keys \cup {NoKey},
                         place : Places \cup {0}, was : Places \cup {0}]
<1>1. task.step \in {"wrote", "moving"} /\ running
    BY DEF StoreStep
<1>2. open /\ ready = {}
    BY <1>1 DEF Phased
<1>3. task'.step \in {"idle", "logged"}
      /\ task' \in [step : Steps, key : Keys \cup {NoKey},
                    place : Places \cup {0}, was : Places \cup {0}]
  <2>1. CASE task' = Idle
    BY <2>1 DEF Idle, Steps
  <2>2. CASE task' = [task EXCEPT !.step = "logged"]
    BY <2>2 DEF TypeOK, Steps
  <2> QED
    BY <2>1, <2>2 DEF StoreStep
<1> QED
    BY <1>1, <1>2, <1>3 DEF StoreStep

LEMMA StorePhased ==
    ASSUME TypeOK, Phased, TaskKnown, StoreStep
    PROVE  Phased'
<1>1. /\ running' /\ open' /\ ready' = {}
      /\ task'.step \in {"idle", "logged"}
    BY StoreFacts DEF StoreStep
<1>2. compactor'.phase # "none" =>
        compactor'.excess <= excess' /\ compactor'.till <= Size(binlog')
  <2>1. /\ compactor' = compactor /\ excess' \in {excess, excess + 1}
        /\ task.step \notin {"ready", "emptied"}
    BY DEF StoreStep
  <2>2. /\ compactor.excess \in Nat /\ excess \in Nat /\ compactor.till \in Nat
        /\ binlog \in Logs
    BY DEF TypeOK
  <2> DEFINE e == [key |-> task.key, place |-> task.place]
  <2>3. e \in Entries /\ binlog' = Appended(binlog, Record({e}, {}))
    BY DEF StoreStep, TaskKnown, Entries
  <2> HIDE DEF e
  <2>4. binlog' \in Logs /\ Size(binlog) <= Size(binlog')
    BY <2>2, <2>3, StoreRecord, AppendedLog
  <2>5. Size(binlog) \in Nat /\ Size(binlog') \in Nat
    BY <2>2, <2>4, SizeType
  <2> QED
    BY <2>1, <2>2, <2>4, <2>5 DEF Phased
<1> QED
    BY <1>1, <1>2 DEF Phased

LEMMA StoreType ==
    ASSUME TypeOK, Phased, TaskKnown, StoreStep
    PROVE  TypeOK'
<1> DEFINE e == [key |-> task.key, place |-> task.place]
<1>1. task.key \in Keys /\ task.place \in Places /\ e \in Entries
    BY DEF StoreStep, TaskKnown, Entries
<1>2. binlog' \in Logs
  <2>1. Record({e}, {}) \in Records
    BY <1>1, StoreRecord
  <2>2. binlog' = Appended(binlog, Record({e}, {}))
    BY DEF StoreStep
  <2> HIDE DEF e
  <2> QED
    BY <2>1, <2>2, AppendedLog DEF TypeOK
<1>3. /\ map' \in [Keys -> Places \cup {0}]
      /\ last' \in [Keys -> Values \cup {0}]
    BY <1>1 DEF StoreStep, TypeOK
<1>4. removing' \subseteq Keys /\ Cardinality(removing') < maxBundledRecords
  <2>1. removing' \in SUBSET removing
    BY DEF StoreStep
  <2> QED
    BY <2>1, RemovingStays
<1>5. excess' \in Nat
    BY DEF StoreStep, TypeOK
<1>6. task' \in [step : Steps, key : Keys \cup {NoKey},
                 place : Places \cup {0}, was : Places \cup {0}]
    BY StoreFacts
<1>7. /\ running' \in BOOLEAN /\ open' \in BOOLEAN
      /\ compactor' = compactor /\ files' = files /\ ready' = ready
      /\ lossy' = lossy /\ misread' = misread
      /\ writes' = writes /\ crashes' = crashes /\ fails' = fails
      /\ stale' \subseteq Keys
    BY DEF StoreStep, TypeOK, bounds
<1> QED
    BY <1>2, <1>3, <1>4, <1>5, <1>6, <1>7 DEF TypeOK

LEMMA StoreUndamaged ==
    ASSUME TypeOK, Phased, StoreStep, Undamaged
    PROVE  Undamaged'
<1> DEFINE e == [key |-> task.key, place |-> task.place]
<1>1. /\ OwnPlaces /\ HarmlessPlaces /\ RemovedAreGone /\ LogFollows
      /\ CompactorAgrees
    BY DEF Undamaged
<1>2. /\ running /\ open /\ ready = {} /\ ready' = {}
      /\ task'.step \in {"idle", "logged"}
    BY StoreFacts
<1>3. /\ task.key \in Keys /\ task.place \in 1 .. writes
      /\ \A r \in Readings, k \in Keys : r[k] # task.place
    BY <1>1 DEF OwnPlaces, StoreStep
<1>4. task.place \in Places /\ writes \in Nat /\ writes' = writes
    BY <1>3, BoundsAssumption DEF TypeOK, Places, StoreStep, bounds
<1>5. e \in Entries /\ binlog \in Logs
    BY <1>3, <1>4 DEF Entries, TypeOK
<1>6. binlog' = Appended(binlog, Record({e}, {}))
    BY DEF StoreStep
<1>7. \A k \in Keys : Replayed(binlog'.records, k) =
            IF k = task.key THEN task.place ELSE Replayed(binlog.records, k)
  <2>1. e.key = task.key /\ e.place = task.place
    OBVIOUS
  <2> HIDE DEF e
  <2> QED
    BY <1>5, <1>6, <2>1, StoreReplay
<1>8. \A k \in Keys : map'[k] = IF k = task.key THEN task.place ELSE map[k]
    BY <1>3 DEF StoreStep, TypeOK
<1>9. Readings \subseteq [Keys -> Places \cup {0}]
    BY ReadingsType
<1>10. ASSUME NEW r2 \in Readings'
       PROVE  \E r \in Readings : \A k \in Keys :
                r2[k] = IF k = task.key THEN task.place ELSE r[k]
  <2>1. CASE r2 = map'
    BY <1>8, <2>1 DEF Readings
  <2>2. CASE r2 # map'
    <3>1. r2 = [k \in Keys |-> Replayed(binlog'.records, k)]
      BY <1>2, <2>2 DEF Readings, Reading, KnownLogs
    <3>2. Reading(binlog) \in Readings
      BY DEF Readings, KnownLogs
    <3>3. \A k \in Keys : r2[k] =
            IF k = task.key THEN task.place ELSE Reading(binlog)[k]
      BY <1>7, <3>1 DEF Reading
    <3> QED
      BY <3>2, <3>3
  <2> QED
    BY <2>1, <2>2
<1>11. OwnPlaces'
  <2>1. ASSUME NEW r2 \in Readings'
        PROVE  /\ \A k \in Keys : r2[k] <= writes
               /\ \A j, k \in Keys : r2[j] = r2[k] /\ r2[k] # 0 => j = k
    <3>1. PICK r \in Readings : \A k \in Keys :
                r2[k] = IF k = task.key THEN task.place ELSE r[k]
      BY <1>10
    <3>2. /\ \A k \in Keys : r[k] <= writes /\ r[k] # task.place
          /\ \A j, k \in Keys : r[j] = r[k] /\ r[k] # 0 => j = k
      BY <1>1, <1>3 DEF OwnPlaces
    <3>3. task.place <= writes
      BY <1>3
    <3> QED
      BY <3>1, <3>2, <3>3
  <2> QED
    BY <1>2, <1>4, <2>1 DEF OwnPlaces
<1>12. HarmlessPlaces'
  <2> SUFFICES ASSUME NEW r2 \in Readings', NEW k \in Keys, r2[k] # 0
               PROVE  files'[r2[k]] \in {0, last'[k]}
    BY DEF HarmlessPlaces
  <2>1. PICK r \in Readings : r2[k] = IF k = task.key THEN task.place ELSE r[k]
    BY <1>10
  <2>2. files' = files /\ last' = [last EXCEPT ![task.key] = files[task.place]]
    BY DEF StoreStep
  <2>3. CASE k = task.key
    BY <2>1, <2>2, <2>3 DEF TypeOK
  <2>4. CASE k # task.key
    <3>1. last'[k] = last[k]
      BY <2>2, <2>4 DEF TypeOK
    <3> QED
      BY <1>1, <2>1, <2>2, <2>4, <3>1 DEF HarmlessPlaces
  <2> QED
    BY <2>3, <2>4
<1>13. RemovedAreGone'
  <2>1. task.key \notin removing' /\ removing' \subseteq removing
    BY <1>1 DEF StoreStep, RemovedAreGone
  <2>2. \A k \in removing' : k \in Keys /\ map[k] = 0
    BY <1>1, <2>1 DEF RemovedAreGone, TypeOK
  <2> QED
    BY <1>2, <1>8, <2>1, <2>2 DEF RemovedAreGone
<1>14. LogFollows'
  <2>1. OpenedLog' = binlog' /\ OpenedLog = binlog
    BY <1>2 DEF OpenedLog
  <2>2. \A k \in Keys : map[k] # 0 => Replayed(binlog.records, k) = map[k]
    BY <1>1, <1>2, <2>1 DEF LogFollows
  <2>3. \A k \in Keys : map'[k] # 0 => Replayed(binlog'.records, k) = map'[k]
    BY <1>7, <1>8, <2>2
  <2> QED
    BY <2>1, <2>3 DEF LogFollows
<1>15. CompactorAgrees'
  <2>1. Record({e}, {}) \in Records
        /\ \A k \in Keys : Touches(Record({e}, {}), k) <=> k = task.key
    BY <1>5, StoreRecord
  <2>2. \A k \in Keys : map'[k] \in {map[k], 0} \/ Touches(Record({e}, {}), k)
    BY <1>8, <2>1
  <2>3. task.step \notin {"ready", "emptied"} /\ compactor' = compactor
    BY DEF StoreStep
  <2> HIDE DEF e
  <2> QED
    BY <1>1, <1>6, <2>1, <2>2, <2>3, CompactorKeeps
<1>16. CompactedAgrees'
    BY <1>2 DEF CompactedAgrees
<1> QED
    BY <1>11, <1>12, <1>13, <1>14, <1>15, <1>16 DEF Undamaged

-----------------------------------------------------------------------------
(* The compactor's own steps. *)

\* The keys of the records that parseChunk() has read.
StoredUpTo(q) ==
    {e.key : e \in UNION {binlog.records[i].stored : i \in compactor.pos + 1 .. q}}

LEMMA StoredUpToIs ==
    ASSUME TypeOK, NEW q \in Nat, q <= Len(binlog.records)
    PROVE  /\ StoredUpTo(q) \subseteq Keys
           /\ \A i \in compactor.pos + 1 .. q : \A e \in binlog.records[i].stored :
                e.key \in StoredUpTo(q)
<1>1. binlog.records \in Seq(Records)
    BY DEF TypeOK, Logs
<1>2. Len(binlog.records) \in Nat
    BY <1>1, LenProperties
<1>3. \A i \in 1 .. Len(binlog.records) : binlog.records[i] \in Records
    BY <1>1, ElementOfSeq
<1>4. compactor.pos \in Nat
    BY DEF TypeOK
<1>5. \A i \in compactor.pos + 1 .. q : binlog.records[i].stored \subseteq Entries
    BY <1>2, <1>3, <1>4 DEF Records
<1>6. \A i \in compactor.pos + 1 .. q : \A e \in binlog.records[i].stored : e.key \in Keys
    BY <1>5 DEF Entries
<1> QED
    BY <1>6 DEF StoredUpTo

\* What parseChunk() may make of the compactor.
Asks(q) ==
    compactor' = [compactor EXCEPT !.phase = "asked", !.pos = q,
                                   !.keys = StoredUpTo(q)]

ParseEnd ==
    IF Len(binlog.records) < compactor.till THEN Len(binlog.records)
    ELSE compactor.till

Finishes ==
    /\ StoredUpTo(ParseEnd) = {}
    /\ compactor' = [compactor EXCEPT
                !.phase = "catchUp", !.pos = 0, !.list = {},
                !.compact = IF compactor.list = {} THEN <<>>
                            ELSE <<Record(compactor.list, {})>>]

Breaks == compactor' = [compactor EXCEPT !.phase = "fail"]

LEMMA ParseChunkDoes ==
    ASSUME TypeOK, ParseChunk
    PROVE  /\ compactor.phase = "parse"
           /\ ParseEnd \in Nat /\ ParseEnd <= Len(binlog.records)
           /\ compactor.till <= Len(binlog.records) => ParseEnd = compactor.till
           /\ \/ \E q \in Nat : q <= Len(binlog.records) /\ Asks(q)
              \/ Finishes
              \/ Breaks
<1>1. binlog.records \in Seq(Records) /\ compactor.till \in Nat /\ compactor.pos \in Nat
    BY DEF TypeOK, Logs
<1>2. Len(binlog.records) \in Nat
    BY <1>1, LenProperties
<1>3. /\ ParseEnd \in Nat /\ ParseEnd <= Len(binlog.records)
      /\ compactor.till <= Len(binlog.records) => ParseEnd = compactor.till
    BY <1>1, <1>2 DEF ParseEnd
<1>4. \A q \in compactor.pos + 1 .. ParseEnd :
        q \in Nat /\ q <= Len(binlog.records)
    BY <1>1, <1>2, <1>3
<1>5. \/ \E q \in compactor.pos + 1 .. ParseEnd : Asks(q)
      \/ Finishes
      \/ Breaks
    BY DEF ParseChunk, ParseEnd, StoredUpTo, Asks, Finishes, Breaks
<1>6. compactor.phase = "parse"
    BY DEF ParseChunk
<1> HIDE DEF Asks, Finishes, Breaks, ParseEnd
<1> QED
    BY <1>3, <1>4, <1>5, <1>6

Added ==
    LET written == {e.key : e \in compactor.list}
    IN  {e \in compactor.raws : e.key \notin written}

LEMMA CaughtUpType ==
    ASSUME TypeOK
    PROVE  /\ SubSeq(binlog.records, compactor.till + 1, Len(binlog.records))
                \in Seq(Records)
           /\ compactor.compact \o
                SubSeq(binlog.records, compactor.till + 1, Len(binlog.records))
                    \in Seq(Records)
           /\ Size(binlog) \in Nat
<1>1. /\ binlog.records \in Seq(Records) /\ compactor.till \in Nat
      /\ compactor.compact \in Seq(Records) /\ binlog \in Logs
    BY DEF TypeOK, Logs
<1>2. Len(binlog.records) \in Nat
    BY <1>1, LenProperties
<1>3. \A i \in 1 .. Len(binlog.records) : binlog.records[i] \in Records
    BY <1>1, ElementOfSeq
<1>4. \A i \in compactor.till + 1 .. Len(binlog.records) :
        binlog.records[i] \in Records
    BY <1>1, <1>2, <1>3
<1>5. compactor.till + 1 \in Int /\ Len(binlog.records) \in Int
    BY <1>1, <1>2
<1>6. SubSeq(binlog.records, compactor.till + 1, Len(binlog.records))
        \in Seq(Records)
    BY <1>4, <1>5, SubSeqProperties
<1> QED
    BY <1>1, <1>6, ConcatProperties, SizeType

\* What a step of the compactor leaves of it.
LEMMA CompactorStepType ==
    ASSUME TypeOK, Phased, CompactorStep
    PROVE  /\ compactor' \in CompactorType
           /\ compactor.phase \notin {"none", "done"}
           /\ compactor'.phase # "none"
           /\ compactor'.excess = compactor.excess
           /\ compactor'.clean = compactor.clean
           /\ compactor'.till \in {compactor.till, Size(binlog)}
<1>1. compactor \in CompactorType
    BY DEF TypeOK, CompactorType
<1>2. CASE ParseChunk
  <2>1. /\ compactor.phase = "parse"
        /\ \/ \E q \in Nat : q <= Len(binlog.records) /\ Asks(q)
           \/ Finishes
           \/ Breaks
    BY <1>2, ParseChunkDoes
  <2>2. ASSUME NEW q \in Nat, q <= Len(binlog.records), Asks(q)
        PROVE  /\ compactor' \in CompactorType /\ compactor'.phase # "none"
               /\ compactor'.excess = compactor.excess
               /\ compactor'.clean = compactor.clean
               /\ compactor'.till \in {compactor.till, Size(binlog)}
    <3>1. StoredUpTo(q) \subseteq Keys
      BY <2>2, StoredUpToIs
    <3> QED
      BY <1>1, <2>2, <3>1 DEF Asks, CompactorType, Phases
  <2>3. ASSUME Finishes
        PROVE  /\ compactor' \in CompactorType /\ compactor'.phase # "none"
               /\ compactor'.excess = compactor.excess
               /\ compactor'.clean = compactor.clean
               /\ compactor'.till \in {compactor.till, Size(binlog)}
    <3>1. Record(compactor.list, {}) \in Records
      BY <1>1 DEF CompactorType, Record, Records
    <3>2. <<Record(compactor.list, {})>> \in Seq(Records) /\ <<>> \in Seq(Records)
      BY <3>1, EmptySeq
    <3> QED
      BY <1>1, <2>3, <3>2 DEF Finishes, CompactorType, Phases
  <2>4. ASSUME Breaks
        PROVE  /\ compactor' \in CompactorType /\ compactor'.phase # "none"
               /\ compactor'.excess = compactor.excess
               /\ compactor'.clean = compactor.clean
               /\ compactor'.till \in {compactor.till, Size(binlog)}
    BY <1>1, <2>4 DEF Breaks, CompactorType, Phases
  <2> HIDE DEF Asks, Finishes, Breaks
  <2> QED
    BY <2>1, <2>2, <2>3, <2>4
<1>3. CASE ProcessValues
  <2>1. compactor' = [compactor EXCEPT !.phase = "parse", !.raws = {},
                                       !.list = compactor.list \cup Added]
    BY <1>3 DEF ProcessValues, Added
  <2>2. Added \subseteq Entries
    BY <1>1 DEF Added, CompactorType
  <2> QED
    BY <1>1, <1>3, <2>1, <2>2 DEF ProcessValues, CompactorType, Phases
<1>4. CASE CatchUpRound
  <2>1. compactor.phase = "catchUp"
    BY <1>4 DEF CatchUpRound
  <2>2. PICK grown \in Nat, phase \in {"done", "catchUp"} :
          compactor' = [compactor EXCEPT !.till = Size(binlog),
              !.compact = compactor.compact \o
                SubSeq(binlog.records, compactor.till + 1, Len(binlog.records)),
              !.grown = grown, !.phase = phase]
    <3> DEFINE grown == Size(binlog) - compactor.till
               over == grown = 0 \/ (compactor.grown > 0 /\ grown >= compactor.grown)
    <3>1. compactor' = [CaughtUp(compactor) EXCEPT
                !.grown = IF over THEN 0 ELSE grown,
                !.phase = IF over THEN "done" ELSE "catchUp"]
      BY <1>4 DEF CatchUpRound
    <3>2. compactor.till \in Nat /\ Size(binlog) \in Nat
          /\ compactor.till <= Size(binlog)
      BY <2>1, SizeType DEF TypeOK, Phased
    <3>3. (IF over THEN 0 ELSE grown) \in Nat
      BY <3>2
    <3>4. (IF over THEN "done" ELSE "catchUp") \in {"done", "catchUp"}
      OBVIOUS
    <3>5. compactor' = [compactor EXCEPT !.till = Size(binlog),
              !.compact = compactor.compact \o
                SubSeq(binlog.records, compactor.till + 1, Len(binlog.records)),
              !.grown = IF over THEN 0 ELSE grown,
              !.phase = IF over THEN "done" ELSE "catchUp"]
      BY <3>1 DEF CaughtUp
    <3> HIDE DEF grown, over
    <3> QED
      BY <3>3, <3>4, <3>5
  <2> QED
    BY <1>1, <2>1, <2>2, CaughtUpType DEF CompactorType, Phases
<1>5. CASE CompactorBreaks
    BY <1>1, <1>5 DEF CompactorBreaks, CompactorType, Phases
<1>6. CASE GetManyRaw
  <2> DEFINE raws == {[key |-> k, place |-> map[k]] :
                        k \in {j \in compactor.keys : map[j] # 0}}
  <2>1. compactor' = [compactor EXCEPT !.phase = "values", !.keys = {}, !.raws = raws]
    BY <1>6 DEF GetManyRaw
  <2>2. raws \subseteq Entries
    BY DEF TypeOK, Entries
  <2> HIDE DEF raws
  <2> QED
    BY <1>1, <1>6, <2>1, <2>2 DEF GetManyRaw, CompactorType, Phases
<1> QED
    BY <1>2, <1>3, <1>4, <1>5, <1>6 DEF CompactorStep

LEMMA CompactorStepKeeps ==
    ASSUME TypeOK, Phased, CompactorStep
    PROVE  /\ UNCHANGED <<running, open, map, removing, stale, excess, task, files,
                          binlog, ready, last, lossy, misread, writes, crashes>>
           /\ task.step \notin {"ready", "emptied"}
           /\ running /\ ready = {}
<1>1. UNCHANGED <<running, open, map, removing, stale, excess, task, files,
                  binlog, ready, last, lossy, misread, writes, crashes>>
    BY DEF CompactorStep, memory, disk, history
<1>2. compactor.phase \notin {"none", "done"}
    BY CompactorStepType
<1>3. running /\ task.step \notin {"ready", "emptied"}
    BY <1>2 DEF Phased
<1>4. ready = {}
    BY <1>3 DEF Phased
<1> QED
    BY <1>1, <1>3, <1>4

LEMMA CompactorStepPhased ==
    ASSUME TypeOK, Phased, TaskKnown, CompactorStep
    PROVE  TypeOK' /\ Phased' /\ TaskKnown'
<1>1. /\ UNCHANGED <<running, open, map, removing, stale, excess, task, files,
                     binlog, ready, last, lossy, misread, writes, crashes>>
      /\ task.step \notin {"ready", "emptied"} /\ running /\ ready = {}
    BY CompactorStepKeeps
<1>2. /\ compactor' \in CompactorType
      /\ compactor.phase \notin {"none", "done"}
      /\ compactor'.excess = compactor.excess
      /\ compactor'.till \in {compactor.till, Size(binlog)}
    BY CompactorStepType
<1>3. fails' \in 0 .. MaxFails
    BY DEF CompactorStep
<1>4. TypeOK'
    BY <1>1, <1>2, <1>3 DEF TypeOK, CompactorType
<1>5. Size(binlog) \in Nat
    BY SizeType DEF TypeOK
<1>6. compactor'.excess <= excess' /\ compactor'.till <= Size(binlog')
    BY <1>1, <1>2, <1>5 DEF Phased
<1>7. Phased'
    BY <1>1, <1>6 DEF Phased
<1>8. TaskKnown'
    BY <1>1 DEF TaskKnown
<1> QED
    BY <1>4, <1>7, <1>8

\* What the invariant says of a compactor over a clean log.
LEMMA CleanCompactor ==
    ASSUME TypeOK, CompactorAgrees, compactor.phase # "none", compactor.clean,
           task.step \notin {"ready", "emptied"}
    PROVE  /\ binlog.records \in Seq(Records) /\ Len(binlog.records) \in Nat
           /\ compactor.till \in 0 .. Len(binlog.records)
           /\ compactor.pos \in Nat
           /\ Size(binlog) = Len(binlog.records)
           /\ compactor.phase \in {"parse", "asked", "values"} => Gathers
           /\ compactor.phase \in {"catchUp", "done"} =>
                \A k \in Keys : ~Beyond(k) => Agrees(compactor.compact, k)
<1>1. binlog.records \in Seq(Records) /\ binlog \in Logs
    BY DEF TypeOK, Logs
<1>2. Len(binlog.records) \in Nat /\ compactor.till \in Nat /\ compactor.pos \in Nat
    BY <1>1, LenProperties DEF TypeOK
<1>3. binlog.torn = 0 /\ compactor.till <= Len(binlog.records)
    BY DEF CompactorAgrees
<1>4. Size(binlog) = Len(binlog.records)
    BY <1>1, <1>3, SizeType
<1> QED
    BY <1>1, <1>2, <1>3, <1>4 DEF CompactorAgrees

\* What is behind `till' is copied: then the compacted log agrees on all keys.
LEMMA CaughtUpAgrees ==
    ASSUME TypeOK, CompactorAgrees, compactor.phase \in {"catchUp", "done"},
           compactor.clean, task.step \notin {"ready", "emptied"},
           NEW k \in Keys
    PROVE  Agrees(compactor.compact \o
                    SubSeq(binlog.records, compactor.till + 1,
                           Len(binlog.records)), k)
<1> DEFINE tail == SubSeq(binlog.records, compactor.till + 1, Len(binlog.records))
<1>1. /\ binlog.records \in Seq(Records)
      /\ compactor.till \in 0 .. Len(binlog.records)
      /\ ~Beyond(k) => Agrees(compactor.compact, k)
    BY CleanCompactor
<1>2. /\ tail \in Seq(Records)
      /\ (\E i \in 1 .. Len(tail) : Touches(tail[i], k)) <=> Beyond(k)
      /\ Beyond(k) => Replayed(tail, k) = Replayed(binlog.records, k)
    BY <1>1, TailReplay DEF Beyond
<1>3. compactor.compact \in Seq(Records)
    BY DEF TypeOK
<1> HIDE DEF tail
<1>4. Replayed(compactor.compact \o tail, k) =
        IF Beyond(k) THEN Replayed(tail, k) ELSE Replayed(compactor.compact, k)
    BY <1>2, <1>3, ConcatReplay
<1>5. Agrees(compactor.compact \o tail, k)
    BY <1>1, <1>2, <1>4 DEF Agrees
<1> QED
    BY <1>5 DEF tail

LEMMA ParseAgrees ==
    ASSUME TypeOK, Phased, CompactorStep, CompactorAgrees, ParseChunk, compactor.clean
    PROVE  CompactorAgrees'
<1>1. /\ UNCHANGED <<map, task, binlog>>
      /\ task.step \notin {"ready", "emptied"}
    BY CompactorStepKeeps
<1>2. /\ compactor.phase = "parse"
      /\ ParseEnd \in Nat /\ ParseEnd <= Len(binlog.records)
      /\ compactor.till <= Len(binlog.records) => ParseEnd = compactor.till
      /\ \/ \E q \in Nat : q <= Len(binlog.records) /\ Asks(q)
         \/ Finishes
         \/ Breaks
    BY ParseChunkDoes
<1>3. /\ binlog.records \in Seq(Records) /\ Len(binlog.records) \in Nat
      /\ compactor.till \in 0 .. Len(binlog.records) /\ compactor.pos \in Nat
      /\ Gathers /\ binlog.torn = 0
    BY <1>1, <1>2, CleanCompactor DEF CompactorAgrees
<1>4. compactor \in CompactorType
    BY DEF TypeOK, CompactorType
<1>5. /\ compactor.keys = {} /\ compactor.raws = {}
      /\ \A e \in compactor.list :
            ~Beyond(e.key) => e.place = Replayed(binlog.records, e.key)
      /\ \A k \in Keys : map[k] # 0 /\ ~Beyond(k) =>
            \/ \E e \in compactor.list : e.key = k
            \/ \E i \in compactor.pos + 1 .. compactor.till :
                 \E e \in binlog.records[i].stored : e.key = k
    BY <1>2, <1>3 DEF Gathers
<1>6. ASSUME NEW q \in Nat, q <= Len(binlog.records), Asks(q)
      PROVE  CompactorAgrees'
  <2>1. /\ compactor'.phase = "asked" /\ compactor'.pos = q
        /\ compactor'.keys = StoredUpTo(q) /\ compactor'.raws = {}
        /\ compactor'.list = compactor.list /\ compactor'.till = compactor.till
    BY <1>4, <1>5, <1>6 DEF Asks, CompactorType
  <2>2. \A k \in Keys : Beyond(k)' <=> Beyond(k)
    BY <1>1, <2>1 DEF Beyond
  <2>3. \A e \in compactor.list : e.key \in Keys
    BY <1>4 DEF CompactorType, Entries
  <2>4. ASSUME NEW k \in Keys, map[k] # 0, ~Beyond(k)
        PROVE  \/ k \in StoredUpTo(q)
               \/ \E e \in compactor.list : e.key = k
               \/ \E i \in q + 1 .. compactor.till :
                    \E e \in binlog.records[i].stored : e.key = k
    <3>1. CASE \E e \in compactor.list : e.key = k
      BY <3>1
    <3>2. CASE \E i \in compactor.pos + 1 .. compactor.till :
                 \E e \in binlog.records[i].stored : e.key = k
      <4>1. PICK i \in compactor.pos + 1 .. compactor.till :
                 \E e \in binlog.records[i].stored : e.key = k
        BY <3>2
      <4>2. CASE i <= q
        <5>1. i \in compactor.pos + 1 .. q
          BY <1>3, <4>2
        <5> QED
          BY <1>6, <4>1, <5>1, StoredUpToIs
      <4>3. CASE i > q
        <5>1. i \in q + 1 .. compactor.till
          BY <1>3, <4>3
        <5> QED
          BY <4>1, <5>1
      <4> QED
        BY <1>3, <4>2, <4>3
    <3> QED
      BY <1>5, <2>4, <3>1, <3>2
  <2>5. Gathers'
    BY <1>1, <1>5, <2>1, <2>2, <2>3, <2>4 DEF Gathers
  <2> QED
    BY <1>1, <1>3, <2>1, <2>5 DEF CompactorAgrees
<1>7. ASSUME Finishes PROVE CompactorAgrees'
  <2> DEFINE compact == IF compactor.list = {} THEN <<>>
                        ELSE <<Record(compactor.list, {})>>
  <2>1. /\ compactor'.phase = "catchUp" /\ compactor'.compact = compact
        /\ compactor'.till = compactor.till
    BY <1>4, <1>7 DEF Finishes, CompactorType
  <2>2. StoredUpTo(compactor.till) = {}
    BY <1>2, <1>3, <1>7 DEF Finishes
  <2>3. \A k \in Keys : Beyond(k)' <=> Beyond(k)
    BY <1>1, <2>1 DEF Beyond
  <2>4. ASSUME NEW k \in Keys, ~Beyond(k) PROVE Agrees(compact, k)
    <3>1. CASE \E e \in compactor.list : e.key = k
      <4> DEFINE record == Record(compactor.list, {})
      <4>1. record \in Records /\ Touches(record, k)
        BY <1>4, <3>1 DEF Record, Records, Touches, CompactorType
      <4>2. Said(record, k) = Replayed(binlog.records, k)
        <5> DEFINE f == CHOOSE e \in compactor.list : e.key = k
        <5>1. f \in compactor.list /\ f.key = k
          BY <3>1
        <5>2. f.place = Replayed(binlog.records, k)
          BY <1>5, <2>4, <5>1
        <5>3. Said(record, k) = f.place
          BY DEF Said, Record
        <5> QED
          BY <5>2, <5>3
      <4> HIDE DEF record
      <4>4. Replayed(<<record>>, k) = Said(record, k)
        BY <4>1, OneReplay
      <4>5. compact = <<record>>
        BY <3>1 DEF record
      <4> HIDE DEF compact
      <4> QED
        BY <4>2, <4>4, <4>5 DEF Agrees
    <3>2. CASE ~\E e \in compactor.list : e.key = k
      <4>1. map[k] = 0
        <5> SUFFICES ASSUME map[k] # 0 PROVE FALSE
          OBVIOUS
        <5>1. PICK i \in compactor.pos + 1 .. compactor.till :
                 \E e \in binlog.records[i].stored : e.key = k
          BY <1>5, <2>4, <3>2
        <5>2. k \in StoredUpTo(compactor.till)
          BY <1>3, <5>1, StoredUpToIs
        <5> QED
          BY <2>2, <5>2
      <4>2. Replayed(compact, k) = 0
        <5>1. CASE compactor.list = {}
          BY <5>1, EmptyReplay
        <5>2. CASE compactor.list # {}
          <6> DEFINE record == Record(compactor.list, {})
          <6>1. record \in Records /\ ~Touches(record, k)
            BY <1>4, <3>2 DEF Record, Records, Touches, CompactorType
          <6>2. compact = <<record>>
            BY <5>2
          <6> HIDE DEF record, compact
          <6>4. Replayed(<<record>>, k) = 0
            BY <6>1, OneReplay
          <6> QED
            BY <6>2, <6>4
        <5> QED
          BY <5>1, <5>2
      <4> HIDE DEF compact
      <4> QED
        BY <4>1, <4>2 DEF Agrees
    <3> QED
      BY <3>1, <3>2
  <2> HIDE DEF compact
  <2>5. \A k \in Keys : ~Beyond(k)' => Agrees(compactor.compact, k)'
    BY <1>1, <2>1, <2>3, <2>4 DEF Agrees
  <2> QED
    BY <1>1, <1>3, <2>1, <2>5 DEF CompactorAgrees
<1>8. ASSUME Breaks PROVE CompactorAgrees'
  <2>1. compactor'.phase = "fail" /\ compactor'.till = compactor.till
    BY <1>4, <1>8 DEF Breaks, CompactorType
  <2> QED
    BY <1>1, <1>3, <2>1 DEF CompactorAgrees
<1> HIDE DEF Asks, Finishes, Breaks
<1> QED
    BY <1>2, <1>6, <1>7, <1>8

LEMMA ValuesAgree ==
    ASSUME TypeOK, Phased, CompactorStep, CompactorAgrees, ProcessValues,
           compactor.clean
    PROVE  CompactorAgrees'
<1>1. /\ UNCHANGED <<map, task, binlog>>
      /\ task.step \notin {"ready", "emptied"}
    BY CompactorStepKeeps
<1>2. compactor.phase = "values"
    BY DEF ProcessValues
<1>3. /\ binlog.records \in Seq(Records) /\ Len(binlog.records) \in Nat
      /\ compactor.till \in 0 .. Len(binlog.records) /\ compactor.pos \in Nat
      /\ Gathers /\ binlog.torn = 0
    BY <1>1, <1>2, CleanCompactor DEF CompactorAgrees
<1>4. compactor \in CompactorType
    BY DEF TypeOK, CompactorType
<1>5. compactor' = [compactor EXCEPT !.phase = "parse", !.raws = {},
                                     !.list = compactor.list \cup Added]
    BY DEF ProcessValues, Added
<1>6. /\ compactor'.phase = "parse" /\ compactor'.pos = compactor.pos
      /\ compactor'.keys = compactor.keys /\ compactor'.raws = {}
      /\ compactor'.list = compactor.list \cup Added
      /\ compactor'.till = compactor.till
    BY <1>4, <1>5 DEF CompactorType
<1>7. /\ Added \subseteq compactor.raws
      /\ \A e \in compactor.raws :
            e \in Added \/ \E f \in compactor.list : f.key = e.key
    BY DEF Added
<1>8. \A k \in Keys : Beyond(k)' <=> Beyond(k)
    BY <1>1, <1>6 DEF Beyond
<1>9. \A e \in compactor.list \cup compactor.raws : e.key \in Keys
    BY <1>4 DEF CompactorType, Entries
<1>10. /\ compactor.keys = {}
       /\ \A e \in compactor.list \cup compactor.raws :
            ~Beyond(e.key) => e.place = Replayed(binlog.records, e.key)
       /\ \A k \in Keys : map[k] # 0 /\ ~Beyond(k) =>
            \/ \E e \in compactor.list \cup compactor.raws : e.key = k
            \/ \E i \in compactor.pos + 1 .. compactor.till :
                 \E e \in binlog.records[i].stored : e.key = k
    BY <1>2, <1>3 DEF Gathers
<1>11. \A e \in compactor.list \cup Added :
            ~Beyond(e.key)' => e.place = Replayed(binlog.records, e.key)
    BY <1>7, <1>8, <1>9, <1>10
<1>12. \A k \in Keys : map[k] # 0 /\ ~Beyond(k)' =>
            \/ \E e \in compactor.list \cup Added : e.key = k
            \/ \E i \in compactor.pos + 1 .. compactor.till :
                 \E e \in binlog.records[i].stored : e.key = k
    BY <1>7, <1>8, <1>10
<1>13. Gathers'
    BY <1>1, <1>6, <1>10, <1>11, <1>12 DEF Gathers
<1> QED
    BY <1>1, <1>3, <1>6, <1>13 DEF CompactorAgrees

LEMMA RawsAgree ==
    ASSUME TypeOK, Phased, CompactorStep, CompactorAgrees, LogFollows, GetManyRaw,
           compactor.clean
    PROVE  CompactorAgrees'
<1> DEFINE raws == {[key |-> k, place |-> map[k]] :
                        k \in {j \in compactor.keys : map[j] # 0}}
<1>1. /\ UNCHANGED <<map, task, binlog>> /\ running /\ ready = {}
      /\ task.step \notin {"ready", "emptied"}
    BY CompactorStepKeeps
<1>2. compactor.phase = "asked"
    BY DEF GetManyRaw
<1>3. /\ binlog.records \in Seq(Records) /\ Len(binlog.records) \in Nat
      /\ compactor.till \in 0 .. Len(binlog.records) /\ compactor.pos \in Nat
      /\ Gathers /\ binlog.torn = 0
    BY <1>1, <1>2, CleanCompactor DEF CompactorAgrees
<1>4. compactor \in CompactorType
    BY DEF TypeOK, CompactorType
<1>5. compactor' = [compactor EXCEPT !.phase = "values", !.keys = {}, !.raws = raws]
    BY DEF GetManyRaw
<1>6. /\ compactor'.phase = "values" /\ compactor'.pos = compactor.pos
      /\ compactor'.keys = {} /\ compactor'.raws = raws
      /\ compactor'.list = compactor.list
      /\ compactor'.till = compactor.till
    BY <1>4, <1>5 DEF CompactorType
<1>7. /\ \A e \in raws : e.key \in Keys /\ map[e.key] # 0 /\ e.place = map[e.key]
      /\ \A k \in compactor.keys : map[k] # 0 => \E e \in raws : e.key = k
  <2>1. compactor.keys \subseteq Keys
    BY <1>4 DEF CompactorType
  <2>2. ASSUME NEW e \in raws
        PROVE  e.key \in Keys /\ map[e.key] # 0 /\ e.place = map[e.key]
    <3>1. PICK k \in compactor.keys : map[k] # 0 /\ e = [key |-> k, place |-> map[k]]
      OBVIOUS
    <3> QED
      BY <2>1, <3>1
  <2>3. ASSUME NEW k \in compactor.keys, map[k] # 0
        PROVE  \E e \in raws : e.key = k
    <3>1. [key |-> k, place |-> map[k]] \in raws
      BY <2>3
    <3> QED
      BY <3>1
  <2> QED
    BY <2>2, <2>3
<1> HIDE DEF raws
<1>8. \A k \in Keys : Beyond(k)' <=> Beyond(k)
    BY <1>1, <1>6 DEF Beyond
<1>9. \A e \in compactor.list : e.key \in Keys
    BY <1>4 DEF CompactorType, Entries
<1>10. \A k \in Keys : map[k] # 0 => Replayed(binlog.records, k) = map[k]
    BY <1>1, <1>2 DEF LogFollows, OpenedLog
<1>11. /\ \A e \in compactor.list :
            ~Beyond(e.key) => e.place = Replayed(binlog.records, e.key)
       /\ \A k \in Keys : map[k] # 0 /\ ~Beyond(k) =>
            \/ k \in compactor.keys
            \/ \E e \in compactor.list : e.key = k
            \/ \E i \in compactor.pos + 1 .. compactor.till :
                 \E e \in binlog.records[i].stored : e.key = k
    BY <1>2, <1>3 DEF Gathers
<1>12. \A e \in compactor.list \cup raws :
            ~Beyond(e.key)' => e.place = Replayed(binlog.records, e.key)
  <2>1. \A e \in raws : e.place = Replayed(binlog.records, e.key)
    <3> SUFFICES ASSUME NEW e \in raws PROVE e.place = Replayed(binlog.records, e.key)
      OBVIOUS
    <3>1. e.key \in Keys /\ map[e.key] # 0 /\ e.place = map[e.key]
      BY <1>7
    <3> QED
      BY <1>10, <3>1
  <2> QED
    BY <1>8, <1>9, <1>11, <2>1
<1>13. \A k \in Keys : map[k] # 0 /\ ~Beyond(k)' =>
            \/ \E e \in compactor.list \cup raws : e.key = k
            \/ \E i \in compactor.pos + 1 .. compactor.till :
                 \E e \in binlog.records[i].stored : e.key = k
    BY <1>7, <1>8, <1>11
<1>14. Gathers'
    BY <1>1, <1>6, <1>12, <1>13 DEF Gathers
<1> QED
    BY <1>1, <1>3, <1>6, <1>14 DEF CompactorAgrees

LEMMA CatchUpAgrees ==
    ASSUME TypeOK, Phased, CompactorStep, CompactorAgrees, CatchUpRound,
           compactor.clean
    PROVE  CompactorAgrees'
<1> DEFINE compact == compactor.compact \o
                SubSeq(binlog.records, compactor.till + 1, Len(binlog.records))
<1>1. /\ UNCHANGED <<map, task, binlog>>
      /\ task.step \notin {"ready", "emptied"}
    BY CompactorStepKeeps
<1>2. compactor.phase = "catchUp"
    BY DEF CatchUpRound
<1>3. /\ Len(binlog.records) \in Nat /\ Size(binlog) = Len(binlog.records)
      /\ binlog.torn = 0
    BY <1>1, <1>2, CleanCompactor DEF CompactorAgrees
<1>4. compactor \in CompactorType
    BY DEF TypeOK, CompactorType
<1>5. /\ compactor'.phase \in {"catchUp", "done"}
      /\ compactor'.till = Size(binlog) /\ compactor'.compact = compact
    BY <1>4 DEF CatchUpRound, CaughtUp, CompactorType
<1>6. \A k \in Keys : Agrees(compact, k)
    BY <1>1, <1>2, CaughtUpAgrees
<1> HIDE DEF compact
<1>7. \A k \in Keys : Agrees(compactor.compact, k)'
    BY <1>1, <1>5, <1>6 DEF Agrees
<1> QED
    BY <1>1, <1>3, <1>5, <1>7 DEF CompactorAgrees

LEMMA CompactorStepUndamaged ==
    ASSUME TypeOK, Phased, CompactorStep, Undamaged
    PROVE  Undamaged'
<1>1. /\ UNCHANGED <<running, open, map, removing, stale, excess, task, files,
                     binlog, ready, last, lossy, misread, writes, crashes>>
      /\ task.step \notin {"ready", "emptied"} /\ running /\ ready = {}
    BY CompactorStepKeeps
<1>2. /\ OwnPlaces /\ HarmlessPlaces /\ RemovedAreGone /\ LogFollows
      /\ CompactorAgrees
    BY DEF Undamaged
<1>3. OwnPlaces' /\ HarmlessPlaces' /\ RemovedAreGone'
    BY <1>1, <1>2 DEF OwnPlaces, HarmlessPlaces, RemovedAreGone, Readings, Reading,
                      KnownLogs
<1>4. /\ compactor.phase \notin {"none", "done"}
      /\ compactor'.clean = compactor.clean
    BY CompactorStepType
<1>5. LogFollows'
    BY <1>1, <1>2, <1>4 DEF LogFollows, OpenedLog
<1>6. CompactorAgrees'
  <2>1. CASE ~compactor.clean
    BY <1>4, <2>1 DEF CompactorAgrees
  <2>2. CASE compactor.clean /\ CompactorBreaks
    <3>1. compactor'.phase = "fail" /\ compactor'.till = compactor.till
      BY <2>2 DEF CompactorBreaks, TypeOK
    <3> QED
      BY <1>1, <1>2, <1>4, <2>2, <3>1 DEF CompactorAgrees
  <2> QED
    BY <1>2, <2>1, <2>2, ParseAgrees, ValuesAgree, RawsAgree, CatchUpAgrees
       DEF CompactorStep
<1>7. CompactedAgrees'
    BY <1>1 DEF CompactedAgrees
<1> QED
    BY <1>2, <1>3, <1>5, <1>6, <1>7 DEF Undamaged

-----------------------------------------------------------------------------
(* The other handlers, one by one. *)

\* put() writes its value to a new file.
LEMMA PutValueKeeps ==
    ASSUME TypeOK, Phased, NEW k \in Keys, NEW v \in Values, PutValue(k, v)
    PROVE  /\ TypeOK' /\ Phased' /\ TaskKnown'
           /\ Undamaged => Undamaged'
<1>1. /\ running /\ open /\ task.step = "idle" /\ ready = {}
      /\ writes' = writes + 1 /\ writes' \in Places
      /\ writes' \in 0 .. MaxWrites
    BY BoundsAssumption DEF PutValue, Ready, Phased, TypeOK, Places
<1>2. /\ removing' = removing \ {k} /\ stale' = stale \ {k}
      /\ files' = [files EXCEPT ![writes'] = v]
      /\ task' = Task("wrote", k, writes', map[k])
      /\ UNCHANGED <<running, open, map, excess, compactor, binlog, ready,
                     last, lossy, misread, crashes, fails>>
    BY DEF PutValue, history
<1>3. task' \in [step : Steps, key : Keys \cup {NoKey},
                 place : Places \cup {0}, was : Places \cup {0}]
      /\ task'.step = "wrote" /\ task'.key = k /\ task'.place = writes'
    BY <1>1, <1>2 DEF Task, Steps, TypeOK
<1>4. TypeOK'
  <2>1. removing' \subseteq Keys /\ Cardinality(removing') < maxBundledRecords
    BY <1>2, RemovingStays
  <2>2. files' \in [Places -> Values \cup {0}]
    BY <1>2 DEF TypeOK
  <2>3. stale' \subseteq Keys
    BY <1>2 DEF TypeOK
  <2> QED
    BY <1>1, <1>2, <1>3, <2>1, <2>2, <2>3 DEF TypeOK
<1>5. Phased'
    BY <1>1, <1>2, <1>3 DEF Phased
<1>6. TaskKnown'
    BY <1>1, <1>3 DEF TaskKnown
<1>7. ASSUME Undamaged PROVE Undamaged'
  <2>1. /\ OwnPlaces /\ HarmlessPlaces /\ RemovedAreGone /\ LogFollows
        /\ CompactorAgrees
    BY <1>7 DEF Undamaged
  <2>2. Readings' = Readings
    BY <1>2 DEF Readings, Reading, KnownLogs
  <2>3. Readings \subseteq [Keys -> Places \cup {0}]
    BY ReadingsType
  <2>4. writes \in Nat
    BY DEF TypeOK
  <2>5. \A r \in Readings, j \in Keys :
            r[j] \in Places \cup {0} /\ r[j] <= writes /\ r[j] # writes'
    BY <1>1, <2>1, <2>3, <2>4 DEF OwnPlaces, Places
  <2>6. OwnPlaces'
    <3>1. /\ \A r \in Readings, j \in Keys : r[j] <= writes'
          /\ \A r \in Readings : \A i, j \in Keys : r[i] = r[j] /\ r[i] # 0 => i = j
      BY <1>1, <2>1, <2>4, <2>5 DEF OwnPlaces, Places
    <3>2. writes' \in 1 .. writes'
      BY <1>1, <2>4
    <3> QED
      BY <1>1, <1>3, <2>2, <2>5, <3>1, <3>2 DEF OwnPlaces
  <2>7. HarmlessPlaces'
    <3>1. \A p \in Places : p # writes' => files'[p] = files[p]
      BY <1>2 DEF TypeOK
    <3> QED
      BY <1>2, <2>1, <2>2, <2>5, <3>1 DEF HarmlessPlaces
  <2>8. RemovedAreGone'
    BY <1>2, <1>3, <2>1 DEF RemovedAreGone
  <2>9. LogFollows'
    BY <1>2, <2>1 DEF LogFollows, OpenedLog
  <2>10. CompactorAgrees'
    <3>1. \A j \in Keys : map'[j] \in {map[j], 0}
      BY <1>2
    <3>2. task.step \notin {"ready", "emptied"}
      BY <1>1
    <3>3. compactor' = compactor /\ binlog' = binlog
      BY <1>2
    <3> QED
      BY <2>1, <3>1, <3>2, <3>3, CompactorKeeps
  <2>11. CompactedAgrees'
    BY <1>3 DEF CompactedAgrees
  <2> QED
    BY <2>6, <2>7, <2>8, <2>9, <2>10, <2>11 DEF Undamaged
<1> QED
    BY <1>4, <1>5, <1>6, <1>7

\* moveIfEmpty() that could not write its remove is a handler that ends.
LEMMA MoveIfEmptyFailDrops ==
    ASSUME TypeOK, NEW from \in Keys, NEW to \in Keys, MoveIfEmpty(from, to), ~open'
    PROVE  DropStep
<1>1. removing \cup {from} \in SUBSET Keys
      /\ WriteMultiRemove(removing \cup {from})
    BY DEF MoveIfEmpty, TypeOK
<1>2. /\ removing' = {} /\ Cardinality(removing') < maxBundledRecords
      /\ open' \in BOOLEAN /\ (open' => open)
      /\ excess' \in Nat /\ excess <= excess'
      /\ binlog' = binlog \/ Removes(removing \cup {from})
      /\ fails' \in 0 .. MaxFails
    BY <1>1, MultiRemoveDoes
<1>3. /\ map' \in [Keys -> Places \cup {0}]
      /\ \A k \in Keys : map'[k] \in {map[k], 0}
      /\ map'[from] = 0
    BY DEF MoveIfEmpty, TypeOK
<1>4. files' = files /\ last' = last
    BY DEF MoveIfEmpty
<1>5. /\ files' \in [Places -> Values \cup {0}]
      /\ \A p \in Places : files'[p] \in {files[p], 0}
    BY <1>4 DEF TypeOK
<1>6. \A k \in removing \cup {from} : k \in removing \/ map'[k] = 0
    BY <1>3
<1>7. Loses
  <2> HIDE DEF Removes
  <2> QED
    BY <1>1, <1>2, <1>3, <1>4, <1>5, <1>6 DEF Loses
<1>8. CompactorSpared
    BY DEF MoveIfEmpty, CompactorSpared
<1>9. /\ running /\ task.step \notin {"ready", "emptied"}
      /\ stale' \subseteq Keys /\ task' = Idle
      /\ writes' \in {writes, writes + 1} /\ writes' <= MaxWrites
      /\ UNCHANGED <<running, lossy, misread, crashes>>
  <2>1. writes \in Nat /\ MaxWrites \in Nat
    BY BoundsAssumption DEF TypeOK
  <2> QED
    BY <2>1 DEF MoveIfEmpty, Ready, TypeOK
<1> HIDE DEF Loses, CompactorSpared
<1> QED
    BY <1>7, <1>8, <1>9 DEF DropStep

LEMMA MoveIfEmptyKeeps ==
    ASSUME TypeOK, Phased, NEW from \in Keys, NEW to \in Keys,
           MoveIfEmpty(from, to), open'
    PROVE  /\ TypeOK' /\ Phased' /\ TaskKnown'
           /\ Undamaged => Undamaged'
<1> DEFINE R == removing \cup {from}
<1>1. R \in SUBSET Keys /\ WriteMultiRemove(R)
    BY DEF MoveIfEmpty, TypeOK
<1>2. /\ removing' = {} /\ Cardinality(removing') < maxBundledRecords
      /\ open' \in BOOLEAN /\ open
      /\ excess' \in Nat /\ excess <= excess'
      /\ Removes(R)
      /\ fails' \in 0 .. MaxFails
    BY <1>1, MultiRemoveDoes
<1>3. /\ running /\ task.step = "idle" /\ ready = {}
      /\ map[from] \in Places
      /\ writes' = writes + 1 /\ writes' \in 0 .. MaxWrites
    BY <1>2, BoundsAssumption DEF MoveIfEmpty, Ready, Phased, TypeOK
<1>4. /\ map' = [map EXCEPT ![from] = 0]
      /\ last' = [last EXCEPT ![from] = 0]
      /\ task' = Task("moving", to, map[from], 0)
      /\ UNCHANGED <<running, stale, compactor, files, ready, lossy, misread,
                     crashes>>
    BY DEF MoveIfEmpty
<1>5. task' \in [step : Steps, key : Keys \cup {NoKey},
                 place : Places \cup {0}, was : Places \cup {0}]
      /\ task'.step = "moving" /\ task'.key = to /\ task'.place = map[from]
    BY <1>3, <1>4 DEF Task, Steps
<1>6. /\ binlog \in Logs /\ binlog' = Appended(binlog, Record({}, R))
      /\ Record({}, R) \in Records
    BY <1>1, <1>2, RemoveRecord DEF Removes, TypeOK
<1> HIDE DEF R
<1>7. binlog' \in Logs /\ Size(binlog) <= Size(binlog')
    BY <1>6, AppendedLog
<1>8. TypeOK'
  <2>1. /\ map' \in [Keys -> Places \cup {0}]
        /\ last' \in [Keys -> Values \cup {0}]
    BY <1>4 DEF TypeOK
  <2> QED
    BY <1>2, <1>3, <1>4, <1>5, <1>7, <2>1 DEF TypeOK
<1>9. Phased'
  <2>1. /\ Size(binlog) \in Nat /\ Size(binlog') \in Nat
        /\ compactor.till \in Nat /\ compactor.excess \in Nat /\ excess \in Nat
    BY <1>6, <1>7, SizeType DEF TypeOK
  <2> QED
    BY <1>2, <1>3, <1>4, <1>5, <1>7, <2>1 DEF Phased
<1>10. TaskKnown'
    BY <1>3, <1>5 DEF TaskKnown
<1>11. ASSUME Undamaged PROVE Undamaged'
  <2>1. /\ OwnPlaces /\ HarmlessPlaces /\ RemovedAreGone /\ LogFollows
        /\ CompactorAgrees
    BY <1>11 DEF Undamaged
  <2>2. from \in R /\ \A k \in R : k \in Keys /\ (k = from \/ map[k] = 0)
    BY <1>1, <2>1 DEF R, RemovedAreGone
  <2>3. \A k \in Keys : map'[k] = IF k = from THEN 0 ELSE map[k]
    BY <1>4 DEF TypeOK
  <2>4. \A k \in Keys : Replayed(binlog'.records, k) =
            IF k \in R THEN 0 ELSE Replayed(binlog.records, k)
    BY <1>1, <1>6, RemoveReplay
  <2>5. \A k \in Keys : map[k] # 0 => Replayed(binlog.records, k) = map[k]
    BY <1>2, <1>3, <2>1 DEF LogFollows, OpenedLog
  <2>6. KnownLogs = {binlog} /\ KnownLogs' = {binlog'}
    BY <1>3, <1>4 DEF KnownLogs
  <2>7. ASSUME NEW r2 \in Readings'
        PROVE  \E r \in Readings :
                 /\ r[from] = map[from] /\ r2[from] = 0
                 /\ \A k \in Keys : r2[k] \in {r[k], 0}
    <3>1. CASE r2 = map'
      BY <2>3, <3>1 DEF Readings
    <3>2. CASE r2 # map'
      <4>1. r2 = [k \in Keys |-> Replayed(binlog'.records, k)]
        BY <2>6, <3>2 DEF Readings, Reading
      <4>2. Reading(binlog) \in Readings
        BY <2>6 DEF Readings
      <4>3. Reading(binlog)[from] = map[from]
        BY <1>3, <2>5 DEF Reading, Places
      <4>4. r2[from] = 0 /\ \A k \in Keys : r2[k] \in {Reading(binlog)[k], 0}
        BY <2>2, <2>4, <4>1 DEF Reading
      <4> QED
        BY <4>2, <4>3, <4>4
    <3> QED
      BY <3>1, <3>2
  <2>8. OwnPlaces'
    <3>1. ASSUME NEW r2 \in Readings'
          PROVE  /\ \A k \in Keys : r2[k] <= writes' /\ r2[k] # map[from]
                 /\ \A j, k \in Keys : r2[j] = r2[k] /\ r2[k] # 0 => j = k
      <4>1. PICK r \in Readings :
                 /\ r[from] = map[from] /\ r2[from] = 0
                 /\ \A k \in Keys : r2[k] \in {r[k], 0}
        BY <2>7
      <4>2. /\ \A k \in Keys : r[k] <= writes /\ r[k] \in Places \cup {0}
            /\ \A j, k \in Keys : r[j] = r[k] /\ r[k] # 0 => j = k
        BY <2>1, ReadingsType DEF OwnPlaces
      <4>3. writes \in Nat /\ map[from] # 0
        BY <1>3 DEF TypeOK, Places
      <4>4. \A k \in Keys : r2[k] <= writes'
        BY <1>3, <4>1, <4>2, <4>3 DEF Places
      <4>5. \A k \in Keys : r2[k] # map[from]
        <5> SUFFICES ASSUME NEW k \in Keys, r2[k] = map[from] PROVE FALSE
          OBVIOUS
        <5>1. r[k] = r[from] /\ r[from] # 0
          BY <4>1, <4>3
        <5>2. k = from
          BY <4>2, <5>1
        <5> QED
          BY <4>1, <4>3, <5>2
      <4> QED
        BY <4>1, <4>2, <4>4, <4>5
    <3>2. map[from] \in 1 .. writes'
      <4>1. map \in Readings
        BY DEF Readings
      <4>2. map[from] <= writes /\ writes \in Nat
        BY <2>1, <4>1 DEF OwnPlaces, TypeOK
      <4> QED
        BY <1>3, <4>2 DEF Places
    <3> QED
      BY <1>5, <3>1, <3>2 DEF OwnPlaces
  <2>9. HarmlessPlaces'
    <3> SUFFICES ASSUME NEW r2 \in Readings', NEW k \in Keys, r2[k] # 0
                 PROVE  files'[r2[k]] \in {0, last'[k]}
      BY DEF HarmlessPlaces
    <3>1. PICK r \in Readings : r2[from] = 0 /\ r2[k] \in {r[k], 0}
      BY <2>7
    <3>2. k # from /\ r2[k] = r[k]
      BY <3>1
    <3>3. last'[k] = last[k] /\ files' = files
      BY <1>4, <3>2 DEF TypeOK
    <3> QED
      BY <2>1, <3>2, <3>3 DEF HarmlessPlaces
  <2>10. RemovedAreGone'
    BY <1>2, <1>5 DEF RemovedAreGone
  <2>11. LogFollows'
    <3>1. OpenedLog' = binlog'
      BY <1>3, <1>4 DEF OpenedLog
    <3>2. \A k \in Keys : map'[k] # 0 => Replayed(binlog'.records, k) = map'[k]
      BY <2>2, <2>3, <2>4, <2>5
    <3> QED
      BY <3>1, <3>2 DEF LogFollows
  <2>12. CompactorAgrees'
    <3>1. \A k \in Keys : map'[k] \in {map[k], 0} \/ Touches(Record({}, R), k)
      BY <2>3
    <3>2. task.step \notin {"ready", "emptied"} /\ compactor' = compactor
      BY <1>3, <1>4
    <3> QED
      BY <1>6, <2>1, <3>1, <3>2, CompactorKeeps
  <2>13. CompactedAgrees'
    BY <1>5 DEF CompactedAgrees
  <2> QED
    BY <2>8, <2>9, <2>10, <2>11, <2>12, <2>13 DEF Undamaged
<1> QED
    BY <1>8, <1>9, <1>10, <1>11

\* compactorDone() installs a log that agrees with the live one.
LEMMA CompactorDoneKeeps ==
    ASSUME TypeOK, Phased, CompactorDone
    PROVE  /\ TypeOK' /\ Phased' /\ TaskKnown'
           /\ Undamaged /\ compactor.clean => Undamaged'
<1> DEFINE compact == compactor.compact \o
                SubSeq(binlog.records, compactor.till + 1, Len(binlog.records))
           new == Log(compact, 0)
<1>1. /\ running /\ task.step = "idle" /\ compactor.phase = "done"
      /\ ready' = {Log(compactor'.compact, 0)} /\ compactor' = CaughtUp(compactor)
      /\ task' = [Idle EXCEPT !.step = "ready"] /\ open' = FALSE
      /\ UNCHANGED <<running, map, removing, stale, excess, files, binlog,
                     last, lossy, writes, crashes, fails>>
    BY DEF CompactorDone, Ready, bounds
<1>2. /\ compactor' \in CompactorType /\ compactor'.compact = compact
      /\ compactor'.phase = "done" /\ compactor'.excess = compactor.excess
  <2>1. compactor \in CompactorType
    BY DEF TypeOK, CompactorType
  <2>2. compact \in Seq(Records) /\ Size(binlog) \in Nat
    BY CaughtUpType
  <2>3. compactor' = [compactor EXCEPT !.till = Size(binlog), !.compact = compact]
    BY <1>1 DEF CaughtUp
  <2> HIDE DEF compact
  <2> QED
    BY <1>1, <2>1, <2>2, <2>3 DEF CompactorType
<1>3. compact \in Seq(Records)
    BY CaughtUpType
<1> HIDE DEF compact
<1>4. new \in Logs /\ ready' = {new} /\ new.records = compact
    BY <1>1, <1>2, <1>3 DEF Log, Logs
<1> HIDE DEF new
<1>5. Cardinality(ready') <= 1
  <2>1. Cardinality({new}) = 1
    BY FS_Singleton, Zenon
  <2> QED
    BY <1>4, <2>1
<1>6. task' \in [step : Steps, key : Keys \cup {NoKey},
                 place : Places \cup {0}, was : Places \cup {0}]
      /\ task'.step = "ready"
    BY <1>1 DEF Idle, Steps
<1>7. misread' \in BOOLEAN
    BY DEF CompactorDone, TypeOK
<1>8. TypeOK'
    BY <1>1, <1>2, <1>4, <1>5, <1>6, <1>7 DEF TypeOK, CompactorType
<1>9. Phased'
    BY <1>1, <1>2, <1>4, <1>6 DEF Phased
<1>10. TaskKnown'
    BY <1>6 DEF TaskKnown
<1>11. ASSUME Undamaged, compactor.clean PROVE Undamaged'
  <2>1. /\ OwnPlaces /\ HarmlessPlaces /\ RemovedAreGone /\ LogFollows
        /\ CompactorAgrees
    BY <1>11 DEF Undamaged
  <2>2. \A k \in Keys : Agrees(compact, k)
    BY <1>1, <1>11, <2>1, CaughtUpAgrees DEF compact
  <2>3. KnownLogs = {binlog} /\ KnownLogs' = {binlog, new} /\ OpenedLog = binlog
        /\ OpenedLog' = new
    BY <1>1, <1>4 DEF KnownLogs, OpenedLog, Phased
  <2>4. \A k \in Keys : Replayed(new.records, k) \in {Replayed(binlog.records, k), 0}
    BY <1>4, <2>2 DEF Agrees
  <2>5. Shrinks
    <3>1. \E r \in Readings : \A k \in Keys : map'[k] \in {r[k], 0}
      BY <1>1 DEF Readings
    <3>2. \A log2 \in KnownLogs' : \E log \in KnownLogs : \A k \in Keys :
              Replayed(log2.records, k) \in {Replayed(log.records, k), 0}
      BY <2>3, <2>4
    <3> QED
      BY <3>1, <3>2, LogsShrink
  <2>6. OwnPlaces'
    <3>1. writes' \in {writes, writes + 1} /\ task'.step \notin {"wrote", "moving"}
      BY <1>1, <1>6
    <3> QED
      BY <2>1, <2>5, <3>1, OwnPlacesShrink
  <2>7. HarmlessPlaces'
    <3>1. last' = last /\ \A p \in Places : files'[p] \in {files[p], 0}
      BY <1>1
    <3> QED
      BY <2>1, <2>5, <3>1, HarmlessShrink
  <2>8. RemovedAreGone'
    BY <1>1, <1>6, <2>1 DEF RemovedAreGone
  <2>9. LogFollows'
    <3>1. \A k \in Keys : map[k] # 0 => Replayed(binlog.records, k) = map[k]
      BY <1>1, <2>1, <2>3 DEF LogFollows
    <3>2. \A k \in Keys : map[k] # 0 => Replayed(new.records, k) = map[k]
      BY <1>4, <2>2, <3>1 DEF Agrees
    <3> QED
      BY <1>1, <2>3, <3>2 DEF LogFollows
  <2>10. CompactorAgrees'
    BY <1>6 DEF CompactorAgrees
  <2>11. CompactedAgrees'
    BY <1>1, <1>4, <2>2 DEF CompactedAgrees, Agrees
  <2> QED
    BY <2>6, <2>7, <2>8, <2>9, <2>10, <2>11 DEF Undamaged
<1> QED
    BY <1>8, <1>9, <1>10, <1>11

\* File::Move() empties the live log, while the new one is ready.
LEMMA MoveEmptiesKeeps ==
    ASSUME TypeOK, Phased, TaskKnown, MoveEmpties
    PROVE  /\ TypeOK' /\ Phased' /\ TaskKnown'
           /\ Undamaged => Undamaged'
<1>1. /\ running /\ task.step = "ready" /\ ready # {} /\ compactor.phase = "done"
      /\ binlog' = EmptyLog /\ task' = [Idle EXCEPT !.step = "emptied"]
      /\ UNCHANGED <<running, open, map, removing, stale, excess, compactor, files,
                     ready, last, lossy, misread, writes, crashes, fails>>
    BY DEF MoveEmpties, Phased, memory, history, bounds
<1>2. binlog' \in Logs /\ binlog'.records = <<>>
  <2>1. <<>> \in Seq(Records)
    BY EmptySeq
  <2> QED
    BY <1>1, <2>1 DEF EmptyLog, Log, Logs
<1>3. task' \in [step : Steps, key : Keys \cup {NoKey},
                 place : Places \cup {0}, was : Places \cup {0}]
      /\ task'.step = "emptied"
    BY <1>1 DEF Idle, Steps
<1>4. TypeOK'
    BY <1>1, <1>2, <1>3 DEF TypeOK
<1>5. Phased'
    BY <1>1, <1>3 DEF Phased
<1>6. TaskKnown'
    BY <1>3 DEF TaskKnown
<1>7. ASSUME Undamaged PROVE Undamaged'
  <2>1. /\ OwnPlaces /\ HarmlessPlaces /\ RemovedAreGone /\ LogFollows
    BY <1>7 DEF Undamaged
  <2>2. Shrinks
    <3>1. \E r \in Readings : \A k \in Keys : map'[k] \in {r[k], 0}
      BY <1>1 DEF Readings
    <3>2. ASSUME NEW log2 \in KnownLogs'
          PROVE  \E log \in KnownLogs : \A k \in Keys :
              Replayed(log2.records, k) \in {Replayed(log.records, k), 0}
      <4>1. CASE log2 \in ready
        BY <4>1 DEF KnownLogs
      <4>2. CASE log2 = binlog'
        <5>1. \A k \in Keys : Replayed(log2.records, k) = 0
          BY <1>2, <4>2, EmptyReplay
        <5> QED
          BY <5>1 DEF KnownLogs
      <4> QED
        BY <1>1, <4>1, <4>2 DEF KnownLogs
    <3> QED
      BY <3>1, <3>2, LogsShrink
  <2>3. OwnPlaces'
    <3>1. writes' \in {writes, writes + 1} /\ task'.step \notin {"wrote", "moving"}
      BY <1>1, <1>3
    <3> QED
      BY <2>1, <2>2, <3>1, OwnPlacesShrink
  <2>4. HarmlessPlaces'
    <3>1. last' = last /\ \A p \in Places : files'[p] \in {files[p], 0}
      BY <1>1
    <3> QED
      BY <2>1, <2>2, <3>1, HarmlessShrink
  <2>5. RemovedAreGone'
    BY <1>1, <1>3, <2>1 DEF RemovedAreGone
  <2>6. LogFollows'
    BY <1>1, <2>1 DEF LogFollows, OpenedLog
  <2>7. CompactorAgrees' /\ CompactedAgrees'
    BY <1>3 DEF CompactorAgrees, CompactedAgrees
  <2> QED
    BY <2>3, <2>4, <2>5, <2>6, <2>7 DEF Undamaged
<1> QED
    BY <1>4, <1>5, <1>6, <1>7

\* The known logs become fewer, nothing else is read.
LEMMA FewerLogs ==
    ASSUME \E r \in Readings : \A k \in Keys : map'[k] \in {r[k], 0},
           KnownLogs' \subseteq KnownLogs
    PROVE  Shrinks
<1>1. \A log2 \in KnownLogs' : \E log \in KnownLogs : \A k \in Keys :
              Replayed(log2.records, k) \in {Replayed(log.records, k), 0}
    OBVIOUS
<1> QED
    BY <1>1, LogsShrink

LEMMA EmptyIsReady == Cardinality({}) <= 1
BY FS_EmptySet

LEMMA MoveRenamesKeeps ==
    ASSUME TypeOK, Phased, TaskKnown, MoveRenames
    PROVE  /\ TypeOK' /\ Phased' /\ TaskKnown'
           /\ Undamaged => Undamaged'
<1>1. /\ running /\ task.step = "emptied" /\ ready # {} /\ compactor.phase = "done"
      /\ compactor.excess <= excess
      /\ binlog' = OpenedLog /\ ready' = {} /\ open' = TRUE
      /\ excess' = excess - compactor.excess
      /\ compactor' = NoCompactor /\ task' = Idle
      /\ UNCHANGED <<running, map, removing, stale, files, last, lossy, misread,
                     writes, crashes, fails>>
    BY DEF MoveRenames, Phased, OpenedLog, history, bounds
<1>2. binlog' \in Logs /\ binlog' \in ready
    BY <1>1 DEF OpenedLog, TypeOK
<1>3. task' \in [step : Steps, key : Keys \cup {NoKey},
                 place : Places \cup {0}, was : Places \cup {0}]
      /\ task'.step = "idle"
    BY <1>1 DEF Idle, Steps
<1>4. excess' \in Nat
    BY <1>1 DEF TypeOK
<1>5. compactor' \in CompactorType /\ compactor'.phase = "none"
    BY <1>1, NoCompactorType DEF NoCompactor
<1>6. TypeOK'
    BY <1>1, <1>2, <1>3, <1>4, <1>5, EmptyIsReady DEF TypeOK, CompactorType
<1>7. Phased'
    BY <1>1, <1>3, <1>5 DEF Phased
<1>8. TaskKnown'
    BY <1>3 DEF TaskKnown
<1>9. ASSUME Undamaged PROVE Undamaged'
  <2>1. /\ OwnPlaces /\ HarmlessPlaces /\ RemovedAreGone /\ LogFollows
    BY <1>9 DEF Undamaged
  <2>2. Shrinks
    <3>1. \E r \in Readings : \A k \in Keys : map'[k] \in {r[k], 0}
      BY <1>1 DEF Readings
    <3>2. KnownLogs' \subseteq KnownLogs
      BY <1>1, <1>2 DEF KnownLogs
    <3> QED
      BY <3>1, <3>2, FewerLogs
  <2>3. OwnPlaces'
    <3>1. writes' \in {writes, writes + 1} /\ task'.step \notin {"wrote", "moving"}
      BY <1>1, <1>3
    <3> QED
      BY <2>1, <2>2, <3>1, OwnPlacesShrink
  <2>4. HarmlessPlaces'
    <3>1. last' = last /\ \A p \in Places : files'[p] \in {files[p], 0}
      BY <1>1
    <3> QED
      BY <2>1, <2>2, <3>1, HarmlessShrink
  <2>5. RemovedAreGone'
    BY <1>1, <1>3, <2>1 DEF RemovedAreGone
  <2>6. LogFollows'
    <3>1. OpenedLog' = binlog'
      BY <1>1 DEF OpenedLog
    <3> QED
      BY <1>1, <2>1, <3>1 DEF LogFollows
  <2>7. CompactorAgrees' /\ CompactedAgrees'
    BY <1>3, <1>5 DEF CompactorAgrees, CompactedAgrees
  <2> QED
    BY <2>3, <2>4, <2>5, <2>6, <2>7 DEF Undamaged
<1> QED
    BY <1>6, <1>7, <1>8, <1>9

\* The same, with the log closed.
LEMMA ReopenFailKeeps ==
    ASSUME TypeOK, Phased, TaskKnown, ReopenFail
    PROVE  /\ TypeOK' /\ Phased' /\ TaskKnown'
           /\ Undamaged => Undamaged'
<1>1. /\ running /\ task.step = "emptied" /\ ready # {} /\ compactor.phase = "done"
      /\ ~open
      /\ binlog' = OpenedLog /\ ready' = {}
      /\ compactor' = NoCompactor /\ task' = Idle
      /\ UNCHANGED <<running, open, map, removing, stale, excess, files, last,
                     lossy, misread, writes, crashes>>
    BY DEF ReopenFail, CompactorFail, Phased, OpenedLog, memory, history
<1>2. binlog' \in Logs /\ binlog' \in ready
    BY <1>1 DEF OpenedLog, TypeOK
<1>3. task' \in [step : Steps, key : Keys \cup {NoKey},
                 place : Places \cup {0}, was : Places \cup {0}]
      /\ task'.step = "idle"
    BY <1>1 DEF Idle, Steps
<1>4. fails' \in 0 .. MaxFails
    BY BoundsAssumption DEF ReopenFail, Failing, TypeOK
<1>5. compactor' \in CompactorType /\ compactor'.phase = "none"
    BY <1>1, NoCompactorType DEF NoCompactor
<1>6. TypeOK'
    BY <1>1, <1>2, <1>3, <1>4, <1>5, EmptyIsReady DEF TypeOK, CompactorType
<1>7. Phased'
    BY <1>1, <1>3, <1>5 DEF Phased
<1>8. TaskKnown'
    BY <1>3 DEF TaskKnown
<1>9. ASSUME Undamaged PROVE Undamaged'
  <2>1. /\ OwnPlaces /\ HarmlessPlaces /\ RemovedAreGone /\ LogFollows
    BY <1>9 DEF Undamaged
  <2>2. Shrinks
    <3>1. \E r \in Readings : \A k \in Keys : map'[k] \in {r[k], 0}
      BY <1>1 DEF Readings
    <3>2. KnownLogs' \subseteq KnownLogs
      BY <1>1, <1>2 DEF KnownLogs
    <3> QED
      BY <3>1, <3>2, FewerLogs
  <2>3. OwnPlaces'
    <3>1. writes' \in {writes, writes + 1} /\ task'.step \notin {"wrote", "moving"}
      BY <1>1, <1>3
    <3> QED
      BY <2>1, <2>2, <3>1, OwnPlacesShrink
  <2>4. HarmlessPlaces'
    <3>1. last' = last /\ \A p \in Places : files'[p] \in {files[p], 0}
      BY <1>1
    <3> QED
      BY <2>1, <2>2, <3>1, HarmlessShrink
  <2>5. RemovedAreGone'
    BY <1>1, <1>3, <2>1 DEF RemovedAreGone
  <2>6. LogFollows'
    <3>1. OpenedLog' = binlog'
      BY <1>1 DEF OpenedLog
    <3> QED
      BY <1>1, <2>1, <3>1 DEF LogFollows
  <2>7. CompactorAgrees' /\ CompactedAgrees'
    BY <1>3, <1>5 DEF CompactorAgrees, CompactedAgrees
  <2> QED
    BY <2>3, <2>4, <2>5, <2>6, <2>7 DEF Undamaged
<1> QED
    BY <1>6, <1>7, <1>8, <1>9

LEMMA MoveFailKeeps ==
    ASSUME TypeOK, Phased, TaskKnown, MoveFail
    PROVE  /\ TypeOK' /\ Phased' /\ TaskKnown'
           /\ ~misread /\ Undamaged => Undamaged'
<1>1. /\ running /\ task.step \in {"ready", "emptied"} /\ ready # {} /\ ~open
      /\ compactor.phase = "done"
      /\ ready' = {} /\ compactor' = NoCompactor /\ task' = Idle
      /\ lossy' = (lossy \/ task.step = "emptied")
      /\ UNCHANGED <<running, open, map, removing, stale, excess, files, binlog,
                     last, misread, writes, crashes>>
    BY DEF MoveFail, CompactorFail, Phased, memory
<1>2. fails' \in 0 .. MaxFails
    BY BoundsAssumption DEF MoveFail, Failing, TypeOK
<1>3. task' \in [step : Steps, key : Keys \cup {NoKey},
                 place : Places \cup {0}, was : Places \cup {0}]
      /\ task'.step = "idle"
    BY <1>1 DEF Idle, Steps
<1>4. compactor' \in CompactorType /\ compactor'.phase = "none"
    BY <1>1, NoCompactorType DEF NoCompactor
<1>5. lossy' \in BOOLEAN
    BY <1>1 DEF TypeOK
<1>6. TypeOK'
    BY <1>1, <1>2, <1>3, <1>4, <1>5, EmptyIsReady DEF TypeOK, CompactorType
<1>7. Phased'
    BY <1>1, <1>3, <1>4 DEF Phased
<1>8. TaskKnown'
    BY <1>3 DEF TaskKnown
<1>9. ASSUME ~misread, Undamaged PROVE Undamaged'
  <2>1. /\ OwnPlaces /\ HarmlessPlaces /\ RemovedAreGone /\ LogFollows
        /\ CompactedAgrees
    BY <1>9 DEF Undamaged
  <2>2. Shrinks
    <3>1. \E r \in Readings : \A k \in Keys : map'[k] \in {r[k], 0}
      BY <1>1 DEF Readings
    <3>2. KnownLogs' \subseteq KnownLogs
      BY <1>1 DEF KnownLogs
    <3> QED
      BY <3>1, <3>2, FewerLogs
  <2>3. OwnPlaces'
    <3>1. writes' \in {writes, writes + 1} /\ task'.step \notin {"wrote", "moving"}
      BY <1>1, <1>3
    <3> QED
      BY <2>1, <2>2, <3>1, OwnPlacesShrink
  <2>4. HarmlessPlaces'
    <3>1. last' = last /\ \A p \in Places : files'[p] \in {files[p], 0}
      BY <1>1
    <3> QED
      BY <2>1, <2>2, <3>1, HarmlessShrink
  <2>5. RemovedAreGone'
    BY <1>1, <1>3, <2>1 DEF RemovedAreGone
  <2>6. LogFollows'
    <3> SUFFICES ASSUME ~lossy', NEW k \in Keys, map'[k] # 0
                 PROVE  Replayed(OpenedLog'.records, k) = map'[k]
      BY <1>1, <1>4 DEF LogFollows, OpenedLog
    <3>1. task.step = "ready"
      BY <1>1
    <3>2. OpenedLog \in ready /\ OpenedLog' = binlog
      BY <1>1 DEF OpenedLog
    <3>3. Replayed(OpenedLog.records, k) = map[k]
      BY <1>1, <2>1 DEF LogFollows
    <3>4. \/ Replayed(OpenedLog.records, k) = Replayed(binlog.records, k)
          \/ Replayed(OpenedLog.records, k) = 0 /\ map[k] = 0
      BY <1>9, <2>1, <3>1, <3>2 DEF CompactedAgrees
    <3> QED
      BY <1>1, <3>2, <3>3, <3>4
  <2>7. CompactorAgrees' /\ CompactedAgrees'
    BY <1>3, <1>4 DEF CompactorAgrees, CompactedAgrees
  <2> QED
    BY <2>3, <2>4, <2>5, <2>6, <2>7 DEF Undamaged
<1> QED
    BY <1>6, <1>7, <1>8, <1>9

\* The end of the process: nothing of the memory is left.
LEMMA EndKeeps ==
    ASSUME TypeOK, running, Ends, ClearState, removing' = {},
           UNCHANGED <<files, ready, history, writes, fails>>,
           binlog' \in Logs,
           \A k \in Keys : Replayed(binlog'.records, k)
                                \in {Replayed(binlog.records, k), 0}
    PROVE  /\ TypeOK' /\ Phased' /\ TaskKnown'
           /\ Undamaged => Undamaged'
<1>1. /\ running' = FALSE /\ open' = FALSE /\ map' = [k \in Keys |-> 0]
      /\ stale' = {} /\ excess' = 0 /\ task' = Idle /\ compactor' = NoCompactor
      /\ UNCHANGED <<files, ready, last, lossy, misread, writes, fails>>
    BY DEF ClearState, history
<1>2. crashes' \in 0 .. MaxCrashes
    BY BoundsAssumption DEF Ends, TypeOK
<1>3. task' \in [step : Steps, key : Keys \cup {NoKey},
                 place : Places \cup {0}, was : Places \cup {0}]
      /\ task'.step = "idle"
    BY <1>1 DEF Idle, Steps
<1>4. compactor' \in CompactorType /\ compactor'.phase = "none"
    BY <1>1, NoCompactorType DEF NoCompactor
<1>5. Cardinality(removing') < maxBundledRecords
    BY FS_EmptySet, SettingsAssumption
<1>6. TypeOK'
    BY <1>1, <1>2, <1>3, <1>4, <1>5 DEF TypeOK, CompactorType
<1>7. Phased'
    BY <1>1, <1>3, <1>4 DEF Phased
<1>8. TaskKnown'
    BY <1>3 DEF TaskKnown
<1>9. ASSUME Undamaged PROVE Undamaged'
  <2>1. /\ OwnPlaces /\ HarmlessPlaces
    BY <1>9 DEF Undamaged
  <2>2. Shrinks
    <3>1. \E r \in Readings : \A k \in Keys : map'[k] \in {r[k], 0}
      BY <1>1 DEF Readings
    <3>2. \A log2 \in KnownLogs' : \E log \in KnownLogs : \A k \in Keys :
              Replayed(log2.records, k) \in {Replayed(log.records, k), 0}
      BY <1>1 DEF KnownLogs
    <3> QED
      BY <3>1, <3>2, LogsShrink
  <2>3. OwnPlaces'
    <3>1. writes' \in {writes, writes + 1} /\ task'.step \notin {"wrote", "moving"}
      BY <1>1, <1>3
    <3> QED
      BY <2>1, <2>2, <3>1, OwnPlacesShrink
  <2>4. HarmlessPlaces'
    <3>1. last' = last /\ \A p \in Places : files'[p] \in {files[p], 0}
      BY <1>1
    <3> QED
      BY <2>1, <2>2, <3>1, HarmlessShrink
  <2>5. RemovedAreGone' /\ LogFollows'
    BY <1>1, <1>3 DEF RemovedAreGone, LogFollows
  <2>6. CompactorAgrees' /\ CompactedAgrees'
    BY <1>3, <1>4 DEF CompactorAgrees, CompactedAgrees
  <2> QED
    BY <2>3, <2>4, <2>5, <2>6 DEF Undamaged
<1> QED
    BY <1>6, <1>7, <1>8, <1>9

LEMMA CloseKeeps ==
    ASSUME TypeOK, Close
    PROVE  /\ TypeOK' /\ Phased' /\ TaskKnown'
           /\ Undamaged => Undamaged'
<1>1. /\ running /\ Ends /\ ClearState /\ removing' = {}
      /\ UNCHANGED <<files, ready, history, writes, fails>>
    BY DEF Close, Ready
<1>2. removing \in SUBSET Keys /\ binlog \in Logs
    BY DEF TypeOK
<1>3. binlog' = binlog \/ binlog' = Appended(binlog, Record({}, removing))
    BY DEF Close
<1>4. /\ binlog' \in Logs
      /\ \A k \in Keys : Replayed(binlog'.records, k)
                                \in {Replayed(binlog.records, k), 0}
    BY <1>2, <1>3, RemoveRecord, AppendedLog, RemoveReplay
<1> QED
    BY <1>1, <1>4, EndKeeps

LEMMA CrashKeeps ==
    ASSUME TypeOK, Crash
    PROVE  /\ TypeOK' /\ Phased' /\ TaskKnown'
           /\ Undamaged => Undamaged'
<1>1. /\ running /\ Ends /\ ClearState /\ removing' = {}
      /\ UNCHANGED <<files, ready, history, writes, fails>>
    BY DEF Crash
<1>2. /\ binlog' \in Logs /\ binlog'.records = binlog.records
    BY DEF Crash, TypeOK, Logs
<1> QED
    BY <1>1, <1>2, EndKeeps

LEMMA ExcessType ==
    ASSUME NEW records \in Seq(Records)
    PROVE  Excess(records) \in Nat
<1> DEFINE Lines == (DOMAIN records) \X Keys
           heads == {i \in DOMAIN records : records[i].removed # {}}
           removed == {x \in Lines : x[2] \in records[x[1]].removed}
           replaced == {x \in Lines :
                /\ \E e \in records[x[1]].stored : e.key = x[2]
                /\ Replayed(SubSeq(records, 1, x[1] - 1), x[2]) # 0}
<1>1. DOMAIN records = 1 .. Len(records) /\ Len(records) \in Int
    BY LenProperties
<1>2. IsFiniteSet(DOMAIN records)
    BY <1>1, FS_Interval
<1>3. IsFiniteSet(Lines)
    BY <1>2, KeysAssumption, FS_Product
<1>4. /\ heads \in SUBSET (DOMAIN records)
      /\ removed \in SUBSET Lines /\ replaced \in SUBSET Lines
    OBVIOUS
<1>5. Excess(records) =
        Cardinality(heads) + Cardinality(removed) + Cardinality(replaced)
    BY Zenon DEF Excess
<1> HIDE DEF Lines, heads, removed, replaced
<1>6. IsFiniteSet(heads) /\ IsFiniteSet(removed) /\ IsFiniteSet(replaced)
    BY <1>2, <1>3, <1>4, FS_Subset
<1>7. /\ Cardinality(heads) \in Nat /\ Cardinality(removed) \in Nat
      /\ Cardinality(replaced) \in Nat
    BY <1>6, FS_CardinalityType
<1> QED
    BY <1>5, <1>7

\* The process is started again and reads its log.
LEMMA OpenKeeps ==
    ASSUME TypeOK, Phased, TaskKnown, Open
    PROVE  /\ TypeOK' /\ Phased' /\ TaskKnown'
           /\ Undamaged => Undamaged'
<1>1. /\ ~running /\ removing = {} /\ task = Idle /\ compactor.phase = "none"
      /\ running' = TRUE /\ open' = TRUE /\ binlog' = OpenedLog /\ ready' = {}
      /\ map' = [k \in Keys |-> Replayed(binlog'.records, k)]
      /\ excess' = Excess(binlog'.records)
      /\ CheckCompactor
      /\ UNCHANGED <<removing, stale, task, files, last, lossy, misread,
                     writes, crashes, fails>>
    BY DEF Open, Phased, history, bounds
<1>2. binlog' \in Logs /\ binlog' \in KnownLogs /\ binlog'.records \in Seq(Records)
    BY <1>1, OpenedIsKnown, ReadingsType DEF Logs
<1>3. map' \in [Keys -> Places \cup {0}] /\ excess' \in Nat
    BY <1>1, <1>2, ReplayedType, ExcessType
<1>4. /\ compactor' \in CompactorType
      /\ compactor'.phase # "none" => compactor' = NewCompactor(binlog', excess')
  <2>1. compactor' = compactor \/ compactor' = NewCompactor(binlog', excess')
    BY <1>1 DEF CheckCompactor
  <2>2. NewCompactor(binlog', excess') \in CompactorType
    BY <1>2, <1>3, NewCompactorType
  <2> QED
    BY <1>1, <2>1, <2>2 DEF TypeOK, CompactorType
<1>5. task'.step = "idle" /\ task' = task
    BY <1>1 DEF Idle
<1>6. TypeOK'
    BY <1>1, <1>2, <1>3, <1>4, EmptyIsReady DEF TypeOK, CompactorType
<1>7. Phased'
  <2>1. compactor'.phase # "none" =>
            compactor'.excess <= excess' /\ compactor'.till <= Size(binlog')
    <3>1. NewCompactor(binlog', excess').excess = excess'
          /\ NewCompactor(binlog', excess').till = Size(binlog')
      BY DEF NewCompactor, NoCompactor
    <3>2. Size(binlog') \in Nat
      BY <1>2, SizeType
    <3> QED
      BY <1>3, <1>4, <3>1, <3>2
  <2> QED
    BY <1>1, <1>5, <2>1 DEF Phased
<1>8. TaskKnown'
    BY <1>5 DEF TaskKnown
<1>9. ASSUME Undamaged PROVE Undamaged'
  <2>1. /\ OwnPlaces /\ HarmlessPlaces
    BY <1>9 DEF Undamaged
  <2>2. Shrinks
    <3>1. \E r \in Readings : \A k \in Keys : map'[k] \in {r[k], 0}
      BY <1>1, <1>2 DEF Readings, Reading
    <3>2. KnownLogs' \subseteq KnownLogs
      BY <1>1, <1>2 DEF KnownLogs
    <3> QED
      BY <3>1, <3>2, FewerLogs
  <2>3. OwnPlaces'
    <3>1. writes' \in {writes, writes + 1} /\ task'.step \notin {"wrote", "moving"}
      BY <1>1, <1>5
    <3> QED
      BY <2>1, <2>2, <3>1, OwnPlacesShrink
  <2>4. HarmlessPlaces'
    <3>1. last' = last /\ \A p \in Places : files'[p] \in {files[p], 0}
      BY <1>1
    <3> QED
      BY <2>1, <2>2, <3>1, HarmlessShrink
  <2>5. \A k \in Keys : map'[k] # 0 => Replayed(binlog'.records, k) = map'[k]
    BY <1>1
  <2>6. RemovedAreGone' /\ LogFollows'
    BY <1>1, <1>5, <2>5 DEF RemovedAreGone, LogFollows, OpenedLog
  <2>7. CompactorAgrees'
    <3>1. CASE compactor'.phase = "none"
      BY <3>1 DEF CompactorAgrees
    <3>2. CASE compactor'.phase # "none"
      BY <1>2, <1>3, <1>4, <2>5, <3>2, NewCompactorAgrees
    <3> QED
      BY <3>1, <3>2
  <2>8. CompactedAgrees'
    BY <1>5 DEF CompactedAgrees
  <2> QED
    BY <2>3, <2>4, <2>6, <2>7, <2>8 DEF Undamaged
<1> QED
    BY <1>6, <1>7, <1>8, <1>9

LEMMA OpenNewBinlogKeeps ==
    ASSUME TypeOK, Phased, TaskKnown, OpenNewBinlog
    PROVE  /\ TypeOK' /\ Phased' /\ TaskKnown'
           /\ Undamaged => Undamaged'
<1>1. /\ removing = {} /\ task = Idle /\ compactor.phase = "none"
      /\ running' = TRUE /\ open' = TRUE /\ binlog' = EmptyLog /\ ready' = {}
      /\ files' = [p \in Places |-> 0] /\ map' = [k \in Keys |-> 0]
      /\ excess' = 0 /\ lossy' = TRUE
      /\ UNCHANGED <<removing, stale, task, compactor, last, misread, writes,
                     crashes>>
    BY DEF OpenNewBinlog, Phased
<1>2. fails' \in 0 .. MaxFails
    BY BoundsAssumption DEF OpenNewBinlog, Failing, TypeOK
<1>3. binlog' \in Logs /\ binlog'.records = <<>>
  <2>1. <<>> \in Seq(Records)
    BY EmptySeq
  <2> QED
    BY <1>1, <2>1 DEF EmptyLog, Log, Logs
<1>4. task'.step = "idle"
    BY <1>1 DEF Idle
<1>5. TypeOK'
    BY <1>1, <1>2, <1>3, EmptyIsReady DEF TypeOK
<1>6. Phased'
    BY <1>1, <1>4 DEF Phased
<1>7. TaskKnown'
    BY <1>4 DEF TaskKnown
<1>8. ASSUME Undamaged PROVE Undamaged'
  <2>1. /\ OwnPlaces /\ HarmlessPlaces
    BY <1>8 DEF Undamaged
  <2>2. Shrinks
    <3>1. \E r \in Readings : \A k \in Keys : map'[k] \in {r[k], 0}
      BY <1>1 DEF Readings
    <3>2. \A k \in Keys : Replayed(binlog'.records, k) = 0
      BY <1>3, EmptyReplay
    <3>3. \A log2 \in KnownLogs' : \E log \in KnownLogs : \A k \in Keys :
              Replayed(log2.records, k) \in {Replayed(log.records, k), 0}
      BY <1>1, <3>2 DEF KnownLogs
    <3> QED
      BY <3>1, <3>3, LogsShrink
  <2>3. OwnPlaces'
    <3>1. writes' \in {writes, writes + 1} /\ task'.step \notin {"wrote", "moving"}
      BY <1>1, <1>4
    <3> QED
      BY <2>1, <2>2, <3>1, OwnPlacesShrink
  <2>4. HarmlessPlaces'
    <3>1. last' = last /\ \A p \in Places : files'[p] \in {files[p], 0}
      BY <1>1
    <3> QED
      BY <2>1, <2>2, <3>1, HarmlessShrink
  <2>5. RemovedAreGone' /\ LogFollows'
    BY <1>1, <1>4 DEF RemovedAreGone, LogFollows
  <2>6. CompactorAgrees' /\ CompactedAgrees'
    BY <1>1, <1>4 DEF CompactorAgrees, CompactedAgrees
  <2> QED
    BY <2>3, <2>4, <2>5, <2>6 DEF Undamaged
<1> QED
    BY <1>5, <1>6, <1>7, <1>8

-----------------------------------------------------------------------------
(* The invariant. *)

LEMMA InitInvariant ==
    ASSUME Init
    PROVE  IInv
<1>1. TypeOK
  <2>1. <<>> \in Seq(Records)
    BY EmptySeq
  <2>2. EmptyLog \in Logs
    BY <2>1 DEF EmptyLog, Log, Logs
  <2>3. Cardinality({}) = 0
    BY FS_EmptySet
  <2>4. compactor \in CompactorType
    BY NoCompactorType DEF Init
  <2>5. /\ task \in [step : Steps, key : Keys \cup {NoKey},
                     place : Places \cup {0}, was : Places \cup {0}]
        /\ task.step = "idle"
    BY DEF Init, Idle, Steps
  <2>6. /\ map \in [Keys -> Places \cup {0}] /\ last \in [Keys -> Values \cup {0}]
        /\ files \in [Places -> Values \cup {0}]
    BY DEF Init
  <2>7. /\ Cardinality(removing) < maxBundledRecords
        /\ Cardinality(ready) <= 1
    BY <2>3, SettingsAssumption DEF Init
  <2>8. /\ excess \in Nat /\ writes \in 0 .. MaxWrites
        /\ crashes \in 0 .. MaxCrashes /\ fails \in 0 .. MaxFails
    BY BoundsAssumption DEF Init
  <2>9. /\ running \in BOOLEAN /\ open \in BOOLEAN /\ lossy \in BOOLEAN
        /\ misread \in BOOLEAN /\ removing \subseteq Keys /\ stale \subseteq Keys
        /\ ready \subseteq Logs /\ binlog \in Logs
    BY <2>2 DEF Init
  <2> QED
    BY <2>4, <2>5, <2>6, <2>7, <2>8, <2>9 DEF TypeOK, CompactorType
<1>2. Phased /\ TaskKnown
    BY DEF Init, Phased, TaskKnown, Idle, NoCompactor
<1>3. Undamaged
  <2>1. KnownLogs = {EmptyLog} /\ EmptyLog.records = <<>>
    BY DEF Init, KnownLogs, EmptyLog, Log
  <2>2. \A r \in Readings, k \in Keys : r[k] = 0
    BY <2>1, EmptyReplay DEF Init, Readings, Reading
  <2>3. OwnPlaces
    BY <2>2 DEF Init, OwnPlaces, Idle
  <2>4. HarmlessPlaces /\ RemovedAreGone
    BY <2>2 DEF HarmlessPlaces, RemovedAreGone, Init, Idle
  <2>5. LogFollows
    BY DEF LogFollows, Init
  <2>6. CompactorAgrees /\ CompactedAgrees
    BY DEF CompactorAgrees, CompactedAgrees, Init, Idle, NoCompactor
  <2> QED
    BY <2>3, <2>4, <2>5, <2>6 DEF Undamaged
<1> QED
    BY <1>1, <1>2, <1>3 DEF IInv

\* One value is stored or given up while the database runs.
Becomes(k, v) ==
    /\ running /\ running' /\ UNCHANGED misread
    /\ last' = [last EXCEPT ![k] = v]
    /\ \A j \in Keys : Gotten(j)' = IF j = k THEN v ELSE Gotten(j)

\* What a step may do to the values, until a record is lost.
Promised ==
    \/ misread'
    \/ UNCHANGED <<last, misread>>
    \/ \E k \in Keys, v \in Values \cup {0} : Becomes(k, v)

LEMMA DropKeeps ==
    ASSUME IInv, DropStep
    PROVE  IInv' /\ Promised
<1>1. TypeOK /\ Phased /\ (~misread => Undamaged)
    BY DEF IInv
<1>2. TypeOK' /\ Phased'
    BY <1>1, DropType, DropPhased
<1>3. TaskKnown'
    BY DEF DropStep, Idle, TaskKnown
<1>4. running /\ running' /\ misread' = misread
    BY DEF DropStep
<1>5. IInv'
    BY <1>1, <1>2, <1>3, <1>4, DropUndamaged DEF IInv
<1>6. CASE last' = last
    BY <1>4, <1>5, <1>6 DEF Promised
<1>7. CASE misread
    BY <1>4, <1>5, <1>7 DEF Promised
<1>8. ASSUME ~misread, NEW k \in Keys, Forgets(k) PROVE Promised
  <2>1. /\ map[k] # 0 /\ map' = [map EXCEPT ![k] = 0]
        /\ files' = [files EXCEPT ![map[k]] = 0]
        /\ last' = [last EXCEPT ![k] = 0]
    BY <1>8 DEF Forgets
  <2>2. \A j \in Keys : map[j] = map[k] => j = k
    BY <1>1, <1>8, <2>1 DEF Undamaged, OwnPlaces, Readings
  <2>3. ASSUME NEW j \in Keys PROVE Gotten(j)' = IF j = k THEN 0 ELSE Gotten(j)
    BY <1>1, <2>1, <2>2 DEF Gotten, TypeOK
  <2>4. Becomes(k, 0)
    BY <1>4, <2>1, <2>3 DEF Becomes
  <2> QED
    BY <2>4 DEF Promised
<1>9. last' = last \/ \E k \in Keys : Forgets(k)
    BY DEF DropStep, Loses
<1> QED
    BY <1>5, <1>6, <1>7, <1>8, <1>9

LEMMA StoreKeeps ==
    ASSUME IInv, StoreStep
    PROVE  IInv' /\ Promised
<1>1. TypeOK /\ Phased /\ TaskKnown /\ (~misread => Undamaged)
    BY DEF IInv
<1>2. TypeOK' /\ Phased'
    BY <1>1, StoreType, StorePhased
<1>3. TaskKnown'
    BY <1>1, StoreFacts DEF TaskKnown
<1>4. running /\ running' /\ misread' = misread
    BY DEF StoreStep
<1>5. IInv'
    BY <1>1, <1>2, <1>3, <1>4, StoreUndamaged DEF IInv
<1>6. CASE misread
    BY <1>4, <1>5, <1>6 DEF Promised
<1>7. CASE ~misread
  <2>1. task.key \in Keys /\ task.place \in Places
    BY <1>1 DEF StoreStep, TaskKnown
  <2>2. /\ map' = [map EXCEPT ![task.key] = task.place]
        /\ files' = files
        /\ last' = [last EXCEPT ![task.key] = files[task.place]]
    BY DEF StoreStep
  <2>3. files[task.place] \in Values \cup {0} /\ task.place # 0
    BY <1>1, <2>1 DEF TypeOK, Places
  <2>4. ASSUME NEW j \in Keys
        PROVE  Gotten(j)' = IF j = task.key THEN files[task.place] ELSE Gotten(j)
    BY <1>1, <2>1, <2>2, <2>3 DEF Gotten, TypeOK
  <2>5. Becomes(task.key, files[task.place])
    BY <1>4, <2>2, <2>4 DEF Becomes
  <2> QED
    BY <1>5, <2>1, <2>3, <2>5 DEF Promised
<1> QED
    BY <1>6, <1>7

LEMMA MoveKeeps ==
    ASSUME IInv, NEW from \in Keys, NEW to \in Keys, MoveIfEmpty(from, to)
    PROVE  IInv' /\ Promised
<1>1. TypeOK /\ Phased /\ (~misread => Undamaged)
    BY DEF IInv
<1>2. CASE ~open'
    BY <1>1, <1>2, MoveIfEmptyFailDrops, DropKeeps
<1>3. CASE open'
  <2>1. /\ running /\ running' /\ misread' = misread /\ files' = files
        /\ map' = [map EXCEPT ![from] = 0]
        /\ last' = [last EXCEPT ![from] = 0]
    BY <1>3 DEF MoveIfEmpty, Ready
  <2>2. IInv'
    BY <1>1, <1>3, <2>1, MoveIfEmptyKeeps DEF IInv
  <2>3. ASSUME NEW j \in Keys PROVE Gotten(j)' = IF j = from THEN 0 ELSE Gotten(j)
    BY <1>1, <2>1 DEF Gotten, TypeOK
  <2>4. Becomes(from, 0)
    BY <2>1, <2>3 DEF Becomes
  <2> QED
    BY <2>2, <2>4 DEF Promised
<1> QED
    BY <1>2, <1>3

LEMMA PutValuePromised ==
    ASSUME IInv, NEW k \in Keys, NEW v \in Values, PutValue(k, v)
    PROVE  IInv' /\ Promised
<1>1. misread' = misread /\ last' = last
    BY DEF PutValue, history
<1> QED
    BY <1>1, PutValueKeeps DEF IInv, Promised

LEMMA PutKeeps ==
    ASSUME IInv, NEW k \in Keys, Put(k) \/ PutIfEmpty(k)
    PROVE  IInv' /\ Promised
<1>1. PutValue(k, writes + 1)
    BY DEF Put, PutIfEmpty
<1>2. writes + 1 \in Values
    BY <1>1, BoundsAssumption DEF IInv, TypeOK, PutValue, Values
<1> QED
    BY <1>1, <1>2, PutValuePromised

LEMMA CopyKeeps ==
    ASSUME IInv, NEW k \in Keys, NEW j \in Keys, CopyIfEmpty(k, j)
    PROVE  IInv' /\ Promised
<1>1. PutValue(j, files[map[k]]) /\ map[k] # 0 /\ files[map[k]] # 0
    BY DEF CopyIfEmpty, Readable
<1>2. files[map[k]] \in Values
    BY <1>1 DEF IInv, TypeOK
<1> QED
    BY <1>1, <1>2, PutValuePromised

LEMMA CompactorStepPromised ==
    ASSUME IInv, CompactorStep
    PROVE  IInv' /\ Promised
<1>1. misread' = misread /\ last' = last
    BY DEF CompactorStep, history
<1> QED
    BY <1>1, CompactorStepPhased, CompactorStepUndamaged DEF IInv, Promised

LEMMA CompactorDonePromised ==
    ASSUME IInv, CompactorDone
    PROVE  IInv' /\ Promised
<1>1. last' = last /\ misread' = (misread \/ ~compactor.clean)
    BY DEF CompactorDone
<1>2. misread \in BOOLEAN /\ compactor.clean \in BOOLEAN
    BY DEF IInv, TypeOK
<1>3. CASE misread'
    BY <1>3, CompactorDoneKeeps DEF IInv, Promised
<1>4. CASE ~misread'
  <2>1. ~misread /\ compactor.clean /\ misread' = misread
    BY <1>1, <1>2, <1>4
  <2> QED
    BY <1>1, <1>4, <2>1, CompactorDoneKeeps DEF IInv, Promised
<1> QED
    BY <1>3, <1>4

LEMMA DatabaseKeeps ==
    ASSUME IInv, Database
    PROVE  IInv' /\ Promised
<1>1. TypeOK /\ Phased /\ TaskKnown
    BY DEF IInv
<1>2. CASE WriteKeyPlace
    BY <1>1, <1>2, WriteKeyPlaceStores, StoreKeeps
<1>3. CASE WriteExistingPlace
    BY <1>1, <1>3, WriteExistingPlaceStores, StoreKeeps, DropKeeps
<1>4. CASE WriteKeyPlaceFail
    BY <1>1, <1>4, WriteKeyPlaceFailDrops, DropKeeps
<1>5. CASE PutDone
    BY <1>1, <1>5, PutDoneDrops, DropKeeps
<1>6. CASE WriteBundles
    BY <1>1, <1>6, WriteBundlesDrops, DropKeeps
<1>7. CASE ClearStaleChunk
    BY <1>1, <1>7, ClearStaleChunkDrops, DropKeeps
<1>8. CASE GetManyRaw
  <2>1. CompactorStep
    BY <1>1, <1>8 DEF GetManyRaw, CompactorStep, TypeOK, bounds
  <2> QED
    BY <2>1, CompactorStepPromised
<1>9. CASE HandleFail \/ CompactorDoneFail
    BY <1>1, <1>9, CompactorFailDrops, DropKeeps
<1>10. CASE CompactorDone
    BY <1>10, CompactorDonePromised
<1>11. CASE MoveEmpties
  <2>1. last' = last /\ misread' = misread
    BY <1>11 DEF MoveEmpties, history
  <2> QED
    BY <1>11, <2>1, MoveEmptiesKeeps DEF IInv, Promised
<1>12. CASE MoveRenames
  <2>1. last' = last /\ misread' = misread
    BY <1>12 DEF MoveRenames, history
  <2> QED
    BY <1>12, <2>1, MoveRenamesKeeps DEF IInv, Promised
<1>13. CASE ReopenFail
  <2>1. last' = last /\ misread' = misread
    BY <1>13 DEF ReopenFail, history
  <2> QED
    BY <1>13, <2>1, ReopenFailKeeps DEF IInv, Promised
<1>14. CASE MoveFail
  <2>1. last' = last /\ misread' = misread
    BY <1>14 DEF MoveFail
  <2> QED
    BY <1>14, <2>1, MoveFailKeeps DEF IInv, Promised
<1> QED
    BY <1>2, <1>3, <1>4, <1>5, <1>6, <1>7, <1>8, <1>9, <1>10, <1>11, <1>12, <1>13,
       <1>14 DEF Database

LEMMA CallersKeep ==
    ASSUME IInv, Callers
    PROVE  IInv' /\ Promised
<1>1. TypeOK
    BY DEF IInv
<1>2. ASSUME NEW k \in Keys, PutSame(k) PROVE IInv' /\ Promised
    BY <1>1, <1>2, PutSameDrops, DropKeeps
<1>3. ASSUME NEW k \in Keys, PutFail(k) PROVE IInv' /\ Promised
    BY <1>1, <1>3, PutFailDrops, DropKeeps
<1>4. ASSUME NEW k \in Keys, Get(k) PROVE IInv' /\ Promised
    BY <1>1, <1>4, GetDrops, DropKeeps
<1>5. ASSUME NEW k \in Keys, Remove(k) PROVE IInv' /\ Promised
    BY <1>1, <1>5, RemoveDrops, DropKeeps
<1>6. ASSUME NEW S \in SUBSET Keys, MarkStale(S) PROVE IInv' /\ Promised
    BY <1>1, <1>6, MarkStaleDrops, DropKeeps
<1> QED
    BY <1>2, <1>3, <1>4, <1>5, <1>6, PutKeeps, CopyKeeps, MoveKeeps DEF Callers

LEMMA CompactorKeepsInvariant ==
    ASSUME IInv, Compactor
    PROVE  IInv' /\ Promised
<1>1. CompactorStep
  <2>1. UNCHANGED <<memory, task, disk, history, writes, crashes>>
    <3>1. CASE ParseChunk
      BY <3>1 DEF ParseChunk, bounds
    <3>2. CASE ProcessValues \/ CatchUpRound
      BY <3>2 DEF ProcessValues, CatchUpRound, bounds
    <3>3. CASE CompactorBreaks
      BY <3>3 DEF CompactorBreaks
    <3> QED
      BY <3>1, <3>2, <3>3 DEF Compactor
  <2>2. fails' = fails \/ Failing
    <3>1. CASE ParseChunk
      BY <3>1 DEF ParseChunk, bounds
    <3>2. CASE ProcessValues \/ CatchUpRound
      BY <3>2 DEF ProcessValues, CatchUpRound, bounds
    <3>3. CASE CompactorBreaks
      BY <3>3 DEF CompactorBreaks
    <3> QED
      BY <3>1, <3>2, <3>3 DEF Compactor
  <2>3. fails \in 0 .. MaxFails
    BY DEF IInv, TypeOK
  <2>4. fails' \in 0 .. MaxFails
    BY <2>2, <2>3, BoundsAssumption DEF Failing
  <2> QED
    BY <2>1, <2>4 DEF Compactor, CompactorStep
<1> QED
    BY <1>1, CompactorStepPromised

LEMMA ProcessKeeps ==
    ASSUME IInv, Process
    PROVE  IInv' /\ Promised
<1>1. last' = last /\ misread' = misread
    BY DEF Process, Close, Crash, Open, OpenNewBinlog, history
<1> QED
    BY <1>1, CloseKeeps, CrashKeeps, OpenKeeps, OpenNewBinlogKeeps
       DEF Process, IInv, Promised

LEMMA StepKeeps ==
    ASSUME IInv, [Next]_vars
    PROVE  IInv' /\ Promised
<1>1. CASE UNCHANGED vars
  <2>1. UNCHANGED <<running, open, map, removing, stale, excess, task, compactor,
                    files, binlog, ready, last, lossy, misread, writes, crashes,
                    fails>>
    BY <1>1 DEF vars, memory, disk, history, bounds
  <2>2. TypeOK'
    BY <2>1 DEF IInv, TypeOK
  <2>3. Phased' /\ TaskKnown'
    BY <2>1 DEF IInv, Phased, TaskKnown
  <2>4. Undamaged => Undamaged'
    BY <2>1
       DEF Undamaged, OwnPlaces, HarmlessPlaces, RemovedAreGone, LogFollows,
           OpenedLog, CompactorAgrees, CompactedAgrees, Gathers, Agrees, Beyond,
           Readings, Reading, KnownLogs
  <2> QED
    BY <2>1, <2>2, <2>3, <2>4 DEF IInv, Promised
<1>2. CASE Next
    BY <1>2, DatabaseKeeps, CallersKeep, CompactorKeepsInvariant, ProcessKeeps DEF Next
<1> QED
    BY <1>1, <1>2

\* What the proofs below rest on, in every state of a run.
THEOREM Invariance == Spec => []IInv
<1>1. Init => IInv
    BY InitInvariant
<1>2. IInv /\ [Next]_vars => IInv'
    BY StepKeeps
<1> QED
    BY <1>1, <1>2, PTL DEF Spec

-----------------------------------------------------------------------------
(* What the runs check. *)

\* The types of the database, of its compactor and of the disk.
THEOREM TypeCorrect == Spec => []TypeOK
<1>1. IInv => TypeOK
    BY DEF IInv
<1> QED
    BY <1>1, Invariance, PTL

\* A value that get() finds is found after a crash at any moment: the log that
\* a start reads gives the key the place that the map gives it.
THEOREM ValuesSurvive == Spec => []CrashKeepsValues
<1>1. ASSUME IInv PROVE CrashKeepsValues
  <2> SUFFICES ASSUME running, ~lossy, ~misread, NEW k \in Keys, Readable(k)
               PROVE  Found(k) = Gotten(k)
    BY DEF CrashKeepsValues
  <2>1. LogFollows
    BY <1>1 DEF IInv, Undamaged
  <2>2. map[k] # 0
    BY DEF Readable
  <2>3. Replayed(OpenedLog.records, k) = map[k]
    BY <2>1, <2>2 DEF LogFollows
  <2> QED
    BY <2>2, <2>3 DEF Found, Gotten
<1> QED
    BY <1>1, Invariance, PTL

\* The compacted log that is about to be installed says of each key what the
\* live one says, or nothing of one that is removed.
THEOREM CompactionAgrees == Spec => []CompactedAgrees
<1>1. IInv => CompactedAgrees
    BY DEF IInv, Undamaged, CompactedAgrees
<1> QED
    BY <1>1, Invariance, PTL

-----------------------------------------------------------------------------
(* The database implements the cache. *)

\* What get() returns, now or after a start.
Held(k) == IF running THEN Gotten(k) ELSE Found(k)

\* What get() returns is a value, or none; and the value last put, until a
\* record is lost.
LEMMA HeldType == TypeOK => \A k \in Keys : Held(k) \in Values \cup {0}
<1> SUFFICES ASSUME TypeOK, NEW k \in Keys PROVE Held(k) \in Values \cup {0}
    OBVIOUS
<1> DEFINE place == Replayed(OpenedLog.records, k)
<1>1. map[k] \in Places \cup {0}
    BY DEF TypeOK
<1>2. place = Reading(OpenedLog)[k] /\ Reading(OpenedLog) \in Readings
    BY OpenedIsKnown DEF Reading, Readings
<1>3. place \in Places \cup {0}
    BY <1>2, ReadingsType
<1>4. \A p \in Places : files[p] \in Values \cup {0}
    BY DEF TypeOK
<1>5. Found(k) = IF place = 0 THEN 0 ELSE files[place]
    BY DEF Found
<1> HIDE DEF place
<1>6. Found(k) \in Values \cup {0}
    BY <1>3, <1>4, <1>5
<1>7. Gotten(k) \in Values \cup {0}
    BY <1>1, <1>4 DEF Gotten
<1> QED
    BY <1>6, <1>7 DEF Held

LEMMA HeldIsLast == IInv /\ ~misread => \A k \in Keys : Held(k) \in {0, last[k]}
<1> SUFFICES ASSUME IInv, ~misread, NEW k \in Keys
             PROVE  Held(k) \in {0, last[k]}
    OBVIOUS
<1> DEFINE place == Replayed(OpenedLog.records, k)
<1>1. HarmlessPlaces
    BY DEF IInv, Undamaged
<1>2. place = Reading(OpenedLog)[k] /\ Reading(OpenedLog) \in Readings
    BY OpenedIsKnown DEF Reading, Readings
<1>3. place # 0 => files[place] \in {0, last[k]}
    BY <1>1, <1>2 DEF HarmlessPlaces
<1>4. Found(k) = IF place = 0 THEN 0 ELSE files[place]
    BY DEF Found
<1> HIDE DEF place
<1>5. Found(k) \in {0, last[k]}
    BY <1>3, <1>4
<1>6. map[k] # 0 => files[map[k]] \in {0, last[k]}
    BY <1>1 DEF HarmlessPlaces, Readings
<1>7. Gotten(k) \in {0, last[k]}
    BY <1>6 DEF Gotten
<1> QED
    BY <1>5, <1>7 DEF Held

\* At the start there are no values.
LEMMA InitImplements ==
    ASSUME Init
    PROVE  Cache!Init
<1>1. \A k \in Keys : Gotten(k) = 0 /\ running
    BY DEF Init, Gotten
<1>2. [k \in Keys |-> IF running THEN Gotten(k) ELSE Found(k)] = [k \in Keys |-> 0]
    BY <1>1
<1> QED
    BY <1>2 DEF Init, Cache!Init

\* Every step of the database is one of the cache, or is not seen.
LEMMA StepImplements ==
    ASSUME IInv, [Next]_vars
    PROVE  [Cache!Next]_<<last, [k \in Keys |-> Held(k)], misread>>
<1> DEFINE store == [k \in Keys |-> Held(k)]
<1>1. IInv' /\ Promised
    BY StepKeeps
<1>2. misread \in BOOLEAN /\ misread' \in BOOLEAN /\ TypeOK'
    BY <1>1 DEF IInv, TypeOK
<1>3. CASE misread'
  <2>1. last' \in [Keys -> Values \cup {0}]
    BY <1>2 DEF TypeOK
  <2>2. (\A k \in Keys : Held(k) \in Values \cup {0})'
    BY <1>2, HeldType, PTL
  <2>3. store' \in [Keys -> Values \cup {0}]
    BY <2>2
  <2>4. Cache!Damage
    BY <1>2, <1>3, <2>1, <2>3 DEF Cache!Damage, Held
  <2> QED
    BY <2>4 DEF Cache!Next
<1>4. CASE ~misread' /\ UNCHANGED <<last, misread>>
  <2>1. (\A k \in Keys : Held(k) \in {0, last[k]})'
    BY <1>1, <1>4, HeldIsLast, PTL
  <2>2. \A k \in Keys : store'[k] \in {0, last[k]}
    BY <1>4, <2>1
  <2>3. DOMAIN store' = Keys
    OBVIOUS
  <2>4. Cache!Change
    BY <1>4, <2>2, <2>3 DEF Cache!Change, Held
  <2> QED
    BY <1>4, <2>4 DEF Cache!Next
<1>5. ASSUME ~misread', NEW k \in Keys, NEW v \in Values \cup {0}, Becomes(k, v)
      PROVE  Cache!Next
  <2>1. running /\ running' /\ ~misread /\ misread' = misread
    BY <1>5 DEF Becomes
  <2>2. last' = [last EXCEPT ![k] = v]
    BY <1>5 DEF Becomes
  <2>3. \A j \in Keys : Held(j)' = IF j = k THEN v ELSE Held(j)
    BY <1>5, <2>1 DEF Becomes, Held
  <2>4. store' = [store EXCEPT ![k] = v]
    BY <2>3
  <2>5. CASE v = 0
    <3>1. Cache!Remove(k)
      BY <2>2, <2>4, <2>5 DEF Cache!Remove, Held
    <3> QED
      BY <2>1, <3>1 DEF Cache!Next
  <2>6. CASE v # 0
    <3>1. v \in Values /\ Cache!Put(k, v)
      BY <2>2, <2>4, <2>6 DEF Cache!Put, Held
    <3> QED
      BY <2>1, <3>1 DEF Cache!Next
  <2> QED
    BY <2>5, <2>6
<1> QED
    BY <1>1, <1>2, <1>3, <1>4, <1>5 DEF Promised

\* get() never returns anything but the value last put under the key, or none,
\* until a compaction begun over an unfinished record has lost one.
THEOREM CacheIsImplemented == Spec => Implements
<1>1. Init => Cache!Init
    BY InitImplements
<1>2. IInv /\ [Next]_vars
        => [Cache!Next]_<<last, [k \in Keys |->
                                   IF running THEN Gotten(k) ELSE Found(k)], misread>>
    BY StepImplements DEF Held
<1> QED
    BY <1>1, <1>2, Invariance, PTL DEF Spec, Implements, Cache!Spec

=============================================================================
