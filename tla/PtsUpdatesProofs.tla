--------------------------- MODULE PtsUpdatesProofs ---------------------------
(***************************************************************************)
(* Proofs about PtsUpdates.  What makes a waiter's `good' pts true is that *)
(* _last = _count only when nothing is missing between: the updates seen   *)
(* since `good' take disjoint intervals of pts, which lie between `good'   *)
(* and `last', and have count - good members together.  When that is all   *)
(* of last - good, every update in between is among those seen.            *)
(***************************************************************************)
EXTENDS PtsUpdates, FiniteSets, FiniteSetTheorems, TLAPS

\* The values of pts that the k-th update moves the box over.
Steps(k) == Pts[k - 1] + 1 .. Pts[k]
Covered(S) == UNION { Steps(k) : k \in S }

-----------------------------------------------------------------------------
(* The inductive invariant. *)

\* Every update is sent once, after it was made.
SentOnce ==
    \A m \in sent : m[1] <= issued
                    /\ \A n \in sent : m[1] = n[1] => m = n

\* A request under way is for what is missing behind `good'.
RequestFits ==
    /\ requesting <=> request # NoRequest \/ afterFail \/ tooLong
    /\ tooLong => request = NoRequest /\ ~afterFail
    /\ afterFail => request = NoRequest
    /\ afterFail => Inited
    /\ request.kind = "state" => ~Inited
    /\ request.kind = "difference" => Inited /\ request.pts = good
    /\ request.kind = "answer" =>
         /\ request.upto <= issued
         /\ Inited => request.pts = good

\* The waiter is in a gap, or has everything up to `last'.
Positions ==
    /\ good = 0 => last = 0 /\ count = 0 /\ base = 0 /\ queue = {}
    /\ Inited => \E j \in 0 .. issued : good = Pts[j]
    /\ Inited => \E j \in 0 .. issued : last = Pts[j]
    /\ last = count => good = last
    /\ good <= last

\* S is what the waiter has counted since `good'.
Seen(S) ==
    /\ \A k \in S : /\ good < Pts[k] /\ Pts[k] <= last
                    /\ k <= issued
                    /\ k \in applied \/ k \in queue
                    /\ \A m \in sent : m[1] # k
    /\ count = good + Cardinality(Covered(S))

CountIsSeen ==
    Inited /\ ~requesting => \E S \in SUBSET Updates : Seen(S)

Pursued ==
    /\ queue # {} => Gap /\ ~requesting /\ waitingForSkipped /\ byPts
    /\ Gap /\ ~flushed /\ ~requesting => waitingForSkipped /\ byPts

IInv ==
    /\ TypeOK /\ SentOnce /\ RequestFits /\ Positions /\ NothingSkipped
    /\ CountIsSeen /\ Pursued

-----------------------------------------------------------------------------
(* Facts about pts. *)

\* The steps of updates behind Pts[j] and up to l are numbers in between.
LEMMA CoveredBetween ==
    ASSUME NEW j \in 0 .. LastUpdate, NEW l \in Nat,
           NEW S \in SUBSET Updates,
           \A k \in S : Pts[j] < Pts[k] /\ Pts[k] <= l
    PROVE  /\ Covered(S) \subseteq Pts[j] + 1 .. l
           /\ IsFiniteSet(Covered(S))
           /\ Cardinality(Covered(S)) \in Nat
<1>1. ASSUME NEW k \in S, NEW n \in Steps(k)
      PROVE  n \in Pts[j] + 1 .. l
  <2>1. k \in 0 .. LastUpdate /\ k - 1 \in 0 .. LastUpdate /\ k \in Int
    BY PtsAssumption DEF Updates
  <2>2. Pts[j] \in Nat /\ Pts[k] \in Nat /\ Pts[k - 1] \in Nat
    BY <2>1, PtsAssumption
  <2>3. j <= k - 1
    BY <2>1, <2>2, PtsAssumption
  <2>4. Pts[j] <= Pts[k - 1]
    BY <2>1, <2>3, PtsAssumption
  <2> QED
    BY <1>1, <2>2, <2>4 DEF Steps
<1>2. Covered(S) \subseteq Pts[j] + 1 .. l
  BY <1>1 DEF Covered
<1>3. IsFiniteSet(Pts[j] + 1 .. l)
  BY PtsAssumption, FS_Interval
<1>4. IsFiniteSet(Covered(S))
  BY <1>2, <1>3, FS_Subset
<1> QED
  BY <1>2, <1>4, FS_CardinalityType

\* One more update adds its count to what is covered.
LEMMA CoveredAdds ==
    ASSUME NEW S \in SUBSET Updates, IsFiniteSet(Covered(S)),
           NEW k \in Updates, k \notin S
    PROVE  Cardinality(Covered(S \cup {k}))
             = Cardinality(Covered(S)) + PtsCount(k)
<1>1. Covered(S \cup {k}) = Covered(S) \cup Steps(k)
  BY DEF Covered
<1>2. k \in 0 .. LastUpdate /\ k - 1 \in 0 .. LastUpdate /\ k \in Int
  BY PtsAssumption DEF Updates
<1>3. Pts[k] \in Nat /\ Pts[k - 1] \in Nat /\ Pts[k - 1] <= Pts[k]
  BY <1>2, PtsAssumption
<1>4. IsFiniteSet(Steps(k)) /\ Cardinality(Steps(k)) = PtsCount(k)
  <2>1. /\ IsFiniteSet(Pts[k - 1] + 1 .. Pts[k])
        /\ Cardinality(Pts[k - 1] + 1 .. Pts[k])
             = IF Pts[k - 1] + 1 > Pts[k] THEN 0
               ELSE Pts[k] - (Pts[k - 1] + 1) + 1
    <3>1. Pts[k - 1] + 1 \in Int /\ Pts[k] \in Int
      BY <1>3
    <3> QED
      BY <3>1, FS_Interval
  <2> QED
    BY <1>3, <2>1 DEF Steps, PtsCount
<1>5. Covered(S) \cap Steps(k) = {}
  <2> SUFFICES ASSUME NEW i \in S, NEW n \in Steps(i), n \in Steps(k)
               PROVE  FALSE
    BY DEF Covered
  <2>1. i \in 0 .. LastUpdate /\ i - 1 \in 0 .. LastUpdate /\ i \in Int
        /\ i # k
    BY PtsAssumption DEF Updates
  <2>2. Pts[i] \in Nat /\ Pts[i - 1] \in Nat
    BY <2>1, PtsAssumption
  <2>3. i <= k - 1 \/ k <= i - 1
    BY <1>2, <2>1
  <2>4. Pts[i] <= Pts[k - 1] \/ Pts[k] <= Pts[i - 1]
    BY <1>2, <2>1, <2>3, PtsAssumption
  <2> QED
    BY <1>3, <2>2, <2>4 DEF Steps
<1>6. Cardinality({}) = 0
  BY FS_EmptySet
<1>7. Cardinality(Covered(S)) \in Nat /\ Cardinality(Steps(k)) \in Nat
  BY <1>4, FS_CardinalityType
<1>8. Cardinality(Covered(S) \cup Steps(k))
        = Cardinality(Covered(S)) + Cardinality(Steps(k)) - Cardinality({})
  BY <1>4, <1>5, FS_Union
<1>9. Cardinality(Covered(S)) + Cardinality(Steps(k)) - 0
        = Cardinality(Covered(S)) + PtsCount(k)
  BY <1>4, <1>7
<1> QED
  BY <1>1, <1>6, <1>8, <1>9

\* When the updates behind Pts[j] and up to l cover all that lies between, no
\* update with a count is missing among them.
LEMMA NoneMissing ==
    ASSUME NEW j \in 0 .. LastUpdate, NEW l \in Nat,
           NEW S \in SUBSET Updates,
           \A k \in S : Pts[j] < Pts[k] /\ Pts[k] <= l,
           Pts[j] <= l,
           l = Pts[j] + Cardinality(Covered(S)),
           NEW k \in Updates, PtsCount(k) > 0, Pts[j] < Pts[k], Pts[k] <= l
    PROVE  k \in S
<1>1. Pts[j] \in Nat
  BY PtsAssumption
<1>2. Covered(S) \subseteq Pts[j] + 1 .. l /\ Cardinality(Covered(S)) \in Nat
  BY CoveredBetween
<1>3. IsFiniteSet(Pts[j] + 1 .. l)
      /\ Cardinality(Pts[j] + 1 .. l)
           = IF Pts[j] + 1 > l THEN 0 ELSE l - (Pts[j] + 1) + 1
  <2>1. Pts[j] + 1 \in Int /\ l \in Int
    BY <1>1
  <2> QED
    BY <2>1, FS_Interval
<1>4. Cardinality(Pts[j] + 1 .. l) = Cardinality(Covered(S))
  BY <1>1, <1>2, <1>3
<1>5. Covered(S) = Pts[j] + 1 .. l
  BY <1>2, <1>3, <1>4, FS_Subset
<1>6. k \in 0 .. LastUpdate /\ k - 1 \in 0 .. LastUpdate /\ k \in Int
  BY PtsAssumption DEF Updates
<1>7. Pts[k] \in Nat /\ Pts[k - 1] \in Nat /\ Pts[k - 1] < Pts[k]
  BY <1>6, PtsAssumption DEF PtsCount
<1>8. PICK i \in S : Pts[k] \in Steps(i)
  <2>1. Pts[k] \in Pts[j] + 1 .. l
    BY <1>1, <1>7
  <2> QED
    BY <1>5, <2>1 DEF Covered
<1>9. i \in 0 .. LastUpdate /\ i - 1 \in 0 .. LastUpdate /\ i \in Int
  BY PtsAssumption DEF Updates
<1>10. Pts[i] \in Nat /\ Pts[i - 1] \in Nat
  BY <1>9, PtsAssumption
<1>11. Pts[i - 1] < Pts[k] /\ Pts[k] <= Pts[i]
  BY <1>7, <1>8, <1>10 DEF Steps
<1>12. ~(k <= i - 1) /\ ~(i <= k - 1)
  BY <1>6, <1>7, <1>9, <1>10, <1>11, PtsAssumption
<1>13. i = k
  BY <1>6, <1>9, <1>12
<1> QED
  BY <1>13

-----------------------------------------------------------------------------
(* The waiter. *)

\* What check() adds to the updates seen: k when it has a count.
LEMMA CountedSeen ==
    ASSUME IInv, Inited, NEW S \in SUBSET Updates, Seen(S),
           NEW k \in 0 .. issued, NEW cnt,
           \/ cnt = 0
           \/ /\ k \in Updates /\ cnt = PtsCount(k) /\ cnt > 0
              /\ k \notin S /\ good < Pts[k],
           NEW T, T = IF cnt = 0 THEN S ELSE S \cup {k}
    PROVE  /\ T \in SUBSET Updates
           /\ NewLast(Pts[k]) \in Nat /\ last <= NewLast(Pts[k])
           /\ \A i \in T : good < Pts[i] /\ Pts[i] <= NewLast(Pts[k])
           /\ NewCount(Pts[k], cnt) = good + Cardinality(Covered(T))
           /\ NewCount(Pts[k], cnt) \in Nat
           /\ good <= NewLast(Pts[k])
<1>1. /\ good \in Nat /\ last \in Nat /\ count \in Nat /\ good <= last
      /\ issued \in 0 .. LastUpdate /\ k \in 0 .. LastUpdate
      /\ Pts[k] \in Nat
  BY PtsAssumption DEF IInv, TypeOK, Positions
<1>2. NewLast(Pts[k]) \in Nat /\ last <= NewLast(Pts[k])
      /\ Pts[k] <= NewLast(Pts[k])
  BY <1>1 DEF NewLast
<1>3. T \in SUBSET Updates
  BY DEF Updates
<1>4. \A i \in S : /\ good < Pts[i] /\ Pts[i] <= last /\ Pts[i] \in Nat
                   /\ i \in 0 .. LastUpdate
  BY PtsAssumption DEF Seen, Updates
<1>5. \A i \in T : good < Pts[i] /\ Pts[i] <= NewLast(Pts[k])
  BY <1>1, <1>2, <1>4
<1>6. PICK j \in 0 .. LastUpdate : good = Pts[j]
  <2>1. PICK i \in 0 .. issued : good = Pts[i]
    BY DEF IInv, Positions
  <2>2. i \in 0 .. LastUpdate
    BY <1>1, PtsAssumption
  <2> QED
    BY <2>1, <2>2
<1>7. IsFiniteSet(Covered(S)) /\ Cardinality(Covered(S)) \in Nat
  BY <1>1, <1>4, <1>6, CoveredBetween
<1>8. count = good + Cardinality(Covered(S))
  BY DEF Seen
<1>9. NewCount(Pts[k], cnt) = count + cnt
  BY DEF NewCount
<1>10. CASE cnt = 0
  BY <1>1, <1>2, <1>3, <1>5, <1>8, <1>9, <1>10
<1>11. CASE cnt # 0
  <2>1. Cardinality(Covered(T)) = Cardinality(Covered(S)) + PtsCount(k)
    BY <1>7, <1>11, CoveredAdds
  <2>2. k - 1 \in 0 .. LastUpdate
    BY <1>1, <1>11, PtsAssumption DEF Updates
  <2>3. PtsCount(k) \in Int
    BY <1>1, <2>2, PtsAssumption DEF PtsCount
  <2>4. NewCount(Pts[k], cnt) = good + Cardinality(Covered(T))
    BY <1>1, <1>7, <1>8, <1>9, <1>11, <2>1, <2>3
  <2>5. NewCount(Pts[k], cnt) \in Nat
    BY <1>1, <1>9, <1>11, <2>3
  <2> QED
    BY <1>1, <1>2, <1>3, <1>5, <2>4, <2>5
<1> QED
  BY <1>10, <1>11

\* Where nothing was seen nothing is covered.
LEMMA NothingSeen == Cardinality(Covered({})) = 0
<1>1. Covered({}) = {}
  BY DEF Covered
<1> QED
  BY <1>1, FS_EmptySet

\* The steps of updateAndApply().  `k' has come, or only its pts is told.
Comes(k, cnt, new, made) ==
    /\ new \subseteq Updates /\ made \subseteq Updates /\ sent' \subseteq sent
    /\ new = {} \/ made = {}
    /\ \/ cnt = 0
       \/ /\ k \in Updates /\ cnt = PtsCount(k) /\ cnt > 0
          /\ new \cup made = {k}
          /\ \E m \in sent : m[1] = k
          /\ \A m \in sent' : m[1] # k

\* The waiter reaches its _last: the postponed updates are applied.
LEMMA CloseInv ==
    ASSUME IInv, NEW k \in 0 .. issued, NEW cnt, NEW new, NEW made,
           Comes(k, cnt, new, made), ~requesting,
           ~(Pts[k] <= good /\ cnt > 0),
           Closes(Pts[k], cnt), Count(Pts[k], cnt),
           ApplySkippedUpdates(new \cup made,
                               waitingForSkipped /\ (new # {} => queue # {})),
           issued' = issued
    PROVE  /\ good' \in Nat \ {0} /\ last' = good' /\ count' = good'
           /\ base' \in Nat
           /\ \E j \in 0 .. issued' : good' = Pts[j]
           /\ queue' = {}
           /\ applied' \subseteq Updates
           /\ waitingForSkipped' \in BOOLEAN /\ byPts' \in BOOLEAN
           /\ NothingSkipped' /\ Seen({})'
<1>1. /\ good \in Nat /\ last \in Nat /\ count \in Nat /\ good <= last
      /\ issued \in 0 .. LastUpdate /\ k \in 0 .. LastUpdate
      /\ Pts[k] \in Nat \ {0} /\ queue \subseteq Updates
      /\ applied \subseteq Updates /\ base \in Nat
      /\ waitingForSkipped \in BOOLEAN /\ byPts \in BOOLEAN
      /\ waitingForShortPoll \in BOOLEAN
  BY PtsAssumption DEF IInv, TypeOK, Positions
<1>2. queue # {} => waitingForSkipped
  BY DEF IInv, Pursued
<1>3. /\ queue' = {} /\ applied' = applied \cup queue \cup new \cup made
      /\ applied' \subseteq Updates
  BY <1>1, <1>2 DEF ApplySkippedUpdates, Comes
<1>4. waitingForSkipped' \in BOOLEAN /\ byPts' \in BOOLEAN
  BY <1>1 DEF ApplySkippedUpdates, StopWaiting, KeepWaiting
<1>5. /\ last' = NewLast(Pts[k]) /\ count' = last' /\ good' = last'
      /\ base' = IF Inited THEN base ELSE Pts[k]
  BY DEF Count, Closes
<1>6. CASE ~Inited
  <2>1. good' = Pts[k] /\ base' = Pts[k]
    BY <1>5, <1>6 DEF NewLast
  <2>2. NothingSkipped'
    BY <1>1, <2>1, PtsAssumption DEF NothingSkipped, Updates
  <2>3. Seen({})'
    BY <1>1, <1>5, <2>1, NothingSeen DEF Seen
  <2> QED
    BY <1>1, <1>3, <1>4, <1>5, <2>1, <2>2, <2>3
<1>7. CASE Inited
  <2>1. PICK S \in SUBSET Updates : Seen(S)
    BY <1>7 DEF IInv, CountIsSeen
  <2> DEFINE T == IF cnt = 0 THEN S ELSE S \cup {k}
  <2>2. cnt # 0 => /\ k \in Updates /\ cnt = PtsCount(k) /\ cnt > 0
                   /\ k \notin S /\ good < Pts[k]
    BY <1>1, <2>1 DEF Comes, Seen
  <2>3. /\ T \in SUBSET Updates
        /\ NewLast(Pts[k]) \in Nat /\ last <= NewLast(Pts[k])
        /\ \A i \in T : good < Pts[i] /\ Pts[i] <= NewLast(Pts[k])
        /\ NewCount(Pts[k], cnt) = good + Cardinality(Covered(T))
        /\ good <= NewLast(Pts[k])
    BY <1>7, <2>1, <2>2, CountedSeen
  <2>4. last' = good + Cardinality(Covered(T))
    BY <1>5, <2>3 DEF Closes
  <2>5. PICK j \in 0 .. issued : good = Pts[j]
    BY <1>7 DEF IInv, Positions
  <2>6. j \in 0 .. LastUpdate
    BY <1>1, PtsAssumption
  <2>7. T \subseteq applied'
    BY <1>3, <2>1 DEF Comes, Seen
  <2>8. NothingSkipped'
    <3> SUFFICES ASSUME NEW i \in Updates, PtsCount(i) > 0, base' < Pts[i],
                        Pts[i] <= good'
                 PROVE  i \in applied'
      BY DEF NothingSkipped
    <3>1. CASE Pts[i] <= good
      BY <1>3, <1>5, <1>7, <3>1 DEF IInv, NothingSkipped
    <3>2. CASE good < Pts[i]
      BY <1>5, <2>3, <2>4, <2>5, <2>6, <2>7, <3>2, NoneMissing
    <3> QED
      BY <1>1, <3>1, <3>2, PtsAssumption DEF Updates
  <2>9. good' \in Nat \ {0} /\ base' \in Nat
    BY <1>1, <1>5, <1>7, <2>3 DEF Inited
  <2>10. \E i \in 0 .. issued' : good' = Pts[i]
    BY <1>5, <1>7 DEF IInv, Positions, NewLast
  <2>11. Seen({})'
    BY <1>5, <2>9, NothingSeen DEF Seen
  <2> QED
    BY <1>3, <1>4, <1>5, <2>8, <2>9, <2>10, <2>11
<1> QED
  BY <1>6, <1>7

\* The waiter stays in a gap, or gets into one.
LEMMA GapInv ==
    ASSUME IInv, NEW k \in 0 .. issued, NEW cnt, NEW new, NEW made,
           Comes(k, cnt, new, made), ~requesting,
           ~(Pts[k] <= good /\ cnt > 0),
           ~Closes(Pts[k], cnt), Count(Pts[k], cnt),
           issued' = issued,
           applied \cup made \subseteq applied',
           applied' \cup queue' = applied \cup queue \cup new \cup made
    PROVE  /\ Inited /\ good' = good /\ base' = base
           /\ last' \in Nat /\ count' \in Nat /\ last' # count'
           /\ good <= last'
           /\ \E j \in 0 .. issued' : last' = Pts[j]
           /\ \E S \in SUBSET Updates : Seen(S)'
<1>1. /\ good \in Nat /\ last \in Nat /\ count \in Nat /\ good <= last
      /\ issued \in 0 .. LastUpdate /\ k \in 0 .. LastUpdate
      /\ Pts[k] \in Nat \ {0}
  BY PtsAssumption DEF IInv, TypeOK, Positions
<1>2. Inited
  BY DEF Closes, NewLast, NewCount
<1>3. /\ last' = NewLast(Pts[k]) /\ count' = NewCount(Pts[k], cnt)
      /\ good' = good /\ base' = base /\ last' # count'
  BY <1>2 DEF Count, Closes
<1>4. PICK S \in SUBSET Updates : Seen(S)
  BY <1>2 DEF IInv, CountIsSeen
<1> PICK T : T = IF cnt = 0 THEN S ELSE S \cup {k}
  OBVIOUS
<1>5. cnt # 0 => /\ k \in Updates /\ cnt = PtsCount(k) /\ cnt > 0
                 /\ k \notin S /\ good < Pts[k]
  BY <1>1, <1>4 DEF Comes, Seen
<1>6. /\ T \in SUBSET Updates
      /\ NewLast(Pts[k]) \in Nat /\ last <= NewLast(Pts[k])
      /\ \A i \in T : good < Pts[i] /\ Pts[i] <= NewLast(Pts[k])
      /\ NewCount(Pts[k], cnt) = good + Cardinality(Covered(T))
      /\ NewCount(Pts[k], cnt) \in Nat
      /\ good <= NewLast(Pts[k])
  BY <1>2, <1>4, <1>5, CountedSeen
<1>7. \A i \in T : /\ i <= issued'
                   /\ i \in applied' \/ i \in queue'
                   /\ \A m \in sent' : m[1] # i
  BY <1>1, <1>4 DEF Comes, Seen
<1>8. Seen(T)'
  BY <1>3, <1>6, <1>7 DEF Seen
<1>9. \E j \in 0 .. issued' : last' = Pts[j]
  BY <1>2, <1>3 DEF IInv, Positions, NewLast
<1> QED
  BY <1>2, <1>3, <1>6, <1>8, <1>9

\* What updateAndApply() leaves to its callers to keep.
LEMMA UpdateInv ==
    ASSUME IInv, NEW k \in 0 .. issued, NEW cnt, NEW new, NEW made,
           Comes(k, cnt, new, made),
           UpdateAndApply(Pts[k], cnt, new, made),
           UNCHANGED <<isChannel, issued, requesting, waitingForShortPoll,
                       afterFail, active, request, fails, tooLong>>
    PROVE  IInv'
<1> USE DEF Comes
<1>1. TypeOK /\ SentOnce /\ RequestFits /\ Positions /\ NothingSkipped
      /\ CountIsSeen /\ Pursued
  BY DEF IInv
<1>2. /\ isChannel' \in BOOLEAN /\ issued' \in 0 .. LastUpdate
      /\ sent' \subseteq Updates \X Ways
      /\ requesting' \in BOOLEAN /\ waitingForShortPoll' \in BOOLEAN
      /\ afterFail' \in BOOLEAN /\ active' \in BOOLEAN
      /\ request' \in Requests /\ fails' \in 0 .. MaxFails
      /\ tooLong' \in BOOLEAN /\ Pts[k] \in Nat
  BY <1>1, PtsAssumption DEF TypeOK
<1>3. SentOnce'
  BY <1>1 DEF SentOnce
<1>4. CASE requesting
  <2>1. UNCHANGED <<good, last, count, base, flushed>>
    BY <1>4 DEF UpdateAndApply
  <2>2. applied \subseteq applied' /\ applied' \subseteq Updates
    BY <1>1, <1>4 DEF UpdateAndApply, TypeOK, ApplySkippedUpdates
  <2>3. /\ queue' \subseteq queue
        /\ waitingForSkipped' \in BOOLEAN /\ byPts' \in BOOLEAN
    BY <1>1, <1>4 DEF UpdateAndApply, ApplySkippedUpdates, TypeOK,
       StopWaiting, KeepWaiting
  <2>4. queue = {}
    BY <1>1, <1>4 DEF Pursued
  <2>5. TypeOK'
    BY <1>1, <1>2, <2>1, <2>2, <2>3, <2>4 DEF TypeOK
  <2>6. RequestFits' /\ Positions'
    BY <1>1, <2>1, <2>3, <2>4 DEF RequestFits, Positions, Inited
  <2>7. NothingSkipped'
    BY <1>1, <2>1, <2>2 DEF NothingSkipped
  <2>8. CountIsSeen' /\ Pursued'
    BY <1>4, <2>3, <2>4 DEF CountIsSeen, Pursued
  <2> QED
    BY <1>3, <2>5, <2>6, <2>7, <2>8 DEF IInv
<1>5. CASE ~requesting /\ Pts[k] <= good /\ cnt > 0
  <2>1. UNCHANGED <<good, last, count, base, queue, flushed,
                    waitingForSkipped, byPts>>
    BY <1>1, <1>2, <1>5 DEF UpdateAndApply, KeepWaiting, TypeOK
  <2>2. applied \subseteq applied' /\ applied' \subseteq Updates
    BY <1>1, <1>5 DEF UpdateAndApply, TypeOK
  <2>3. TypeOK'
    BY <1>1, <1>2, <2>1, <2>2 DEF TypeOK
  <2>4. RequestFits' /\ Positions'
    BY <1>1, <2>1 DEF RequestFits, Positions, Inited
  <2>5. NothingSkipped'
    BY <1>1, <2>1, <2>2 DEF NothingSkipped
  <2>6. ASSUME NEW S \in SUBSET Updates, Seen(S) PROVE Seen(S)'
    BY <2>1, <2>2, <2>6 DEF Seen
  <2>7. CountIsSeen'
    BY <1>1, <2>1, <2>6 DEF CountIsSeen, Inited
  <2>8. Pursued'
    BY <1>1, <2>1 DEF Pursued, Gap
  <2> QED
    BY <1>3, <2>3, <2>4, <2>5, <2>7, <2>8 DEF IInv
<1>6. CASE ~requesting /\ ~(Pts[k] <= good /\ cnt > 0) /\ Closes(Pts[k], cnt)
  <2>1. /\ Count(Pts[k], cnt) /\ flushed' = FALSE
        /\ ApplySkippedUpdates(new \cup made,
                waitingForSkipped /\ (new # {} => queue # {}))
    BY <1>6 DEF UpdateAndApply
  <2>2. /\ good' \in Nat \ {0} /\ last' = good' /\ count' = good'
        /\ base' \in Nat
        /\ \E j \in 0 .. issued' : good' = Pts[j]
        /\ queue' = {}
        /\ applied' \subseteq Updates
        /\ waitingForSkipped' \in BOOLEAN /\ byPts' \in BOOLEAN
        /\ NothingSkipped' /\ Seen({})'
    BY <1>6, <2>1, CloseInv
  <2>3. TypeOK'
    BY <1>2, <2>1, <2>2 DEF TypeOK
  <2>4. RequestFits'
    BY <1>1, <1>6, <2>2 DEF RequestFits, Inited, NoRequest
  <2>5. Positions' /\ CountIsSeen' /\ Pursued'
    BY <2>2 DEF Positions, CountIsSeen, Pursued, Gap
  <2> QED
    BY <1>3, <2>2, <2>3, <2>4, <2>5 DEF IInv
<1>7. CASE ~requesting /\ ~(Pts[k] <= good /\ cnt > 0) /\ ~Closes(Pts[k], cnt)
  <2>1. Count(Pts[k], cnt)
    BY <1>7 DEF UpdateAndApply
  <2>2. /\ applied \cup made \subseteq applied'
        /\ applied' \cup queue' = applied \cup queue \cup new \cup made
        /\ waitingForSkipped' \in BOOLEAN /\ byPts' \in BOOLEAN
        /\ flushed' \in BOOLEAN
        /\ queue' # {} \/ ~flushed' => waitingForSkipped' /\ byPts'
    BY <1>1, <1>7 DEF UpdateAndApply, StartWaiting, TypeOK
  <2>3. /\ Inited /\ good' = good /\ base' = base
        /\ last' \in Nat /\ count' \in Nat /\ last' # count'
        /\ good <= last'
        /\ \E j \in 0 .. issued' : last' = Pts[j]
        /\ \E S \in SUBSET Updates : Seen(S)'
    BY <1>7, <2>1, <2>2, GapInv
  <2>4. applied' \subseteq Updates /\ queue' \subseteq Updates
    BY <1>1, <2>2 DEF TypeOK
  <2>5. TypeOK'
    BY <1>1, <1>2, <2>2, <2>3, <2>4 DEF TypeOK
  <2>6. RequestFits' /\ Positions'
    BY <1>1, <2>3 DEF RequestFits, Positions, Inited
  <2>7. NothingSkipped'
    BY <1>1, <2>2, <2>3 DEF NothingSkipped
  <2>8. CountIsSeen' /\ Pursued'
    BY <1>7, <2>2, <2>3 DEF CountIsSeen, Pursued, Gap
  <2> QED
    BY <1>3, <2>5, <2>6, <2>7, <2>8 DEF IInv
<1> QED
  BY <1>4, <1>5, <1>6, <1>7

-----------------------------------------------------------------------------
(* The server, the requests and the timers. *)

\* Steps that leave the waiter and the updates on their way alone.
LEMMA WaiterKept ==
    ASSUME IInv, sent' \subseteq sent,
           UNCHANGED <<issued, good, last, count, queue, requesting, applied,
                       base, flushed>>
    PROVE  SentOnce' /\ Positions' /\ NothingSkipped' /\ CountIsSeen'
<1>1. SentOnce' /\ Positions' /\ NothingSkipped'
  BY DEF IInv, SentOnce, Positions, NothingSkipped, Inited
<1>2. ASSUME NEW S \in SUBSET Updates, Seen(S) PROVE Seen(S)'
  BY <1>2 DEF Seen
<1>3. CountIsSeen'
  BY <1>2 DEF IInv, CountIsSeen, Inited
<1> QED
  BY <1>1, <1>3

LEMMA IssueInv ==
    ASSUME IInv, NEW ways \in {{}} \cup { {way} : way \in Ways }, Issue(ways)
    PROVE  IInv'
<1>1. /\ issued \in 0 .. LastUpdate /\ issued < LastUpdate
      /\ issued' = issued + 1 /\ issued' \in 0 .. LastUpdate
      /\ issued' \in Updates
      /\ sent' = sent \cup ({issued + 1} \X ways)
      /\ sent \subseteq Updates \X Ways
  BY PtsAssumption DEF IInv, TypeOK, Issue, Updates
<1>2. \A m \in sent' : m \in sent \/ (m[1] = issued' /\ m[2] \in ways)
  BY <1>1
<1>3. TypeOK'
  BY <1>1 DEF IInv, TypeOK, Issue
<1>4. SentOnce'
  <2> SUFFICES ASSUME NEW m \in sent', NEW n \in sent'
               PROVE  m[1] <= issued' /\ (m[1] = n[1] => m = n)
    BY DEF SentOnce
  <2>1. m[1] <= issued'
    BY <1>1, <1>2 DEF IInv, SentOnce, Updates
  <2>2. ASSUME m[1] = n[1] PROVE m = n
    <3>1. CASE m \in sent /\ n \in sent
      BY <2>2, <3>1 DEF IInv, SentOnce
    <3>2. CASE m \notin sent /\ n \notin sent
      <4>1. m \in {issued + 1} \X ways /\ n \in {issued + 1} \X ways
        BY <1>1, <3>2
      <4>2. m[2] = n[2]
        BY <4>1
      <4> QED
        BY <2>2, <4>1, <4>2
    <3>3. \A p \in sent : p[1] <= issued /\ p[1] \in Int
      BY <1>1 DEF IInv, SentOnce, Updates
    <3> QED
      BY <1>1, <1>2, <2>2, <3>1, <3>2, <3>3
  <2> QED
    BY <2>1, <2>2
<1>5. RequestFits' /\ Positions' /\ NothingSkipped' /\ Pursued'
  <2>1. RequestFits'
    <3>1. request.kind = "answer" => request.upto \in Nat
      BY DEF IInv, TypeOK, Requests, NoRequest
    <3> QED
      BY <1>1, <3>1 DEF IInv, RequestFits, Issue, Inited
  <2>2. Positions'
    BY <1>1 DEF IInv, Positions, Issue, Inited
  <2>3. NothingSkipped' /\ Pursued'
    BY DEF IInv, NothingSkipped, Pursued, Issue, Gap
  <2> QED
    BY <2>1, <2>2, <2>3
<1>6. ASSUME NEW S \in SUBSET Updates, Seen(S) PROVE Seen(S)'
  <2>1. \A k \in S : k <= issued' /\ \A m \in sent' : m[1] # k
    BY <1>1, <1>2, <1>6 DEF Seen, Updates
  <2>2. UNCHANGED <<good, last, count, queue, applied>>
    BY DEF Issue
  <2> QED
    BY <1>6, <2>1, <2>2 DEF Seen
<1>7. CountIsSeen'
  BY <1>6 DEF IInv, CountIsSeen, Issue, Inited
<1> QED
  BY <1>3, <1>4, <1>5, <1>7 DEF IInv

LEMMA AnswerInv ==
    ASSUME IInv, NEW upto \in 0 .. issued, AnswerRequest(upto) PROVE IInv'
<1>1. /\ issued \in 0 .. LastUpdate /\ upto \in Nat /\ upto <= issued
      /\ Pts[issued] \in Nat /\ request \in Requests
      /\ request.kind \in {"state", "difference"} /\ request.pts \in Nat
  BY PtsAssumption
     DEF IInv, TypeOK, AnswerRequest, Requests, NoRequest
<1>2. PICK pts \in Nat : /\ request' = Answered(pts, upto, upto = issued)
                         /\ request.kind = "difference" => pts = request.pts
  BY <1>1 DEF AnswerRequest
<1>3. /\ request' \in Requests /\ request' # NoRequest
      /\ request'.kind = "answer" /\ request'.pts = pts
      /\ request'.upto = upto
  BY <1>1, <1>2 DEF Answered, Requests, NoRequest
<1>4. request # NoRequest
  BY <1>1 DEF NoRequest
<1>5. TypeOK'
  BY <1>3 DEF IInv, TypeOK, AnswerRequest
<1>6. RequestFits'
  BY <1>1, <1>2, <1>3, <1>4 DEF IInv, RequestFits, AnswerRequest, Inited
<1>7. Pursued'
  BY DEF IInv, Pursued, AnswerRequest, Gap
<1>8. SentOnce' /\ Positions' /\ NothingSkipped' /\ CountIsSeen'
  BY WaiterKept DEF AnswerRequest
<1> QED
  BY <1>5, <1>6, <1>7, <1>8 DEF IInv

\* A difference is asked for from `good', and what was postponed is dropped.
LEMMA AskInv ==
    ASSUME IInv, Inited, AskDifference(good), sent' \subseteq sent,
           queue' = {}, ~afterFail', afterFail' \in BOOLEAN,
           byPts' \in BOOLEAN, ~tooLong,
           UNCHANGED <<isChannel, issued, good, last, count,
                       waitingForSkipped, waitingForShortPoll, active,
                       applied, base, fails, flushed, tooLong>>
    PROVE  IInv'
<1>1. good \in Nat
  BY DEF IInv, TypeOK
<1>2. /\ request' \in Requests /\ request' # NoRequest
      /\ request'.kind = "difference" /\ request'.pts = good
  BY <1>1 DEF AskDifference, Asked, Requests, NoRequest
<1>3. requesting' = TRUE
  BY DEF AskDifference
<1>4. TypeOK'
  BY <1>2, <1>3 DEF IInv, TypeOK
<1>5. RequestFits'
  BY <1>2, <1>3 DEF RequestFits, Inited
<1>6. SentOnce' /\ Positions' /\ NothingSkipped'
  BY DEF IInv, SentOnce, Positions, NothingSkipped, Inited
<1>7. CountIsSeen' /\ Pursued'
  BY <1>3 DEF CountIsSeen, Pursued
<1> QED
  BY <1>4, <1>5, <1>6, <1>7 DEF IInv

\* A request is refused while one is under way, or before pts is known.
LEMMA GetDifferenceInv ==
    ASSUME IInv, GetDifference, sent' \subseteq sent PROVE IInv'
<1>1. CASE ~requesting /\ Inited
  <2>1. ~tooLong
    BY <1>1 DEF IInv, RequestFits
  <2> QED
    BY <1>1, <2>1, AskInv DEF GetDifference
<1>2. CASE requesting \/ ~Inited
  <2>1. /\ UNCHANGED <<isChannel, issued, good, last, count, queue, requesting,
                       request, waitingForSkipped, waitingForShortPoll,
                       afterFail, active, applied, base, fails, flushed,
                       tooLong>>
        /\ byPts' = FALSE
    BY <1>2 DEF GetDifference
  <2>2. SentOnce' /\ Positions' /\ NothingSkipped' /\ CountIsSeen'
    BY <2>1, WaiterKept
  <2>3. TypeOK'
    BY <2>1 DEF IInv, TypeOK
  <2>4. RequestFits'
    BY <2>1 DEF IInv, RequestFits, Inited
  <2>5. ~Gap \/ requesting
    BY <1>2 DEF IInv, Positions, TypeOK, Inited, Gap
  <2>6. Pursued'
    BY <2>1, <2>5 DEF IInv, Pursued, Gap
  <2> QED
    BY <2>2, <2>3, <2>4, <2>6 DEF IInv
<1> QED
  BY <1>1, <1>2 DEF IInv, TypeOK

\* The difference holds all that lies between `good' and its pts.
LEMMA DifferenceDoneInv ==
    ASSUME IInv, DifferenceDone PROVE IInv'
<1> PICK u : u = request.upto
  OBVIOUS
<1>1. /\ request.kind = "answer" /\ request # NoRequest /\ requesting
      /\ u \in 0 .. issued /\ request.pts \in Nat /\ request.final \in BOOLEAN
  <2>1. request.kind = "answer" /\ request # NoRequest
    BY DEF DifferenceDone, NoRequest
  <2>2. u \in Nat /\ request.pts \in Nat /\ request.final \in BOOLEAN
    BY <2>1 DEF IInv, TypeOK, Requests, NoRequest
  <2>3. issued \in Nat /\ u <= issued /\ requesting
    BY <2>1, PtsAssumption DEF IInv, TypeOK, RequestFits
  <2> QED
    BY <2>1, <2>2, <2>3
<1>2. issued \in 0 .. LastUpdate /\ u \in 0 .. LastUpdate
      /\ Pts[u] \in Nat \ {0}
  BY <1>1, PtsAssumption DEF IInv, TypeOK
<1>3. /\ good' = Pts[u] /\ last' = Pts[u] /\ count' = Pts[u] /\ queue' = {}
      /\ base' = IF Inited THEN base ELSE Pts[u]
      /\ flushed' = FALSE
  BY DEF DifferenceDone, InitWaiter
<1>4. applied' = applied \cup { k \in 1 .. u : Pts[k] > request.pts }
  BY DEF DifferenceDone
<1>5. /\ requesting' \in BOOLEAN /\ request' \in Requests
      /\ requesting' <=> request' # NoRequest
      /\ request'.kind \in {"none", "difference"}
      /\ request'.kind = "difference" => request'.pts = Pts[u]
  <2>1. CASE request.final
    <3>1. requesting' = FALSE /\ request' = NoRequest
      BY <2>1 DEF DifferenceDone
    <3>2. NoRequest \in Requests /\ NoRequest.kind = "none"
      BY DEF NoRequest, Requests
    <3> QED
      BY <3>1, <3>2
  <2>2. CASE ~request.final
    BY <1>2, <2>2 DEF DifferenceDone, AskDifference, Asked, NoRequest, Requests
  <2> QED
    BY <2>1, <2>2
<1>6. afterFail' = FALSE /\ ~tooLong /\ tooLong' = FALSE
  BY <1>1 DEF DifferenceDone, IInv, RequestFits, TypeOK
<1>7. UNCHANGED <<isChannel, issued, sent, waitingForSkipped, active, fails>>
      /\ waitingForShortPoll' \in BOOLEAN /\ byPts' \in BOOLEAN
  <2>1. UNCHANGED <<isChannel, issued, sent, waitingForSkipped, active, fails>>
    BY DEF DifferenceDone
  <2>2. active \in BOOLEAN /\ waitingForShortPoll \in BOOLEAN
        /\ byPts \in BOOLEAN /\ waitingForSkipped \in BOOLEAN
    BY DEF IInv, TypeOK
  <2>3. CASE isChannel /\ request.final
    BY <2>2, <2>3 DEF DifferenceDone
  <2>4. CASE ~(isChannel /\ request.final)
    BY <1>1, <2>2, <2>4 DEF DifferenceDone
  <2> QED
    BY <2>1, <2>3, <2>4
<1>8. TypeOK'
  <2>1. { k \in 1 .. u : Pts[k] > request.pts } \subseteq Updates
    BY <1>2, PtsAssumption DEF Updates
  <2>2. applied' \subseteq Updates
    BY <1>4, <2>1 DEF IInv, TypeOK
  <2>3. base' \in Nat
    BY <1>2, <1>3 DEF IInv, TypeOK
  <2> QED
    BY <1>2, <1>3, <1>5, <1>6, <1>7, <2>2, <2>3 DEF IInv, TypeOK
<1>9. SentOnce'
  BY <1>7 DEF IInv, SentOnce
<1>10. RequestFits'
  <2>1. good' > 0
    BY <1>2, <1>3
  <2> QED
    BY <1>3, <1>5, <1>6, <2>1 DEF RequestFits, Inited, NoRequest
<1>11. Positions' /\ Pursued'
  BY <1>1, <1>2, <1>3, <1>7 DEF Positions, Pursued, Gap
<1>12. CountIsSeen'
  <2>1. Seen({})'
    BY <1>2, <1>3, NothingSeen DEF Seen
  <2> QED
    BY <2>1 DEF CountIsSeen
<1>13. NothingSkipped'
  <2> SUFFICES ASSUME NEW k \in Updates, PtsCount(k) > 0, base' < Pts[k],
                      Pts[k] <= good'
               PROVE  k \in applied'
    BY DEF NothingSkipped
  <2>1. k \in 0 .. LastUpdate /\ k - 1 \in 0 .. LastUpdate /\ k \in Int
        /\ k >= 1
    BY PtsAssumption DEF Updates
  <2>2. Pts[k] \in Nat /\ Pts[k - 1] \in Nat /\ Pts[k - 1] < Pts[k]
    BY <2>1, PtsAssumption DEF PtsCount
  <2>3. Inited /\ base' = base /\ request.pts = good /\ good \in Nat
    BY <1>1, <1>2, <1>3, <2>2 DEF IInv, RequestFits, TypeOK
  <2>4. CASE Pts[k] <= good
    BY <1>4, <2>3, <2>4 DEF IInv, NothingSkipped
  <2>5. CASE good < Pts[k]
    <3>1. ~(u <= k - 1)
      BY <1>2, <1>3, <2>1, <2>2, PtsAssumption
    <3>2. k \in 1 .. u
      BY <1>2, <2>1, <3>1
    <3> QED
      BY <1>4, <2>2, <2>3, <2>5, <3>2
  <2> QED
    BY <2>2, <2>3, <2>4, <2>5
<1> QED
  BY <1>8, <1>9, <1>10, <1>11, <1>12, <1>13 DEF IInv

LEMMA DifferenceFailInv ==
    ASSUME IInv, DifferenceFail PROVE IInv'
<1>1. request.kind = "difference" /\ request # NoRequest
      /\ request' = NoRequest /\ afterFail' = TRUE
      /\ request'.kind = "none"
  BY DEF DifferenceFail, NoRequest
<1>2. fails' \in 0 .. MaxFails
  BY FailsAssumption DEF DifferenceFail, IInv, TypeOK
<1>3. request' \in Requests
  BY <1>1 DEF Requests
<1>4. TypeOK'
  BY <1>1, <1>2, <1>3 DEF IInv, TypeOK, DifferenceFail
<1>5. RequestFits'
  BY <1>1 DEF IInv, RequestFits, DifferenceFail, Inited
<1>6. Pursued'
  BY DEF IInv, Pursued, DifferenceFail, Gap
<1>7. SentOnce' /\ Positions' /\ NothingSkipped' /\ CountIsSeen'
  BY WaiterKept DEF DifferenceFail
<1> QED
  BY <1>4, <1>5, <1>6, <1>7 DEF IInv

\* After differenceTooLong the box goes on requesting without a request.
LEMMA DifferenceTooLongInv ==
    ASSUME IInv, DifferenceTooLong PROVE IInv'
<1>1. /\ request.kind = "difference" /\ request # NoRequest
      /\ request' = NoRequest /\ tooLong' = TRUE
      /\ request'.kind = "none" /\ request' \in Requests
      /\ UNCHANGED <<isChannel, issued, sent, good, last, count, queue,
                     requesting, waitingForSkipped, waitingForShortPoll,
                     byPts, afterFail, active, applied, base, fails, flushed>>
  BY DEF DifferenceTooLong, NoRequest, Requests
<1>2. TypeOK'
  BY <1>1 DEF IInv, TypeOK
<1>3. RequestFits'
  BY <1>1 DEF IInv, RequestFits, Inited
<1>4. Pursued'
  BY <1>1 DEF IInv, Pursued, Gap
<1>5. SentOnce' /\ Positions' /\ NothingSkipped' /\ CountIsSeen'
  BY <1>1, WaiterKept
<1> QED
  BY <1>2, <1>3, <1>4, <1>5 DEF IInv

LEMMA ChannelViewInv ==
    ASSUME IInv, ShowChannel \/ HideChannel PROVE IInv'
<1>1. /\ UNCHANGED <<isChannel, issued, sent, good, last, count, queue,
                     requesting, waitingForSkipped, afterFail, request,
                     applied, base, fails, flushed, tooLong>>
      /\ active' \in BOOLEAN /\ waitingForShortPoll' \in BOOLEAN
      /\ byPts' \in BOOLEAN
      /\ byPts /\ waitingForSkipped => byPts'
  BY DEF ShowChannel, HideChannel, IInv, TypeOK
<1>2. TypeOK'
  BY <1>1 DEF IInv, TypeOK
<1>3. RequestFits'
  BY <1>1 DEF IInv, RequestFits, Inited
<1>4. Pursued'
  BY <1>1 DEF IInv, Pursued, Gap
<1>5. SentOnce' /\ Positions' /\ NothingSkipped' /\ CountIsSeen'
  BY <1>1, WaiterKept
<1> QED
  BY <1>2, <1>3, <1>4, <1>5 DEF IInv

LEMMA ReceiveInv ==
    ASSUME IInv, NEW k \in Updates, NEW way \in Ways, Receive(k, way)
    PROVE  IInv'
<1> PICK new, made : new = (IF way = "affected" THEN {} ELSE {k})
                     /\ made = (IF way = "affected" THEN {k} ELSE {})
  OBVIOUS
<1>1. /\ <<k, way>> \in sent /\ sent' = sent \ {<<k, way>>}
      /\ UNCHANGED <<isChannel, issued, requesting, waitingForShortPoll,
                     afterFail, active, request, fails, tooLong>>
  BY DEF Receive
<1>2. CASE requesting /\ (way = "push" \/ (way = "result" /\ isChannel))
  <2>1. UNCHANGED <<good, last, count, queue, applied, base, flushed,
                    waitingForSkipped, byPts>>
    BY <1>2 DEF Receive
  <2>2. TypeOK'
    BY <1>1, <2>1 DEF IInv, TypeOK
  <2>3. RequestFits'
    BY <1>1, <2>1 DEF IInv, RequestFits, Inited
  <2>4. Pursued'
    BY <1>1, <2>1 DEF IInv, Pursued, Gap
  <2>5. SentOnce' /\ Positions' /\ NothingSkipped' /\ CountIsSeen'
    BY <1>1, <2>1, WaiterKept
  <2> QED
    BY <2>2, <2>3, <2>4, <2>5 DEF IInv
<1>3. CASE ~(requesting /\ (way = "push" \/ (way = "result" /\ isChannel)))
  <2>1. UpdateAndApply(Pts[k], PtsCount(k), new, made)
    BY <1>3 DEF Receive
  <2>2. k \in 0 .. issued /\ k - 1 \in 0 .. LastUpdate /\ k \in 0 .. LastUpdate
    BY <1>1, PtsAssumption DEF IInv, SentOnce, TypeOK, Updates
  <2>3. \A m \in sent' : m[1] # k
    BY <1>1 DEF IInv, SentOnce
  <2>4. PtsCount(k) = 0 \/ PtsCount(k) > 0
    <3>1. Pts[k] \in Nat /\ Pts[k - 1] \in Nat /\ Pts[k - 1] <= Pts[k]
      BY <2>2, PtsAssumption DEF Updates
    <3> QED
      BY <3>1 DEF PtsCount
  <2>5. \E m \in sent : m[1] = k
    BY <1>1
  <2>6. Comes(k, PtsCount(k), new, made)
    BY <1>1, <2>3, <2>4, <2>5 DEF Comes
  <2> QED
    BY <1>1, <2>1, <2>2, <2>6, UpdateInv
<1> QED
  BY <1>2, <1>3

LEMMA PtsReceivedInv ==
    ASSUME IInv, NEW k \in 0 .. issued, PtsReceived(k) PROVE IInv'
<1>1. /\ UpdateAndApply(Pts[k], 0, {}, {})
      /\ UNCHANGED <<isChannel, issued, sent, requesting,
                     waitingForShortPoll, afterFail, active, request, fails,
                     tooLong>>
  BY DEF PtsReceived
<1>2. Comes(k, 0, {}, {})
  BY <1>1 DEF Comes
<1> QED
  BY <1>1, <1>2, UpdateInv

-----------------------------------------------------------------------------
(* The theorems. *)

LEMMA InitInv == Init => IInv
<1> SUFFICES ASSUME Init PROVE IInv
  OBVIOUS
<1>1. /\ isChannel => request = NoRequest /\ ~requesting
      /\ ~isChannel => request = Asked("state", 0) /\ requesting
      /\ request.kind \in {"none", "state"}
      /\ request.kind = "state" => request # NoRequest
      /\ request \in Requests
  <2>1. CASE isChannel
    BY <2>1 DEF Init, NoRequest, Requests
  <2>2. CASE ~isChannel
    BY <2>2 DEF Init, Asked, NoRequest, Requests
  <2> QED
    BY <2>1, <2>2
<1>2. TypeOK
  <2>1. issued \in 0 .. LastUpdate /\ fails \in 0 .. MaxFails
    BY PtsAssumption, FailsAssumption DEF Init
  <2>2. isChannel \in BOOLEAN /\ requesting \in BOOLEAN
    BY <1>1 DEF Init
  <2> QED
    BY <1>1, <2>1, <2>2 DEF Init, TypeOK
<1>3. SentOnce /\ Positions /\ Pursued /\ CountIsSeen
  BY DEF Init, SentOnce, Positions, Pursued, CountIsSeen, Inited, Gap
<1>4. RequestFits
  BY <1>1 DEF Init, RequestFits, Inited, Asked, NoRequest
<1>5. NothingSkipped
  <2> SUFFICES ASSUME NEW k \in Updates, Pts[k] <= 0 PROVE FALSE
    BY DEF Init, NothingSkipped
  <2> QED
    BY PtsAssumption DEF Updates
<1> QED
  BY <1>2, <1>3, <1>4, <1>5 DEF IInv

LEMMA StepInv == IInv /\ [Next]_vars => IInv'
<1> SUFFICES ASSUME IInv, [Next]_vars PROVE IInv'
  OBVIOUS
<1>1. ASSUME NEW ways \in {{}} \cup { {way} : way \in Ways }, Issue(ways)
      PROVE  IInv'
  BY <1>1, IssueInv
<1>2. ASSUME NEW k \in Updates, NEW way \in Ways, Receive(k, way)
      PROVE  IInv'
  BY <1>2, ReceiveInv
<1>3. ASSUME NEW k \in Updates, ReceiveUnloaded(k) PROVE IInv'
  <2>1. GetDifference /\ sent' \subseteq sent
    BY <1>3 DEF ReceiveUnloaded
  <2> QED
    BY <2>1, GetDifferenceInv
<1>4. ASSUME NEW k \in 0 .. issued, PtsReceived(k) PROVE IInv'
  BY <1>4, PtsReceivedInv
<1>5. CASE TooLong \/ ByPtsTimer
  <2>1. GetDifference /\ sent' \subseteq sent
    BY <1>5 DEF TooLong, ByPtsTimer
  <2> QED
    BY <2>1, GetDifferenceInv
<1>6. CASE Answers
  BY <1>6, AnswerInv, DifferenceDoneInv DEF Answers
<1>7. CASE DifferenceFail \/ DifferenceTooLong
  BY <1>7, DifferenceFailInv, DifferenceTooLongInv
<1>8. CASE AfterFailTimer
  <2>1. Inited /\ ~tooLong
    BY <1>8 DEF AfterFailTimer, IInv, RequestFits
  <2> QED
    BY <1>8, <2>1, AskInv DEF AfterFailTimer
<1>9. CASE ShowChannel \/ HideChannel
  BY <1>9, ChannelViewInv
<1>10. CASE UNCHANGED vars
  <2>1. SentOnce' /\ Positions' /\ NothingSkipped' /\ CountIsSeen'
    BY <1>10, WaiterKept DEF vars
  <2>2. TypeOK' /\ Pursued' /\ RequestFits'
    BY <1>10 DEF vars, IInv, TypeOK, Pursued, RequestFits, Gap, Inited
  <2> QED
    BY <2>1, <2>2 DEF IInv
<1> QED
  BY <1>1, <1>2, <1>3, <1>4, <1>5, <1>6, <1>7, <1>8, <1>9, <1>10 DEF Next

\* The invariant of every waiter.
THEOREM Invariance == Spec => []IInv
<1> QED
  BY InitInv, StepInv, PTL DEF Spec

\* The waiter's numbers, its queue and the request keep their types; _count
\* never falls below 0.
THEOREM TypeCorrect == Spec => []TypeOK
<1>1. IInv => TypeOK
  BY DEF IInv
<1> QED
  BY <1>1, Invariance, PTL

\* Whatever the server's counts are, and however its updates are lost,
\* overtake each other or fall into a difference: when PtsWaiter moves _good,
\* every update up to it has been applied.
THEOREM GoodIsComplete == Spec => []NothingSkipped
<1>1. IInv => NothingSkipped
  BY DEF IInv
<1> QED
  BY <1>1, Invariance, PTL

\* A postponed update waits in a gap, with the timer of its box running.
THEOREM PostponedPursued == Spec => []PostponedIsPursued
<1>1. IInv => PostponedIsPursued
  BY DEF IInv, Pursued, PostponedIsPursued
<1> QED
  BY <1>1, Invariance, PTL

\* A gap that was not given up is asked for, or its timer runs.
THEOREM GapPursued == Spec => []GapIsPursued
<1>1. IInv => GapIsPursued
  BY DEF IInv, Pursued, GapIsPursued
<1> QED
  BY <1>1, Invariance, PTL

\* The waiter holds updates back only while an answer or a retry is coming, or
\* for ever after updates.differenceTooLong.
THEOREM RequestsCome == Spec => []RequestComes
<1>1. IInv => RequestComes
  BY DEF IInv, RequestFits, RequestComes
<1> QED
  BY <1>1, Invariance, PTL

=============================================================================
