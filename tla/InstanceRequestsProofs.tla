------------------------ MODULE InstanceRequestsProofs ------------------------
(***************************************************************************)
(* Proofs about InstanceRequests.  The maps of the registry are kept       *)
(* together by unregisterRequest(), and what makes that safe is that a     *)
(* request waits only for older requests that are registered themselves:   *)
(* then its loop over toResend never returns early, and every request it   *)
(* takes out of _dependentRequests goes to a session.  From this follows   *)
(* that a registered request is held in one place.                         *)
(***************************************************************************)
EXTENDS InstanceRequests, FiniteSetTheorems, TLAPS

-----------------------------------------------------------------------------
(* The inductive invariant. *)

\* An id that was not given out is nowhere, and so are the ids after it.
FreeIds ==
    \A r \in Ids : kind[r] = "free" =>
        /\ r \notin requestMap
        /\ inSession[r] = 0 /\ dependent[r] = 0 /\ authExport[r] = 0
        /\ r \notin batch /\ r \notin delayed /\ ~Waiting(r)
        /\ \A q \in Ids : r < q => kind[q] = "free"

\* A request is to be processed only after an older one.
AfterOlder == \A r \in Ids : after[r] # 0 => after[r] < r

\* Exports and imports know the data center they work for, and leave nothing
\* in a session when they are over.
AuthTargets ==
    \A r \in Ids :
        /\ kind[r] = "export" /\ r \in requestMap =>
                authExport[r] \in ShiftedDcs
        /\ kind[r] = "import" /\ r \in requestMap =>
                requestsByDc[r] \in ShiftedDcs
        /\ IsAuth(r) /\ r \notin requestMap => inSession[r] = 0

\* A file id was invalid for a caller's request.
BadGuestsAreUsers == \A r \in badGuest : kind[r] = "user"

\* Callers' requests wait for authorization, each for that of one data center.
WaitersOfOneDc ==
    \A dc \in Dcs : \A i \in DOMAIN authWaiters[dc] :
        /\ kind[authWaiters[dc][i]] = "user"
        /\ authWaiters[dc][i] \in requestMap =>
            \A dc2 \in Dcs : \A j \in DOMAIN authWaiters[dc2] :
                authWaiters[dc2][j] = authWaiters[dc][i] => dc2 = dc

\* At most one of five, and at least one of them.
AtMostOne(a, b, c, d, e) ==
    /\ a => ~b /\ ~c /\ ~d /\ ~e
    /\ b => ~c /\ ~d /\ ~e
    /\ c => ~d /\ ~e
    /\ d => ~e
AtLeastOne(a, b, c, d, e) == a \/ b \/ c \/ d \/ e

\* HeldOnce, without the counting.
Held ==
    \A r \in requestMap :
        /\ AtMostOne(inSession[r] # 0, r \in batch, r \in delayed,
                     dependent[r] # 0, Waiting(r))
        /\ r \notin abandoned =>
             AtLeastOne(inSession[r] # 0, r \in batch, r \in delayed,
                        dependent[r] # 0, Waiting(r))

\* OneAuthPerDc, without the counting.
OneAuth ==
    /\ \A a, b \in requestMap :
         IsAuth(a) /\ IsAuth(b) /\ AuthDc(a) = AuthDc(b) => a = b
    /\ \A a \in requestMap : IsAuth(a) => authWaiters[AuthDc(a)] # <<>>
    /\ \A dc \in Dcs : authWaiters[dc] # <<>> /\ dc \notin broken =>
         \E a \in requestMap : IsAuth(a) /\ AuthDc(a) = dc

IInv ==
    /\ TypeOK /\ RegisteredTogether /\ DependentsWillBeResent
    /\ CancelFindsSession
    /\ FreeIds /\ AfterOlder /\ AuthTargets /\ WaitersOfOneDc
    /\ BadGuestsAreUsers
    /\ Held /\ OneAuth

-----------------------------------------------------------------------------
(* Data center ids. *)

\* core_types.h takes apart what ShiftDcId() has put together.
LEMMA ShiftedParts ==
    ASSUME NEW dc \in Dcs, NEW shift \in Shifts
    PROVE  /\ ShiftDcId(dc, shift) \in Nat \ {0}
           /\ ShiftDcId(dc, shift) \in ShiftedDcs
           /\ BareDcId(ShiftDcId(dc, shift)) = dc
           /\ GetDcIdShift(ShiftDcId(dc, shift)) = shift
<1>1. dc \in 1 .. kDcShift - 1 /\ shift \in Nat /\ kDcShift \in Nat \ {0}
  BY DcsAssumption
<1>2. /\ dc + kDcShift * shift \in Nat \ {0}
      /\ (dc + kDcShift * shift) % kDcShift = dc
      /\ (dc + kDcShift * shift) \div kDcShift = shift
  BY <1>1
<1>3. ShiftDcId(dc, shift) \in ShiftedDcs
  BY DEF ShiftedDcs
<1>4. ~(dc + kDcShift * shift < 0)
  BY <1>2
<1> QED
  BY <1>2, <1>3, <1>4 DEF ShiftDcId, BareDcId, GetDcIdShift

\* The data center and the shift of an id, and an id's sign.
LEMMA ShiftedDc ==
    ASSUME NEW d \in ShiftedDcs
    PROVE  /\ d \in Nat \ {0} /\ d \in SignedDcs /\ -d \in SignedDcs
           /\ BareDcId(d) \in Dcs /\ GetDcIdShift(d) \in Shifts
           /\ Abs(d) = d /\ Abs(-d) = d
<1>1. PICK dc \in Dcs, shift \in Shifts : d = ShiftDcId(dc, shift)
  BY DEF ShiftedDcs
<1>2. d \in Nat \ {0}
  BY <1>1, ShiftedParts
<1>3. Abs(d) = d /\ Abs(-d) = d
  BY <1>2 DEF Abs
<1> QED
  BY <1>1, <1>2, <1>3, ShiftedParts DEF SignedDcs

LEMMA SignedDc ==
    ASSUME NEW d \in SignedDcs
    PROVE  d \in Int /\ d # 0 /\ Abs(d) \in ShiftedDcs
           /\ (d > 0 => d \in ShiftedDcs)
<1>1. d \in ShiftedDcs \/ \E e \in ShiftedDcs : d = -e
  BY DEF SignedDcs
<1>2. CASE d \in ShiftedDcs
  BY <1>2, ShiftedDc
<1>3. ASSUME NEW e \in ShiftedDcs, d = -e
      PROVE  d \in Int /\ d # 0 /\ Abs(d) \in ShiftedDcs
             /\ (d > 0 => d \in ShiftedDcs)
  <2>1. e \in Nat \ {0} /\ Abs(-e) = e
    BY ShiftedDc
  <2> QED
    BY <1>3, <2>1
<1> QED
  BY <1>1, <1>2, <1>3

\* A data center's plain id is its own.
LEMMA PlainDc ==
    ASSUME NEW dc \in Dcs PROVE dc \in ShiftedDcs
<1>1. dc = ShiftDcId(dc, 0)
  <2>1. dc \in Int /\ kDcShift * 0 = 0
    BY DcsAssumption
  <2> QED
    BY <2>1 DEF ShiftDcId
<1> QED
  BY <1>1, DcsAssumption, ShiftedParts

\* Where a request goes instead keeps to the known data centers.
LEMMA ChangedTarget ==
    ASSUME NEW d \in SignedDcs, NEW newdc \in Dcs
    PROVE  ChangedDc(d, newdc) \in SignedDcs
<1>1. CASE d < 0
  BY <1>1, PlainDc, ShiftedDc DEF ChangedDc
<1>2. CASE ~(d < 0)
  <2>1. d \in ShiftedDcs
    BY <1>2, SignedDc
  <2>2. ShiftDcId(newdc, GetDcIdShift(d)) \in ShiftedDcs
    BY <2>1, ShiftedDc, ShiftedParts
  <2> QED
    BY <1>2, <2>2, ShiftedDc DEF ChangedDc
<1> QED
  BY <1>1, <1>2

-----------------------------------------------------------------------------
(* unregisterRequest(). *)

\* ToRemove(r) has what waits for one of its members, and nothing else.
LEMMA RemovedTogether ==
    ASSUME dependent \in [Ids -> Ids \cup {0}], NEW r \in Ids
    PROVE  /\ r \in ToRemove(r) /\ ToRemove(r) \subseteq Ids
           /\ \A x \in Ids : dependent[x] \in ToRemove(r) => x \in ToRemove(r)
           /\ \A x \in ToRemove(r) \ {r} : dependent[x] \in ToRemove(r)
<1> DEFINE waits == { x \in Ids : dependent[x] # 0 }
           closed(S) == \A y \in waits : dependent[y] \in S \cup {r} => y \in S
<1>1. ToRemove(r) =
        {r} \cup { x \in waits : \A S \in SUBSET waits : closed(S) => x \in S }
  BY DEF ToRemove
<1>2. r \in ToRemove(r) /\ ToRemove(r) \subseteq Ids
  BY <1>1
<1>3. ASSUME NEW x \in Ids, dependent[x] \in ToRemove(r)
      PROVE  x \in ToRemove(r)
  <2>1. x \in waits
    BY <1>2, <1>3 DEF Ids
  <2>2. ASSUME NEW S \in SUBSET waits, closed(S) PROVE x \in S
    <3>1. dependent[x] \in S \cup {r}
      BY <1>1, <1>3, <2>2
    <3> QED
      BY <2>1, <2>2, <3>1
  <2> QED
    BY <1>1, <2>1, <2>2
<1>4. ASSUME NEW x \in ToRemove(r) \ {r} PROVE dependent[x] \in ToRemove(r)
  <2> DEFINE T == { y \in waits : dependent[y] \in ToRemove(r) }
  <2>1. closed(T)
    <3> SUFFICES ASSUME NEW y \in waits, dependent[y] \in T \cup {r}
                 PROVE  y \in T
      OBVIOUS
    <3>1. dependent[y] \in ToRemove(r)
      BY <1>2, <1>3
    <3> QED
      BY <3>1
  <2>2. x \in T
    <3>1. T \in SUBSET waits
      OBVIOUS
    <3>2. \A S \in SUBSET waits : closed(S) => x \in S
      BY <1>1
    <3> QED
      BY <2>1, <3>1, <3>2
  <2> QED
    BY <2>2
<1> QED
  BY <1>2, <1>3, <1>4

\* What unregisterRequest(r) does to every other request: one that waited in
\* _dependentRequests for it, directly or not, is sent to its dc's session.
LEMMA UnregisterMoves ==
    ASSUME IInv, NEW r \in Ids, NEW stored, NEW byDc, NEW sessions,
           stored \subseteq Ids, requestMap \ {r} \subseteq stored,
           byDc \in [Ids -> SignedDcs \cup {0}],
           \A x \in stored \ {r} : byDc[x] # 0,
           sessions \in [Ids -> SignedDcs \cup {0}],
           Unregister(r, stored, byDc, sessions)
    PROVE  /\ requestMap' = stored \ {r}
           /\ requestsByDc' = [byDc EXCEPT ![r] = 0]
           /\ dependent' \in [Ids -> Ids \cup {0}]
           /\ inSession' \in [Ids -> SignedDcs \cup {0}]
           /\ dependent'[r] = 0 /\ inSession'[r] = sessions[r]
           /\ \A x \in Ids \ {r} :
                \/ /\ dependent'[x] = dependent[x] /\ dependent[x] # r
                   /\ inSession'[x] = sessions[x]
                \/ /\ dependent[x] # 0 /\ dependent'[x] = 0
                   /\ inSession'[x] = Abs(byDc[x]) /\ byDc[x] # 0
                   /\ inSession'[x] # 0
<1> DEFINE left == stored \ {r}
           registered == [byDc EXCEPT ![r] = 0]
           removed == ToRemove(r)
           resent == Resent(ToResend(r), left, registered)
<1>1. /\ requestMap' = left /\ requestsByDc' = registered
      /\ dependent' = [x \in Ids |-> IF x \in removed THEN 0 ELSE dependent[x]]
      /\ inSession' = [x \in Ids |-> IF x \in resent THEN Abs(registered[x])
                                                    ELSE sessions[x]]
  BY DEF Unregister
<1>2. /\ dependent \in [Ids -> Ids \cup {0}]
      /\ \A x \in Ids : dependent[x] # 0 => x \in requestMap
  BY DEF IInv, TypeOK, DependentsWillBeResent
<1>3. /\ r \in removed /\ removed \subseteq Ids
      /\ \A x \in Ids : dependent[x] \in removed => x \in removed
      /\ \A x \in removed \ {r} : dependent[x] \in removed
  BY <1>2, RemovedTogether
<1>4. /\ registered[r] = 0
      /\ \A x \in Ids \ {r} : registered[x] = byDc[x]
      /\ registered \in [Ids -> SignedDcs \cup {0}]
  OBVIOUS
<1>5. ToResend(r) = { x \in Ids : dependent[x] \in removed }
  BY DEF ToResend
<1>6. \A x \in ToResend(r) \ {r} : x \in left /\ registered[x] # 0
  <2> SUFFICES ASSUME NEW x \in ToResend(r) \ {r}
               PROVE  x \in left /\ registered[x] # 0
    OBVIOUS
  <2>1. x \in Ids /\ dependent[x] \in Ids
    BY <1>3, <1>5
  <2>2. dependent[x] # 0
    BY <2>1 DEF Ids
  <2> QED
    BY <1>2, <1>4, <2>1, <2>2
<1>7. resent = ToResend(r) \ {r}
  <2>1. resent = { x \in ToResend(r) :
                    /\ registered[x] # 0
                    /\ \A y \in ToResend(r) :
                         y <= x /\ registered[y] # 0 => y \in left }
    BY DEF Resent
  <2>2. \A y \in ToResend(r) : registered[y] # 0 => y # r
    BY <1>4
  <2> QED
    BY <1>6, <2>1, <2>2
<1>8. \A x \in removed \ {r} : x \in resent /\ dependent[x] # 0
  <2> SUFFICES ASSUME NEW x \in removed \ {r}
               PROVE  x \in resent /\ dependent[x] # 0
    OBVIOUS
  <2>1. x \in Ids /\ dependent[x] \in removed /\ dependent[x] \in Ids
    BY <1>3
  <2>2. dependent[x] # 0
    BY <2>1 DEF Ids
  <2>3. x \in ToResend(r)
    BY <1>5, <2>1
  <2> QED
    BY <1>7, <2>2, <2>3
<1>9. \A x \in resent : x \in removed /\ x # r
  BY <1>3, <1>5, <1>7
<1>10. \A x \in resent : Abs(registered[x]) \in SignedDcs
                          /\ Abs(registered[x]) # 0
  <2> SUFFICES ASSUME NEW x \in resent
               PROVE  Abs(registered[x]) \in SignedDcs /\ Abs(registered[x]) # 0
    OBVIOUS
  <2>1. registered[x] \in SignedDcs
    BY <1>3, <1>4, <1>6, <1>7, <1>9
  <2> QED
    BY <2>1, SignedDc, ShiftedDc
<1>11. dependent' \in [Ids -> Ids \cup {0}]
  BY <1>1, <1>2
<1>12. inSession' \in [Ids -> SignedDcs \cup {0}]
  BY <1>1, <1>10
<1>13. dependent'[r] = 0 /\ inSession'[r] = sessions[r]
  BY <1>1, <1>3, <1>7
<1>14. ASSUME NEW x \in Ids \ {r}
       PROVE  \/ /\ dependent'[x] = dependent[x] /\ dependent[x] # r
                 /\ inSession'[x] = sessions[x]
              \/ /\ dependent[x] # 0 /\ dependent'[x] = 0
                 /\ inSession'[x] = Abs(byDc[x]) /\ byDc[x] # 0
                 /\ inSession'[x] # 0
  <2>1. CASE x \in removed
    BY <1>1, <1>4, <1>6, <1>7, <1>8, <1>10, <2>1
  <2>2. CASE x \notin removed
    BY <1>1, <1>3, <1>9, <2>2
  <2> QED
    BY <2>1, <2>2
<1> QED
  BY <1>1, <1>11, <1>12, <1>13, <1>14

\* What its callers need of unregisterRequest(), which they call with the
\* maps and sessions as they have made them.
LEMMA UnregisterKeeps ==
    ASSUME IInv, NEW r \in Ids, NEW stored, NEW byDc, NEW sessions,
           stored \subseteq Ids, requestMap \ {r} \subseteq stored,
           byDc \in [Ids -> SignedDcs \cup {0}],
           \A x \in Ids \ {r} : x \in stored <=> byDc[x] # 0,
           sessions \in [Ids -> SignedDcs \cup {0}],
           \A x \in stored \ {r} :
                sessions[x] > 0 => sessions[x] = Abs(byDc[x]),
           \A x \in stored \ {r} :
                /\ AtMostOne(sessions[x] # 0, (x \in batch)', (x \in delayed)',
                             dependent[x] # 0, Waiting(x)')
                /\ (x \notin abandoned)' =>
                     AtLeastOne(sessions[x] # 0, (x \in batch)',
                                (x \in delayed)', dependent[x] # 0,
                                Waiting(x)'),
           parserMap' \subseteq stored \ {r},
           Unregister(r, stored, byDc, sessions)
    PROVE  RegisteredTogether' /\ DependentsWillBeResent'
           /\ CancelFindsSession' /\ Held'
<1>1. /\ requestMap' = stored \ {r}
      /\ requestsByDc' = [byDc EXCEPT ![r] = 0]
      /\ dependent'[r] = 0 /\ inSession'[r] = sessions[r]
      /\ \A x \in Ids \ {r} :
           \/ /\ dependent'[x] = dependent[x] /\ dependent[x] # r
              /\ inSession'[x] = sessions[x]
           \/ /\ dependent[x] # 0 /\ dependent'[x] = 0
              /\ inSession'[x] = Abs(byDc[x]) /\ byDc[x] # 0
              /\ inSession'[x] # 0
  BY UnregisterMoves
<1>2. requestsByDc'[r] = 0 /\ \A x \in Ids \ {r} : requestsByDc'[x] = byDc[x]
  BY <1>1
<1>3. RegisteredTogether'
  BY <1>1, <1>2 DEF RegisteredTogether
<1>4. DependentsWillBeResent'
  BY <1>1 DEF IInv, DependentsWillBeResent
<1>5. CancelFindsSession'
  BY <1>1, <1>2 DEF CancelFindsSession
<1>6. Held'
  <2> SUFFICES ASSUME NEW x \in requestMap'
               PROVE  /\ AtMostOne(inSession'[x] # 0, (x \in batch)',
                                   (x \in delayed)', dependent'[x] # 0,
                                   Waiting(x)')
                      /\ (x \notin abandoned)' =>
                           AtLeastOne(inSession'[x] # 0, (x \in batch)',
                                      (x \in delayed)', dependent'[x] # 0,
                                      Waiting(x)')
    BY DEF Held
  <2>1. x \in stored \ {r} /\ x \in Ids \ {r}
    BY <1>1
  <2>2. CASE dependent'[x] = dependent[x] /\ inSession'[x] = sessions[x]
    BY <2>1, <2>2
  <2>3. CASE dependent[x] # 0 /\ dependent'[x] = 0 /\ inSession'[x] # 0
    BY <2>1, <2>3 DEF AtMostOne, AtLeastOne
  <2> QED
    BY <1>1, <2>1, <2>2, <2>3
<1> QED
  BY <1>3, <1>4, <1>5, <1>6

-----------------------------------------------------------------------------
(* Requests that end. *)

\* The data center of an export or import is one of the known.
LEMMA AuthDcKnown ==
    ASSUME IInv, NEW a \in requestMap, IsAuth(a) PROVE AuthDc(a) \in Dcs
<1>1. a \in Ids
  BY DEF IInv, TypeOK
<1> QED
  BY <1>1, ShiftedDc DEF IInv, AuthTargets, AuthDc, IsAuth

\* Request `r' is not with its session any more, or was cancelled there.
EndsIn(r, sessions) ==
    \/ sessions = inSession /\ (r \in requestMap => r \in batch)
    \/ sessions = [inSession EXCEPT ![r] = 0] /\ kind[r] = "user"
    \/ sessions = inSession /\ kind[r] = "user"

\* What its end means for those who wait for authorization: nothing, that none
\* will come, or that they are dropped.
EndsAuth(r) ==
    \/ /\ kind[r] = "user"
       /\ UNCHANGED <<authWaiters, abandoned, broken>>
    \/ /\ kind[r] = "import" /\ r \in requestMap
       /\ UNCHANGED <<authWaiters, abandoned>>
       /\ broken' = broken \cup {AuthDc(r)}
    \/ /\ kind[r] = "export" /\ r \in requestMap
       /\ UNCHANGED broken
       /\ authWaiters' = [authWaiters EXCEPT ![AuthDc(r)] = <<>>]
       /\ abandoned' = abandoned \cup
             { authWaiters[AuthDc(r)][i] : i \in DOMAIN authWaiters[AuthDc(r)] }

\* A request ends: a caller's, an export or an import.
LEMMA EndInv ==
    ASSUME IInv, NEW r \in Ids, NEW stored \in {requestMap, requestMap \ {r}},
           NEW sessions,
           EndsIn(r, sessions), EndsAuth(r),
           Unregister(r, stored, requestsByDc, sessions),
           parserMap' = parserMap \ {r},
           batch' \in {batch, batch \ {r}},
           badGuest' \subseteq badGuest,
           UNCHANGED <<mainDc, kind, after, delayed, authExport, errors>>
    PROVE  IInv'
<1>1. /\ TypeOK /\ RegisteredTogether /\ DependentsWillBeResent
      /\ CancelFindsSession /\ FreeIds /\ AfterOlder /\ AuthTargets
      /\ WaitersOfOneDc /\ BadGuestsAreUsers /\ Held /\ OneAuth
  BY DEF IInv
<1>2. /\ sessions \in [Ids -> SignedDcs \cup {0}]
      /\ \A x \in Ids \ {r} : sessions[x] = inSession[x]
      /\ stored \subseteq Ids /\ stored \ {r} = requestMap \ {r}
      /\ requestsByDc \in [Ids -> SignedDcs \cup {0}]
      /\ requestMap \subseteq Ids
      /\ \A x \in stored \ {r} : x \in requestMap /\ x \in Ids \ {r}
  BY <1>1 DEF TypeOK, EndsIn
<1>3. \A x \in Ids \ {r} : x \in stored <=> requestsByDc[x] # 0
  BY <1>1, <1>2 DEF RegisteredTogether
<1>4. AuthDc(r) \in Dcs \/ kind[r] = "user"
  BY <1>1, AuthDcKnown DEF IsAuth, EndsAuth
<1>5. /\ authWaiters' \in [Dcs -> Seq(Ids)]
      /\ \A dc \in Dcs : authWaiters'[dc] # authWaiters[dc] =>
            /\ kind[r] = "export" /\ r \in requestMap /\ dc = AuthDc(r)
            /\ authWaiters'[dc] = <<>>
            /\ \A i \in DOMAIN authWaiters[dc] :
                    authWaiters[dc][i] \in abandoned'
  <2>1. authWaiters \in [Dcs -> Seq(Ids)] /\ <<>> \in Seq(Ids)
    BY <1>1 DEF TypeOK
  <2>2. CASE authWaiters' = authWaiters
    BY <2>1, <2>2
  <2>3. CASE /\ kind[r] = "export" /\ r \in requestMap
             /\ authWaiters' = [authWaiters EXCEPT ![AuthDc(r)] = <<>>]
             /\ abandoned' = abandoned \cup
                    { authWaiters[AuthDc(r)][i] :
                        i \in DOMAIN authWaiters[AuthDc(r)] }
    BY <1>4, <2>1, <2>3
  <2> QED
    BY <2>2, <2>3 DEF EndsAuth
<1>6. \A x \in Ids : /\ Waiting(x)' => Waiting(x)
                     /\ Waiting(x) /\ x \notin abandoned' => Waiting(x)'
  <2> SUFFICES ASSUME NEW x \in Ids
               PROVE  /\ Waiting(x)' => Waiting(x)
                      /\ Waiting(x) /\ x \notin abandoned' => Waiting(x)'
    OBVIOUS
  <2>1. ASSUME Waiting(x)' PROVE Waiting(x)
    BY <1>5, <2>1 DEF Waiting
  <2>2. ASSUME Waiting(x), x \notin abandoned' PROVE Waiting(x)'
    BY <1>5, <2>2 DEF Waiting
  <2> QED
    BY <2>1, <2>2
<1>7. abandoned \subseteq abandoned' /\ abandoned' \subseteq Ids
  <2>1. abandoned \subseteq Ids /\ authWaiters \in [Dcs -> Seq(Ids)]
    BY <1>1 DEF TypeOK
  <2>2. \A dc \in Dcs : \A i \in DOMAIN authWaiters[dc] :
            authWaiters[dc][i] \in Ids
    BY <2>1
  <2> QED
    BY <1>4, <2>1, <2>2 DEF EndsAuth
<1>8. RegisteredTogether' /\ DependentsWillBeResent' /\ CancelFindsSession'
      /\ Held'
  <2>1. \A x \in stored \ {r} :
            sessions[x] > 0 => sessions[x] = Abs(requestsByDc[x])
    BY <1>1, <1>2 DEF CancelFindsSession
  <2>2. ASSUME NEW x \in stored \ {r}
        PROVE  /\ AtMostOne(sessions[x] # 0, (x \in batch)', (x \in delayed)',
                            dependent[x] # 0, Waiting(x)')
               /\ (x \notin abandoned)' =>
                    AtLeastOne(sessions[x] # 0, (x \in batch)',
                               (x \in delayed)', dependent[x] # 0, Waiting(x)')
    BY <1>1, <1>2, <1>6, <1>7 DEF Held, AtMostOne, AtLeastOne
  <2>3. parserMap' \subseteq stored \ {r}
    BY <1>1, <1>2 DEF RegisteredTogether
  <2>4. requestMap \ {r} \subseteq stored
    BY <1>2
  <2> QED
    BY <1>2, <1>3, <2>1, <2>2, <2>3, <2>4, UnregisterKeeps
<1>9. /\ requestMap' = requestMap \ {r}
      /\ requestsByDc' = [requestsByDc EXCEPT ![r] = 0]
      /\ dependent' \in [Ids -> Ids \cup {0}]
      /\ inSession' \in [Ids -> SignedDcs \cup {0}]
      /\ inSession'[r] = sessions[r] /\ dependent'[r] = 0
      /\ \A x \in Ids \ {r} :
            \/ dependent'[x] = dependent[x] /\ inSession'[x] = inSession[x]
            \/ dependent[x] # 0 /\ dependent'[x] = 0
  <2>1. requestMap \ {r} \subseteq stored
    BY <1>2
  <2>2. \A x \in stored \ {r} : requestsByDc[x] # 0
    BY <1>2, <1>3
  <2> QED
    BY <1>2, <2>1, <2>2, UnregisterMoves
<1>10. TypeOK'
  <2>1. parserMap' \subseteq Ids /\ batch' \subseteq Ids /\ badGuest' \subseteq Ids
    BY <1>1 DEF TypeOK
  <2>2. requestsByDc' \in [Ids -> SignedDcs \cup {0}]
    BY <1>2, <1>9
  <2>3. broken' \subseteq Dcs
    BY <1>1, <1>4 DEF TypeOK, EndsAuth
  <2> QED
    BY <1>1, <1>2, <1>5, <1>7, <1>9, <2>1, <2>2, <2>3 DEF TypeOK
<1>11. FreeIds'
  <2> SUFFICES ASSUME NEW x \in Ids, kind[x] = "free"
               PROVE  /\ x \notin requestMap'
                      /\ inSession'[x] = 0 /\ dependent'[x] = 0
                      /\ authExport'[x] = 0
                      /\ x \notin batch' /\ x \notin delayed' /\ ~Waiting(x)'
                      /\ \A q \in Ids : x < q => kind[q] = "free"
    BY DEF FreeIds
  <2>1. /\ x \notin requestMap
        /\ inSession[x] = 0 /\ dependent[x] = 0 /\ authExport[x] = 0
        /\ x \notin batch /\ x \notin delayed /\ ~Waiting(x)
        /\ \A q \in Ids : x < q => kind[q] = "free"
    BY <1>1 DEF FreeIds
  <2>2. inSession'[x] = 0 /\ dependent'[x] = 0
    <3>1. CASE x = r
      BY <1>9, <2>1, <3>1 DEF EndsIn
    <3>2. CASE x # r
      BY <1>9, <2>1, <3>2
    <3> QED
      BY <3>1, <3>2
  <2> QED
    BY <1>6, <1>9, <2>1, <2>2
<1>12. AfterOlder' /\ BadGuestsAreUsers'
  BY <1>1 DEF AfterOlder, BadGuestsAreUsers
<1>13. AuthTargets'
  <2> SUFFICES ASSUME NEW x \in Ids
               PROVE  /\ kind'[x] = "export" /\ x \in requestMap' =>
                            authExport'[x] \in ShiftedDcs
                      /\ kind'[x] = "import" /\ x \in requestMap' =>
                            requestsByDc'[x] \in ShiftedDcs
                      /\ IsAuth(x)' /\ x \notin requestMap' => inSession'[x] = 0
    BY DEF AuthTargets
  <2>1. CASE x = r
    BY <1>1, <1>9, <2>1 DEF AuthTargets, Held, AtMostOne, IsAuth, EndsIn
  <2>2. CASE x # r
    BY <1>1, <1>2, <1>9, <2>2 DEF AuthTargets, IsAuth, DependentsWillBeResent
  <2> QED
    BY <2>1, <2>2
<1>14. WaitersOfOneDc'
  <2>1. \A dc \in Dcs : authWaiters'[dc] = authWaiters[dc] \/ authWaiters'[dc] = <<>>
    BY <1>5
  <2> QED
    BY <1>1, <1>9, <2>1 DEF WaitersOfOneDc
<1>15. \A a \in requestMap' : /\ a \in requestMap /\ a \in Ids
                              /\ IsAuth(a)' <=> IsAuth(a)
                              /\ AuthDc(a)' = AuthDc(a)
  BY <1>2, <1>9 DEF IsAuth, AuthDc
<1>16. OneAuth'
  <2>1. \A a, b \in requestMap' :
            IsAuth(a)' /\ IsAuth(b)' /\ AuthDc(a)' = AuthDc(b)' => a = b
    BY <1>1, <1>15 DEF OneAuth
  <2>2. ASSUME NEW a \in requestMap', IsAuth(a)'
        PROVE  authWaiters'[AuthDc(a)'] # <<>>
    <3>1. /\ a \in requestMap /\ IsAuth(a) /\ AuthDc(a)' = AuthDc(a) /\ a # r
      BY <1>9, <1>15, <2>2
    <3>2. AuthDc(a) \in Dcs /\ authWaiters[AuthDc(a)] # <<>>
      BY <1>1, <3>1, AuthDcKnown DEF OneAuth
    <3>3. ~(kind[r] = "export" /\ r \in requestMap /\ AuthDc(a) = AuthDc(r))
      BY <1>1, <3>1 DEF OneAuth, IsAuth
    <3> QED
      BY <1>5, <3>1, <3>2, <3>3
  <2>3. ASSUME NEW dc \in Dcs, authWaiters'[dc] # <<>>, dc \notin broken'
        PROVE  \E a \in requestMap' : IsAuth(a)' /\ AuthDc(a)' = dc
    <3>1. authWaiters[dc] # <<>> /\ dc \notin broken
      BY <1>5, <2>3 DEF EndsAuth
    <3>2. PICK a \in requestMap : IsAuth(a) /\ AuthDc(a) = dc
      BY <1>1, <3>1 DEF OneAuth
    <3>3. a # r
      BY <1>4, <1>5, <2>3, <3>2 DEF IsAuth, EndsAuth
    <3> QED
      BY <1>9, <1>15, <3>2, <3>3
  <2> QED
    BY <2>1, <2>2, <2>3 DEF OneAuth
<1> QED
  BY <1>8, <1>10, <1>11, <1>12, <1>13, <1>14, <1>16 DEF IInv

LEMMA CancelInv == ASSUME IInv, NEW r \in Ids, Cancel(r) PROVE IInv'
<1> PICK sessions : sessions = IF inSession[r] = Abs(requestsByDc[r])
                               THEN [inSession EXCEPT ![r] = 0] ELSE inSession
  OBVIOUS
<1>1. /\ kind[r] = "user" /\ parserMap' = parserMap \ {r}
      /\ Unregister(r, requestMap \ {r}, requestsByDc, sessions)
      /\ UNCHANGED <<mainDc, kind, after, delayed, authWaiters, authExport,
                     badGuest, batch, errors, abandoned, broken>>
  BY DEF Cancel
<1>2. EndsIn(r, sessions) /\ EndsAuth(r)
  BY <1>1 DEF EndsIn, EndsAuth
<1>3. requestMap \ {r} \in {requestMap, requestMap \ {r}}
  OBVIOUS
<1> QED
  BY <1>1, <1>2, <1>3, EndInv

LEMMA AnsweredInv ==
    ASSUME IInv, NEW r \in Ids,
           UserAnswered(r) \/ BadGuestAgain(r) \/ ImportFail(r) \/ ExportFail(r)
    PROVE  IInv'
<1>1. /\ r \in batch /\ batch' = batch \ {r} /\ parserMap' = parserMap \ {r}
      /\ Unregister(r, requestMap, requestsByDc, inSession)
      /\ badGuest' \subseteq badGuest
      /\ UNCHANGED <<mainDc, kind, after, delayed, authExport, errors>>
  BY DEF UserAnswered, BadGuestAgain, ImportFail, ExportFail
<1>2. EndsIn(r, inSession)
  BY <1>1 DEF EndsIn
<1>3. parserMap \subseteq requestMap /\ BadGuestsAreUsers
  BY DEF IInv, RegisteredTogether
<1>4. EndsAuth(r)
  <2>1. CASE UserAnswered(r)
    BY <2>1 DEF UserAnswered, EndsAuth
  <2>2. CASE BadGuestAgain(r)
    BY <1>3, <2>2 DEF BadGuestAgain, EndsAuth, BadGuestsAreUsers
  <2>3. CASE ImportFail(r)
    BY <1>3, <2>3 DEF ImportFail, EndsAuth, AuthDc
  <2>4. CASE ExportFail(r)
    BY <1>3, <2>4 DEF ExportFail, EndsAuth, AuthDc
  <2> QED
    BY <2>1, <2>2, <2>3, <2>4
<1> QED
  BY <1>1, <1>2, <1>4, EndInv

-----------------------------------------------------------------------------
(* Requests that go from one holder to another. *)

\* The requests in R are held by another one now, or are answered.
LEMMA MoveInv ==
    ASSUME IInv, NEW R \in SUBSET Ids,
           UNCHANGED <<mainDc, kind, requestMap, parserMap, requestsByDc,
                       authWaiters, authExport, badGuest, abandoned, broken>>,
           /\ dependent' \in [Ids -> Ids \cup {0}]
           /\ inSession' \in [Ids -> SignedDcs \cup {0}]
           /\ after' \in [Ids -> Ids \cup {0}]
           /\ batch' \subseteq Ids /\ delayed' \subseteq Ids
           /\ errors' \in 0 .. MaxErrors,
           \A x \in Ids : after'[x] = after[x] \/ after'[x] = 0,
           \A x \in Ids \ R :
                /\ inSession'[x] = inSession[x] /\ dependent'[x] = dependent[x]
                /\ x \in batch' <=> x \in batch
                /\ x \in delayed' <=> x \in delayed,
           \A x \in R :
                /\ kind[x] # "free"
                /\ x \in requestMap =>
                     /\ AtMostOne(inSession'[x] # 0, x \in batch', x \in delayed',
                                  dependent'[x] # 0, Waiting(x))
                     /\ AtLeastOne(inSession'[x] # 0, x \in batch',
                                   x \in delayed', dependent'[x] # 0, Waiting(x))
                     /\ inSession'[x] > 0 => inSession'[x] = Abs(requestsByDc[x])
                /\ x \notin requestMap =>
                     inSession'[x] = 0 \/ inSession'[x] = inSession[x]
                /\ dependent'[x] # 0 =>
                     /\ x \in requestMap /\ dependent'[x] \in requestMap
                     /\ dependent'[x] < x
    PROVE  IInv'
<1>1. /\ TypeOK /\ RegisteredTogether /\ DependentsWillBeResent
      /\ CancelFindsSession /\ FreeIds /\ AfterOlder /\ AuthTargets
      /\ WaitersOfOneDc /\ BadGuestsAreUsers /\ Held /\ OneAuth
  BY DEF IInv
<1>2. TypeOK' /\ RegisteredTogether'
  BY <1>1 DEF TypeOK, RegisteredTogether
<1>3. \A x \in Ids : Waiting(x)' <=> Waiting(x)
  BY DEF Waiting
<1>4. DependentsWillBeResent'
  BY <1>1 DEF DependentsWillBeResent
<1>5. CancelFindsSession'
  BY <1>1 DEF CancelFindsSession, TypeOK
<1>6. FreeIds'
  <2> SUFFICES ASSUME NEW x \in Ids, kind[x] = "free"
               PROVE  /\ x \notin requestMap
                      /\ inSession'[x] = 0 /\ dependent'[x] = 0
                      /\ authExport[x] = 0
                      /\ x \notin batch' /\ x \notin delayed' /\ ~Waiting(x)'
                      /\ \A q \in Ids : x < q => kind[q] = "free"
    BY DEF FreeIds
  <2> QED
    BY <1>1, <1>3 DEF FreeIds
<1>7. AfterOlder' /\ BadGuestsAreUsers' /\ WaitersOfOneDc'
  BY <1>1 DEF AfterOlder, BadGuestsAreUsers, WaitersOfOneDc
<1>8. AuthTargets'
  BY <1>1 DEF AuthTargets, IsAuth
<1>9. Held'
  <2> SUFFICES ASSUME NEW x \in requestMap
               PROVE  /\ AtMostOne(inSession'[x] # 0, x \in batch', x \in delayed',
                                   dependent'[x] # 0, Waiting(x)')
                      /\ x \notin abandoned =>
                           AtLeastOne(inSession'[x] # 0, x \in batch',
                                      x \in delayed', dependent'[x] # 0,
                                      Waiting(x)')
    BY DEF Held
  <2>1. x \in Ids
    BY <1>1 DEF TypeOK
  <2>2. Waiting(x)' <=> Waiting(x)
    BY <1>3, <2>1
  <2>3. CASE x \in R
    <3>1. /\ AtMostOne(inSession'[x] # 0, x \in batch', x \in delayed',
                       dependent'[x] # 0, Waiting(x))
          /\ AtLeastOne(inSession'[x] # 0, x \in batch', x \in delayed',
                        dependent'[x] # 0, Waiting(x))
      BY <2>3
    <3> QED
      BY <2>2, <3>1 DEF AtMostOne, AtLeastOne
  <2>4. CASE x \notin R
    <3>1. /\ inSession'[x] = inSession[x] /\ dependent'[x] = dependent[x]
          /\ x \in batch' <=> x \in batch
          /\ x \in delayed' <=> x \in delayed
      BY <2>1, <2>4
    <3> QED
      BY <1>1, <2>2, <3>1 DEF Held, AtMostOne, AtLeastOne
  <2> QED
    BY <2>3, <2>4
<1>10. OneAuth'
  BY <1>1 DEF OneAuth, IsAuth, AuthDc
<1> QED
  BY <1>2, <1>4, <1>5, <1>6, <1>7, <1>8, <1>9, <1>10 DEF IInv

\* A request that an error has come for is registered, and in no other place.
LEMMA ErrorTaken ==
    ASSUME IInv, NEW r \in Ids, TakeError(r)
    PROVE  /\ r \in requestMap /\ kind[r] # "free" /\ r \in batch
           /\ batch' = batch \ {r} /\ errors' \in 0 .. MaxErrors
           /\ inSession[r] = 0 /\ r \notin delayed /\ dependent[r] = 0
           /\ ~Waiting(r)
           /\ requestsByDc[r] \in SignedDcs
           /\ Abs(requestsByDc[r]) \in SignedDcs /\ Abs(requestsByDc[r]) # 0
<1>1. r \in batch /\ r \in requestMap /\ batch' = batch \ {r}
  BY DEF TakeError, IInv, RegisteredTogether
<1>2. errors' \in 0 .. MaxErrors
  BY ErrorsAssumption DEF TakeError, IInv, TypeOK
<1>3. /\ inSession[r] = 0 /\ r \notin delayed /\ dependent[r] = 0
      /\ ~Waiting(r)
  BY <1>1 DEF IInv, Held, AtMostOne
<1>4. kind[r] # "free"
  BY <1>1 DEF IInv, FreeIds
<1>5. requestsByDc[r] \in SignedDcs
  BY <1>1 DEF IInv, TypeOK, RegisteredTogether
<1> QED
  BY <1>1, <1>2, <1>3, <1>4, <1>5, SignedDc, ShiftedDc

LEMMA SentAgainInv ==
    ASSUME IInv, NEW r \in Ids, MsgWait(r) \/ Delay(r) \/ NotInited(r)
    PROVE  IInv'
<1>1. TakeError(r)
  BY DEF MsgWait, Delay, NotInited
<1>2. /\ r \in requestMap /\ kind[r] # "free" /\ r \in batch
      /\ batch' = batch \ {r} /\ errors' \in 0 .. MaxErrors
      /\ inSession[r] = 0 /\ r \notin delayed /\ dependent[r] = 0
      /\ ~Waiting(r)
      /\ requestsByDc[r] \in SignedDcs
      /\ Abs(requestsByDc[r]) \in SignedDcs /\ Abs(requestsByDc[r]) # 0
  BY <1>1, ErrorTaken
<1>3. /\ inSession \in [Ids -> SignedDcs \cup {0}]
      /\ dependent \in [Ids -> Ids \cup {0}]
      /\ after \in [Ids -> Ids \cup {0}]
      /\ batch \subseteq Ids /\ delayed \subseteq Ids
  BY DEF IInv, TypeOK
<1>4. UNCHANGED <<mainDc, kind, requestMap, parserMap, requestsByDc,
                  authWaiters, authExport, badGuest, abandoned, broken>>
  BY DEF MsgWait, Delay, NotInited
<1>5. \/ /\ inSession' = [inSession EXCEPT ![r] = Abs(requestsByDc[r])]
         /\ UNCHANGED <<dependent, delayed>>
         /\ after' = after \/ after' = [after EXCEPT ![r] = 0]
      \/ /\ delayed' = delayed \cup {r}
         /\ UNCHANGED <<dependent, inSession, after>>
      \/ /\ dependent' = [dependent EXCEPT ![r] = after[r]]
         /\ after[r] # 0 /\ after[r] \in requestMap /\ after[r] < r
         /\ UNCHANGED <<delayed, inSession, after>>
  <2>1. CASE NotInited(r)
    BY <2>1 DEF NotInited
  <2>2. CASE Delay(r)
    BY <2>2 DEF Delay
  <2>3. CASE MsgWait(r) /\ requestsByDc[after[r]] # requestsByDc[r]
    BY <2>3 DEF MsgWait
  <2>4. CASE MsgWait(r) /\ requestsByDc[after[r]] = requestsByDc[r]
    <3>1. after[r] # 0 /\ after[r] \in Ids /\ requestsByDc[r] # 0
      BY <1>2, <1>3, <2>4, SignedDc DEF MsgWait
    <3>2. after[r] \in requestMap /\ after[r] < r
      BY <2>4, <3>1 DEF IInv, RegisteredTogether, AfterOlder
    <3> QED
      BY <2>4, <3>1, <3>2 DEF MsgWait
  <2> QED
    BY <2>1, <2>2, <2>3, <2>4
<1>6. /\ dependent' \in [Ids -> Ids \cup {0}]
      /\ inSession' \in [Ids -> SignedDcs \cup {0}]
      /\ after' \in [Ids -> Ids \cup {0}]
      /\ batch' \subseteq Ids /\ delayed' \subseteq Ids
      /\ errors' \in 0 .. MaxErrors
      /\ \A x \in Ids : after'[x] = after[x] \/ after'[x] = 0
  BY <1>2, <1>3, <1>5
<1>7. \A x \in Ids \ {r} :
        /\ inSession'[x] = inSession[x] /\ dependent'[x] = dependent[x]
        /\ x \in batch' <=> x \in batch
        /\ x \in delayed' <=> x \in delayed
  BY <1>2, <1>3, <1>5
<1>8. /\ AtMostOne(inSession'[r] # 0, r \in batch', r \in delayed',
                   dependent'[r] # 0, Waiting(r))
      /\ AtLeastOne(inSession'[r] # 0, r \in batch', r \in delayed',
                    dependent'[r] # 0, Waiting(r))
      /\ inSession'[r] > 0 => inSession'[r] = Abs(requestsByDc[r])
      /\ dependent'[r] # 0 =>
            dependent'[r] \in requestMap /\ dependent'[r] < r
  BY <1>2, <1>3, <1>5 DEF AtMostOne, AtLeastOne
<1> QED
  BY <1>2, <1>4, <1>6, <1>7, <1>8, MoveInv

LEMMA TryToReceiveInv ==
    ASSUME IInv, NEW session \in ShiftedDcs,
           NEW answered \in SUBSET { r \in Ids : inSession[r] = session },
           TryToReceive(session, answered)
    PROVE  IInv'
<1>1. /\ batch = {} /\ batch' = answered /\ session # 0
      /\ inSession' = [r \in Ids |-> IF r \in answered THEN 0 ELSE inSession[r]]
      /\ UNCHANGED <<mainDc, kind, requestMap, parserMap, requestsByDc, after,
                     dependent, delayed, authWaiters, authExport, badGuest,
                     errors, abandoned, broken>>
  BY ShiftedDc DEF TryToReceive
<1>2. /\ inSession \in [Ids -> SignedDcs \cup {0}]
      /\ dependent \in [Ids -> Ids \cup {0}]
      /\ after \in [Ids -> Ids \cup {0}]
      /\ delayed \subseteq Ids /\ errors \in 0 .. MaxErrors
  BY DEF IInv, TypeOK
<1>3. \A x \in answered : inSession[x] # 0 /\ x \in Ids
  BY <1>1
<1>4. \A x \in answered :
        /\ kind[x] # "free"
        /\ dependent[x] # 0 => x \in requestMap
        /\ x \in requestMap => /\ x \notin delayed /\ dependent[x] = 0
                               /\ ~Waiting(x)
  BY <1>3 DEF IInv, FreeIds, DependentsWillBeResent, Held, AtMostOne
<1>5. \A x \in answered :
        /\ x \in requestMap =>
             /\ AtMostOne(inSession'[x] # 0, x \in batch', x \in delayed',
                          dependent'[x] # 0, Waiting(x))
             /\ AtLeastOne(inSession'[x] # 0, x \in batch', x \in delayed',
                           dependent'[x] # 0, Waiting(x))
        /\ inSession'[x] = 0
        /\ dependent'[x] = 0
  BY <1>1, <1>3, <1>4 DEF AtMostOne, AtLeastOne
<1>6. inSession' \in [Ids -> SignedDcs \cup {0}] /\ batch' \subseteq Ids
  BY <1>1, <1>2, <1>3
<1>7. \A x \in Ids \ answered :
        /\ inSession'[x] = inSession[x]
        /\ x \in batch' <=> x \in batch
  BY <1>1
<1>8. answered \in SUBSET Ids
  OBVIOUS
<1> QED
  BY <1>1, <1>2, <1>4, <1>5, <1>6, <1>7, <1>8, MoveInv

LEMMA CheckDelayedInv ==
    ASSUME IInv, NEW r \in Ids, CheckDelayedRequests(r) PROVE IInv'
<1>1. /\ r \in delayed /\ delayed' = delayed \ {r}
      /\ inSession' = IF requestsByDc[r] # 0 /\ r \in requestMap
                      THEN [inSession EXCEPT ![r] = Abs(requestsByDc[r])]
                      ELSE inSession
      /\ UNCHANGED <<mainDc, kind, requestMap, parserMap, requestsByDc, after,
                     dependent, authWaiters, authExport, badGuest, batch,
                     errors, abandoned, broken>>
  BY DEF CheckDelayedRequests
<1>2. /\ inSession \in [Ids -> SignedDcs \cup {0}]
      /\ dependent \in [Ids -> Ids \cup {0}]
      /\ after \in [Ids -> Ids \cup {0}]
      /\ batch \subseteq Ids /\ delayed \subseteq Ids
      /\ errors \in 0 .. MaxErrors
      /\ r \in requestMap => requestsByDc[r] # 0 /\ requestsByDc[r] \in SignedDcs
      /\ dependent[r] # 0 => r \in requestMap
      /\ kind[r] # "free"
  BY <1>1 DEF IInv, TypeOK, RegisteredTogether, FreeIds, DependentsWillBeResent
<1>3. r \in requestMap => /\ Abs(requestsByDc[r]) \in SignedDcs
                          /\ Abs(requestsByDc[r]) # 0
  BY <1>2, SignedDc, ShiftedDc
<1>4. r \in requestMap => /\ inSession[r] = 0 /\ dependent[r] = 0
                          /\ r \notin batch /\ ~Waiting(r)
  BY <1>1 DEF IInv, Held, AtMostOne
<1>5. inSession' \in [Ids -> SignedDcs \cup {0}] /\ delayed' \subseteq Ids
  BY <1>1, <1>2, <1>3
<1>6. \A x \in Ids \ {r} : /\ inSession'[x] = inSession[x]
                           /\ x \in delayed' <=> x \in delayed
  BY <1>1, <1>2
<1>7. /\ r \in requestMap =>
           /\ AtMostOne(inSession'[r] # 0, r \in batch', r \in delayed',
                        dependent'[r] # 0, Waiting(r))
           /\ AtLeastOne(inSession'[r] # 0, r \in batch', r \in delayed',
                         dependent'[r] # 0, Waiting(r))
           /\ inSession'[r] > 0 => inSession'[r] = Abs(requestsByDc[r])
           /\ dependent'[r] = 0
      /\ r \notin requestMap =>
           inSession'[r] = inSession[r] /\ dependent'[r] = 0
  BY <1>1, <1>2, <1>3, <1>4 DEF AtMostOne, AtLeastOne
<1> QED
  BY <1>1, <1>2, <1>5, <1>6, <1>7, MoveInv

-----------------------------------------------------------------------------
(* New requests. *)

\* The next id is nowhere, and every id given out is smaller.
LEMMA NextIdIsNew ==
    ASSUME IInv, NEW r \in Ids, IsNextId(r)
    PROVE  /\ kind[r] = "free" /\ r \notin requestMap
           /\ inSession[r] = 0 /\ dependent[r] = 0 /\ authExport[r] = 0
           /\ r \notin batch /\ r \notin delayed /\ ~Waiting(r)
           /\ \A x \in Ids : kind[x] # "free" => x < r
           /\ \A x \in Ids \ {r} : kind[x] = "free" => r < x
           /\ \A x \in requestMap : kind[x] # "free"
<1>1. /\ kind[r] = "free" /\ r \notin requestMap
      /\ inSession[r] = 0 /\ dependent[r] = 0 /\ authExport[r] = 0
      /\ r \notin batch /\ r \notin delayed /\ ~Waiting(r)
      /\ \A x \in Ids : r < x => kind[x] = "free"
  BY DEF IInv, FreeIds, IsNextId
<1>2. \A x \in Ids : x < r => kind[x] # "free"
  BY DEF IsNextId
<1>3. \A x \in Ids : x \in Int
  BY DEF Ids
<1>4. \A x \in Ids : kind[x] # "free" => x < r
  BY <1>1, <1>3
<1>5. \A x \in Ids \ {r} : kind[x] = "free" => r < x
  BY <1>2, <1>3
<1>6. \A x \in requestMap : kind[x] # "free"
  BY DEF IInv, FreeIds, TypeOK
<1> QED
  BY <1>1, <1>4, <1>5, <1>6

LEMMA SendInv ==
    ASSUME IInv, NEW r \in Ids, NEW d \in Targets \cup {0},
           NEW callbacks \in BOOLEAN, NEW afterId,
           SendRequest(r, d, callbacks, afterId)
    PROVE  IInv'
<1> PICK signed : signed = IF d = 0 THEN -mainDc ELSE d
  OBVIOUS
<1>1. /\ IsNextId(r)
      /\ kind' = [kind EXCEPT ![r] = "user"]
      /\ requestMap' = requestMap \cup {r}
      /\ parserMap' \in {parserMap, parserMap \cup {r}}
      /\ requestsByDc' = [requestsByDc EXCEPT ![r] = signed]
      /\ after' = [after EXCEPT ![r] = IF afterId \in requestMap THEN afterId
                                                                 ELSE 0]
      /\ \/ /\ afterId \in requestMap
            /\ dependent' = [dependent EXCEPT ![r] = afterId]
            /\ UNCHANGED inSession
         \/ /\ inSession' = [inSession EXCEPT ![r] = Abs(signed)]
            /\ UNCHANGED dependent
      /\ UNCHANGED <<mainDc, delayed, authWaiters, authExport, badGuest, batch,
                     errors, abandoned, broken>>
  BY DEF SendRequest
<1>2. /\ TypeOK /\ RegisteredTogether /\ DependentsWillBeResent
      /\ CancelFindsSession /\ FreeIds /\ AfterOlder /\ AuthTargets
      /\ WaitersOfOneDc /\ BadGuestsAreUsers /\ Held /\ OneAuth
  BY DEF IInv
<1>3. /\ kind[r] = "free" /\ r \notin requestMap
      /\ inSession[r] = 0 /\ dependent[r] = 0 /\ authExport[r] = 0
      /\ r \notin batch /\ r \notin delayed /\ ~Waiting(r)
      /\ \A x \in Ids : kind[x] # "free" => x < r
      /\ \A x \in Ids \ {r} : kind[x] = "free" => r < x
      /\ \A x \in requestMap : kind[x] # "free"
  BY <1>1, NextIdIsNew
<1>4. /\ signed \in SignedDcs /\ signed # 0
      /\ Abs(signed) \in SignedDcs /\ Abs(signed) # 0
  <2>1. -mainDc \in SignedDcs
    BY <1>2, PlainDc, ShiftedDc DEF TypeOK
  <2>2. d # 0 => d \in SignedDcs
    <3> SUFFICES ASSUME d # 0 PROVE d \in SignedDcs
      OBVIOUS
    <3>1. PICK dc \in Dcs, shift \in Shifts : d = dc + kDcShift * shift
      BY DcsAssumption
    <3>2. d = ShiftDcId(dc, shift)
      BY <3>1 DEF ShiftDcId
    <3> QED
      BY <3>2, ShiftedParts, ShiftedDc
  <2> QED
    BY <2>1, <2>2, SignedDc, ShiftedDc
<1>5. afterId \in requestMap =>
        afterId \in Ids /\ afterId < r /\ afterId # 0
  BY <1>2, <1>3 DEF TypeOK, Ids
<1>6. /\ requestMap \subseteq Ids /\ 0 \notin Ids
      /\ kind \in [Ids -> Kinds] /\ requestsByDc \in [Ids -> SignedDcs \cup {0}]
      /\ after \in [Ids -> Ids \cup {0}] /\ dependent \in [Ids -> Ids \cup {0}]
      /\ inSession \in [Ids -> SignedDcs \cup {0}]
  BY <1>2 DEF TypeOK, Ids
<1>7. \A x \in Ids \ {r} :
        /\ kind'[x] = kind[x] /\ requestsByDc'[x] = requestsByDc[x]
        /\ after'[x] = after[x] /\ dependent'[x] = dependent[x]
        /\ inSession'[x] = inSession[x]
        /\ x \in requestMap' <=> x \in requestMap
  BY <1>1, <1>6
<1>8. /\ kind'[r] = "user" /\ requestsByDc'[r] = signed
      /\ after'[r] # 0 => after'[r] < r
      /\ \/ /\ dependent'[r] = afterId /\ afterId \in requestMap
            /\ inSession'[r] = 0
         \/ dependent'[r] = 0 /\ inSession'[r] = Abs(signed)
  BY <1>1, <1>3, <1>5, <1>6
<1>9. \A x \in Ids : Waiting(x)' <=> Waiting(x)
  BY <1>1 DEF Waiting
<1>10. TypeOK'
  <2>1. /\ kind' \in [Ids -> Kinds] /\ after' \in [Ids -> Ids \cup {0}]
        /\ requestsByDc' \in [Ids -> SignedDcs \cup {0}]
        /\ dependent' \in [Ids -> Ids \cup {0}]
        /\ inSession' \in [Ids -> SignedDcs \cup {0}]
    BY <1>1, <1>4, <1>5, <1>6 DEF Kinds
  <2> QED
    BY <1>1, <1>2, <2>1 DEF TypeOK
<1>11. RegisteredTogether'
  BY <1>1, <1>2, <1>4, <1>7, <1>8 DEF RegisteredTogether
<1>12. DependentsWillBeResent'
  <2> SUFFICES ASSUME NEW x \in Ids, dependent'[x] # 0
               PROVE  /\ x \in requestMap' /\ dependent'[x] \in requestMap'
                      /\ dependent'[x] < x
    BY DEF DependentsWillBeResent
  <2>1. CASE x = r
    BY <1>1, <1>5, <1>8, <2>1
  <2>2. CASE x # r
    BY <1>1, <1>2, <1>7, <2>2 DEF DependentsWillBeResent
  <2> QED
    BY <2>1, <2>2
<1>13. CancelFindsSession'
  <2> SUFFICES ASSUME NEW x \in requestMap', inSession'[x] > 0
               PROVE  inSession'[x] = Abs(requestsByDc'[x])
    BY DEF CancelFindsSession
  <2>1. CASE x = r
    BY <1>8, <2>1
  <2>2. CASE x # r
    BY <1>1, <1>2, <1>6, <1>7, <2>2 DEF CancelFindsSession
  <2> QED
    BY <2>1, <2>2
<1>14. FreeIds'
  <2> SUFFICES ASSUME NEW x \in Ids, kind'[x] = "free"
               PROVE  /\ x \notin requestMap'
                      /\ inSession'[x] = 0 /\ dependent'[x] = 0
                      /\ authExport[x] = 0
                      /\ x \notin batch /\ x \notin delayed /\ ~Waiting(x)'
                      /\ \A q \in Ids : x < q => kind'[q] = "free"
    BY <1>1 DEF FreeIds
  <2>1. x # r /\ kind[x] = "free"
    BY <1>7, <1>8
  <2>2. r < x /\ \A q \in Ids : q \in Int
    BY <1>3, <2>1 DEF Ids
  <2>3. \A q \in Ids : x < q => q # r /\ kind[q] = "free"
    BY <1>2, <2>1, <2>2 DEF FreeIds
  <2> QED
    BY <1>2, <1>7, <1>9, <2>1, <2>3 DEF FreeIds
<1>15. AfterOlder' /\ BadGuestsAreUsers'
  <2>1. AfterOlder'
    BY <1>2, <1>7, <1>8 DEF AfterOlder
  <2>2. BadGuestsAreUsers'
    BY <1>1, <1>2, <1>3, <1>7 DEF BadGuestsAreUsers, TypeOK
  <2> QED
    BY <2>1, <2>2
<1>16. AuthTargets'
  BY <1>1, <1>2, <1>7, <1>8 DEF AuthTargets, IsAuth
<1>17. WaitersOfOneDc'
  <2> SUFFICES ASSUME NEW dc \in Dcs, NEW i \in DOMAIN authWaiters[dc]
               PROVE  /\ kind'[authWaiters[dc][i]] = "user"
                      /\ authWaiters[dc][i] \in requestMap' =>
                          \A dc2 \in Dcs : \A j \in DOMAIN authWaiters[dc2] :
                            authWaiters[dc2][j] = authWaiters[dc][i] => dc2 = dc
    BY <1>1 DEF WaitersOfOneDc
  <2>1. authWaiters[dc][i] # r /\ authWaiters[dc][i] \in Ids
    BY <1>2, <1>3 DEF Waiting, TypeOK
  <2> QED
    BY <1>2, <1>7, <2>1 DEF WaitersOfOneDc
<1>18. Held'
  <2> SUFFICES ASSUME NEW x \in requestMap'
               PROVE  /\ AtMostOne(inSession'[x] # 0, x \in batch, x \in delayed,
                                   dependent'[x] # 0, Waiting(x)')
                      /\ x \notin abandoned =>
                           AtLeastOne(inSession'[x] # 0, x \in batch,
                                      x \in delayed, dependent'[x] # 0,
                                      Waiting(x)')
    BY <1>1 DEF Held
  <2>1. x \in Ids /\ (Waiting(x)' <=> Waiting(x))
    BY <1>1, <1>6, <1>9
  <2>2. CASE x = r
    BY <1>3, <1>4, <1>5, <1>8, <2>1, <2>2 DEF AtMostOne, AtLeastOne
  <2>3. CASE x # r
    BY <1>1, <1>2, <1>7, <2>1, <2>3 DEF Held, AtMostOne, AtLeastOne
  <2> QED
    BY <2>2, <2>3
<1>19. OneAuth'
  <2>1. \A a \in requestMap' : IsAuth(a)' =>
            a \in requestMap /\ IsAuth(a) /\ AuthDc(a)' = AuthDc(a)
    BY <1>1, <1>6, <1>7, <1>8 DEF IsAuth, AuthDc
  <2>2. \A a \in requestMap : IsAuth(a) =>
            a \in requestMap' /\ IsAuth(a)' /\ AuthDc(a)' = AuthDc(a)
    BY <1>1, <1>3, <1>6, <1>7 DEF IsAuth, AuthDc
  <2> QED
    BY <1>1, <1>2, <2>1, <2>2 DEF OneAuth
<1> QED
  BY <1>10, <1>11, <1>12, <1>13, <1>14, <1>15, <1>16, <1>17, <1>18, <1>19
     DEF IInv

\* A request joins those that wait for a data center's authorization.
LEMMA JoinsWaiters ==
    ASSUME IInv, NEW r \in Ids, NEW newdc \in Dcs, ~Waiting(r),
           authWaiters' = [authWaiters EXCEPT ![newdc] = Append(@, r)]
    PROVE  /\ authWaiters' \in [Dcs -> Seq(Ids)]
           /\ authWaiters'[newdc] # <<>>
           /\ \A dc \in Dcs \ {newdc} : authWaiters'[dc] = authWaiters[dc]
           /\ \A x \in Ids : Waiting(x)' <=> Waiting(x) \/ x = r
           /\ \A dc \in Dcs : \A i \in DOMAIN authWaiters'[dc] :
                \/ dc = newdc /\ authWaiters'[dc][i] = r
                \/ i \in DOMAIN authWaiters[dc] /\ authWaiters[dc][i] # r
                      /\ authWaiters'[dc][i] = authWaiters[dc][i]
<1>1. authWaiters \in [Dcs -> Seq(Ids)]
  BY DEF IInv, TypeOK
<1> DEFINE old == authWaiters[newdc]
           new == Append(old, r)
<1>2. old \in Seq(Ids) /\ Len(old) \in Nat /\ DOMAIN old = 1 .. Len(old)
  BY <1>1
<1>3. /\ new \in Seq(Ids) /\ Len(new) = Len(old) + 1
      /\ DOMAIN new = 1 .. Len(old) + 1
      /\ \A i \in 1 .. Len(old) : new[i] = old[i]
      /\ new[Len(old) + 1] = r
  BY <1>2
<1>4. new # <<>>
  <2>1. Len(new) # 0 /\ Len(<<>>) = 0
    BY <1>2, <1>3
  <2> HIDE DEF new
  <2> QED
    BY <2>1
<1>5. /\ authWaiters' \in [Dcs -> Seq(Ids)]
      /\ authWaiters'[newdc] = new
      /\ \A dc \in Dcs \ {newdc} : authWaiters'[dc] = authWaiters[dc]
  <2>1. authWaiters' = [authWaiters EXCEPT ![newdc] = new]
    OBVIOUS
  <2> HIDE DEF new
  <2> QED
    BY <1>1, <1>3, <2>1
<1>6. ASSUME NEW dc \in Dcs, NEW i \in DOMAIN authWaiters'[dc]
      PROVE  \/ dc = newdc /\ authWaiters'[dc][i] = r
             \/ i \in DOMAIN authWaiters[dc] /\ authWaiters[dc][i] # r
                   /\ authWaiters'[dc][i] = authWaiters[dc][i]
  <2>1. \A j \in DOMAIN authWaiters[dc] : authWaiters[dc][j] # r
    BY DEF Waiting
  <2>2. CASE dc = newdc
    <3>1. i \in 1 .. Len(old) \/ i = Len(old) + 1
      BY <1>2, <1>3, <1>5, <2>2
    <3> QED
      BY <1>2, <1>3, <1>5, <2>1, <2>2, <3>1
  <2>3. CASE dc # newdc
    BY <1>5, <2>1, <2>3
  <2> QED
    BY <2>2, <2>3
<1>7. ASSUME NEW x \in Ids, Waiting(x)' PROVE Waiting(x) \/ x = r
  <2>1. PICK dc \in Dcs : \E i \in DOMAIN authWaiters'[dc] :
                                authWaiters'[dc][i] = x
    BY <1>7 DEF Waiting
  <2> QED
    BY <1>6, <2>1 DEF Waiting
<1>8. Waiting(r)'
  <2>1. Len(old) + 1 \in DOMAIN authWaiters'[newdc]
    BY <1>2, <1>3, <1>5
  <2> QED
    BY <1>3, <1>5, <2>1 DEF Waiting
<1>9. ASSUME NEW x \in Ids, Waiting(x) PROVE Waiting(x)'
  <2>1. PICK dc \in Dcs : \E i \in DOMAIN authWaiters[dc] : authWaiters[dc][i] = x
    BY <1>9 DEF Waiting
  <2> PICK i \in DOMAIN authWaiters[dc] : authWaiters[dc][i] = x
    BY <2>1
  <2>2. i \in DOMAIN authWaiters'[dc] /\ authWaiters'[dc][i] = x
    BY <1>2, <1>3, <1>5, <2>1
  <2> QED
    BY <2>2 DEF Waiting
<1> QED
  BY <1>4, <1>5, <1>6, <1>7, <1>8, <1>9

\* What Unauthorized() does to the registry: nothing, as an export or import
\* is under way or has come to nothing, or a new export.
NoExport(newdc) ==
    /\ authWaiters[newdc] # <<>>
    /\ UNCHANGED <<kind, requestMap, parserMap, requestsByDc, inSession,
                   authExport>>

NewExport(e, newdc, target) ==
    /\ IsNextId(e)
    /\ target \in ShiftedDcs /\ BareDcId(target) = newdc
    /\ authWaiters[newdc] = <<>>
    /\ kind' = [kind EXCEPT ![e] = "export"]
    /\ requestMap' = requestMap \cup {e}
    /\ parserMap' = parserMap \cup {e}
    /\ requestsByDc' = [requestsByDc EXCEPT ![e] = -mainDc]
    /\ inSession' = [inSession EXCEPT ![e] = mainDc]
    /\ authExport' = [authExport EXCEPT ![e] = target]

LEMMA UnauthorizedInv ==
    ASSUME IInv, NEW r \in Ids, NEW badGuestDc \in BOOLEAN,
           Unauthorized(r, badGuestDc)
    PROVE  IInv'
<1> DEFINE newdc == BareDcId(Abs(requestsByDc[r]))
<1>1. /\ r \in requestMap /\ kind[r] # "free" /\ r \in batch
      /\ batch' = batch \ {r} /\ errors' \in 0 .. MaxErrors
      /\ inSession[r] = 0 /\ r \notin delayed /\ dependent[r] = 0
      /\ ~Waiting(r)
      /\ requestsByDc[r] \in SignedDcs
      /\ Abs(requestsByDc[r]) \in ShiftedDcs
  <2>1. TakeError(r)
    BY DEF Unauthorized
  <2> QED
    BY <2>1, ErrorTaken, SignedDc
<1>2. newdc \in Dcs
  BY <1>1, ShiftedDc
<1>3. /\ TypeOK /\ RegisteredTogether /\ DependentsWillBeResent
      /\ CancelFindsSession /\ FreeIds /\ AfterOlder /\ AuthTargets
      /\ WaitersOfOneDc /\ BadGuestsAreUsers /\ Held /\ OneAuth
  BY DEF IInv
<1>4. /\ kind[r] = "user"
      /\ authWaiters' = [authWaiters EXCEPT ![newdc] = Append(@, r)]
      /\ badGuest' \in {badGuest, badGuest \cup {r}}
      /\ UNCHANGED <<mainDc, after, dependent, delayed, abandoned, broken>>
      /\ NoExport(newdc) \/ \E e \in Ids :
                                NewExport(e, newdc, Abs(requestsByDc[r]))
  BY <1>1 DEF Unauthorized, NoExport, NewExport, NeedsExport
<1>5. /\ authWaiters' \in [Dcs -> Seq(Ids)]
      /\ authWaiters'[newdc] # <<>>
      /\ \A dc \in Dcs \ {newdc} : authWaiters'[dc] = authWaiters[dc]
      /\ \A x \in Ids : Waiting(x)' <=> Waiting(x) \/ x = r
      /\ \A dc \in Dcs : \A i \in DOMAIN authWaiters'[dc] :
           \/ dc = newdc /\ authWaiters'[dc][i] = r
           \/ i \in DOMAIN authWaiters[dc] /\ authWaiters[dc][i] # r
                 /\ authWaiters'[dc][i] = authWaiters[dc][i]
  BY <1>1, <1>2, <1>4, JoinsWaiters
<1>6. /\ requestMap \subseteq Ids /\ 0 \notin Ids
      /\ kind \in [Ids -> Kinds] /\ requestsByDc \in [Ids -> SignedDcs \cup {0}]
      /\ inSession \in [Ids -> SignedDcs \cup {0}]
      /\ authExport \in [Ids -> ShiftedDcs \cup {0}]
      /\ parserMap \subseteq Ids
      /\ batch' \subseteq Ids /\ badGuest' \subseteq Ids
  BY <1>1, <1>3, <1>4 DEF TypeOK, Ids
<1>7. AfterOlder'
  BY <1>3, <1>4 DEF AfterOlder
<1>8. CASE NoExport(newdc)
  <2>1. /\ authWaiters[newdc] # <<>>
        /\ UNCHANGED <<kind, requestMap, parserMap, requestsByDc, inSession,
                       authExport>>
    BY <1>8 DEF NoExport
  <2>2. TypeOK' /\ RegisteredTogether' /\ DependentsWillBeResent'
        /\ CancelFindsSession' /\ AuthTargets' /\ BadGuestsAreUsers'
    <3>1. TypeOK'
      BY <1>1, <1>3, <1>4, <1>5, <1>6, <2>1 DEF TypeOK
    <3>2. RegisteredTogether' /\ DependentsWillBeResent' /\ CancelFindsSession'
      BY <1>3, <1>4, <2>1
         DEF RegisteredTogether, DependentsWillBeResent, CancelFindsSession
    <3>3. AuthTargets' /\ BadGuestsAreUsers'
      BY <1>3, <1>4, <2>1 DEF AuthTargets, BadGuestsAreUsers, IsAuth
    <3> QED
      BY <3>1, <3>2, <3>3
  <2>3. FreeIds'
    BY <1>1, <1>3, <1>4, <1>5, <2>1 DEF FreeIds
  <2>4. WaitersOfOneDc'
    BY <1>3, <1>4, <1>5, <2>1 DEF WaitersOfOneDc
  <2>5. Held'
    <3> SUFFICES ASSUME NEW x \in requestMap
                 PROVE  /\ AtMostOne(inSession[x] # 0, x \in batch',
                                     x \in delayed, dependent[x] # 0,
                                     Waiting(x)')
                        /\ x \notin abandoned =>
                             AtLeastOne(inSession[x] # 0, x \in batch',
                                        x \in delayed, dependent[x] # 0,
                                        Waiting(x)')
      BY <1>4, <2>1 DEF Held
    <3>1. CASE x = r
      BY <1>1, <1>5, <3>1 DEF AtMostOne, AtLeastOne
    <3>2. CASE x # r
      BY <1>1, <1>3, <1>5, <1>6, <3>2 DEF Held, AtMostOne, AtLeastOne
    <3> QED
      BY <3>1, <3>2
  <2>6. OneAuth'
    <3>1. \A a \in requestMap : /\ IsAuth(a)' <=> IsAuth(a)
                                /\ AuthDc(a)' = AuthDc(a)
      BY <2>1 DEF IsAuth, AuthDc
    <3>2. \A a \in requestMap : IsAuth(a) => AuthDc(a) \in Dcs
      BY AuthDcKnown
    <3>3. \A dc \in Dcs : authWaiters'[dc] # <<>> <=> authWaiters[dc] # <<>>
      BY <1>2, <1>5, <2>1
    <3>4. \A a, b \in requestMap' :
             IsAuth(a)' /\ IsAuth(b)' /\ AuthDc(a)' = AuthDc(b)' => a = b
      BY <1>3, <2>1, <3>1 DEF OneAuth
    <3>5. \A a \in requestMap' : IsAuth(a)' => authWaiters'[AuthDc(a)'] # <<>>
      BY <1>3, <2>1, <3>1, <3>2, <3>3 DEF OneAuth
    <3>6. \A dc \in Dcs : authWaiters'[dc] # <<>> /\ dc \notin broken' =>
             \E a \in requestMap' : IsAuth(a)' /\ AuthDc(a)' = dc
      BY <1>3, <1>4, <2>1, <3>1, <3>3 DEF OneAuth
    <3> QED
      BY <3>4, <3>5, <3>6 DEF OneAuth
  <2> QED
    BY <1>3, <1>7, <2>2, <2>3, <2>4, <2>5, <2>6 DEF IInv
<1>9. ASSUME NEW e \in Ids, NewExport(e, newdc, Abs(requestsByDc[r]))
      PROVE  IInv'
  <2> PICK target : target = Abs(requestsByDc[r])
    OBVIOUS
  <2>1. /\ IsNextId(e)
        /\ target \in ShiftedDcs /\ BareDcId(target) = newdc
        /\ authWaiters[newdc] = <<>>
        /\ kind' = [kind EXCEPT ![e] = "export"]
        /\ requestMap' = requestMap \cup {e}
        /\ parserMap' = parserMap \cup {e}
        /\ requestsByDc' = [requestsByDc EXCEPT ![e] = -mainDc]
        /\ inSession' = [inSession EXCEPT ![e] = mainDc]
        /\ authExport' = [authExport EXCEPT ![e] = target]
    BY <1>9 DEF NewExport
  <2>2. /\ kind[e] = "free" /\ e \notin requestMap
        /\ inSession[e] = 0 /\ dependent[e] = 0 /\ authExport[e] = 0
        /\ e \notin batch /\ e \notin delayed /\ ~Waiting(e)
        /\ \A x \in Ids : kind[x] # "free" => x < e
        /\ \A x \in Ids \ {e} : kind[x] = "free" => e < x
        /\ \A x \in requestMap : kind[x] # "free"
    BY <2>1, NextIdIsNew
  <2>3. /\ e # r
        /\ -mainDc \in SignedDcs /\ mainDc \in SignedDcs /\ mainDc # 0
        /\ -mainDc # 0 /\ Abs(-mainDc) = mainDc
    BY <1>3, <1>4, <2>2, PlainDc, ShiftedDc DEF TypeOK
  <2>4. \A x \in Ids \ {e} :
          /\ kind'[x] = kind[x] /\ requestsByDc'[x] = requestsByDc[x]
          /\ inSession'[x] = inSession[x] /\ authExport'[x] = authExport[x]
          /\ x \in requestMap' <=> x \in requestMap
    BY <1>6, <2>1
  <2>5. /\ kind'[e] = "export" /\ requestsByDc'[e] = -mainDc
        /\ inSession'[e] = mainDc /\ authExport'[e] = target
        /\ e \notin batch' /\ ~Waiting(e)'
    BY <1>1, <1>5, <1>6, <2>1, <2>2, <2>3
  <2>6. TypeOK'
    <3>1. /\ kind' \in [Ids -> Kinds]
          /\ requestsByDc' \in [Ids -> SignedDcs \cup {0}]
          /\ inSession' \in [Ids -> SignedDcs \cup {0}]
          /\ authExport' \in [Ids -> ShiftedDcs \cup {0}]
      BY <1>6, <2>1, <2>3 DEF Kinds
    <3> QED
      BY <1>1, <1>3, <1>4, <1>5, <1>6, <2>1, <3>1 DEF TypeOK
  <2>7. RegisteredTogether' /\ DependentsWillBeResent' /\ CancelFindsSession'
    <3>1. RegisteredTogether'
      BY <1>3, <2>1, <2>3, <2>4, <2>5 DEF RegisteredTogether
    <3>2. DependentsWillBeResent'
      BY <1>3, <1>4, <2>1 DEF DependentsWillBeResent
    <3>3. ASSUME NEW x \in requestMap', inSession'[x] > 0
          PROVE  inSession'[x] = Abs(requestsByDc'[x])
      <4>1. CASE x = e
        BY <2>3, <2>5, <4>1
      <4>2. CASE x # e
        BY <1>3, <1>6, <2>1, <2>4, <3>3, <4>2 DEF CancelFindsSession
      <4> QED
        BY <4>1, <4>2
    <3> QED
      BY <3>1, <3>2, <3>3 DEF CancelFindsSession
  <2>8. FreeIds'
    <3> SUFFICES ASSUME NEW x \in Ids, kind'[x] = "free"
                 PROVE  /\ x \notin requestMap'
                        /\ inSession'[x] = 0 /\ dependent'[x] = 0
                        /\ authExport'[x] = 0
                        /\ x \notin batch' /\ x \notin delayed'
                        /\ ~Waiting(x)'
                        /\ \A q \in Ids : x < q => kind'[q] = "free"
      BY DEF FreeIds
    <3>1. x # e /\ kind[x] = "free" /\ x # r
      BY <1>1, <2>4, <2>5
    <3>2. e < x /\ \A q \in Ids : q \in Int
      BY <2>2, <3>1 DEF Ids
    <3>3. \A q \in Ids : x < q => q # e /\ kind[q] = "free"
      BY <1>3, <3>1, <3>2 DEF FreeIds
    <3> QED
      BY <1>1, <1>3, <1>4, <1>5, <2>4, <3>1, <3>3 DEF FreeIds
  <2>9. AuthTargets' /\ BadGuestsAreUsers'
    <3>1. AuthTargets'
      BY <1>3, <2>1, <2>4, <2>5 DEF AuthTargets, IsAuth
    <3>2. BadGuestsAreUsers'
      BY <1>3, <1>4, <1>6, <2>2, <2>3, <2>4 DEF BadGuestsAreUsers, TypeOK
    <3> QED
      BY <3>1, <3>2
  <2>10. WaitersOfOneDc'
    <3>1. \A dc \in Dcs : \A i \in DOMAIN authWaiters'[dc] :
             /\ authWaiters'[dc][i] \in Ids \ {e}
             /\ kind[authWaiters'[dc][i]] = "user"
      BY <1>3, <1>4, <1>5, <2>2, <2>3 DEF WaitersOfOneDc, TypeOK, Waiting
    <3>2. \A dc \in Dcs : \A i \in DOMAIN authWaiters'[dc] :
             /\ kind'[authWaiters'[dc][i]] = "user"
             /\ authWaiters'[dc][i] \in requestMap'
                    => authWaiters'[dc][i] \in requestMap
      BY <2>4, <3>1
    <3> QED
      BY <1>3, <1>5, <3>2 DEF WaitersOfOneDc
  <2>11. Held'
    <3> SUFFICES ASSUME NEW x \in requestMap'
                 PROVE  /\ AtMostOne(inSession'[x] # 0, x \in batch',
                                     x \in delayed, dependent[x] # 0,
                                     Waiting(x)')
                        /\ x \notin abandoned =>
                             AtLeastOne(inSession'[x] # 0, x \in batch',
                                        x \in delayed, dependent[x] # 0,
                                        Waiting(x)')
      BY <1>4 DEF Held
    <3>1. CASE x = r
      BY <1>1, <1>5, <2>3, <2>4, <3>1 DEF AtMostOne, AtLeastOne
    <3>2. CASE x = e
      BY <2>2, <2>3, <2>5, <3>2 DEF AtMostOne, AtLeastOne
    <3>3. CASE x # r /\ x # e
      BY <1>1, <1>3, <1>5, <1>6, <2>1, <2>4, <3>3
         DEF Held, AtMostOne, AtLeastOne
    <3> QED
      BY <3>1, <3>2, <3>3
  <2>12. OneAuth'
    <3>1. \A a \in requestMap : /\ a \in requestMap' /\ a # e
                                /\ IsAuth(a)' <=> IsAuth(a)
                                /\ AuthDc(a)' = AuthDc(a)
      BY <1>6, <2>1, <2>2, <2>4 DEF IsAuth, AuthDc
    <3>2. IsAuth(e)' /\ AuthDc(e)' = newdc
      BY <2>1, <2>5 DEF IsAuth, AuthDc
    <3>3. \A a \in requestMap : IsAuth(a) => AuthDc(a) \in Dcs \ {newdc}
      BY <1>3, <2>1, AuthDcKnown DEF OneAuth
    <3>4. \A a \in requestMap' : a = e \/ a \in requestMap
      BY <2>1
    <3>5. \A a, b \in requestMap' :
             IsAuth(a)' /\ IsAuth(b)' /\ AuthDc(a)' = AuthDc(b)' => a = b
      BY <1>3, <3>1, <3>2, <3>3, <3>4 DEF OneAuth
    <3>6. \A a \in requestMap' : IsAuth(a)' => authWaiters'[AuthDc(a)'] # <<>>
      BY <1>3, <1>5, <3>1, <3>2, <3>3, <3>4 DEF OneAuth
    <3>7. \A dc \in Dcs : authWaiters'[dc] # <<>> /\ dc \notin broken' =>
             \E a \in requestMap' : IsAuth(a)' /\ AuthDc(a)' = dc
      BY <1>3, <1>4, <1>5, <2>1, <3>1, <3>2 DEF OneAuth
    <3> QED
      BY <3>5, <3>6, <3>7 DEF OneAuth
  <2> QED
    BY <1>7, <2>6, <2>7, <2>8, <2>9, <2>10, <2>11, <2>12 DEF IInv
<1> QED
  BY <1>4, <1>8, <1>9

-----------------------------------------------------------------------------
(* The main data center changes. *)

\* What the killed sessions held was held by nothing else, and the exports
\* and imports among it are under way.
LEMMA DroppedFrom ==
    ASSUME IInv, NEW newMain \in Dcs
    PROVE  /\ Killed(newMain) \subseteq ShiftedDcs
           /\ DroppedBy(newMain) \subseteq Ids
           /\ \A x \in DroppedBy(newMain) :
                /\ inSession[x] # 0 /\ kind[x] # "free"
                /\ IsAuth(x) => x \in requestMap /\ AuthDc(x) \in Dcs
<1>1. Killed(newMain) \subseteq Dcs
  BY DEF Killed, IInv, TypeOK
<1>2. \A dc \in Dcs : dc \in ShiftedDcs /\ dc # 0
  BY PlainDc, ShiftedDc
<1>3. DroppedBy(newMain) \subseteq Ids
      /\ \A x \in DroppedBy(newMain) : inSession[x] # 0
  BY <1>1, <1>2 DEF DroppedBy
<1>4. \A x \in DroppedBy(newMain) : kind[x] # "free"
  BY <1>3 DEF IInv, FreeIds
<1>5. \A x \in DroppedBy(newMain) : IsAuth(x) => x \in requestMap
  BY <1>3 DEF IInv, AuthTargets
<1> QED
  BY <1>1, <1>2, <1>3, <1>4, <1>5, AuthDcKnown

LEMMA MigrateInv ==
    ASSUME IInv, NEW r \in Ids, NEW newdc \in Migrations, Migrate(r, newdc)
    PROVE  IInv'
<1> DEFINE signed == requestsByDc[r]
<1> PICK target : target = IF signed < 0 THEN newdc
                           ELSE ShiftDcId(newdc, GetDcIdShift(signed))
  OBVIOUS
<1> PICK newMain : newMain = IF signed < 0 THEN newdc ELSE mainDc
  OBVIOUS
<1> PICK dropped : dropped = DroppedBy(newMain)
  OBVIOUS
<1>1. /\ r \in requestMap /\ kind[r] = "user" /\ r \in batch
      /\ batch' = batch \ {r} /\ errors' \in 0 .. MaxErrors
      /\ inSession[r] = 0 /\ r \notin delayed /\ dependent[r] = 0
      /\ ~Waiting(r)
      /\ signed \in SignedDcs
  <2>1. TakeError(r) /\ kind[r] = "user"
    BY DEF Migrate
  <2> QED
    BY <2>1, ErrorTaken
<1>2. /\ TypeOK /\ RegisteredTogether /\ DependentsWillBeResent
      /\ CancelFindsSession /\ FreeIds /\ AfterOlder /\ AuthTargets
      /\ WaitersOfOneDc /\ BadGuestsAreUsers /\ Held /\ OneAuth
  BY DEF IInv
<1>3. newMain \in Dcs /\ newdc \in Dcs
  BY <1>2, DcsAssumption DEF TypeOK
<1>4. /\ requestsByDc' = [requestsByDc EXCEPT
                                 ![r] = IF signed < 0 THEN -target ELSE target]
      /\ inSession' = [SessionsLeft(newMain) EXCEPT ![r] = target]
      /\ mainDc' = newMain /\ abandoned' = abandoned \cup dropped
      /\ broken' = broken \cup { AuthDc(a) : a \in { x \in dropped : IsAuth(x) } }
      /\ UNCHANGED <<kind, requestMap, parserMap, after, dependent, delayed,
                    authWaiters, authExport, badGuest>>
  BY DEF Migrate, SetMainDcId
<1>5. /\ dropped \subseteq Ids
      /\ \A x \in dropped :
            /\ inSession[x] # 0 /\ kind[x] # "free"
            /\ IsAuth(x) => x \in requestMap /\ AuthDc(x) \in Dcs
  BY <1>3, DroppedFrom
<1>6. target \in ShiftedDcs
  <2>1. signed > 0 => GetDcIdShift(signed) \in Shifts
    BY <1>1, SignedDc, ShiftedDc
  <2>2. signed < 0 \/ signed > 0
    BY <1>1, SignedDc
  <2> QED
    BY <1>3, <2>1, <2>2, PlainDc, ShiftedParts
<1>7. /\ target \in SignedDcs /\ -target \in SignedDcs
      /\ target # 0 /\ -target # 0
      /\ Abs(target) = target /\ Abs(-target) = target
  BY <1>6, ShiftedDc
<1>8. /\ requestsByDc \in [Ids -> SignedDcs \cup {0}]
      /\ inSession \in [Ids -> SignedDcs \cup {0}]
      /\ dependent \in [Ids -> Ids \cup {0}]
      /\ requestMap \subseteq Ids /\ parserMap \subseteq Ids
      /\ kind \in [Ids -> Kinds]
  BY <1>2 DEF TypeOK
<1>9. /\ requestsByDc' \in [Ids -> SignedDcs \cup {0}]
      /\ inSession' \in [Ids -> SignedDcs \cup {0}]
      /\ requestsByDc'[r] \in {target, -target} /\ inSession'[r] = target
      /\ \A x \in Ids \ {r} :
            /\ requestsByDc'[x] = requestsByDc[x]
            /\ x \notin dropped => inSession'[x] = inSession[x]
            /\ x \in dropped => inSession'[x] = 0
  BY <1>4, <1>7, <1>8 DEF SessionsLeft
<1>10. TypeOK'
  <2>1. batch' \subseteq Ids /\ abandoned' \subseteq Ids /\ broken' \subseteq Dcs
    BY <1>1, <1>2, <1>4, <1>5 DEF TypeOK
  <2> QED
    BY <1>1, <1>2, <1>3, <1>4, <1>9, <2>1 DEF TypeOK
<1>11. RegisteredTogether'
  BY <1>1, <1>2, <1>4, <1>7, <1>9 DEF RegisteredTogether
<1>12. DependentsWillBeResent'
  BY <1>2, <1>4 DEF DependentsWillBeResent
<1>13. CancelFindsSession'
  <2> SUFFICES ASSUME NEW x \in requestMap, inSession'[x] > 0
               PROVE  inSession'[x] = Abs(requestsByDc'[x])
    BY <1>4 DEF CancelFindsSession
  <2>1. CASE x = r
    BY <1>7, <1>9, <2>1
  <2>2. CASE x # r
    BY <1>2, <1>8, <1>9, <2>2 DEF CancelFindsSession
  <2> QED
    BY <2>1, <2>2
<1>14. \A x \in Ids : Waiting(x)' <=> Waiting(x)
  BY <1>4 DEF Waiting
<1>15. FreeIds'
  BY <1>1, <1>2, <1>4, <1>5, <1>9, <1>14 DEF FreeIds
<1>16. AfterOlder' /\ BadGuestsAreUsers' /\ WaitersOfOneDc'
  BY <1>2, <1>4 DEF AfterOlder, BadGuestsAreUsers, WaitersOfOneDc
<1>17. AuthTargets'
  BY <1>1, <1>2, <1>4, <1>9 DEF AuthTargets, IsAuth
<1>18. Held'
  <2> SUFFICES ASSUME NEW x \in requestMap
               PROVE  /\ AtMostOne(inSession'[x] # 0, x \in batch',
                                   x \in delayed, dependent[x] # 0,
                                   Waiting(x)')
                      /\ x \notin abandoned' =>
                           AtLeastOne(inSession'[x] # 0, x \in batch',
                                      x \in delayed, dependent[x] # 0,
                                      Waiting(x)')
    BY <1>4 DEF Held
  <2>1. CASE x = r
    BY <1>1, <1>7, <1>9, <1>14, <2>1 DEF AtMostOne, AtLeastOne
  <2>2. CASE x # r
    BY <1>1, <1>2, <1>4, <1>5, <1>8, <1>9, <1>14, <2>2
       DEF Held, AtMostOne, AtLeastOne
  <2> QED
    BY <2>1, <2>2
<1>19. OneAuth'
  <2>1. \A a \in requestMap : /\ IsAuth(a)' <=> IsAuth(a)
                              /\ IsAuth(a) => AuthDc(a)' = AuthDc(a)
    BY <1>1, <1>4, <1>8, <1>9 DEF IsAuth, AuthDc
  <2>2. requestMap' = requestMap /\ authWaiters' = authWaiters
        /\ broken \subseteq broken'
    BY <1>4
  <2> QED
    BY <1>2, <2>1, <2>2 DEF OneAuth
<1> QED
  BY <1>10, <1>11, <1>12, <1>13, <1>15, <1>16, <1>17, <1>18, <1>19 DEF IInv

-----------------------------------------------------------------------------
(* An authorization is exported and imported. *)

LEMMA ExportDoneInv == ASSUME IInv, NEW r \in Ids, ExportDone(r) PROVE IInv'
<1>1. PICK i \in Ids :
        /\ IsNextId(i)
        /\ kind' = [kind EXCEPT ![i] = "import"]
        /\ parserMap' = (parserMap \ {r}) \cup {i}
        /\ authExport' = [authExport EXCEPT ![r] = 0]
        /\ Unregister(r, requestMap \cup {i},
                      [requestsByDc EXCEPT ![i] = authExport[r]],
                      [inSession EXCEPT ![i] = authExport[r]])
  BY DEF ExportDone
<1> DEFINE target == authExport[r]
           stored == requestMap \cup {i}
           byDc == [requestsByDc EXCEPT ![i] = target]
           sessions == [inSession EXCEPT ![i] = target]
<1>2. /\ TypeOK /\ RegisteredTogether /\ DependentsWillBeResent
      /\ CancelFindsSession /\ FreeIds /\ AfterOlder /\ AuthTargets
      /\ WaitersOfOneDc /\ BadGuestsAreUsers /\ Held /\ OneAuth
  BY DEF IInv
<1>3. /\ r \in batch /\ r \in requestMap /\ kind[r] = "export"
      /\ batch' = batch \ {r}
      /\ UNCHANGED <<mainDc, after, delayed, authWaiters, badGuest, errors,
                     abandoned, broken>>
  BY <1>2 DEF ExportDone, RegisteredTogether
<1>4. /\ target \in ShiftedDcs /\ target \in SignedDcs /\ target # 0
      /\ Abs(target) = target
  BY <1>2, <1>3, ShiftedDc DEF AuthTargets
<1>5. /\ kind[i] = "free" /\ i \notin requestMap
      /\ inSession[i] = 0 /\ dependent[i] = 0 /\ authExport[i] = 0
      /\ i \notin batch /\ i \notin delayed /\ ~Waiting(i)
      /\ \A x \in Ids : kind[x] # "free" => x < i
      /\ \A x \in Ids \ {i} : kind[x] = "free" => i < x
  BY <1>1, <1>2, NextIdIsNew
<1>6. /\ i # r /\ inSession[r] = 0
      /\ requestMap \subseteq Ids /\ stored \subseteq Ids
      /\ kind \in [Ids -> Kinds]
      /\ requestsByDc \in [Ids -> SignedDcs \cup {0}]
      /\ inSession \in [Ids -> SignedDcs \cup {0}]
      /\ authExport \in [Ids -> ShiftedDcs \cup {0}]
  BY <1>2, <1>3, <1>5 DEF TypeOK, Held, AtMostOne
<1>7. /\ byDc \in [Ids -> SignedDcs \cup {0}] /\ byDc[i] = target
      /\ sessions \in [Ids -> SignedDcs \cup {0}] /\ sessions[i] = target
      /\ \A x \in Ids \ {i} : /\ byDc[x] = requestsByDc[x]
                              /\ sessions[x] = inSession[x]
  BY <1>4, <1>6
<1>8. /\ \A x \in Ids : Waiting(x)' <=> Waiting(x)
      /\ \A x \in Ids \ {r} : x \in batch' <=> x \in batch
  BY <1>3 DEF Waiting
<1>9. /\ \A x \in Ids \ {r} : x \in stored <=> byDc[x] # 0
      /\ \A x \in stored \ {r} : byDc[x] # 0
      /\ requestMap \ {r} \subseteq stored
  BY <1>2, <1>4, <1>5, <1>6, <1>7 DEF RegisteredTogether
<1> HIDE DEF stored, byDc, sessions
<1>10. Unregister(r, stored, byDc, sessions)
  BY <1>1 DEF stored, byDc, sessions
<1>11. \A x \in stored : x = i \/ x \in requestMap
  BY DEF stored
<1>12. RegisteredTogether' /\ DependentsWillBeResent' /\ CancelFindsSession'
       /\ Held'
  <2>1. \A x \in stored \ {r} : sessions[x] > 0 => sessions[x] = Abs(byDc[x])
    BY <1>2, <1>4, <1>6, <1>7, <1>11 DEF CancelFindsSession
  <2>2. ASSUME NEW x \in stored \ {r}
        PROVE  /\ AtMostOne(sessions[x] # 0, (x \in batch)', (x \in delayed)',
                            dependent[x] # 0, Waiting(x)')
               /\ (x \notin abandoned)' =>
                    AtLeastOne(sessions[x] # 0, (x \in batch)',
                               (x \in delayed)', dependent[x] # 0, Waiting(x)')
    <3>1. CASE x = i
      BY <1>3, <1>4, <1>5, <1>7, <1>8, <3>1 DEF AtMostOne, AtLeastOne
    <3>2. CASE x # i
      BY <1>2, <1>3, <1>6, <1>7, <1>8, <1>11, <3>2
         DEF Held, AtMostOne, AtLeastOne
    <3> QED
      BY <3>1, <3>2
  <2>3. parserMap' \subseteq stored \ {r}
    BY <1>1, <1>2, <1>6 DEF RegisteredTogether, stored
  <2> QED
    BY <1>6, <1>7, <1>9, <1>10, <2>1, <2>2, <2>3, UnregisterKeeps
<1>13. /\ requestMap' = stored \ {r}
       /\ requestsByDc' = [byDc EXCEPT ![r] = 0]
       /\ dependent' \in [Ids -> Ids \cup {0}]
       /\ inSession' \in [Ids -> SignedDcs \cup {0}]
       /\ inSession'[r] = sessions[r] /\ dependent'[r] = 0
       /\ \A x \in Ids \ {r} :
            \/ dependent'[x] = dependent[x] /\ inSession'[x] = sessions[x]
            \/ dependent[x] # 0 /\ dependent'[x] = 0
  BY <1>6, <1>7, <1>9, <1>10, UnregisterMoves
<1>14. /\ kind' \in [Ids -> Kinds] /\ kind'[i] = "import"
       /\ authExport' \in [Ids -> ShiftedDcs \cup {0}] /\ authExport'[r] = 0
       /\ requestsByDc' \in [Ids -> SignedDcs \cup {0}]
       /\ requestsByDc'[i] = target
       /\ \A x \in Ids \ {i} : kind'[x] = kind[x]
       /\ \A x \in Ids \ {r} : authExport'[x] = authExport[x]
       /\ \A x \in Ids \ {i, r} : requestsByDc'[x] = requestsByDc[x]
  BY <1>1, <1>6, <1>7, <1>13 DEF Kinds
<1>15. TypeOK'
  <2>1. batch' \subseteq Ids /\ parserMap' \subseteq Ids
    BY <1>1, <1>2, <1>3 DEF TypeOK
  <2> QED
    BY <1>2, <1>3, <1>6, <1>13, <1>14, <2>1 DEF TypeOK
<1>16. FreeIds'
  <2> SUFFICES ASSUME NEW x \in Ids, kind'[x] = "free"
               PROVE  /\ x \notin requestMap'
                      /\ inSession'[x] = 0 /\ dependent'[x] = 0
                      /\ authExport'[x] = 0
                      /\ x \notin batch' /\ x \notin delayed'
                      /\ ~Waiting(x)'
                      /\ \A q \in Ids : x < q => kind'[q] = "free"
    BY DEF FreeIds
  <2>1. x # i /\ kind[x] = "free" /\ x # r
    BY <1>3, <1>14
  <2>2. i < x /\ \A q \in Ids : q \in Int
    BY <1>5, <2>1 DEF Ids
  <2>3. \A q \in Ids : x < q => q # i /\ kind[q] = "free"
    BY <1>2, <2>1, <2>2 DEF FreeIds
  <2>4. /\ x \notin requestMap /\ inSession[x] = 0 /\ dependent[x] = 0
        /\ authExport[x] = 0 /\ x \notin batch /\ x \notin delayed
        /\ ~Waiting(x)
    BY <1>2, <2>1 DEF FreeIds
  <2> QED
    BY <1>3, <1>7, <1>8, <1>11, <1>13, <1>14, <2>1, <2>3, <2>4
<1>17. AfterOlder' /\ BadGuestsAreUsers'
  <2>1. AfterOlder'
    BY <1>2, <1>3 DEF AfterOlder
  <2>2. BadGuestsAreUsers'
    BY <1>2, <1>3, <1>5, <1>14 DEF BadGuestsAreUsers, TypeOK
  <2> QED
    BY <2>1, <2>2
<1>18. AuthTargets'
  <2> SUFFICES ASSUME NEW x \in Ids
               PROVE  /\ kind'[x] = "export" /\ x \in requestMap' =>
                            authExport'[x] \in ShiftedDcs
                      /\ kind'[x] = "import" /\ x \in requestMap' =>
                            requestsByDc'[x] \in ShiftedDcs
                      /\ IsAuth(x)' /\ x \notin requestMap' => inSession'[x] = 0
    BY DEF AuthTargets
  <2>1. CASE x = r
    BY <1>6, <1>7, <1>13, <2>1
  <2>2. CASE x = i
    BY <1>4, <1>6, <1>13, <1>14, <2>2 DEF stored
  <2>3. CASE x # r /\ x # i
    <3>1. /\ kind'[x] = kind[x] /\ authExport'[x] = authExport[x]
          /\ requestsByDc'[x] = requestsByDc[x]
          /\ x \in requestMap' <=> x \in requestMap
          /\ dependent[x] # 0 => x \in requestMap
      BY <1>2, <1>13, <1>14, <2>3 DEF stored, DependentsWillBeResent
    <3>2. x \notin requestMap => inSession'[x] = inSession[x]
      BY <1>7, <1>13, <2>3, <3>1
    <3> QED
      BY <1>2, <3>1, <3>2 DEF AuthTargets, IsAuth
  <2> QED
    BY <2>1, <2>2, <2>3
<1>19. WaitersOfOneDc'
  <2>1. \A dc \in Dcs : \A j \in DOMAIN authWaiters[dc] :
            authWaiters[dc][j] \in Ids \ {i}
    BY <1>2, <1>5 DEF TypeOK, Waiting
  <2>2. \A x \in Ids \ {i} : x \in requestMap' => x \in requestMap
    BY <1>11, <1>13
  <2> QED
    BY <1>2, <1>3, <1>14, <2>1, <2>2 DEF WaitersOfOneDc
<1>20. OneAuth'
  <2>1. \A a \in requestMap' : a = i \/ (a \in requestMap /\ a # r /\ a # i)
    BY <1>5, <1>11, <1>13
  <2>2. i \in requestMap'
        /\ \A a \in requestMap : a # r => a \in requestMap' /\ a # i
    BY <1>5, <1>6, <1>13 DEF stored
  <2>3. \A a \in requestMap : a # r => /\ IsAuth(a)' <=> IsAuth(a)
                                       /\ AuthDc(a)' = AuthDc(a)
    BY <1>5, <1>6, <1>14 DEF IsAuth, AuthDc
  <2>4. IsAuth(i)' /\ IsAuth(r) /\ AuthDc(i)' = AuthDc(r)
    BY <1>3, <1>14 DEF IsAuth, AuthDc
  <2>5. \A a, b \in requestMap' :
            IsAuth(a)' /\ IsAuth(b)' /\ AuthDc(a)' = AuthDc(b)' => a = b
    BY <1>2, <1>3, <2>1, <2>3, <2>4 DEF OneAuth
  <2>6. \A a \in requestMap' : IsAuth(a)' => authWaiters'[AuthDc(a)'] # <<>>
    BY <1>2, <1>3, <2>1, <2>3, <2>4 DEF OneAuth
  <2>7. ASSUME NEW dc \in Dcs, authWaiters'[dc] # <<>>, dc \notin broken'
        PROVE  \E a \in requestMap' : IsAuth(a)' /\ AuthDc(a)' = dc
    <3>1. PICK a \in requestMap : IsAuth(a) /\ AuthDc(a) = dc
      BY <1>2, <1>3, <2>7 DEF OneAuth
    <3>2. CASE a = r
      BY <2>2, <2>4, <3>1, <3>2
    <3>3. CASE a # r
      BY <2>2, <2>3, <3>1, <3>3
    <3> QED
      BY <3>2, <3>3
  <2> QED
    BY <2>5, <2>6, <2>7 DEF OneAuth
<1> QED
  BY <1>12, <1>15, <1>16, <1>17, <1>18, <1>19, <1>20 DEF IInv

LEMMA ImportDoneInv == ASSUME IInv, NEW r \in Ids, ImportDone(r) PROVE IInv'
<1> DEFINE newdc == BareDcId(requestsByDc[r])
           waiters == authWaiters[newdc]
           found == { i \in DOMAIN waiters :
                        waiters[i] \in requestMap
                            /\ requestsByDc[waiters[i]] # 0 }
           resent == { waiters[i] : i \in found }
           target(x) == ChangedDc(requestsByDc[x], newdc)
           switches == { i \in found : requestsByDc[waiters[i]] < 0 }
           newMain == IF switches = {} THEN mainDc ELSE newdc
           late == { waiters[i] : i \in { j \in found :
                            /\ target(waiters[j]) \in Killed(newMain)
                            /\ \E k \in switches : j < k
                            /\ ~ \E k \in switches : k < j } }
           dropped == DroppedBy(newMain) \cup late
           byDc == [x \in Ids |-> IF x \in resent THEN target(x)
                                                  ELSE requestsByDc[x]]
           sessions == [x \in Ids |-> IF x \in dropped THEN 0
                                      ELSE IF x \in resent THEN target(x)
                                      ELSE inSession[x]]
<1>1. /\ TypeOK /\ RegisteredTogether /\ DependentsWillBeResent
      /\ CancelFindsSession /\ FreeIds /\ AfterOlder /\ AuthTargets
      /\ WaitersOfOneDc /\ BadGuestsAreUsers /\ Held /\ OneAuth
  BY DEF IInv
<1>2. /\ r \in batch /\ r \in requestMap /\ kind[r] = "import"
      /\ batch' = batch \ {r} /\ parserMap' = parserMap \ {r}
      /\ authWaiters' = [authWaiters EXCEPT ![newdc] = <<>>]
      /\ mainDc' = newMain /\ abandoned' = abandoned \cup dropped
      /\ broken' = broken \cup { AuthDc(a) : a \in { x \in dropped : IsAuth(x) } }
      /\ Unregister(r, requestMap, byDc, sessions)
      /\ UNCHANGED <<kind, after, delayed, authExport, badGuest, errors>>
  BY <1>1 DEF ImportDone, SetMainDcId, RegisteredTogether
<1>3. newdc \in Dcs /\ AuthDc(r) = newdc /\ IsAuth(r) /\ newMain \in Dcs
  <2>1. IsAuth(r) /\ AuthDc(r) = newdc
    BY <1>2 DEF IsAuth, AuthDc
  <2> QED
    BY <1>1, <1>2, <2>1, AuthDcKnown DEF TypeOK
<1>4. /\ requestMap \subseteq Ids
      /\ kind \in [Ids -> Kinds] /\ authWaiters \in [Dcs -> Seq(Ids)]
      /\ requestsByDc \in [Ids -> SignedDcs \cup {0}]
      /\ inSession \in [Ids -> SignedDcs \cup {0}]
  BY <1>1 DEF TypeOK
<1>5. \A x \in resent :
        /\ x \in requestMap /\ x \in Ids /\ kind[x] = "user" /\ x # r
        /\ Waiting(x) /\ requestsByDc[x] \in SignedDcs
  <2>1. \A i \in found : /\ waiters[i] \in requestMap
                         /\ kind[waiters[i]] = "user"
                         /\ requestsByDc[waiters[i]] # 0
                         /\ Waiting(waiters[i])
    BY <1>1, <1>3 DEF WaitersOfOneDc, Waiting
  <2> QED
    BY <1>2, <1>4, <2>1
<1>6. \A x \in resent : /\ target(x) \in SignedDcs /\ target(x) # 0
                        /\ inSession[x] = 0 /\ dependent[x] = 0
                        /\ x \notin batch /\ x \notin delayed
  <2>1. \A x \in resent : target(x) \in SignedDcs
    BY <1>3, <1>5, ChangedTarget
  <2>2. \A x \in resent : /\ inSession[x] = 0 /\ dependent[x] = 0
                          /\ x \notin batch /\ x \notin delayed
    BY <1>1, <1>5 DEF Held, AtMostOne
  <2> QED
    BY <2>1, <2>2, SignedDc
<1>7. \A x \in requestMap : Waiting(x)' <=> Waiting(x) /\ x \notin resent
  <2> SUFFICES ASSUME NEW x \in requestMap
               PROVE  Waiting(x)' <=> Waiting(x) /\ x \notin resent
    OBVIOUS
  <2>1. \A dc \in Dcs : authWaiters'[dc] = IF dc = newdc THEN <<>>
                                                         ELSE authWaiters[dc]
    BY <1>2, <1>4
  <2>2. ASSUME Waiting(x)' PROVE Waiting(x) /\ x \notin resent
    <3>1. PICK dc \in Dcs : \E i \in DOMAIN authWaiters'[dc] :
                                authWaiters'[dc][i] = x
      BY <2>2 DEF Waiting
    <3>2. dc # newdc /\ \E i \in DOMAIN authWaiters[dc] : authWaiters[dc][i] = x
      BY <2>1, <3>1
    <3>3. ASSUME x \in resent PROVE FALSE
      <4>1. PICK j \in DOMAIN authWaiters[newdc] : authWaiters[newdc][j] = x
        BY <3>3
      <4> QED
        BY <1>1, <1>3, <3>2, <4>1 DEF WaitersOfOneDc
    <3> QED
      BY <3>2, <3>3 DEF Waiting
  <2>3. ASSUME Waiting(x), x \notin resent PROVE Waiting(x)'
    <3>1. PICK dc \in Dcs : \E i \in DOMAIN authWaiters[dc] :
                                authWaiters[dc][i] = x
      BY <2>3 DEF Waiting
    <3>2. requestsByDc[x] # 0
      BY <1>1, <1>4 DEF RegisteredTogether
    <3>3. dc # newdc
      BY <2>3, <3>1, <3>2
    <3> QED
      BY <2>1, <3>1, <3>3 DEF Waiting
  <2> QED
    BY <2>2, <2>3
<1>8. /\ \A x \in DroppedBy(newMain) :
            /\ x \in Ids /\ inSession[x] # 0 /\ kind[x] # "free"
            /\ IsAuth(x) => x \in requestMap /\ AuthDc(x) \in Dcs
      /\ late \subseteq resent
  <2>1. late \subseteq resent
    OBVIOUS
  <2> HIDE DEF newMain
  <2> QED
    BY <1>3, <2>1, DroppedFrom
<1>9. /\ dropped \subseteq Ids /\ r \notin dropped
      /\ \A x \in dropped : /\ x \in resent \/ inSession[x] # 0
                            /\ kind[x] # "free"
                            /\ IsAuth(x) => AuthDc(x) \in Dcs
  <2>1. inSession[r] = 0
    BY <1>1, <1>2 DEF Held, AtMostOne
  <2> QED
    BY <1>5, <1>8, <2>1 DEF IsAuth
<1>10. broken' \subseteq Dcs /\ broken \subseteq broken'
       /\ abandoned' \subseteq Ids
  <2> HIDE DEF dropped
  <2> QED
    BY <1>1, <1>2, <1>9 DEF TypeOK
<1> HIDE DEF newMain, dropped, target, resent, newdc
<1>11. /\ byDc \in [Ids -> SignedDcs \cup {0}]
       /\ sessions \in [Ids -> SignedDcs \cup {0}]
       /\ \A x \in Ids :
            /\ x \in resent => byDc[x] = target(x)
            /\ x \notin resent => byDc[x] = requestsByDc[x]
            /\ x \in dropped => sessions[x] = 0
            /\ x \notin dropped /\ x \in resent => sessions[x] = target(x)
            /\ x \notin dropped /\ x \notin resent => sessions[x] = inSession[x]
  BY <1>4, <1>6
<1> HIDE DEF byDc, sessions
<1>12. /\ \A x \in Ids \ {r} : x \in requestMap <=> byDc[x] # 0
       /\ \A x \in requestMap \ {r} : byDc[x] # 0
       /\ requestMap \ {r} \subseteq requestMap
  BY <1>1, <1>4, <1>5, <1>6, <1>11 DEF RegisteredTogether
<1>13. RegisteredTogether' /\ DependentsWillBeResent' /\ CancelFindsSession'
       /\ Held'
  <2>1. ASSUME NEW x \in requestMap \ {r}, sessions[x] > 0
        PROVE  sessions[x] = Abs(byDc[x])
    <3>1. CASE x \in resent /\ x \notin dropped
      <4>1. sessions[x] = target(x) /\ byDc[x] = target(x)
        BY <1>4, <1>11, <3>1
      <4> QED
        BY <1>6, <2>1, <3>1, <4>1, SignedDc, ShiftedDc
    <3>2. CASE x \notin resent /\ x \notin dropped
      <4>1. sessions[x] = inSession[x] /\ byDc[x] = requestsByDc[x]
        BY <1>4, <1>11, <3>2
      <4> QED
        BY <1>1, <2>1, <4>1 DEF CancelFindsSession
    <3>3. x \notin dropped
      BY <1>4, <1>11, <2>1
    <3> QED
      BY <3>1, <3>2, <3>3
  <2>2. ASSUME NEW x \in requestMap \ {r}
        PROVE  /\ AtMostOne(sessions[x] # 0, (x \in batch)', (x \in delayed)',
                            dependent[x] # 0, Waiting(x)')
               /\ (x \notin abandoned)' =>
                    AtLeastOne(sessions[x] # 0, (x \in batch)',
                               (x \in delayed)', dependent[x] # 0, Waiting(x)')
    <3>1. /\ x \in Ids /\ (x \in batch' <=> x \in batch) /\ delayed' = delayed
          /\ x \in dropped => x \in abandoned'
          /\ x \in abandoned => x \in abandoned'
          /\ Waiting(x)' <=> Waiting(x) /\ x \notin resent
      BY <1>2, <1>4, <1>7
    <3>2. CASE x \in resent
      BY <1>6, <1>11, <3>1, <3>2 DEF AtMostOne, AtLeastOne
    <3>3. CASE x \notin resent /\ x \in dropped
      BY <1>1, <1>9, <1>11, <3>1, <3>3 DEF Held, AtMostOne, AtLeastOne
    <3>4. CASE x \notin resent /\ x \notin dropped
      BY <1>1, <1>11, <3>1, <3>4 DEF Held, AtMostOne, AtLeastOne
    <3> QED
      BY <3>2, <3>3, <3>4
  <2>3. parserMap' \subseteq requestMap \ {r}
    BY <1>1, <1>2 DEF RegisteredTogether
  <2> QED
    BY <1>2, <1>4, <1>11, <1>12, <2>1, <2>2, <2>3, UnregisterKeeps
<1>14. /\ requestMap' = requestMap \ {r}
       /\ requestsByDc' = [byDc EXCEPT ![r] = 0]
       /\ dependent' \in [Ids -> Ids \cup {0}]
       /\ inSession' \in [Ids -> SignedDcs \cup {0}]
       /\ inSession'[r] = sessions[r] /\ dependent'[r] = 0
       /\ \A x \in Ids \ {r} :
            \/ dependent'[x] = dependent[x] /\ inSession'[x] = sessions[x]
            \/ dependent[x] # 0 /\ dependent'[x] = 0
  BY <1>2, <1>4, <1>11, <1>12, UnregisterMoves
<1>15. /\ requestsByDc' \in [Ids -> SignedDcs \cup {0}]
       /\ \A x \in Ids \ {r} : x \notin resent =>
                                requestsByDc'[x] = requestsByDc[x]
       /\ authWaiters' \in [Dcs -> Seq(Ids)] /\ authWaiters'[newdc] = <<>>
       /\ \A dc \in Dcs \ {newdc} : authWaiters'[dc] = authWaiters[dc]
  <2>1. <<>> \in Seq(Ids)
    OBVIOUS
  <2> QED
    BY <1>2, <1>3, <1>4, <1>11, <1>14, <2>1
<1>16. TypeOK'
  <2>1. batch' \subseteq Ids /\ parserMap' \subseteq Ids
    BY <1>1, <1>2 DEF TypeOK
  <2> QED
    BY <1>1, <1>2, <1>3, <1>10, <1>14, <1>15, <2>1 DEF TypeOK
<1>17. FreeIds'
  <2> SUFFICES ASSUME NEW x \in Ids, kind[x] = "free"
               PROVE  /\ x \notin requestMap'
                      /\ inSession'[x] = 0 /\ dependent'[x] = 0
                      /\ authExport'[x] = 0
                      /\ x \notin batch' /\ x \notin delayed'
                      /\ ~Waiting(x)'
                      /\ \A q \in Ids : x < q => kind[q] = "free"
    BY <1>2 DEF FreeIds
  <2>1. x # r /\ x \notin resent /\ x \notin dropped
    BY <1>2, <1>5, <1>9
  <2>2. /\ x \notin requestMap /\ inSession[x] = 0 /\ dependent[x] = 0
        /\ authExport[x] = 0 /\ x \notin batch /\ x \notin delayed
        /\ ~Waiting(x) /\ \A q \in Ids : x < q => kind[q] = "free"
    BY <1>1 DEF FreeIds
  <2>3. ~Waiting(x)'
    BY <1>15, <2>2 DEF Waiting
  <2> QED
    BY <1>2, <1>11, <1>14, <2>1, <2>2, <2>3
<1>18. AfterOlder' /\ BadGuestsAreUsers'
  BY <1>1, <1>2 DEF AfterOlder, BadGuestsAreUsers
<1>19. AuthTargets'
  <2> SUFFICES ASSUME NEW x \in Ids
               PROVE  /\ kind'[x] = "export" /\ x \in requestMap' =>
                            authExport'[x] \in ShiftedDcs
                      /\ kind'[x] = "import" /\ x \in requestMap' =>
                            requestsByDc'[x] \in ShiftedDcs
                      /\ IsAuth(x)' /\ x \notin requestMap' => inSession'[x] = 0
    BY DEF AuthTargets
  <2>1. CASE x = r
    <3>1. inSession'[r] = 0
      BY <1>1, <1>2, <1>5, <1>9, <1>11, <1>14 DEF Held, AtMostOne
    <3> QED
      BY <1>14, <2>1, <3>1
  <2>2. CASE x # r
    <3>1. /\ kind' = kind /\ authExport' = authExport
          /\ x \in requestMap' <=> x \in requestMap
          /\ dependent[x] # 0 => x \in requestMap
      BY <1>1, <1>2, <1>14, <2>2 DEF DependentsWillBeResent
    <3>2. IsAuth(x) => x \notin resent
      BY <1>5 DEF IsAuth
    <3>3. IsAuth(x) /\ x \notin requestMap =>
            inSession'[x] = 0 \/ inSession'[x] = inSession[x]
      BY <1>11, <1>14, <2>2, <3>1, <3>2
    <3> QED
      BY <1>1, <1>15, <2>2, <3>1, <3>2, <3>3 DEF AuthTargets, IsAuth
  <2> QED
    BY <2>1, <2>2
<1>20. WaitersOfOneDc'
  <2>1. \A dc \in Dcs : authWaiters'[dc] = authWaiters[dc] \/ authWaiters'[dc] = <<>>
    BY <1>15
  <2> QED
    BY <1>1, <1>2, <1>14, <2>1 DEF WaitersOfOneDc
<1>21. OneAuth'
  <2>1. \A a \in requestMap' : a \in requestMap /\ a # r
    BY <1>14
  <2>2. \A a \in requestMap : a # r => /\ a \in requestMap'
                                       /\ IsAuth(a)' <=> IsAuth(a)
                                       /\ IsAuth(a) => AuthDc(a)' = AuthDc(a)
    BY <1>2, <1>4, <1>5, <1>14, <1>15 DEF IsAuth, AuthDc
  <2>3. \A a \in requestMap : a # r /\ IsAuth(a) => AuthDc(a) \in Dcs \ {newdc}
    BY <1>1, <1>2, <1>3, AuthDcKnown DEF OneAuth
  <2>4. \A a, b \in requestMap' :
            IsAuth(a)' /\ IsAuth(b)' /\ AuthDc(a)' = AuthDc(b)' => a = b
    BY <1>1, <2>1, <2>2 DEF OneAuth
  <2>5. \A a \in requestMap' : IsAuth(a)' => authWaiters'[AuthDc(a)'] # <<>>
    BY <1>1, <1>15, <2>1, <2>2, <2>3 DEF OneAuth
  <2>6. ASSUME NEW dc \in Dcs, authWaiters'[dc] # <<>>, dc \notin broken'
        PROVE  \E a \in requestMap' : IsAuth(a)' /\ AuthDc(a)' = dc
    <3>1. dc # newdc /\ authWaiters[dc] # <<>> /\ dc \notin broken
      BY <1>10, <1>15, <2>6
    <3>2. PICK a \in requestMap : IsAuth(a) /\ AuthDc(a) = dc
      BY <1>1, <3>1 DEF OneAuth
    <3>3. a # r
      BY <1>3, <3>1, <3>2
    <3> QED
      BY <2>2, <3>2, <3>3
  <2> QED
    BY <2>4, <2>5, <2>6 DEF OneAuth
<1> QED
  BY <1>13, <1>16, <1>17, <1>18, <1>19, <1>20, <1>21 DEF IInv

-----------------------------------------------------------------------------
(* The invariant. *)

LEMMA InitInv == Init => IInv
<1> SUFFICES ASSUME Init PROVE IInv
  OBVIOUS
<1>1. \A r \in Ids : ~Waiting(r)
  BY DEF Init, Waiting
<1>2. TypeOK
  BY DcsAssumption, ErrorsAssumption DEF Init, TypeOK, Kinds
<1>3. /\ RegisteredTogether /\ DependentsWillBeResent
      /\ CancelFindsSession /\ AfterOlder /\ AuthTargets
      /\ WaitersOfOneDc /\ BadGuestsAreUsers /\ Held /\ OneAuth
  BY DEF Init, RegisteredTogether, DependentsWillBeResent, CancelFindsSession,
         AfterOlder, AuthTargets, IsAuth, WaitersOfOneDc, BadGuestsAreUsers,
         Held, OneAuth
<1>4. FreeIds
  BY <1>1 DEF Init, FreeIds
<1> QED
  BY <1>2, <1>3, <1>4 DEF IInv

LEMMA StepInv == IInv /\ [Next]_vars => IInv'
<1> SUFFICES ASSUME IInv, [Next]_vars PROVE IInv'
  OBVIOUS
<1>1. CASE Callers
  <2>1. ASSUME NEW r \in Ids, NEW d \in Targets,
               d = 0 /\ SendRequest(r, d, FALSE, 0)
        PROVE  IInv'
    BY <2>1, SendInv
  <2>2. ASSUME NEW r \in Ids, NEW d \in Targets,
               NEW afterId \in {0} \cup { q \in Ids : kind[q] = "user" },
               SendRequest(r, d, TRUE, afterId)
        PROVE  IInv'
    BY <2>2, SendInv
  <2>3. ASSUME NEW r \in Ids, Cancel(r) PROVE IInv'
    BY <2>3, CancelInv
  <2> QED
    BY <1>1, <2>1, <2>2, <2>3 DEF Callers
<1>2. CASE Answers
  <2> PICK r \in Ids :
        \/ UserAnswered(r) \/ BadGuestAgain(r) \/ ImportFail(r) \/ ExportFail(r)
        \/ MsgWait(r) \/ Delay(r) \/ NotInited(r)
        \/ ExportDone(r) \/ ImportDone(r)
        \/ \E newdc \in Migrations : Migrate(r, newdc)
        \/ Unauthorized(r, FALSE) \/ Unauthorized(r, TRUE)
    BY <1>2 DEF Answers
  <2>1. CASE UserAnswered(r) \/ BadGuestAgain(r) \/ ImportFail(r) \/ ExportFail(r)
    BY <2>1, AnsweredInv
  <2>2. CASE MsgWait(r) \/ Delay(r) \/ NotInited(r)
    BY <2>2, SentAgainInv
  <2>3. CASE ExportDone(r) \/ ImportDone(r)
    BY <2>3, ExportDoneInv, ImportDoneInv
  <2>4. CASE \E newdc \in Migrations : Migrate(r, newdc)
    BY <2>4, MigrateInv
  <2>5. CASE Unauthorized(r, FALSE) \/ Unauthorized(r, TRUE)
    BY <2>5, UnauthorizedInv
  <2> QED
    BY <2>1, <2>2, <2>3, <2>4, <2>5
<1>3. CASE Receives
  BY <1>3, TryToReceiveInv DEF Receives
<1>4. CASE Timer
  BY <1>4, CheckDelayedInv DEF Timer
<1>5. CASE UNCHANGED vars
  <2>1. TypeOK' /\ RegisteredTogether' /\ DependentsWillBeResent'
        /\ CancelFindsSession'
    BY <1>5 DEF vars, IInv, TypeOK, RegisteredTogether, DependentsWillBeResent,
                CancelFindsSession
  <2>2. \A x \in Ids : Waiting(x)' <=> Waiting(x)
    BY <1>5 DEF vars, Waiting
  <2>3. FreeIds' /\ AfterOlder' /\ AuthTargets' /\ WaitersOfOneDc'
        /\ BadGuestsAreUsers'
    BY <1>5, <2>2 DEF vars, IInv, FreeIds, AfterOlder, AuthTargets, IsAuth,
                      WaitersOfOneDc, BadGuestsAreUsers
  <2>4. Held'
    BY <1>5, <2>2 DEF vars, IInv, TypeOK, Held, AtMostOne, AtLeastOne
  <2>5. OneAuth'
    BY <1>5 DEF vars, IInv, OneAuth, IsAuth, AuthDc
  <2> QED
    BY <2>1, <2>3, <2>4, <2>5 DEF IInv
<1> QED
  BY <1>1, <1>2, <1>3, <1>4, <1>5 DEF Next

THEOREM Invariance == Spec => []IInv
<1> QED
  BY InitInv, StepInv, PTL DEF Spec

-----------------------------------------------------------------------------
(* The theorems. *)

\* The registry's state has its type.
THEOREM TypeCorrect == Spec => []TypeOK
<1>1. IInv => TypeOK
  BY DEF IInv
<1> QED
  BY <1>1, Invariance, PTL

\* _requestMap and _requestsByDc name the same requests, and only these have
\* handlers: the early return of unregisterRequest() is never taken.
THEOREM MapsTogether == Spec => []RegisteredTogether
<1>1. IInv => RegisteredTogether
  BY DEF IInv
<1> QED
  BY <1>1, Invariance, PTL

\* At most one place of five makes at most one holder, and at least one of
\* them exactly one.
LEMMA CountHeld ==
    ASSUME NEW r,
           AtMostOne(inSession[r] # 0, r \in batch, r \in delayed,
                     dependent[r] # 0, Waiting(r))
    PROVE  /\ Holders(r) <= 1
           /\ AtLeastOne(inSession[r] # 0, r \in batch, r \in delayed,
                         dependent[r] # 0, Waiting(r)) => Holders(r) = 1
BY DEF Holders, AtMostOne, AtLeastOne

\* A registered request is in one place, whatever errors, migrations and
\* cancellations it went through; only a dropped one may be in none.
THEOREM OneHolder == Spec => []HeldOnce
<1>1. IInv => HeldOnce
  <2> SUFFICES ASSUME IInv, NEW r \in requestMap
               PROVE  IF r \in abandoned THEN Holders(r) <= 1
                                         ELSE Holders(r) = 1
    BY DEF HeldOnce
  <2>1. /\ AtMostOne(inSession[r] # 0, r \in batch, r \in delayed,
                     dependent[r] # 0, Waiting(r))
        /\ r \notin abandoned =>
             AtLeastOne(inSession[r] # 0, r \in batch, r \in delayed,
                        dependent[r] # 0, Waiting(r))
    BY DEF IInv, Held
  <2> QED
    BY <2>1, CountHeld
<1> QED
  BY <1>1, Invariance, PTL

\* What a request waits for is registered and older than the request, so
\* unregisterRequest() comes to every waiting request in the end.
THEOREM DependentsServed == Spec => []DependentsWillBeResent
<1>1. IInv => DependentsWillBeResent
  BY DEF IInv
<1> QED
  BY <1>1, Invariance, PTL

\* At most one export or import is under way for a data center, and one is
\* when requests wait there, unless one came to nothing.
THEOREM SingleAuth == Spec => []OneAuthPerDc
<1>1. IInv => OneAuthPerDc
  <2> SUFFICES ASSUME IInv, NEW dc \in Dcs
               PROVE  LET under == { a \in requestMap :
                                        IsAuth(a) /\ AuthDc(a) = dc }
                      IN  /\ Cardinality(under) <= 1
                          /\ under # {} => authWaiters[dc] # <<>>
                          /\ authWaiters[dc] # <<>> => under # {} \/ dc \in broken
    BY DEF OneAuthPerDc
  <2> DEFINE under == { a \in requestMap : IsAuth(a) /\ AuthDc(a) = dc }
  <2>1. OneAuth
    BY DEF IInv
  <2>2. \A a, b \in under : a = b
    BY <2>1 DEF OneAuth
  <2>3. Cardinality(under) <= 1
    <3> HIDE DEF under
    <3>1. CASE under = {}
      BY <3>1, FS_EmptySet
    <3>2. CASE \E a : a \in under
      <4>1. PICK a : a \in under
        BY <3>2
      <4>2. under = {a}
        BY <2>2, <4>1
      <4>3. Cardinality({a}) = 1
        BY FS_Singleton, Zenon
      <4> QED
        BY <4>2, <4>3
    <3> QED
      BY <3>1, <3>2
  <2>4. under # {} => authWaiters[dc] # <<>>
    BY <2>1 DEF OneAuth
  <2>5. authWaiters[dc] # <<>> => under # {} \/ dc \in broken
    BY <2>1 DEF OneAuth
  <2> QED
    BY <2>3, <2>4, <2>5
<1> QED
  BY <1>1, Invariance, PTL

\* cancel() asks the session that has the request.
THEOREM CancelFinds == Spec => []CancelFindsSession
<1>1. IInv => CancelFindsSession
  BY DEF IInv
<1> QED
  BY <1>1, Invariance, PTL

=============================================================================
