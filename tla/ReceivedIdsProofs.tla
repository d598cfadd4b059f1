------------------------- MODULE ReceivedIdsProofs -------------------------
(***************************************************************************)
(* The window of received message ids works for every buffer size and every*)
(* set of message ids: no message is handled twice in a session, a session *)
(* is reset only for a message that a full window has overtaken, and acks  *)
(* are sent only for messages that were handled or that a packet ended at. *)
(***************************************************************************)
EXTENDS ReceivedIds, FiniteSetTheorems, TLAPS

\* What makes the window work: an id that was given to its handler and is not
\* in the map is older than the whole map, and the map is full.
ForgottenAreOlder ==
    \A i \in Ids : (tried[i] > 0 /\ i \notin idsNeedAck) =>
        /\ Cardinality(idsNeedAck) >= IdsBufferSize
        /\ \A j \in idsNeedAck : i < j

KnownAreTried == \A i \in idsNeedAck : tried[i] = 1

\* A packet that is to reset the session has ended; the message that was too
\* old is one it ended at, and is older than a full map.
ResetEnds ==
    /\ needReset => packet = "shrink"
    /\ tooOld # NoId =>
        /\ needReset
        /\ Cardinality(idsNeedAck) >= IdsBufferSize
        /\ \A j \in idsNeedAck : tooOld < j

\* Of the acks only that message may neither have been given to its handler
\* nor have been cut off.
AcksTried == \A i \in acks : tried[i] > 0 \/ i \in failed \/ i = tooOld

IInv ==
    /\ TypeOK /\ HandledOnce /\ ForgottenAreOlder /\ KnownAreTried
    /\ ResetEnds /\ AcksTried

-----------------------------------------------------------------------------

\* The empty map of a new session satisfies the invariant.
LEMMA InitInv == Init => IInv
<1> SUFFICES ASSUME Init PROVE IInv
  OBVIOUS
<1>1. IsFiniteSet({})
  BY FS_EmptySet
<1>2. TypeOK
  BY <1>1 DEF Init, TypeOK
<1>3. HandledOnce /\ ForgottenAreOlder /\ KnownAreTried
  BY DEF Init, HandledOnce, ForgottenAreOlder, KnownAreTried
<1>4. ~needReset /\ ResetEnds /\ AcksTried
  BY DEF Init, ResetEnds, AcksTried
<1> QED
  BY <1>2, <1>3, <1>4 DEF IInv

\* An id that registerMsgId() takes for new was not given to its handler in
\* this session: those that were are known, or older than a full map.
LEMMA NewIsNotTried ==
    ASSUME IInv, NEW i \in Ids, IsNew(i)
    PROVE  tried[i] = 0
<1>1. tried[i] \in Nat /\ Cardinality(idsNeedAck) \in Nat
      /\ IdsBufferSize \in Nat /\ i \in Nat /\ i \notin idsNeedAck
  BY FS_CardinalityType, ReceivedIdsAssumption DEF IInv, TypeOK, IsNew
<1>2. SUFFICES ASSUME tried[i] > 0 PROVE FALSE
  BY <1>1
<1>3. Cardinality(idsNeedAck) >= IdsBufferSize /\ \A j \in idsNeedAck : i < j
  BY <1>1, <1>2 DEF IInv, ForgottenAreOlder
<1>4. PICK m \in idsNeedAck : i > m
  BY <1>1, <1>3 DEF IsNew
<1> QED
  BY <1>1, <1>3, <1>4, ReceivedIdsAssumption DEF IInv, TypeOK

\* An id that is too old is older than a full map.
LEMMA TooOldIsOlder ==
    ASSUME IInv, NEW i \in Ids, IsTooOld(i)
    PROVE  /\ Cardinality(idsNeedAck) >= IdsBufferSize
           /\ \A j \in idsNeedAck : i < j
<1>1. Cardinality(idsNeedAck) \in Nat /\ IdsBufferSize \in Nat
      /\ idsNeedAck \subseteq Nat /\ i \in Nat /\ i \notin idsNeedAck
  BY FS_CardinalityType, ReceivedIdsAssumption DEF IInv, TypeOK, IsTooOld
<1>2. Cardinality(idsNeedAck) >= IdsBufferSize
  BY <1>1 DEF IsTooOld, IsNew
<1>3. \A j \in idsNeedAck : i < j
  BY <1>1 DEF IsTooOld, IsNew
<1> QED
  BY <1>2, <1>3

-----------------------------------------------------------------------------

\* Registering an id, alone or in a container, keeps the invariant, provided
\* the packet goes on only if the id was not too old and did not reset the
\* session.
LEMMA RegisterInv ==
    ASSUME IInv, NEW i \in Ids, NEW needAck \in BOOLEAN,
           NEW about \in Ids \cup {NoId}, NEW result \in Results,
           Register(i, needAck, about, result),
           packet # "shrink", outer' \in Ids,
           packet' \in {"open", "shrink"},
           EndsPacket(i, result) => packet' = "shrink"
    PROVE  IInv'
<1>1. /\ Cardinality(idsNeedAck) \in Nat /\ IdsBufferSize \in Nat \ {0}
      /\ idsNeedAck \subseteq Nat /\ Ids \subseteq Nat /\ i \in Nat
      /\ IsFiniteSet(idsNeedAck) /\ NoId \notin Ids
  BY FS_CardinalityType, ReceivedIdsAssumption DEF IInv, TypeOK
<1>2. tooOld = NoId /\ ~needReset
  BY DEF IInv, ResetEnds
<1>3. needReset' \in BOOLEAN /\ (needReset' => packet' = "shrink")
  BY DEF Register, EndsPacket
<1>4. failed' \subseteq Ids /\ failed \subseteq failed' \cup {i}
      /\ (i \in failed => i \in failed' \/ IsNew(i))
  BY DEF Register, IInv, TypeOK
<1>5. CASE IsNew(i)
  <2>1. tried[i] = 0
    BY <1>5, NewIsNotTried
  <2>2. /\ idsNeedAck' = idsNeedAck \cup {i} /\ i \notin idsNeedAck
        /\ tried' = [tried EXCEPT ![i] = 1]
        /\ tooOld' = NoId
    BY <1>2, <1>5, <2>1 DEF Register, IsTooOld, IsNew, IInv, TypeOK
  <2>3. /\ IsFiniteSet(idsNeedAck')
        /\ Cardinality(idsNeedAck') = Cardinality(idsNeedAck) + 1
    BY <1>1, <2>2, FS_AddElement
  <2>4. \A k \in Ids : tried'[k] = IF k = i THEN 1 ELSE tried[k]
    BY <2>2 DEF IInv, TypeOK
  <2>5. acks' \subseteq acks \cup idsNeedAck' /\ resend' \subseteq Ids
    BY <1>5, <2>2 DEF Register, ToldKnown, ToldUnknown, IInv, TypeOK
  <2>6. TypeOK'
    BY <1>3, <1>4, <2>2, <2>3, <2>5 DEF IInv, TypeOK
  <2>7. HandledOnce' /\ KnownAreTried'
    BY <2>2, <2>4 DEF IInv, TypeOK, HandledOnce, KnownAreTried
  <2>8. ForgottenAreOlder'
    <3> SUFFICES ASSUME NEW k \in Ids, tried'[k] > 0, k \notin idsNeedAck'
                 PROVE  /\ Cardinality(idsNeedAck') >= IdsBufferSize
                        /\ \A j \in idsNeedAck' : k < j
      BY DEF ForgottenAreOlder
    <3>1. Cardinality(idsNeedAck) >= IdsBufferSize
          /\ \A j \in idsNeedAck : k < j
      BY <2>2, <2>4 DEF IInv, ForgottenAreOlder
    <3>2. PICK m \in idsNeedAck : i > m
      BY <1>1, <1>5, <3>1 DEF IsNew
    <3> QED
      BY <1>1, <2>2, <2>3, <3>1, <3>2
  <2>9. AcksTried'
    BY <2>2, <2>4, <2>5, <2>7, <1>1, <1>2, <1>4
       DEF IInv, TypeOK, AcksTried, KnownAreTried
  <2> QED
    BY <1>3, <2>2, <2>6, <2>7, <2>8, <2>9 DEF IInv, ResetEnds
<1>6. CASE IsTooOld(i)
  <2>1. /\ UNCHANGED <<idsNeedAck, tried, failed, resend>>
        /\ acks' \subseteq acks \cup {i} /\ tooOld' = i /\ needReset'
    BY <1>6 DEF Register, IsTooOld
  <2>2. /\ Cardinality(idsNeedAck) >= IdsBufferSize
        /\ \A j \in idsNeedAck : i < j
    BY <1>6, TooOldIsOlder
  <2>3. TypeOK' /\ HandledOnce' /\ ForgottenAreOlder' /\ KnownAreTried'
    BY <1>3, <2>1
       DEF IInv, TypeOK, HandledOnce, ForgottenAreOlder, KnownAreTried
  <2>4. ResetEnds' /\ AcksTried'
    BY <1>2, <1>3, <2>1, <2>2, ReceivedIdsAssumption
       DEF IInv, TypeOK, ResetEnds, AcksTried
  <2> QED
    BY <2>3, <2>4 DEF IInv
<1>7. CASE i \in idsNeedAck
  <2>1. UNCHANGED <<idsNeedAck, tried, failed, resend, tooOld>>
        /\ acks' \subseteq acks \cup {i} /\ ~needReset'
    BY <1>7 DEF Register, IsTooOld, IsNew
  <2>2. tried[i] = 1
    BY <1>7 DEF IInv, KnownAreTried
  <2>3. TypeOK' /\ HandledOnce' /\ ForgottenAreOlder' /\ KnownAreTried'
    BY <1>3, <2>1
       DEF IInv, TypeOK, HandledOnce, ForgottenAreOlder, KnownAreTried
  <2>4. ResetEnds' /\ AcksTried'
    BY <1>2, <2>1, <2>2 DEF IInv, TypeOK, ResetEnds, AcksTried
  <2> QED
    BY <2>3, <2>4 DEF IInv
<1> QED
  BY <1>5, <1>6, <1>7 DEF IsTooOld

\* So does a container that cannot be read to its end.
LEMMA MalformedInv ==
    ASSUME IInv, NEW next \in Ids \cup {NoId}, HandleMalformed(next)
    PROVE  IInv'
<1>1. /\ UNCHANGED <<idsNeedAck, resend, outer, needReset, tooOld, tried>>
      /\ packet = "open" /\ packet' = "shrink" /\ outer \in Ids
      /\ acks' = acks \cup ({next} \ {NoId})
      /\ failed \subseteq failed' /\ failed' \subseteq Ids
      /\ \A i \in Ids : i = next /\ tried[i] = 0 => i \in failed'
  BY DEF HandleMalformed, IInv, TypeOK
<1>2. TypeOK'
  BY <1>1 DEF IInv, TypeOK
<1>3. \A i \in Ids : tried[i] = 0 \/ tried[i] > 0
  BY DEF IInv, TypeOK
<1>4. AcksTried'
  BY <1>1, <1>3 DEF IInv, TypeOK, AcksTried
<1> QED
  BY <1>1, <1>2, <1>4
     DEF IInv, HandledOnce, ForgottenAreOlder, KnownAreTried, ResetEnds

\* Forgetting the smallest id of a map that is too large leaves a full map of
\* larger ids.
LEMMA ShrinkInv ==
    ASSUME IInv, Shrink PROVE IInv'
<1>1. PICK m \in idsNeedAck : IsMin(m) /\ idsNeedAck' = idsNeedAck \ {m}
  BY DEF Shrink
<1>2. UNCHANGED <<acks, resend, outer, needReset, tooOld, tried, failed>>
      /\ packet # "none" /\ packet' = "shrink"
  BY DEF Shrink
<1>3. /\ Cardinality(idsNeedAck) \in Nat /\ IdsBufferSize \in Nat
      /\ idsNeedAck \subseteq Nat /\ Ids \subseteq Nat
      /\ IsFiniteSet(idsNeedAck) /\ NoId \notin Ids
  BY FS_CardinalityType, ReceivedIdsAssumption DEF IInv, TypeOK
<1>4. /\ IsFiniteSet(idsNeedAck')
      /\ Cardinality(idsNeedAck') = Cardinality(idsNeedAck) - 1
  BY <1>1, <1>3, FS_RemoveElement
<1>5. Cardinality(idsNeedAck') >= IdsBufferSize
  BY <1>3, <1>4 DEF Shrink, MustShrink
<1>6. \A j \in idsNeedAck' : m < j
  BY <1>1, <1>3 DEF IsMin
<1>7. TypeOK' /\ HandledOnce' /\ KnownAreTried' /\ AcksTried'
  BY <1>1, <1>2, <1>4
     DEF IInv, TypeOK, HandledOnce, KnownAreTried, AcksTried
<1>8. ForgottenAreOlder'
  <2> SUFFICES ASSUME NEW k \in Ids, tried[k] > 0, k \notin idsNeedAck'
               PROVE  \A j \in idsNeedAck' : k < j
    BY <1>2, <1>5 DEF ForgottenAreOlder
  <2>1. CASE k = m
    BY <2>1, <1>6
  <2>2. CASE k # m
    BY <2>2, <1>1 DEF IInv, ForgottenAreOlder
  <2> QED
    BY <2>1, <2>2
<1>9. ResetEnds'
  BY <1>1, <1>2, <1>5 DEF IInv, ResetEnds
<1> QED
  BY <1>7, <1>8, <1>9 DEF IInv

\* Every step keeps the invariant.
LEMMA StepInv == IInv /\ [Next]_vars => IInv'
<1> SUFFICES ASSUME IInv, [Next]_vars PROVE IInv'
  OBVIOUS
<1>1. ASSUME NEW i \in Ids, NEW needAck \in BOOLEAN,
             NEW about \in Ids \cup {NoId}, NEW result \in Results,
             HandleReceived(i, needAck, about, result)
      PROVE  IInv'
  <2>1. /\ Register(i, needAck, about, result) /\ packet # "shrink"
        /\ outer' \in Ids /\ packet' \in {"open", "shrink"}
        /\ EndsPacket(i, result) => packet' = "shrink"
    BY <1>1 DEF HandleReceived, EndsPacket, IsTooOld
  <2> QED
    BY <2>1, RegisterInv
<1>2. ASSUME NEW i \in Ids, NEW needAck \in BOOLEAN,
             NEW about \in Ids \cup {NoId}, NEW result \in Results,
             HandleContained(i, needAck, about, result)
      PROVE  IInv'
  <2>1. /\ Register(i, needAck, about, result) /\ packet # "shrink"
        /\ outer' \in Ids /\ packet' \in {"open", "shrink"}
        /\ EndsPacket(i, result) => packet' = "shrink"
    BY <1>2 DEF HandleContained, IInv, TypeOK
  <2> QED
    BY <2>1, RegisterInv
<1>3. CASE Shrink
  BY <1>3, ShrinkInv
<1>4. CASE PacketDone
  BY <1>4 DEF PacketDone, IInv, TypeOK, HandledOnce, ForgottenAreOlder,
     KnownAreTried, ResetEnds, AcksTried
<1>5. CASE SendAcks
  BY <1>5 DEF SendAcks, IInv, TypeOK, HandledOnce, ForgottenAreOlder,
     KnownAreTried, ResetEnds, AcksTried
<1>6. CASE ChangeSessionId
  <2>1. Init'
    BY <1>6 DEF ChangeSessionId, Init
  <2>2. IsFiniteSet({})
    BY FS_EmptySet
  <2>3. TypeOK'
    BY <2>1, <2>2 DEF Init, TypeOK
  <2>4. HandledOnce' /\ ForgottenAreOlder' /\ KnownAreTried'
    BY <2>1 DEF Init, HandledOnce, ForgottenAreOlder, KnownAreTried
  <2>5. ResetEnds' /\ AcksTried'
    BY <2>1 DEF Init, ResetEnds, AcksTried
  <2> QED
    BY <2>3, <2>4, <2>5 DEF IInv
<1>7. CASE UNCHANGED vars
  BY <1>7 DEF vars, IInv, TypeOK, HandledOnce, ForgottenAreOlder,
     KnownAreTried, ResetEnds, AcksTried
<1>8. ASSUME NEW next \in Ids \cup {NoId}, HandleMalformed(next)
      PROVE  IInv'
  BY <1>8, MalformedInv
<1> QED
  BY <1>1, <1>2, <1>3, <1>4, <1>5, <1>6, <1>7, <1>8 DEF Next

\* The invariant of every session.
THEOREM Invariance == Spec => []IInv
<1>1. Init => IInv
  BY InitInv
<1>2. IInv /\ [Next]_vars => IInv'
  BY StepInv
<1> QED
  BY <1>1, <1>2, PTL DEF Spec

-----------------------------------------------------------------------------

\* The map, the acknowledgements and the packet of a session keep their types,
\* and what is acknowledged or asked for again is a message id, never NoId.
THEOREM TypeCorrect == Spec => []TypeOK
<1>1. IInv => TypeOK
  BY DEF IInv
<1> QED
  BY <1>1, Invariance, PTL

\* No message of a session is handled twice, for every buffer size: ids that
\* were handled and registerMsgId() no longer knows are older than its full map.
THEOREM NoDoubleHandling == Spec => []HandledOnce
<1>1. IInv => HandledOnce
  BY DEF IInv
<1> QED
  BY <1>1, Invariance, PTL

\* A session is reset for a message too old only when kIdsBufferSize newer
\* messages have been given to their handlers.
THEOREM ResetsJustified == Spec => []ResetOnlyIfOvertaken
<1>1. IInv => ResetOnlyIfOvertaken
  <2> SUFFICES ASSUME IInv, tooOld # NoId
               PROVE  /\ Cardinality(idsNeedAck) >= IdsBufferSize
                      /\ \A j \in idsNeedAck : j > tooOld /\ tried[j] > 0
    BY DEF ResetOnlyIfOvertaken
  <2> QED
    BY ReceivedIdsAssumption
       DEF IInv, TypeOK, ResetEnds, KnownAreTried
<1> QED
  BY <1>1, Invariance, PTL

\* What is acknowledged between two packets was handled with success in this
\* session, or is a message a packet ended at: for every buffer size and every
\* way in which the handling of a message may end.
THEOREM AcksAreHandled == Spec => []AcksHandled
<1>1. IInv => AcksHandled
  BY ReceivedIdsAssumption
     DEF IInv, TypeOK, AcksHandled, Handled, AcksTried, ResetEnds
<1> QED
  BY <1>1, Invariance, PTL
=============================================================================
