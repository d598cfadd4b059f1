---------------------------- MODULE ReceivedIds ----------------------------
(***************************************************************************)
(* How a session recognises server messages it has already handled, and    *)
(* which of them it acknowledges.                                          *)
(*                                                                         *)
(* The server repeats a message until it is acknowledged, so a session     *)
(* (SessionPrivate::handleReceived) registers every message id, those in   *)
(* containers too, in a ReceivedIdsManager and handles only new ones.  The *)
(* manager forgets the oldest ids: after each packet it keeps the          *)
(* kIdsBufferSize largest.  An id too old to be decided resets the session.*)
(*                                                                         *)
(* Handling may end without success (a HandleResult of Ignored, ParseError,*)
(* RestartConnection or DestroyTemporaryKey is Failed here): that ends the *)
(* packet, but the message keeps its acknowledgement and stays registered. *)
(***************************************************************************)
EXTENDS Integers, FiniteSets

CONSTANTS
    Ids,             \* message ids the server may use
    IdsBufferSize,   \* kIdsBufferSize
    NoId             \* no message

ASSUME ReceivedIdsAssumption ==
    /\ Ids \subseteq Nat
    /\ IdsBufferSize \in Nat \ {0}
    /\ NoId \notin Ids

VARIABLES
    idsNeedAck,   \* keys of _idsNeedAck
    acks,         \* _ackRequestData
    resend,       \* _resendRequestData
    packet,       \* none, open while it has more messages, or to be shrunk
    outer,        \* the message of that packet, or NoId
    needReset,    \* the packet ended with ResetSession
    tooOld,       \* history: the message that was too old, or NoId
    tried,        \* history: how often each message was given to its handler
    failed        \* history: messages a packet ended at, not handled since

vars ==
    <<idsNeedAck, acks, resend, packet, outer, needReset, tooOld, tried, failed>>

Init ==
    /\ idsNeedAck = {}
    /\ acks = {} /\ resend = {}
    /\ packet = "none" /\ outer = NoId
    /\ needReset = FALSE /\ tooOld = NoId
    /\ tried = [i \in Ids |-> 0] /\ failed = {}

-----------------------------------------------------------------------------
(* ReceivedIdsManager.                                                      *)

\* i is min(), in a map that is not empty.
IsMin(i) == i \in idsNeedAck /\ \A j \in idsNeedAck : i <= j

\* Mutants: an id that is not found is new; an id is compared with max().
NewIfNotFound(i) == i \notin idsNeedAck

NewIfLargest(i) ==
    /\ i \notin idsNeedAck
    /\ \/ Cardinality(idsNeedAck) < IdsBufferSize
       \/ \A m \in idsNeedAck : i > m

\* registerMsgId() gives Success (an id is larger than min() when it is larger
\* than some id) ...
IsNew(i) ==
    /\ i \notin idsNeedAck
    /\ \/ Cardinality(idsNeedAck) < IdsBufferSize
       \/ \E m \in idsNeedAck : i > m

\* ... or TooOld, when it neither has the id nor can tell that it is new.
IsTooOld(i) == i \notin idsNeedAck /\ ~IsNew(i)

\* The condition of the loop in shrink().
MustShrink == Cardinality(idsNeedAck) > IdsBufferSize

-----------------------------------------------------------------------------
(* SessionPrivate.                                                          *)

\* Mutants: every message that is told of is acknowledged; a message that
\* tells of none is taken to tell of one.
ToldAll(about) == {about} \ {NoId}

ToldNotFound(about) == {about} \ idsNeedAck'

\* msg_detailed_info and msg_new_detailed_info: an answer the session is told
\* of is acknowledged again if lookup() finds it, ...
ToldKnown(about) == {about} \cap idsNeedAck'

\* ... and is asked for if not.
ToldUnknown(about) == ({about} \ {NoId}) \ idsNeedAck'

\* A message is acknowledged when it asks for that, and handled when its id is
\* new.  It may tell of another, which is looked up when that was understood.
Register(i, needAck, about, result) ==
    /\ idsNeedAck' = IF IsNew(i) THEN idsNeedAck \cup {i} ELSE idsNeedAck
    /\ tried' = IF IsNew(i) THEN [tried EXCEPT ![i] = @ + 1] ELSE tried
    /\ failed' = IF ~IsNew(i) THEN failed
                 ELSE IF result = "Success" THEN failed \ {i}
                 ELSE failed \cup {i, outer'}
    /\ LET told == IsNew(i) /\ result = "Success" IN
       /\ acks' = acks \cup (IF needAck THEN {i} ELSE {})
                       \cup (IF told THEN ToldKnown(about) ELSE {})
       /\ resend' = resend \cup (IF told THEN ToldUnknown(about) ELSE {})
    /\ tooOld' = IF IsTooOld(i) THEN i ELSE tooOld
    /\ needReset' = (IsTooOld(i) \/ (IsNew(i) /\ result = "ResetSession"))

\* What is not handled with success, or is too old, ends the packet.
EndsPacket(i, result) == IsTooOld(i) \/ (IsNew(i) /\ result # "Success")

\* handleReceived() registers the message of a packet, which is a container or
\* may tell of another message.
HandleReceived(i, needAck, about, result) ==
    /\ packet = "none"
    /\ outer' = i
    /\ Register(i, needAck, about, result)
    /\ packet' = IF IsNew(i) /\ result = "Success" /\ about = NoId
                 THEN "open" ELSE "shrink"

\* handleOneReceived() registers the next message of a container; one that is
\* a duplicate is skipped.
HandleContained(i, needAck, about, result) ==
    /\ packet = "open"
    /\ outer' = outer
    /\ Register(i, needAck, about, result)
    /\ packet' = IF EndsPacket(i, result) THEN "shrink" ELSE "open"

\* The rest of the container cannot be read; its next message may have been
\* acknowledged by then, but is not registered.
HandleMalformed(next) ==
    /\ packet = "open"
    /\ packet' = "shrink"
    /\ acks' = acks \cup ({next} \ {NoId})
    /\ failed' = failed \cup {outer}
                        \cup {i \in Ids : i = next /\ tried[i] = 0}
    /\ UNCHANGED <<idsNeedAck, resend, outer, needReset, tooOld, tried>>

\* One round of the loop in shrink().
Shrink ==
    /\ packet # "none" /\ MustShrink
    /\ \E m \in idsNeedAck : IsMin(m) /\ idsNeedAck' = idsNeedAck \ {m}
    /\ packet' = "shrink"
    /\ UNCHANGED <<acks, resend, outer, needReset, tooOld, tried, failed>>

\* The packet is done, or the connection restarts and the session goes on:
\* restart() keeps the ids and what is to be acknowledged.
PacketDone ==
    /\ packet # "none" /\ ~needReset /\ ~MustShrink
    /\ packet' = "none" /\ outer' = NoId
    /\ UNCHANGED <<idsNeedAck, acks, resend, needReset, tooOld, tried, failed>>

\* tryToSend() takes both vectors.
SendAcks ==
    /\ packet = "none" /\ acks \cup resend # {}
    /\ acks' = {} /\ resend' = {}
    /\ UNCHANGED <<idsNeedAck, packet, outer, needReset, tooOld, tried, failed>>

\* changeSessionId(), in restart() after a packet that ended with ResetSession,
\* or for a new key.  It starts a session on the server too.
ChangeSessionId ==
    /\ packet = "none" \/ (needReset /\ ~MustShrink)
    /\ idsNeedAck' = {}
    /\ acks' = {} /\ resend' = {}
    /\ packet' = "none" /\ outer' = NoId
    /\ needReset' = FALSE /\ tooOld' = NoId
    /\ tried' = [i \in Ids |-> 0] /\ failed' = {}

Results == {"Success", "Failed", "ResetSession"}

Next ==
    \/ \E i \in Ids, needAck \in BOOLEAN, about \in Ids \cup {NoId},
          result \in Results :
          \/ HandleReceived(i, needAck, about, result)
          \/ HandleContained(i, needAck, about, result)
    \/ \E next \in Ids \cup {NoId} : HandleMalformed(next)
    \/ Shrink \/ PacketDone \/ SendAcks \/ ChangeSessionId

Spec == Init /\ [][Next]_vars

-----------------------------------------------------------------------------
(* Properties.                                                              *)

\* Type invariant.
TypeOK ==
    /\ idsNeedAck \subseteq Ids /\ IsFiniteSet(idsNeedAck)
    /\ acks \subseteq Ids /\ resend \subseteq Ids
    /\ packet \in {"none", "open", "shrink"}
    /\ IF packet = "none" THEN outer = NoId ELSE outer \in Ids
    /\ needReset \in BOOLEAN /\ tooOld \in Ids \cup {NoId}
    /\ tried \in [Ids -> Nat] /\ failed \subseteq Ids

\* No message is handled twice in a session, although most ids are forgotten:
\* however late the server repeats it, alone or in a container, it is either
\* still known or recognised as too old.
HandledOnce == \A i \in Ids : tried[i] <= 1

\* An old message resets the session only if at least kIdsBufferSize newer
\* ones, all given to their handlers, have overtaken it.
ResetOnlyIfOvertaken ==
    tooOld # NoId =>
        \E newer \in SUBSET idsNeedAck :
            /\ Cardinality(newer) >= IdsBufferSize
            /\ \A j \in newer : j > tooOld /\ tried[j] > 0

\* Handled with success.
Handled(i) == tried[i] > 0 /\ i \notin failed

\* When acks may be sent they are of messages handled with success in this
\* session, or of those a packet ended at; never of one behind these in its
\* container, of one too old, or of one that is only told of and was not
\* received.  The server forgets what is acknowledged, and the ack is recorded
\* before the id is looked at and the message is handled.
AcksHandled == packet = "none" => \A i \in acks : Handled(i) \/ i \in failed
=============================================================================
