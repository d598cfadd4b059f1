----------------------------- MODULE PtsUpdates -----------------------------
(***************************************************************************)
(* The order of updates: data/data_pts_waiter.cpp and the part of          *)
(* api/api_updates.cpp that owns it.  One PtsWaiter is modelled, either the *)
(* one of the common message box or the one of a channel (the code is the  *)
(* same class; where its owner treats them differently `isChannel' says    *)
(* which).  The server changes the box by numbered updates; each moves its *)
(* pts by the update's count.  An update comes as a push, in the result of *)
(* a request, or as an "affected" result whose change the caller has made  *)
(* itself; it may be lost, and updates may overtake each other.  What is   *)
(* missing is asked for by getDifference() or getChannelDifference().      *)
(***************************************************************************)
EXTENDS Integers

CONSTANTS
    LastUpdate,     \* bound on the server's updates
    Pts,            \* the pts of the box after the server's k-th update
    MaxFails        \* bound on the failed requests for a difference

\* The server's pts is positive and never falls.
ASSUME PtsAssumption ==
    /\ LastUpdate \in Nat
    /\ Pts \in [0 .. LastUpdate -> Nat \ {0}]
    /\ \A j, k \in 0 .. LastUpdate : j <= k => Pts[j] <= Pts[k]
ASSUME FailsAssumption == MaxFails \in Nat

VARIABLES
    isChannel,      \* the box is a channel's
    issued,         \* updates the server has made
    sent,           \* updates on their way to the client, with how they come
    good,           \* PtsWaiter::_good, the pts up to which all is applied
    last,           \* PtsWaiter::_last, the largest pts seen
    count,          \* PtsWaiter::_count, _good plus the counts seen since
    queue,          \* updates in PtsWaiter::_queue
    requesting,     \* PtsWaiter::_requesting
    waitingForSkipped,      \* PtsWaiter::_waitingForSkipped
    waitingForShortPoll,    \* PtsWaiter::_waitingForShortPoll
    byPts,          \* a time is set in _getDifferenceTimeByPts or
                    \* _whenGetDiffByPts for the box
    afterFail,      \* the same for _getDifferenceTimeAfterFail and
                    \* _whenGetDiffAfterFail
    active,         \* the channel is in _activeChats
    request,        \* the request for state or difference under way
    applied,        \* history: updates whose change the client has made
    base,           \* history: the pts the box was first known with
    fails,          \* failed requests so far (bound)
    flushed,        \* history: applySkippedUpdates() ended the waiting
                    \* while there was a gap
    tooLong         \* history: the answer was updates.differenceTooLong

vars == <<isChannel, issued, sent, good, last, count, queue, requesting,
          waitingForSkipped, waitingForShortPoll, byPts, afterFail, active,
          request, applied, base, fails, flushed, tooLong>>

Updates == 1 .. LastUpdate

\* The pts_count of the server's k-th update.
PtsCount(k) == Pts[k] - Pts[k - 1]

Ways == {"push", "result", "affected"}

\* A request is for the state or for the difference from `pts'; its answer
\* holds the updates up to `upto'.
NoRequest == [kind |-> "none"]
Asked(kind, pts) == [kind |-> kind, pts |-> pts]
Answered(pts, upto, final) ==
    [kind |-> "answer", pts |-> pts, upto |-> upto, final |-> final]
Requests ==
    {NoRequest} \cup [kind : {"state", "difference"}, pts : Nat]
        \cup [kind : {"answer"}, pts : Nat, upto : Nat, final : BOOLEAN]

TypeOK ==
    /\ isChannel \in BOOLEAN
    /\ issued \in 0 .. LastUpdate
    /\ sent \subseteq Updates \X Ways
    /\ good \in Nat /\ last \in Nat /\ count \in Nat
    /\ queue \subseteq Updates
    /\ requesting \in BOOLEAN
    /\ waitingForSkipped \in BOOLEAN /\ waitingForShortPoll \in BOOLEAN
    /\ byPts \in BOOLEAN /\ afterFail \in BOOLEAN
    /\ active \in BOOLEAN
    /\ request \in Requests
    /\ applied \subseteq Updates
    /\ base \in Nat
    /\ fails \in 0 .. MaxFails
    /\ flushed \in BOOLEAN /\ tooLong \in BOOLEAN

\* Updates() asks for the state of the common box; a channel's waiter is not
\* inited until the channel's pts is heard of.
Init ==
    /\ isChannel \in BOOLEAN
    /\ issued = 0 /\ sent = {}
    /\ good = 0 /\ last = 0 /\ count = 0 /\ queue = {}
    /\ requesting = ~isChannel
    /\ waitingForSkipped = FALSE /\ waitingForShortPoll = FALSE
    /\ byPts = FALSE /\ afterFail = FALSE
    /\ active = FALSE
    /\ request = IF isChannel THEN NoRequest ELSE Asked("state", 0)
    /\ applied = {}
    /\ base = 0 /\ fails = 0 /\ flushed = FALSE /\ tooLong = FALSE

-----------------------------------------------------------------------------
(* The server and the network. *)

\* The next update goes to the client in some way, or is lost.
Issue(ways) ==
    /\ issued < LastUpdate
    /\ issued' = issued + 1
    /\ sent' = sent \cup ({issued + 1} \X ways)
    /\ UNCHANGED <<isChannel, good, last, count, queue, requesting,
                   waitingForSkipped, waitingForShortPoll, byPts, afterFail,
                   active, request, applied, base, fails, flushed, tooLong>>

\* A slice of the difference, or all that is left of it.
AnswerRequest(upto) ==
    /\ request.kind \in {"state", "difference"}
    /\ request.kind = "state" => upto = issued
    /\ request.kind = "difference" => Pts[upto] >= request.pts
    /\ Pts[upto] > request.pts \/ upto = issued
    /\ request' = Answered(IF request.kind = "state" THEN Pts[issued]
                                                     ELSE request.pts,
                           upto, upto = issued)
    /\ UNCHANGED <<isChannel, issued, sent, good, last, count, queue,
                   requesting, waitingForSkipped, waitingForShortPoll, byPts,
                   afterFail, active, applied, base, fails, flushed, tooLong>>

-----------------------------------------------------------------------------
(* PtsWaiter. *)

Inited == good > 0

\* setWaitingForSkipped(), ms < 0, and checkForWaiting().
StopWaiting ==
    /\ waitingForSkipped' = FALSE
    /\ byPts' = (byPts /\ waitingForShortPoll)

\* setWaitingForSkipped(), ms >= 0.
StartWaiting ==
    /\ waitingForSkipped' = TRUE
    /\ byPts' = TRUE

KeepWaiting == UNCHANGED <<waitingForSkipped, byPts>>

\* Mutant: the queue is not cleared.
ApplySkippedKept(more, waits) ==
    /\ IF waits THEN StopWaiting ELSE KeepWaiting
    /\ applied' = applied \cup more \cup (IF waits THEN queue ELSE {})
    /\ UNCHANGED queue

\* applySkippedUpdates(), with `more' applied as well.
ApplySkippedUpdates(more, waits) ==
    /\ IF waits THEN StopWaiting ELSE KeepWaiting
    /\ queue' = IF waits THEN {} ELSE queue
    /\ applied' = applied \cup more \cup (IF waits THEN queue ELSE {})

\* Mutant: counts are taken off.
NewCountMinus(pts, cnt) == IF Inited THEN count - cnt ELSE pts

\* check(): _last and _count after an update.
NewLast(pts) == IF ~Inited \/ pts > last THEN pts ELSE last
NewCount(pts, cnt) == IF Inited THEN count + cnt ELSE pts
Closes(pts, cnt) == NewLast(pts) = NewCount(pts, cnt)

Count(pts, cnt) ==
    /\ last' = NewLast(pts)
    /\ count' = NewCount(pts, cnt)
    /\ good' = IF Closes(pts, cnt) THEN NewLast(pts) ELSE good
    /\ base' = IF Inited THEN base ELSE pts

\* updateAndApply() with an update: `new' is {k}, or with no update: {}.  Its
\* change is in `made' when the caller has made it already.
UpdateAndApply(pts, cnt, new, made) ==
    \/ /\ requesting
       /\ IF new # {}
            THEN KeepWaiting /\ applied' = applied \cup new /\ UNCHANGED queue
            ELSE ApplySkippedUpdates(made, waitingForSkipped)
       /\ UNCHANGED <<good, last, count, base, flushed>>
    \/ /\ ~requesting
       /\ pts <= good /\ cnt > 0
       /\ KeepWaiting
       /\ applied' = applied \cup made
       /\ UNCHANGED <<good, last, count, queue, base, flushed>>
    \/ /\ ~requesting
       /\ ~(pts <= good /\ cnt > 0)
       /\ Closes(pts, cnt)
       /\ Count(pts, cnt)
       /\ flushed' = FALSE
       /\ ApplySkippedUpdates(new \cup made,
                              waitingForSkipped /\ (new # {} => queue # {}))
    \/ /\ ~requesting
       /\ ~(pts <= good /\ cnt > 0)
       /\ ~Closes(pts, cnt)
       /\ Count(pts, cnt)
       /\ IF cnt > 0
            THEN /\ StartWaiting
                 /\ queue' = queue \cup new
                 /\ applied' = applied \cup made
                 /\ flushed' = FALSE
            ELSE IF new # {} /\ queue = {}
              THEN /\ StartWaiting
                   /\ applied' = applied \cup new
                   /\ flushed' = FALSE
                   /\ UNCHANGED queue
              ELSE /\ waitingForSkipped' = FALSE
                   /\ byPts' = waitingForShortPoll
                   /\ queue' = {}
                   /\ applied' = applied \cup queue \cup new \cup made
                   /\ flushed' = TRUE

\* init()
InitWaiter(pts) ==
    /\ good' = pts /\ last' = pts /\ count' = pts
    /\ queue' = {}
    /\ base' = IF Inited THEN base ELSE pts
    /\ flushed' = FALSE

-----------------------------------------------------------------------------
(* Updates. *)

\* An update arrives.  mtpUpdateReceived() leaves pushes aside while the
\* difference of the common box is asked for, feedUpdate() leaves all updates
\* of a channel aside while the channel's is.
Receive(k, way) ==
    /\ <<k, way>> \in sent
    /\ sent' = sent \ {<<k, way>>}
    /\ IF requesting /\ (way = "push" \/ (way = "result" /\ isChannel))
         THEN UNCHANGED <<good, last, count, queue, applied, base, flushed,
                          waitingForSkipped, byPts>>
         ELSE UpdateAndApply(Pts[k], PtsCount(k),
                             IF way = "affected" THEN {} ELSE {k},
                             IF way = "affected" THEN {k} ELSE {})
    /\ UNCHANGED <<isChannel, issued, requesting, waitingForShortPoll,
                   afterFail, active, request, fails, tooLong>>

\* ChannelData::ptsReceived(): the answer to another request of the channel
\* tells its pts.
PtsReceived(k) ==
    /\ isChannel
    /\ k <= issued
    /\ UpdateAndApply(Pts[k], 0, {}, {})
    /\ UNCHANGED <<isChannel, issued, sent, requesting, waitingForShortPoll,
                   afterFail, active, request, fails, tooLong>>

\* Mutant: the difference is asked for from the largest pts seen.
AskDifferenceFromLast(pts) ==
    /\ requesting' = TRUE
    /\ request' = Asked("difference", IF last > pts THEN last ELSE pts)

\* getDifference() and getChannelDifference(), from a waiter at `pts'.
AskDifference(pts) ==
    /\ requesting' = TRUE
    /\ request' = Asked("difference", pts)

GetDifference ==
    /\ byPts' = FALSE
    /\ IF requesting \/ ~Inited
         THEN UNCHANGED <<requesting, request, queue, afterFail>>
         ELSE /\ AskDifference(good)
              /\ queue' = {}
              /\ afterFail' = FALSE
    /\ UNCHANGED <<isChannel, issued, good, last, count, waitingForSkipped,
                   waitingForShortPoll, active, applied, base, fails, flushed,
                   tooLong>>

\* Mutant: the time is forgotten and nothing is asked for.
ByPtsTimerIdle ==
    /\ byPts
    /\ byPts' = FALSE
    /\ UNCHANGED <<isChannel, issued, sent, good, last, count, queue,
                   requesting, waitingForSkipped, waitingForShortPoll,
                   afterFail, active, request, applied, base, fails, flushed,
                   tooLong>>

\* _byPtsTimer, getDifferenceByPts()
ByPtsTimer == byPts /\ GetDifference /\ UNCHANGED sent

\* mtpNewSessionCreated(), updatesTooLong, updateChannelTooLong.
TooLong == GetDifference /\ UNCHANGED sent

\* A push about a peer that is not loaded is dropped for a difference.
ReceiveUnloaded(k) ==
    /\ ~isChannel /\ ~requesting
    /\ <<k, "push">> \in sent
    /\ sent' = sent \ {<<k, "push">>}
    /\ GetDifference

\* stateDone(), differenceDone(), channelDifferenceDone()
DifferenceDone ==
    /\ request.kind = "answer"
    /\ LET pts == Pts[request.upto]
       IN  /\ applied' = applied \cup
                { k \in 1 .. request.upto : Pts[k] > request.pts }
           /\ InitWaiter(pts)
           /\ IF request.final
                THEN requesting' = FALSE /\ request' = NoRequest
                ELSE AskDifference(pts)
    /\ IF isChannel /\ request.final
         THEN /\ waitingForShortPoll' = active
              /\ byPts' = (active \/ (byPts /\ waitingForSkipped))
         ELSE /\ byPts' = (byPts /\ request.final)
              /\ UNCHANGED waitingForShortPoll
    /\ afterFail' = (afterFail /\ request.final)
    /\ UNCHANGED <<isChannel, issued, sent, waitingForSkipped, active, fails,
                   tooLong>>

\* Mutant: no timer is started.
DifferenceFailIdle ==
    /\ request.kind = "difference"
    /\ fails < MaxFails
    /\ fails' = fails + 1
    /\ request' = NoRequest
    /\ UNCHANGED <<isChannel, issued, sent, good, last, count, queue,
                   requesting, waitingForSkipped, waitingForShortPoll, byPts,
                   afterFail, active, applied, base, flushed, tooLong>>

\* differenceFail(), channelDifferenceFail()
DifferenceFail ==
    /\ request.kind = "difference"
    /\ fails < MaxFails
    /\ fails' = fails + 1
    /\ request' = NoRequest
    /\ afterFail' = TRUE
    /\ UNCHANGED <<isChannel, issued, sent, good, last, count, queue,
                   requesting, waitingForSkipped, waitingForShortPoll, byPts,
                   active, applied, base, flushed, tooLong>>

\* differenceDone() on updates.differenceTooLong, an answer for the common box
\* only: the box stays requesting, and no request or timer follows.
DifferenceTooLong ==
    /\ ~isChannel
    /\ request.kind = "difference"
    /\ request' = NoRequest
    /\ tooLong' = TRUE
    /\ UNCHANGED <<isChannel, issued, sent, good, last, count, queue,
                   requesting, waitingForSkipped, waitingForShortPoll, byPts,
                   afterFail, active, applied, base, fails, flushed>>

\* _failDifferenceTimer, getDifferenceAfterFail()
AfterFailTimer ==
    /\ afterFail
    /\ afterFail' = FALSE
    /\ byPts' = FALSE
    /\ AskDifference(good)
    /\ queue' = {}
    /\ UNCHANGED <<isChannel, issued, sent, good, last, count,
                   waitingForSkipped, waitingForShortPoll, active, applied,
                   base, fails, flushed, tooLong>>

\* setWaitingForShortPoll() when the channel comes into view and leaves it.
ShowChannel ==
    /\ isChannel /\ ~active
    /\ active' = TRUE
    /\ waitingForShortPoll' = TRUE
    /\ byPts' = TRUE
    /\ UNCHANGED <<isChannel, issued, sent, good, last, count, queue,
                   requesting, waitingForSkipped, afterFail, request, applied,
                   base, fails, flushed, tooLong>>

\* Mutant: the timer is stopped while skipped updates are waited for.
HideChannelStops ==
    /\ active
    /\ active' = FALSE
    /\ waitingForShortPoll' = FALSE
    /\ byPts' = FALSE
    /\ UNCHANGED <<isChannel, issued, sent, good, last, count, queue,
                   requesting, waitingForSkipped, afterFail, request, applied,
                   base, fails, flushed, tooLong>>

HideChannel ==
    /\ active
    /\ active' = FALSE
    /\ waitingForShortPoll' = FALSE
    /\ byPts' = (byPts /\ waitingForSkipped)
    /\ UNCHANGED <<isChannel, issued, sent, good, last, count, queue,
                   requesting, waitingForSkipped, afterFail, request, applied,
                   base, fails, flushed, tooLong>>

-----------------------------------------------------------------------------

Answers ==
    \/ \E upto \in 0 .. issued : AnswerRequest(upto)
    \/ DifferenceDone

Next ==
    \/ \E ways \in {{}} \cup { {way} : way \in Ways } : Issue(ways)
    \/ \E k \in Updates, way \in Ways : Receive(k, way)
    \/ \E k \in Updates : ReceiveUnloaded(k)
    \/ \E k \in 0 .. issued : PtsReceived(k)
    \/ TooLong
    \/ Answers
    \/ DifferenceFail
    \/ DifferenceTooLong
    \/ ByPtsTimer
    \/ AfterFailTimer
    \/ ShowChannel
    \/ HideChannel

Spec == Init /\ [][Next]_vars

\* The server answers and timers fire.  Updates may be lost.
FairSpec ==
    /\ Spec
    /\ WF_vars(Answers)
    /\ WF_vars(ByPtsTimer)
    /\ WF_vars(AfterFailTimer)

-----------------------------------------------------------------------------
(* Properties. *)

Gap == last # count

\* The pts the client tells the server it has everything up to is true: no
\* update at or before it is missing.
NothingSkipped ==
    \A k \in Updates :
        PtsCount(k) > 0 /\ base < Pts[k] /\ Pts[k] <= good => k \in applied

\* A postponed update is there only as long as something will either apply it
\* or ask the server for it again.
PostponedIsPursued == queue # {} => Gap /\ ~requesting /\ byPts

\* While the client knows of a gap it asks for the difference or is about to,
\* unless applySkippedUpdates() gave up the waiting.
GapIsPursued == Gap /\ ~flushed => requesting \/ byPts

\* A client that holds back updates has its answer or its timer coming, after
\* failed differences too, and unless the answer was differenceTooLong.
RequestComes == requesting => request # NoRequest \/ afterFail \/ tooLong

\* In the end no gap is left that was not given up, by applySkippedUpdates() or
\* after differenceTooLong.
GapsClose == <>[](~Gap \/ flushed \/ tooLong)

=============================================================================
