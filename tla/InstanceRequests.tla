-------------------------- MODULE InstanceRequests --------------------------
(***************************************************************************)
(* The registry of requests kept by MTP::Instance on the main thread       *)
(* (mtproto/mtp_instance.cpp): which request is stored, which data center  *)
(* it goes to, and who holds it until its answer comes - a session, the    *)
(* list of delayed requests, another request it waits for, or the          *)
(* authorization that is being exported to its data center.                *)
(*                                                                         *)
(* A session is seen from outside: a request given to sendPrepared() stays *)
(* in it until the session hands its answer to the main thread, unless the *)
(* session is killed first (module SessionSend looks inside).  A data      *)
(* center with a shift is dc + kDcShift * shift, as in core_types.h, and   *)
(* the requests sent to the main data center are registered under its      *)
(* negated id.                                                             *)
(***************************************************************************)
EXTENDS Integers, FiniteSets, Sequences

CONSTANTS
    MaxId,          \* bound: request ids are 1..MaxId
    MaxSends,       \* bound on the callers' requests
    Dcs,            \* bare ids of the data centers
    kDcShift,       \* distance between the shifts of a data center
    Shifts,         \* shifts of the sessions, 0 the plain one
    Targets,        \* shifted dc ids callers send to, 0 for the main session
    FirstMainDc,    \* main data center at the start
    Migrations,     \* data centers a *_MIGRATE_* error may name
    MaxErrors       \* bound on the errors that end in a second sending

ASSUME IdsAssumption == MaxId \in Nat /\ MaxSends \in Nat
ASSUME DcsAssumption ==
    /\ kDcShift \in Nat \ {0}
    /\ Dcs \subseteq 1 .. kDcShift - 1
    /\ Shifts \subseteq Nat /\ 0 \in Shifts
    /\ \A d \in Targets \ {0} : \E dc \in Dcs, shift \in Shifts :
            d = dc + kDcShift * shift
    /\ FirstMainDc \in Dcs
    /\ Migrations \subseteq Dcs
ASSUME ErrorsAssumption == MaxErrors \in Nat

VARIABLES
    mainDc,         \* _mainDcId, the dc of _mainSession
    kind,           \* what a request's callbacks are: the caller's, or the
                    \* Instance's own for exporting or importing authorization
    requestMap,     \* ids in _requestMap
    parserMap,      \* ids in _parserMap
    requestsByDc,   \* _requestsByDc, 0 where there is no entry
    after,          \* SerializedRequest::after as an id, 0 when null
    dependent,      \* _dependentRequests, 0 where there is no entry
    delayed,        \* ids in _delayedRequests
    authWaiters,    \* _authWaiters
    authExport,     \* _authExportRequests, 0 where there is no entry
    badGuest,       \* _badGuestDcRequests
    inSession,      \* the session that holds the request, 0 when none does
    batch,          \* answers taken by Session::tryToReceive(), still to be
                    \* handed to processCallback()
    errors,         \* errors so far (bound)
    abandoned,      \* history: requests dropped with a killed session
    broken          \* history: dcs whose export or import came to nothing

vars == <<mainDc, kind, requestMap, parserMap, requestsByDc, after, dependent,
          delayed, authWaiters, authExport, badGuest, inSession, batch, errors,
          abandoned, broken>>

Ids == 1 .. MaxId

\* The % and / of C++ round to zero: both are odd functions of their argument.
Abs(x) == IF x < 0 THEN -x ELSE x
BareDcId(d) == IF d < 0 THEN -((-d) % kDcShift) ELSE d % kDcShift
GetDcIdShift(d) == IF d < 0 THEN -((-d) \div kDcShift) ELSE d \div kDcShift
ShiftDcId(dc, shift) == dc + kDcShift * shift

ShiftedDcs == { ShiftDcId(dc, shift) : dc \in Dcs, shift \in Shifts }
SignedDcs == ShiftedDcs \cup { -d : d \in ShiftedDcs }

Kinds == {"free", "user", "export", "import"}

TypeOK ==
    /\ mainDc \in Dcs
    /\ kind \in [Ids -> Kinds]
    /\ requestMap \subseteq Ids
    /\ parserMap \subseteq Ids
    /\ requestsByDc \in [Ids -> SignedDcs \cup {0}]
    /\ after \in [Ids -> Ids \cup {0}]
    /\ dependent \in [Ids -> Ids \cup {0}]
    /\ delayed \subseteq Ids
    /\ authWaiters \in [Dcs -> Seq(Ids)]
    /\ authExport \in [Ids -> ShiftedDcs \cup {0}]
    /\ badGuest \subseteq Ids
    /\ inSession \in [Ids -> SignedDcs \cup {0}]
    /\ batch \subseteq Ids
    /\ errors \in 0 .. MaxErrors
    /\ abandoned \subseteq Ids
    /\ broken \subseteq Dcs

Init ==
    /\ mainDc = FirstMainDc
    /\ kind = [r \in Ids |-> "free"]
    /\ requestMap = {} /\ parserMap = {}
    /\ requestsByDc = [r \in Ids |-> 0]
    /\ after = [r \in Ids |-> 0]
    /\ dependent = [r \in Ids |-> 0]
    /\ delayed = {}
    /\ authWaiters = [dc \in Dcs |-> <<>>]
    /\ authExport = [r \in Ids |-> 0]
    /\ badGuest = {}
    /\ inSession = [r \in Ids |-> 0]
    /\ batch = {}
    /\ errors = 0
    /\ abandoned = {} /\ broken = {}

-----------------------------------------------------------------------------
(* Steps the handlers below share. *)

\* GetNextRequestId(): ids are given out in order and never again.
IsNextId(r) == kind[r] = "free" /\ \A q \in Ids : q < r => kind[q] # "free"

IsAuth(r) == kind[r] \in {"export", "import"}

\* The data center an export or an import works for.
AuthDc(r) == IF kind[r] = "export" THEN BareDcId(authExport[r])
                                   ELSE BareDcId(requestsByDc[r])

\* Bound: n more ids may be given out, one of them kept for the import that
\* follows each export under way.
Spare(n) ==
    Cardinality({ r \in Ids : kind[r] = "free" })
        - Cardinality({ r \in requestMap : kind[r] = "export" }) >= n

\* Mutant: the requests that wait stay in _dependentRequests.
ToRemoveSelf(r) == {r}

\* unregisterRequest(): the ids that lead to `r' through _dependentRequests,
\* with `r' itself, and among them the ones to be sent again.
ToRemove(r) ==
    LET waits == { x \in Ids : dependent[x] # 0 }
        closed(S) == \A y \in waits : dependent[y] \in S \cup {r} => y \in S
    IN  {r} \cup { x \in waits : \A S \in SUBSET waits : closed(S) => x \in S }

\* Mutant: only the requests that wait for `r' itself are sent again.
ToResendDirect(r) == { x \in Ids : dependent[x] = r }

ToResend(r) == LET removed == ToRemove(r)
               IN  { x \in Ids : dependent[x] \in removed }

\* The loop over toResend, in the order of ids, returns at the first request
\* that is registered with a dc and is not stored.
Resent(toResend, stored, byDc) ==
    { x \in toResend : /\ byDc[x] # 0
                       /\ \A y \in toResend :
                            y <= x /\ byDc[y] # 0 => y \in stored }

\* unregisterRequest(r), given what its caller made of the maps and sessions.
Unregister(r, stored, byDc, sessions) ==
    LET left == stored \ {r}
        registered == [byDc EXCEPT ![r] = 0]
        removed == ToRemove(r)
        resent == Resent(ToResend(r), left, registered)
    IN  /\ requestMap' = left
        /\ requestsByDc' = registered
        /\ dependent' = [x \in Ids |->
                            IF x \in removed THEN 0 ELSE dependent[x]]
        /\ inSession' = [x \in Ids |->
                            IF x \in resent THEN Abs(registered[x])
                                            ELSE sessions[x]]

\* setMainDcId(): when the main dc changes, the sessions of the old and of the
\* new one are killed, and tryToReceive() of a killed session does nothing.
Killed(newdc) == IF newdc = mainDc THEN {} ELSE {mainDc, newdc}

DroppedBy(newdc) == { x \in Ids : inSession[x] \in Killed(newdc) }

SessionsLeft(newdc) ==
    [x \in Ids |-> IF x \in DroppedBy(newdc) THEN 0 ELSE inSession[x]]

SetMainDcId(newdc, dropped) ==
    /\ mainDc' = newdc
    /\ abandoned' = abandoned \cup dropped
    /\ broken' = broken \cup { AuthDc(a) : a \in { x \in dropped : IsAuth(x) } }

\* Mutant: the shifted id taken for the shift.
ChangedDcUnshifted(signed, newdc) ==
    IF signed < 0 THEN -newdc ELSE newdc + signed

\* changeRequestByDc()
ChangedDc(signed, newdc) ==
    IF signed < 0 THEN -newdc ELSE ShiftDcId(newdc, GetDcIdShift(signed))

\* rpcErrorOccured() has returned false: the handlers stay in _parserMap.
TakeError(r) ==
    /\ r \in batch \cap parserMap
    /\ batch' = batch \ {r}
    /\ errors < MaxErrors
    /\ errors' = errors + 1

-----------------------------------------------------------------------------
(* What callers, sessions and timers do. *)

\* sendRequest(): to the main session (shiftedDcId = 0) or to a given one, with
\* or without callbacks, perhaps to be processed after another request.
SendRequest(r, shiftedDcId, callbacks, afterId) ==
    LET signed == IF shiftedDcId = 0 THEN -mainDc ELSE shiftedDcId IN
    /\ IsNextId(r) /\ Spare(1)
    /\ Cardinality({ q \in Ids : kind[q] = "user" }) < MaxSends
    /\ kind' = [kind EXCEPT ![r] = "user"]
    /\ requestMap' = requestMap \cup {r}
    /\ parserMap' = IF callbacks THEN parserMap \cup {r} ELSE parserMap
    /\ requestsByDc' = [requestsByDc EXCEPT ![r] = signed]
    /\ after' = [after EXCEPT ![r] = IF afterId \in requestMap THEN afterId
                                                               ELSE 0]
    /\ IF afterId \in requestMap /\ dependent[afterId] # 0
         THEN /\ dependent' = [dependent EXCEPT ![r] = afterId]
              /\ UNCHANGED inSession
         ELSE /\ inSession' = [inSession EXCEPT ![r] = Abs(signed)]
              /\ UNCHANGED dependent
    /\ UNCHANGED <<mainDc, delayed, authWaiters, authExport, badGuest, batch,
                   errors, abandoned, broken>>

\* Mutant: the handlers of a cancelled request are kept.
CancelKeepsHandlers(r) ==
    /\ kind[r] = "user"
    /\ r \in requestMap
    /\ Unregister(r, requestMap \ {r}, requestsByDc,
                  [inSession EXCEPT ![r] = 0])
    /\ UNCHANGED <<mainDc, kind, parserMap, after, delayed, authWaiters,
                   authExport, badGuest, batch, errors, abandoned, broken>>

\* cancel(): _requestMap, then unregisterRequest(), then the session of the
\* registered dc, then _parserMap.
Cancel(r) ==
    /\ kind[r] = "user"
    /\ r \in requestMap
    /\ parserMap' = parserMap \ {r}
    /\ Unregister(r, requestMap \ {r}, requestsByDc,
                  IF inSession[r] = Abs(requestsByDc[r])
                    THEN [inSession EXCEPT ![r] = 0] ELSE inSession)
    /\ UNCHANGED <<mainDc, kind, after, delayed, authWaiters, authExport,
                   badGuest, batch, errors, abandoned, broken>>

\* Session::tryToReceive(): takes the answers that have come by now.
TryToReceive(session, answered) ==
    /\ batch = {}
    /\ answered # {}
    /\ answered \subseteq { r \in Ids : inSession[r] = session }
    /\ batch' = answered
    /\ inSession' = [r \in Ids |-> IF r \in answered THEN 0 ELSE inSession[r]]
    /\ UNCHANGED <<mainDc, kind, requestMap, parserMap, requestsByDc, after,
                   dependent, delayed, authWaiters, authExport, badGuest,
                   errors, abandoned, broken>>

\* One turn of the loop of checkDelayedRequests().
CheckDelayedRequests(r) ==
    /\ r \in delayed
    /\ delayed' = delayed \ {r}
    /\ inSession' = IF requestsByDc[r] # 0 /\ r \in requestMap
                      THEN [inSession EXCEPT ![r] = Abs(requestsByDc[r])]
                      ELSE inSession
    /\ UNCHANGED <<mainDc, kind, requestMap, parserMap, requestsByDc, after,
                   dependent, authWaiters, authExport, badGuest, batch, errors,
                   abandoned, broken>>

-----------------------------------------------------------------------------
(* processCallback(): the answer to a request. *)

\* The caller's request has a result, an error that is left to its fail
\* handler, or no handlers at all: the request is unregistered in each case.
UserAnswered(r) ==
    /\ r \in batch
    /\ kind[r] = "user"
    /\ batch' = batch \ {r}
    /\ parserMap' = parserMap \ {r}
    /\ Unregister(r, requestMap, requestsByDc, inSession)
    /\ UNCHANGED <<mainDc, kind, after, delayed, authWaiters, authExport,
                   badGuest, errors, abandoned, broken>>

\* exportDone(): sends the import to the target, forgets the export.
ExportDone(r) ==
    /\ r \in batch \cap parserMap
    /\ kind[r] = "export" /\ authExport[r] # 0
    /\ batch' = batch \ {r}
    /\ \E i \in Ids :
        /\ IsNextId(i)
        /\ kind' = [kind EXCEPT ![i] = "import"]
        /\ parserMap' = (parserMap \ {r}) \cup {i}
        /\ authExport' = [authExport EXCEPT ![r] = 0]
        /\ Unregister(r, requestMap \cup {i},
                      [requestsByDc EXCEPT ![i] = authExport[r]],
                      [inSession EXCEPT ![i] = authExport[r]])
    /\ UNCHANGED <<mainDc, after, delayed, authWaiters, badGuest, errors,
                   abandoned, broken>>

\* exportFail() with an error that is not handled by default: the requests
\* that waited are neither failed nor sent again.
ExportFail(r) ==
    /\ r \in batch \cap parserMap
    /\ kind[r] = "export"
    /\ batch' = batch \ {r}
    /\ parserMap' = parserMap \ {r}
    /\ LET dc == BareDcId(authExport[r])
           waiters == authWaiters[dc]
       IN  /\ authWaiters' = [authWaiters EXCEPT ![dc] = <<>>]
           /\ abandoned' = abandoned \cup { waiters[i] : i \in DOMAIN waiters }
    /\ Unregister(r, requestMap, requestsByDc, inSession)
    /\ UNCHANGED <<mainDc, kind, after, delayed, authExport, badGuest, errors,
                   broken>>

\* importDone(): every waiting request is sent again, in order.  The first one
\* that was registered for the main dc makes the data center the main one, and
\* its session, with what was just given to it, is killed.  getSession() is
\* asked for the signed id here.
ImportDone(r) ==
    /\ r \in batch \cap parserMap
    /\ kind[r] = "import"
    /\ batch' = batch \ {r}
    /\ parserMap' = parserMap \ {r}
    /\ LET newdc == BareDcId(requestsByDc[r])
           waiters == authWaiters[newdc]
           found == { i \in DOMAIN waiters :
                        waiters[i] \in requestMap
                            /\ requestsByDc[waiters[i]] # 0 }
           resent == { waiters[i] : i \in found }
           target(x) == ChangedDc(requestsByDc[x], newdc)
           switches == { i \in found : requestsByDc[waiters[i]] < 0 }
           newMain == IF switches = {} THEN mainDc ELSE newdc
           dropped == DroppedBy(newMain) \cup
                        { waiters[i] : i \in { j \in found :
                            /\ target(waiters[j]) \in Killed(newMain)
                            /\ \E k \in switches : j < k
                            /\ ~ \E k \in switches : k < j } }
       IN  /\ authWaiters' = [authWaiters EXCEPT ![newdc] = <<>>]
           /\ SetMainDcId(newMain, dropped)
           /\ Unregister(r, requestMap,
                [x \in Ids |-> IF x \in resent THEN target(x)
                                               ELSE requestsByDc[x]],
                [x \in Ids |-> IF x \in dropped THEN 0
                               ELSE IF x \in resent THEN target(x)
                               ELSE inSession[x]])
    /\ UNCHANGED <<kind, after, delayed, authExport, badGuest, errors>>

\* importFail(): nothing is done for the requests that wait.
ImportFail(r) ==
    /\ r \in batch \cap parserMap
    /\ kind[r] = "import"
    /\ batch' = batch \ {r}
    /\ parserMap' = parserMap \ {r}
    /\ broken' = broken \cup {BareDcId(requestsByDc[r])}
    /\ Unregister(r, requestMap, requestsByDc, inSession)
    /\ UNCHANGED <<mainDc, kind, after, delayed, authWaiters, authExport,
                   badGuest, errors, abandoned>>

-----------------------------------------------------------------------------
(* onErrorDefault(): the errors after which the request is sent again. *)

\* Mutant: the request is sent to the new dc, and registered for the old one.
MigrateUnregistered(r, newdc) ==
    /\ TakeError(r)
    /\ kind[r] = "user"
    /\ requestsByDc[r] > 0
    /\ inSession' = [inSession EXCEPT ![r] =
                        ShiftDcId(newdc, GetDcIdShift(requestsByDc[r]))]
    /\ UNCHANGED <<mainDc, kind, requestMap, parserMap, requestsByDc, after,
                   dependent, delayed, authWaiters, authExport, badGuest,
                   abandoned, broken>>

\* *_MIGRATE_*: a request for the main dc moves the main dc itself.
Migrate(r, newdc) ==
    /\ TakeError(r)
    /\ kind[r] = "user"
    /\ LET signed == requestsByDc[r]
           main == signed < 0
           target == IF main THEN newdc
                             ELSE ShiftDcId(newdc, GetDcIdShift(signed))
           newMain == IF main THEN newdc ELSE mainDc
       IN  /\ SetMainDcId(newMain, DroppedBy(newMain))
           /\ requestsByDc' = [requestsByDc EXCEPT
                                 ![r] = IF main THEN -target ELSE target]
           /\ inSession' = [SessionsLeft(newMain) EXCEPT ![r] = target]
    /\ UNCHANGED <<kind, requestMap, parserMap, after, dependent, delayed,
                   authWaiters, authExport, badGuest>>

\* MSG_WAIT_TIMEOUT, MSG_WAIT_FAILED: wait for the other request here, or
\* forget about it when it is over or goes to another data center.
MsgWait(r) ==
    /\ TakeError(r)
    /\ after[r] # 0
    /\ IF requestsByDc[after[r]] = requestsByDc[r]
         THEN /\ dependent' = [dependent EXCEPT ![r] = after[r]]
              /\ UNCHANGED <<after, inSession>>
         ELSE /\ after' = [after EXCEPT ![r] = 0]
              /\ inSession' = [inSession EXCEPT ![r] = Abs(requestsByDc[r])]
              /\ UNCHANGED dependent
    /\ UNCHANGED <<mainDc, kind, requestMap, parserMap, requestsByDc, delayed,
                   authWaiters, authExport, badGuest, abandoned, broken>>

\* A temporary error or FLOOD_WAIT_*.
Delay(r) ==
    /\ TakeError(r)
    /\ delayed' = delayed \cup {r}
    /\ UNCHANGED <<mainDc, kind, requestMap, parserMap, requestsByDc, after,
                   dependent, authWaiters, authExport, badGuest, inSession,
                   abandoned, broken>>

\* Mutants: every request asks for an export; the first one does not.
NeedsExportAlways(newdc) == newdc \in Dcs
NeedsExportInverted(newdc) == authWaiters[newdc] # <<>>

\* Only the first request to wait for a data center asks for an export.
NeedsExport(newdc) == authWaiters[newdc] = <<>>

\* 401, or FILE_ID_INVALID for the first time, away from the main dc: the
\* request waits, and the first to wait asks for an export.
Unauthorized(r, badGuestDc) ==
    /\ TakeError(r)
    /\ kind[r] = "user"
    /\ badGuestDc => r \notin badGuest
    /\ LET signed == requestsByDc[r]
           newdc == BareDcId(Abs(signed))
       IN  /\ newdc # mainDc
           /\ authWaiters' = [authWaiters EXCEPT ![newdc] = Append(@, r)]
           /\ badGuest' = IF badGuestDc THEN badGuest \cup {r} ELSE badGuest
           /\ IF NeedsExport(newdc)
                THEN /\ Spare(2)
                     /\ \E e \in Ids :
                        /\ IsNextId(e)
                        /\ kind' = [kind EXCEPT ![e] = "export"]
                        /\ requestMap' = requestMap \cup {e}
                        /\ parserMap' = parserMap \cup {e}
                        /\ requestsByDc' = [requestsByDc EXCEPT ![e] = -mainDc]
                        /\ inSession' = [inSession EXCEPT ![e] = mainDc]
                        /\ authExport' = [authExport EXCEPT ![e] = Abs(signed)]
                ELSE UNCHANGED <<kind, requestMap, parserMap, requestsByDc,
                                 inSession, authExport>>
    /\ UNCHANGED <<mainDc, after, dependent, delayed, abandoned, broken>>

\* FILE_ID_INVALID again: the fail handler gets it.
BadGuestAgain(r) ==
    /\ r \in batch \cap parserMap
    /\ r \in badGuest
    /\ batch' = batch \ {r}
    /\ badGuest' = badGuest \ {r}
    /\ parserMap' = parserMap \ {r}
    /\ Unregister(r, requestMap, requestsByDc, inSession)
    /\ UNCHANGED <<mainDc, kind, after, delayed, authWaiters, authExport,
                   errors, abandoned, broken>>

\* CONNECTION_NOT_INITED, CONNECTION_LAYER_INVALID.
NotInited(r) ==
    /\ TakeError(r)
    /\ inSession' = [inSession EXCEPT ![r] = Abs(requestsByDc[r])]
    /\ UNCHANGED <<mainDc, kind, requestMap, parserMap, requestsByDc, after,
                   dependent, delayed, authWaiters, authExport, badGuest,
                   abandoned, broken>>

-----------------------------------------------------------------------------

Callers ==
    \/ \E r \in Ids, d \in Targets :
        \/ d = 0 /\ SendRequest(r, d, FALSE, 0)
        \/ \E afterId \in {0} \cup { q \in Ids : kind[q] = "user" } :
            SendRequest(r, d, TRUE, afterId)
    \/ \E r \in Ids : Cancel(r)

Answers ==
    \E r \in Ids :
        \/ UserAnswered(r)
        \/ ExportDone(r)
        \/ ExportFail(r)
        \/ ImportDone(r)
        \/ ImportFail(r)
        \/ \E newdc \in Migrations \ {BareDcId(Abs(requestsByDc[r]))} :
                Migrate(r, newdc)
        \/ MsgWait(r)
        \/ Delay(r)
        \/ Unauthorized(r, FALSE)
        \/ requestsByDc[r] > 0 /\ Unauthorized(r, TRUE)
        \/ BadGuestAgain(r)
        \/ NotInited(r)

Receives ==
    \E session \in ShiftedDcs :
        \E answered \in SUBSET { r \in Ids : inSession[r] = session } :
            TryToReceive(session, answered)

Timer == \E r \in Ids : CheckDelayedRequests(r)

Next == Callers \/ Answers \/ Receives \/ Timer

Spec == Init /\ [][Next]_vars

\* Data centers answer, the event loop delivers the answers, timers fire.
\* Callers are under no obligation.
FairSpec == Spec /\ WF_vars(Answers \/ Receives \/ Timer)

-----------------------------------------------------------------------------
(* Properties. *)

Waiting(r) == \E dc \in Dcs : \E i \in DOMAIN authWaiters[dc] :
                authWaiters[dc][i] = r

\* How many of the five places hold the request.
Holders(r) ==
    LET count(held) == IF held THEN 1 ELSE 0
    IN  count(inSession[r] # 0) + count(r \in batch) + count(r \in delayed)
            + count(dependent[r] # 0) + count(Waiting(r))

\* The maps of the registry name the same requests whenever the main thread
\* is between two of its functions, and only stored requests have handlers.
\* The early return in unregisterRequest(), which would leave the remaining
\* dependent requests unsent, is therefore never taken.
RegisteredTogether ==
    /\ \A r \in Ids : r \in requestMap <=> requestsByDc[r] # 0
    /\ parserMap \subseteq requestMap

\* A request is in one place at a time.  Sent twice it would be executed
\* twice; held by nobody it is never answered, and the caller's callbacks are
\* never called: that happens only to what a killed session or the waiters
\* of a failed export have dropped.
HeldOnce ==
    \A r \in requestMap :
        IF r \in abandoned THEN Holders(r) <= 1 ELSE Holders(r) = 1

\* What a request waits for in _dependentRequests is a registered request, so
\* its unregisterRequest() is still to come.
DependentsWillBeResent ==
    \A r \in Ids : dependent[r] # 0 =>
        r \in requestMap /\ dependent[r] \in requestMap /\ dependent[r] < r

\* At most one export or import is under way for a data center, and one is
\* whenever requests wait for it, unless an import failed there or the
\* request was dropped with its session.
OneAuthPerDc ==
    \A dc \in Dcs :
        LET under == { a \in requestMap : IsAuth(a) /\ AuthDc(a) = dc }
        IN  /\ Cardinality(under) <= 1
            /\ under # {} => authWaiters[dc] # <<>>
            /\ authWaiters[dc] # <<>> => under # {} \/ dc \in broken

\* Where cancel() looks for a request is where it is.
CancelFindsSession ==
    \A r \in requestMap : inSession[r] > 0 => inSession[r] = Abs(requestsByDc[r])

\* A request no answer will come for: dropped, given to the session of a
\* negative id, waiting for an authorization that came to nothing, or
\* waiting for such a request.
Hopeless ==
    LET lost == { r \in requestMap :
                    \/ r \in abandoned
                    \/ inSession[r] < 0
                    \/ \E dc \in broken : \E i \in DOMAIN authWaiters[dc] :
                            authWaiters[dc][i] = r }
    IN  UNION { ToRemove(q) : q \in lost }

\* Every other request is answered and unregistered in the end.
RequestsEnd == <>[](requestMap \subseteq Hopeless)

\* Requests that wait for authorization have an export or an import under way
\* for them: after a failed one the next request asks again.
WaitersAreServed ==
    \A dc \in Dcs : authWaiters[dc] # <<>> =>
        \E a \in requestMap : IsAuth(a) /\ AuthDc(a) = dc

=============================================================================
