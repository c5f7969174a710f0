------------------------------ MODULE NodeApi -------------------------------
(***************************************************************************)
(* What the node tells about itself.  Every exit of the datagram handlers  *)
(* of daemon.rs and every route of route_http, reduced to what it counts,  *)
(* publishes and answers, over the intent table both doors share.          *)
(*                                                                         *)
(* An error is the path of its variants from the outside in, so that       *)
(* DispatchError::Resolve(ResolveError::Intent(TableFull)) is              *)
(* <<"Dispatch", "Resolve", "Intent", "TableFull">>.  Which intent is      *)
(* refused for which reason follows from the table; the other refusals     *)
(* may come at any time, since their causes are other modules' business.   *)
(* A proposed name is known by what resolve makes of it: a resource, or    *)
(* the error.  Nothing in the daemon calls expire_timeouts.                *)
(***************************************************************************)
EXTENDS Intents, Sequences, SequencesExt, Functions

CONSTANTS
    Unresolved,      \* names without a resource: the ResolveErrors they give
    Refusals,        \* errors of packets that hold no intent
    MaxHandled,      \* bound: datagrams and requests
    MaxTime          \* bound: the clock

VARIABLES
    table,       \* intents
    now,         \* now_ms
    count,       \* rejected_total, wire.admissions_total, metrics.admitted_total,
                 \* ctl_requests and ctl_auth_refused
    rejects,     \* wire.rejects
    published,   \* the events published so far, per tag
    token,       \* a token was minted
    reply,       \* the answer to the last request
    past         \* history: [handled, refused (per class), rejected (intents)]

apiVars == <<table, now, count, rejects, published, token, reply, past>>

-----------------------------------------------------------------------------
\* WireRejectClass::NAMES, in declaration order: the stages, VerifyError, DispatchError,
\* ResolveError, IntentError and the handshake table.
NAMES ==
    <<"Binding", "Transport", "Parse",
      "BadVersion", "BadEnvelopeBinding", "BadSignature", "MalformedKey", "BadApproverCert",
      "BadSubjectCert", "ApproverRevoked", "ApproverOutOfScope", "SubjectRevoked",
      "SubjectOutOfScope", "WrongExecutor", "WrongSubject", "NoMatchingIntent", "WrongResource",
      "ActionDigestMismatch", "Expired", "AlreadyConsumed", "WrongBodyType", "SeqWindowStale",
      "Equivocation", "UnknownParents", "BadControlBody",
      "BadEnvelope", "BadBody", "UnsupportedBody", "NoPendingIntent", "UnknownSender",
      "ActionTooLarge", "DiskError",
      "MalformedCanonical", "SetFull", "AliasPoolFull", "DuplicateEntry", "UnknownResource",
      "AmbiguousResource", "ForeignExecutor", "BufferTooSmall",
      "TableFull", "DuplicateIntentId", "ResourceHeld", "NotPending",
      "HandshakeFull">>

\* WireRejectClass::index: the offset of the family and the place in it.
Index(class) == (CHOOSE k \in DOMAIN NAMES : NAMES[k] = class) - 1

\* The four From conversions: nested errors are flattened to the innermost.
From(error) == Last(error)

\* Only an intent can be too large or a duplicate, and only handle_handshake refuses with
\* HandshakeFull.
ASSUME ApiAssumption ==
    /\ Unresolved \subseteq ToSet(NAMES) \ {"DuplicateIntentId", "ActionTooLarge", "HandshakeFull"}
    /\ \A error \in Refusals : From(error) \in ToSet(NAMES) \ {"ActionTooLarge", "HandshakeFull"}

NewCount ==
    [rejected |-> 0, admissions |-> 0, admitted |-> 0, requests |-> 0, authRefused |-> 0]
NewRejects == [k \in 0 .. Len(NAMES) - 1 |-> 0]
Nothing == [t \in {"IntentAdmitted", "RefusalApplied", "Other"} |-> 0]
NewPast == [handled |-> 0, refused |-> [c \in ToSet(NAMES) |-> 0], rejected |-> 0]
NoReply == [code |-> 0]

ApiInit ==
    /\ table = {} /\ now = 0 /\ token \in BOOLEAN
    /\ count = NewCount /\ rejects = NewRejects /\ published = Nothing
    /\ reply = NoReply /\ past = NewPast

-----------------------------------------------------------------------------
\* One more datagram or request was handled; c is the class it was refused with, if any.
Handled(c) ==
    /\ past.handled < MaxHandled
    /\ past' = [past EXCEPT !.handled = @ + 1,
                            !.refused = [k \in DOMAIN @ |-> @[k] + IF k \in c THEN 1 ELSE 0]]

\* rejected_total and WireCounters::bump, as every refusing exit has them.
Bump(error) ==
    /\ count' = [count EXCEPT !.rejected = @ + 1]
    /\ rejects' = [rejects EXCEPT ![Index(From(error))] = @ + 1]

\* handle_transport, handle_binding, handle_envelope and dispatch_envelope refuse.
PacketRefused(error) ==
    /\ Handled({From(error)})
    /\ Bump(error)
    /\ reply' = NoReply
    /\ UNCHANGED <<table, now, published, token>>

\* handle_handshake without a free slot: a class of its own, no rejection.
HandshakeFull ==
    /\ Handled({"HandshakeFull"})
    /\ rejects' = [rejects EXCEPT ![Index("HandshakeFull")] = @ + 1]
    /\ reply' = NoReply
    /\ UNCHANGED <<table, now, count, published, token>>

\* resolve_and_admit.
ResolveAndAdmit(i, name) ==
    IF name \in Unresolved THEN <<"Resolve", name>>
    ELSE IF AdmitResult(table, i, name) = "Ok" THEN <<"Ok">>
    ELSE <<"Resolve", "Intent", AdmitResult(table, i, name)>>

\* Mutant: the event is published before the action is measured.
WireIntentEarlyEvent(i, name, large) ==
    LET verdict == ResolveAndAdmit(i, name) IN
    /\ verdict = <<"Ok">>
    /\ table' = Admit(table, i, name, now)
    /\ published' = [published EXCEPT !["IntentAdmitted"] = @ + 1]
    /\ IF large
       THEN Handled({"ActionTooLarge"}) /\ Bump(<<"Dispatch", "ActionTooLarge">>)
       ELSE /\ Handled({})
            /\ count' = [count EXCEPT !.admissions = @ + 1]
            /\ UNCHANGED rejects
    /\ reply' = NoReply
    /\ UNCHANGED <<now, token>>

\* dispatch_intent admits; an action that is too large is only noticed afterwards, and
\* the intent stays in the table.
WireIntent(i, name, large) ==
    /\ ResolveAndAdmit(i, name) = <<"Ok">>
    /\ table' = Admit(table, i, name, now)
    /\ IF large
       THEN /\ Handled({"ActionTooLarge"})
            /\ Bump(<<"Dispatch", "ActionTooLarge">>)
            /\ UNCHANGED published
       ELSE /\ Handled({})
            /\ count' = [count EXCEPT !.admissions = @ + 1]
            /\ published' = [published EXCEPT !["IntentAdmitted"] = @ + 1]
            /\ UNCHANGED rejects
    /\ reply' = NoReply
    /\ UNCHANGED <<now, token>>

\* dispatch_intent with an error of resolve_and_admit.
WireIntentRefused(i, name) ==
    /\ ResolveAndAdmit(i, name) # <<"Ok">>
    /\ PacketRefused(<<"Dispatch">> \o ResolveAndAdmit(i, name))

\* dispatch_refusal: the event is published whether or not a PENDING intent matched.
WireRefusal(i) ==
    /\ past.handled < MaxHandled
    /\ LET match == MatchForGrant(table, i)
       IN  /\ table' = IF match = {} THEN table
                       ELSE ApplyRefusal(table, CHOOSE e \in match : TRUE)
           /\ past' = [past EXCEPT !.handled = @ + 1,
                                   !.rejected = @ + IF match = {} THEN 0 ELSE 1]
    /\ published' = [published EXCEPT !["RefusalApplied"] = @ + 1]
    /\ reply' = NoReply
    /\ UNCHANGED <<now, count, rejects, token>>

\* A grant (executed or refused) or a control body: an event, no counter.
WireEvent ==
    /\ Handled({})
    /\ published' = [published EXCEPT !["Other"] = @ + 1]
    /\ reply' = NoReply
    /\ UNCHANGED <<table, now, count, rejects, token>>

-----------------------------------------------------------------------------
\* ApiError::status of what post_intent and resolve_and_admit return.
Status(error) ==
    CASE Last(error) = "DuplicateIntentId" -> 202
      [] Last(error) = "ResourceHeld" -> 409
      [] Last(error) = "TableFull" -> 503
      [] Last(error) \in {"NotPending", "BadRequest"} -> 400
      [] Last(error) = "NotFound" -> 404
      [] OTHER -> 422

\* poll_control counts the request, route_http answers it and leaves alone what its
\* route does not touch.
Answer(r) ==
    /\ Handled({})
    /\ count' = [count EXCEPT !.requests = @ + 1]
    /\ reply' = r
    /\ UNCHANGED <<table, now, rejects, published, token>>

\* http_parse::parse fails, before the bearer is looked at.
HttpMalformed == Answer([code |-> 400])

\* bearer_ok fails; without a token nothing is compared, and nothing counted.
HttpForbidden(healthz) ==
    /\ Handled({})
    /\ token \/ ~healthz
    /\ count' = [count EXCEPT !.requests = @ + 1, !.authRefused = @ + IF token THEN 1 ELSE 0]
    /\ reply' = [code |-> 403]
    /\ UNCHANGED <<table, now, rejects, published, token>>

HttpHealthz == Answer([code |-> 200])

\* POST /v1/intents: post_intent admits.
HttpIntent(i, name) ==
    /\ token
    /\ Handled({})
    /\ ResolveAndAdmit(i, name) = <<"Ok">>
    /\ table' = Admit(table, i, name, now)
    /\ count' = [count EXCEPT !.requests = @ + 1, !.admitted = @ + 1]
    /\ published' = [published EXCEPT !["IntentAdmitted"] = @ + 1]
    /\ reply' = [code |-> 202, id |-> i]
    /\ UNCHANGED <<now, rejects, token>>

\* post_intent again for an id that is PENDING, or with any other error.
HttpIntentRefused(i, name) ==
    /\ token
    /\ ResolveAndAdmit(i, name) # <<"Ok">>
    /\ Answer([code |-> Status(ResolveAndAdmit(i, name)), id |-> i])

\* post_intent of a body that lacks a field or has a bad one, get_intent_state of an id
\* that is no hex: BadRequest.
HttpBadRequest == token /\ Answer([code |-> Status(<<"BadRequest">>)])

\* GET /v1/intents/<id>: the state of the first entry with this id.
HttpState(i) ==
    /\ token
    /\ LET found == {e \in table : e.id = i}
       IN  IF found = {} THEN Answer([code |-> Status(<<"NotFound">>)])
           ELSE \E e \in found : Answer([code |-> 200, state |-> e.state])

\* metrics_body as the route calls it: the three ctl counters are given as 0.
MetricsBody ==
    [admitted |-> count.admitted, admissions |-> count.admissions, rejects |-> rejects,
     requests |-> 0, authRefused |-> 0, timeouts |-> 0]

HttpMetrics == token /\ Answer([code |-> 200, body |-> MetricsBody])

ApiTick ==
    /\ now < MaxTime
    /\ now' = now + 1
    /\ UNCHANGED <<table, count, rejects, published, token, reply, past>>

\* A new process: Daemon::new.
ApiRestart ==
    /\ table' = {} /\ token' \in BOOLEAN
    /\ count' = NewCount /\ rejects' = NewRejects /\ published' = Nothing
    /\ reply' = NoReply /\ past' = NewPast
    /\ UNCHANGED now

ApiNext ==
    \/ \E error \in Refusals : PacketRefused(error)
    \/ HandshakeFull
    \/ \E i \in IntentIds, name \in Resources, large \in BOOLEAN : WireIntent(i, name, large)
    \/ \E i \in IntentIds, name \in Resources \cup Unresolved :
           WireIntentRefused(i, name) \/ HttpIntentRefused(i, name)
    \/ \E i \in IntentIds : WireRefusal(i) \/ HttpState(i)
    \/ \E i \in IntentIds, name \in Resources : HttpIntent(i, name)
    \/ WireEvent
    \/ \E healthz \in BOOLEAN : HttpForbidden(healthz)
    \/ HttpMalformed \/ HttpHealthz \/ HttpBadRequest \/ HttpMetrics
    \/ ApiRestart
    \/ ApiTick

ApiSpec == ApiInit /\ [][ApiNext]_apiVars

\* The clock goes on.
FairSpec == ApiSpec /\ WF_apiVars(ApiTick)

-----------------------------------------------------------------------------
\* "Exact accounting" (control_api.rs:26), so that a scrape reconciles with what was
\* sent.  Every class has its own counter and counts its own refusals, through both
\* doors and every nesting of errors; the classes other than handshake_full add up to
\* rejected_total; each intent_admitted event is one of the two admission counters; and
\* the intents these counters and the action_too_large class stand for are the ones in
\* the table and the ones that were refused since.  A POST that is answered 202, as new
\* or as a repetition, has its intent PENDING.
CountersReconcile ==
    /\ \A k \in DOMAIN NAMES : rejects[k - 1] = past.refused[NAMES[k]]
    /\ SumFunction(rejects) = count.rejected + rejects[Index("HandshakeFull")]
    /\ published["IntentAdmitted"] = count.admitted + count.admissions
    /\ Cardinality(table) + past.rejected
           = count.admitted + count.admissions + rejects[Index("ActionTooLarge")]
    /\ reply.code = 202 => MatchForGrant(table, reply.id) # {}

\* BE-GRANT-06a, "PENDING entries past T_pending expire; expiry releases the lock"
\* (state/intent.rs:142): an intent nobody decides does not hold its resource for good.
PendingExpires ==
    \A i \in IntentIds, r \in Resources, t \in 0 .. MaxTime :
        LET e == [id |-> i, resource |-> r, state |-> "Pending", admitted |-> t]
        IN  (e \in table /\ Overdue(e, now)) ~> (e \notin table)
=============================================================================
