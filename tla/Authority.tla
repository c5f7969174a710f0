----------------------------- MODULE Authority ------------------------------
(***************************************************************************)
(* From an intent to its effect: dispatch.rs, the resolver's admission,    *)
(* POST /intents of control_api.rs, and verify.rs's verify_grant_then and  *)
(* verify_refusal_then over the intent table and the sender table.         *)
(*                                                                         *)
(* A grant reaches verify_grant_then in two ways.  dispatch_grant (what    *)
(* the daemon runs) passes the sender's certificate as both the approver's *)
(* and the subject's, and the present as the time of first receipt.  A     *)
(* direct caller of the public routine passes each party's own certificate *)
(* and whatever time of first receipt it has kept: nothing in the source   *)
(* calls record_first_receipt.  Both give it the daemon's other hooks:     *)
(* is_consumed over the ledger that attach_ledger has opened, is_revoked,  *)
(* which revokes nobody, and an execute hook that begins with              *)
(* commit_consumed.  The shipped one ends there, with                      *)
(* EffectOutcome::Refused (D-089); `effects` records where a hook with an  *)
(* effect backend would fire, once the commit has succeeded.               *)
(***************************************************************************)
EXTENDS Intents, Sequences, SequencesExt

CONSTANTS
    Foreign,      \* the Resources whose fingerprint is another executor's
    Aliases,      \* the resolver's aliases: pairs <<name, resource>>
    Parties,      \* signing keys
    CertOf,       \* Parties -> [roles, version, scopes], what cert_for_sender finds
    PathsOf,      \* Resources -> the scope ids of the resource and its ancestors
    Self,         \* this executor's key
    Actions, LargeActions,   \* intent actions; those longer than SENDER_MAX_ACTION
    Requests,     \* intents that may arrive: [id, name, sender, action, via]
    Grants,       \* grants that may arrive
    T_MAX, T_RECV,           \* expiry bounds, in clock ticks
    MAX_LIVE,     \* capacity of the consumed-grant ledger
    MaxNow, MaxAdmissions    \* bounds of the exploration

ASSUME AuthorityAssumption ==
    /\ Foreign \subseteq Resources /\ LargeActions \subseteq Actions
    /\ T_MAX \in Nat /\ T_RECV \in Nat /\ MAX_LIVE \in Nat
    /\ Actions # {}
    /\ \A q \in Requests :
          /\ q.id \in IntentIds /\ q.sender \in Parties /\ q.action \in Actions
          /\ q.via \in {"wire", "http"}
    /\ \A g \in Grants : g.notAfter \in Nat

VARIABLES
    table,      \* intent_table
    senders,    \* sender_table.entries, never shortened
    consumed,   \* the consumed map of the ledger's caches: a set of [id, expiry]
    now,        \* now_ms
    origin,     \* the admission behind each intent id: who, what, which
    effects,    \* the grants committed for execution, in order, over all restarts
    started     \* how many of them had come when this process started

vars == <<table, senders, consumed, now, origin, effects, started>>

Init ==
    /\ table = {} /\ senders = <<>> /\ consumed = {}
    /\ now = 0 /\ effects = <<>> /\ started = 0
    /\ origin = [i \in IntentIds |->
           [serial |-> 0, base |-> 0, via |-> "wire", sender |-> Self,
            action |-> CHOOSE a \in Actions : TRUE]]

-----------------------------------------------------------------------------
\* The catalogue entries a name hits, directly or through an alias.
Hits(name) == {c \in Resources : c = name \/ <<name, c>> \in Aliases}

\* Mutant: the intent is admitted under the name it proposed.
ResolveVerbatim(name) ==
    IF Cardinality(Hits(name)) = 1 /\ Hits(name) \cap Foreign = {} THEN {name} ELSE {}

\* resolve: the one catalogued resource a name stands for.  Unknown, ambiguous
\* and foreign names resolve to nothing.
Resolve(name) == IF Cardinality(Hits(name)) = 1 THEN Hits(name) \ Foreign ELSE {}

\* SenderTable::lookup: the first record with this id.
Lookup(i) ==
    LET hits == {k \in DOMAIN senders : senders[k].id = i}
    IN  {senders[k] : k \in {k \in hits : \A j \in hits : k <= j}}

\* Mutant: a grant is still good at the instant it expires.
NotExpiredAtEnd(g, first) ==
    /\ now <= g.notAfter
    /\ g.notAfter <= first + T_MAX
    /\ now <= first + T_RECV

\* check_expiry: all three conditions of BE-GRANT-05.
NotExpired(g, first) ==
    /\ now < g.notAfter
    /\ g.notAfter <= first + T_MAX
    /\ now <= first + T_RECV

\* scope_covers_resource: some prefix of the path is a scope; not asked of v2.
InScope(cert, r) == cert.version >= 3 => PathsOf[r] \cap cert.scopes # {}

\* Mutant: check 4 does not look at the subject's role.
GrantChecksAnySubject(g, from, approver, subject, first) ==
    /\ g.version = 2
    /\ \E e \in MatchForGrant(table, g.intent), s \in Lookup(g.intent) :
        /\ from = g.approver /\ g.signer = g.approver
        /\ "approver" \in approver.roles /\ approver.key = g.approver
        /\ InScope(approver, g.resource)
        /\ subject.key = g.subject /\ InScope(subject, g.resource)
        /\ g.executor = Self /\ g.subject = s.sender
        /\ g.resource = e.resource /\ g.digest = s.action
        /\ NotExpired(g, first)
    /\ \A c \in consumed : c.id # g.id

\* verify_grant_then up to its execute call; a grant is refused at the first
\* check that fails, and a refusal changes nothing.
GrantChecks(g, from, approver, subject, first) ==
    /\ g.version = 2
    /\ \E e \in MatchForGrant(table, g.intent), s \in Lookup(g.intent) :
        /\ from = g.approver /\ g.signer = g.approver
        /\ "approver" \in approver.roles /\ approver.key = g.approver
        /\ InScope(approver, g.resource)
        /\ "agent" \in subject.roles /\ subject.key = g.subject
        /\ InScope(subject, g.resource)
        /\ g.executor = Self /\ g.subject = s.sender
        /\ g.resource = e.resource /\ g.digest = s.action
        /\ NotExpired(g, first)
    /\ \A c \in consumed : c.id # g.id

\* What commit_consumed leaves live before it appends: at the cap, the expired go.
RoomFor(now_ms) ==
    IF Cardinality(consumed) >= MAX_LIVE THEN {c \in consumed : c.expiry > now_ms} ELSE consumed

\* origin after request q has been admitted.
Admitted(q) ==
    [origin EXCEPT ![q.id] = [serial |-> @.serial + 1, base |-> @.base, via |-> q.via,
                              sender |-> q.sender, action |-> q.action]]

-----------------------------------------------------------------------------
\* Mutant: the sender record is stored before the admission is decided.
WireIntentRecordFirst(q) ==
    /\ q.via = "wire" /\ origin[q.id].serial < MaxAdmissions
    /\ Len(senders) < MaxAdmissions
    /\ senders' = IF q.action \in LargeActions THEN senders
                  ELSE Append(senders, [id |-> q.id, sender |-> q.sender, action |-> q.action])
    /\ \/ \E r \in Resolve(q.name) :
              /\ AdmitResult(table, q.id, r) = "Ok"
              /\ table' = Admit(table, q.id, r, now)
              /\ origin' = Admitted(q)
       \/ /\ \A r \in Resolve(q.name) : AdmitResult(table, q.id, r) # "Ok"
          /\ UNCHANGED <<table, origin>>
    /\ UNCHANGED <<consumed, now, effects, started>>

\* dispatch_intent: resolve and admit, then the sender record.  An action too
\* large for the record is an error only after the admission.
WireIntent(q) ==
    /\ q.via = "wire" /\ origin[q.id].serial < MaxAdmissions
    /\ \E r \in Resolve(q.name) :
        /\ AdmitResult(table, q.id, r) = "Ok"
        /\ table' = Admit(table, q.id, r, now)
    /\ senders' = IF q.action \in LargeActions THEN senders
                  ELSE Append(senders, [id |-> q.id, sender |-> q.sender, action |-> q.action])
    /\ origin' = Admitted(q)
    /\ UNCHANGED <<consumed, now, effects, started>>

\* post_intent: the same admission, with the subject checked for shape and dropped.
HttpIntent(q) ==
    /\ q.via = "http" /\ origin[q.id].serial < MaxAdmissions
    /\ \E r \in Resolve(q.name) :
        /\ AdmitResult(table, q.id, r) = "Ok"
        /\ table' = Admit(table, q.id, r, now)
    /\ origin' = Admitted(q)
    /\ UNCHANGED <<senders, consumed, now, effects, started>>

\* Whether dispatch_grant gets the grant past verify_grant_then.
DispatchAccepts(g, from) ==
    from \in DOMAIN CertOf /\ GrantChecks(g, from, CertOf[from], CertOf[from], now)

\* Whether a direct caller of verify_grant_then does, with a first receipt it has kept.
DirectAccepts(g, from) ==
    /\ {g.approver, g.subject} \subseteq DOMAIN CertOf
    /\ \E first \in 0 .. now :
          GrantChecks(g, from, CertOf[g.approver], CertOf[g.subject], first)

\* The execute hook: commit_consumed returns Ok, the effect may fire.
Execute(g) ==
    /\ Cardinality(RoomFor(now)) < MAX_LIVE
    /\ consumed' = RoomFor(now) \cup {[id |-> g.id, expiry |-> g.notAfter]}
    /\ effects' = Append(effects,
           [grant |-> g, sender |-> origin[g.intent].sender, action |-> origin[g.intent].action])

\* The hook when commit_consumed fails, at its cap or on the disk: no effect.  The
\* daemon's drops the error and answers Refused as well.
ExecuteFails == consumed' = RoomFor(now) /\ UNCHANGED effects

DispatchGrant(g, from) ==
    /\ DispatchAccepts(g, from)
    /\ Execute(g) \/ ExecuteFails
    /\ UNCHANGED <<table, senders, now, origin, started>>

DirectGrant(g, from) ==
    /\ DirectAccepts(g, from)
    /\ Execute(g) \/ ExecuteFails
    /\ UNCHANGED <<table, senders, now, origin, started>>

\* dispatch_refusal on a PENDING intent; any other refusal changes nothing.
Refusal(i, from) ==
    /\ from \in DOMAIN CertOf
    /\ "approver" \in CertOf[from].roles /\ CertOf[from].key = from
    /\ \E e \in MatchForGrant(table, i) : table' = ApplyRefusal(table, e)
    /\ UNCHANGED <<senders, consumed, now, origin, effects, started>>

\* A restart: pending intents and their senders are gone.  attach_ledger opens the
\* ledger and does not recover() it, so that its caches are empty, whatever is on disk.
Restart ==
    /\ table' = {} /\ senders' = <<>> /\ consumed' = {}
    /\ origin' = [i \in IntentIds |-> [origin[i] EXCEPT !.base = origin[i].serial]]
    /\ started' = Len(effects)
    /\ UNCHANGED <<now, effects>>

Tick ==
    /\ now < MaxNow
    /\ now' = now + 1
    /\ UNCHANGED <<table, senders, consumed, origin, effects, started>>

Next ==
    \/ \E q \in Requests : WireIntent(q) \/ HttpIntent(q)
    \/ \E g \in Grants, from \in Parties :
          DispatchGrant(g, from) \/ DirectGrant(g, from)
    \/ \E i \in IntentIds, from \in Parties : Refusal(i, from)
    \/ Restart
    \/ Tick

Spec == Init /\ [][Next]_vars

-----------------------------------------------------------------------------
\* The same signed grant never takes effect twice in the life of a process: it is in
\* the ledger's caches until it is pruned, and pruned only when check_expiry refuses it
\* (`exp <= now_ms` in prune_expired against `now_ms >= not_after`), also against an
\* intent proposed anew after a refusal.
EffectOncePerGrant ==
    \A j, k \in started + 1 .. Len(effects) : effects[j].grant = effects[k].grant => j = k

\* specs/dispatch.md:62, "Reused grant_id refuses EVEN against a fresh intent": a grant
\* that took effect is refused for good, also by the process that comes after a restart
\* and has its commit in the ledger file.
ReuseRefused ==
    \A j, k \in DOMAIN effects : effects[j].grant = effects[k].grant => j = k

\* Nobody's own grant has an effect on their own intent, on either path, unless a
\* certificate has both roles (which check_role_constraints lets nobody bind).
SeparationOfDuty ==
    \A x \in ToSet(effects) :
        x.grant.approver = x.grant.subject =>
            {"agent", "approver"} \subseteq CertOf[x.grant.subject].roles

\* BE-RES-01..04: the lock is on the executor's form of a resource.  Whatever names
\* intents use, also where an alias is the canonical name of another resource, every
\* live one holds an entry of this executor's catalogue, and no two hold the same.
AliasExclusive ==
    \A e, f \in table :
        e.resource \in Resources \ Foreign /\ (e # f => e.resource # f.resource)

\* F13: a PENDING intent admitted over the wire is bound to its own sender and
\* action, when its id is used for the first time since the start.
FirstUseBound ==
    \A e \in table :
        LET o == origin[e.id]
        IN  o.serial = o.base + 1 /\ o.via = "wire" /\ o.action \notin LargeActions =>
                Lookup(e.id) = {[id |-> e.id, sender |-> o.sender, action |-> o.action]}

\* verify.rs:289, "6. The grant's subject is the pending intent's sender": the
\* effect is the one the sender of that pending intent asked for.
SenderBound ==
    \A x \in ToSet(effects) :
        x.grant.subject = x.sender /\ x.grant.digest = x.action
=============================================================================
