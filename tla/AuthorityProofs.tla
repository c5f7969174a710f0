-------------------------- MODULE AuthorityProofs ---------------------------
(***************************************************************************)
(* Proofs about Authority: the four safety properties of the grant         *)
(* pipeline, for every set of parties, certificates, aliases, requests and *)
(* grants and for every limit and clock.  Then about IntentTable, for      *)
(* every set of intents and resources, every capacity and every timeout.   *)
(***************************************************************************)
EXTENDS Authority, IntentTable, FiniteSetTheorems, TLAPS

Sender == [id : IntentIds, sender : Parties, action : Actions]

Origin == [serial : Nat, base : Nat, via : {"wire", "http"}, sender : Parties \cup {Self},
           action : Actions]

Effect == [grant : Grants, sender : Parties \cup {Self}, action : Actions]

AuthorityTypeOK ==
    /\ table \subseteq Entry
    /\ senders \in Seq(Sender)
    /\ now \in Nat
    /\ origin \in [IntentIds -> Origin]
    /\ effects \in Seq(Effect)
    /\ started \in 0 .. Len(effects)

\* The daemon begins no execution: every entry is pending, and holds its resource.
TablePending == \A e \in table : e.state = "Pending"

\* What keeps a grant that has taken effect from doing so again: its entry in the
\* ledger's caches, or the clock.
Spent(g, ledger, time) == [id |-> g.id, expiry |-> g.notAfter] \in ledger \/ g.notAfter <= time

\* The effects of this process; what came before a restart, the caches do not know.
Recent == started + 1 .. Len(effects)

EffectsSpent == \A k \in Recent : Spent(effects[k].grant, consumed, now)

\* The sender records of an id since the start: none before its first admission,
\* and after it the one that belongs to it, or none at all.
SendersFollow ==
    \A i \in IntentIds :
        LET o == origin[i]
        IN  /\ o.serial >= o.base
            /\ o.serial = o.base => \A k \in DOMAIN senders : senders[k].id # i
            /\ o.serial = o.base + 1 /\ o.via = "wire" /\ o.action \notin LargeActions =>
                  \E k \in DOMAIN senders :
                      /\ senders[k] = [id |-> i, sender |-> o.sender, action |-> o.action]
                      /\ \A j \in DOMAIN senders : senders[j].id = i => j = k

AuthorityInv ==
    /\ AuthorityTypeOK
    /\ TablePending /\ AliasExclusive
    /\ EffectsSpent /\ EffectOncePerGrant /\ SeparationOfDuty
    /\ SendersFollow

\* What the properties of effects depend on.
effectPart == <<consumed, now, effects, started>>

EffectInv == EffectsSpent /\ EffectOncePerGrant /\ SeparationOfDuty

-----------------------------------------------------------------------------
\* The pipeline has not begun.
LEMMA AuthorityInit == Init => AuthorityInv
<1> SUFFICES ASSUME Init PROVE AuthorityInv  OBVIOUS
<1>1. AuthorityTypeOK
    <2>1. (CHOOSE a \in Actions : TRUE) \in Actions
        BY AuthorityAssumption
    <2> QED BY <2>1 DEF Init, AuthorityTypeOK, Origin
<1>2. TablePending /\ AliasExclusive /\ EffectsSpent /\ EffectOncePerGrant
    BY DEF Init, TablePending, AliasExclusive, EffectsSpent, Recent, EffectOncePerGrant
<1>3. SeparationOfDuty
    BY DEF Init, SeparationOfDuty, ToSet
<1>4. SendersFollow
    BY DEF Init, SendersFollow
<1> QED BY <1>1, <1>2, <1>3, <1>4 DEF AuthorityInv

\* resolve answers with entries of this executor's catalogue only.
LEMMA ResolveOwn == \A name : Resolve(name) \subseteq Resources \ Foreign
    BY DEF Resolve, Hits

\* An admission that resolve_and_admit has allowed keeps the table a lock.
LEMMA AdmitTable ==
    ASSUME AuthorityInv, NEW i \in IntentIds, NEW r \in Resources \ Foreign,
           AdmitResult(table, i, r) = "Ok", table' = Admit(table, i, r, now)
    PROVE  table' \subseteq Entry /\ TablePending' /\ AliasExclusive'
<1> DEFINE n == [id |-> i, resource |-> r, state |-> "Pending", admitted |-> now]
<1>1. n \in Entry /\ n.state = "Pending" /\ n.resource = r
    BY DEF AuthorityInv, AuthorityTypeOK, Entry, IntentStates
<1>2. table' = table \cup {n}
    BY DEF Admit
<1>3. \A e \in table : e.resource # r
    BY DEF AdmitResult, Live, AuthorityInv, TablePending
<1> HIDE DEF n
<1>4. table' \subseteq Entry /\ TablePending'
    BY <1>1, <1>2 DEF AuthorityInv, AuthorityTypeOK, TablePending
<1>5. AliasExclusive'
    BY <1>1, <1>2, <1>3 DEF AuthorityInv, AliasExclusive
<1> QED BY <1>4, <1>5

\* What an admission does to the origins.
LEMMA AdmittedFacts ==
    ASSUME AuthorityInv, NEW q \in Requests, origin' = Admitted(q)
    PROVE  /\ origin' \in [IntentIds -> Origin]
           /\ \A i \in IntentIds \ {q.id} : origin'[i] = origin[i]
           /\ origin'[q.id] = [serial |-> origin[q.id].serial + 1, base |-> origin[q.id].base,
                               via |-> q.via, sender |-> q.sender, action |-> q.action]
<1>1. q.id \in IntentIds /\ q.sender \in Parties /\ q.action \in Actions
      /\ q.via \in {"wire", "http"}
    BY AuthorityAssumption
<1>2. origin \in [IntentIds -> Origin] /\ origin[q.id] \in Origin
    BY <1>1 DEF AuthorityInv, AuthorityTypeOK
<1>3. origin[q.id].serial \in Nat /\ origin[q.id].base \in Nat
    BY <1>2 DEF Origin
<1> DEFINE o == [serial |-> origin[q.id].serial + 1, base |-> origin[q.id].base,
                 via |-> q.via, sender |-> q.sender, action |-> q.action]
<1>4. o \in Origin
    BY <1>1, <1>3 DEF Origin
<1>5. origin' = [origin EXCEPT ![q.id] = o]
    BY DEF Admitted
<1> HIDE DEF o
<1>6. origin' \in [IntentIds -> Origin] /\ origin'[q.id] = o
      /\ \A i \in IntentIds \ {q.id} : origin'[i] = origin[i]
    BY <1>1, <1>2, <1>4, <1>5
<1> QED BY <1>6 DEF o

\* What does not touch the ledger, the clock or the effects leaves their part alone.
LEMMA EffectUnchanged ==
    ASSUME EffectInv, UNCHANGED effectPart
    PROVE  EffectInv'
    BY DEF EffectInv, EffectsSpent, Recent, Spent, EffectOncePerGrant, SeparationOfDuty, effectPart

\* dispatch_intent: the record that follows the admission is the id's first since
\* the start, or the id has been used before.
LEMMA WireIntentInv ==
    ASSUME AuthorityInv, NEW q \in Requests, WireIntent(q)
    PROVE  AuthorityInv'
<1> DEFINE rec == [id |-> q.id, sender |-> q.sender, action |-> q.action]
           n == Len(senders)
<1>1. PICK r \in Resolve(q.name) :
          AdmitResult(table, q.id, r) = "Ok" /\ table' = Admit(table, q.id, r, now)
    BY DEF WireIntent
<1>2. /\ q.via = "wire" /\ origin' = Admitted(q)
      /\ senders' = IF q.action \in LargeActions THEN senders ELSE Append(senders, rec)
      /\ UNCHANGED <<consumed, now, effects, started>>
    BY DEF WireIntent
<1>3. q.id \in IntentIds /\ q.sender \in Parties /\ q.action \in Actions /\ r \in Resources \ Foreign
    BY AuthorityAssumption, ResolveOwn
<1>4. AuthorityTypeOK /\ SendersFollow /\ n \in Nat /\ senders \in Seq(Sender)
    BY DEF AuthorityInv, AuthorityTypeOK
<1>5. rec \in Sender /\ rec.id = q.id
    BY <1>3 DEF Sender
<1>6. table' \subseteq Entry /\ TablePending' /\ AliasExclusive'
    BY <1>1, <1>3, AdmitTable
<1>7. /\ origin' \in [IntentIds -> Origin]
      /\ \A i \in IntentIds \ {q.id} : origin'[i] = origin[i]
      /\ origin'[q.id] = [serial |-> origin[q.id].serial + 1, base |-> origin[q.id].base,
                          via |-> q.via, sender |-> q.sender, action |-> q.action]
    BY <1>2, AdmittedFacts
<1>8. origin[q.id].serial \in Nat /\ origin[q.id].base \in Nat
    BY <1>3, <1>4 DEF AuthorityTypeOK, Origin
<1>9. EffectInv'
    BY <1>2, EffectUnchanged DEF EffectInv, AuthorityInv, effectPart
<1>10. CASE q.action \in LargeActions
    <2>1. senders' = senders
        BY <1>2, <1>10
    <2>2. AuthorityTypeOK'
        BY <2>1, <1>2, <1>4, <1>6, <1>7 DEF AuthorityTypeOK
    <2>3. SendersFollow'
        <3> SUFFICES ASSUME NEW i \in IntentIds
                     PROVE  /\ origin'[i].serial >= origin'[i].base
                            /\ origin'[i].serial = origin'[i].base =>
                                  \A k \in DOMAIN senders : senders[k].id # i
                            /\ origin'[i].serial = origin'[i].base + 1 /\ origin'[i].via = "wire"
                               /\ origin'[i].action \notin LargeActions =>
                                  \E k \in DOMAIN senders :
                                     /\ senders[k] = [id |-> i, sender |-> origin'[i].sender,
                                                      action |-> origin'[i].action]
                                     /\ \A j \in DOMAIN senders : senders[j].id = i => j = k
            BY <2>1 DEF SendersFollow
        <3>1. CASE i = q.id
            BY <3>1, <1>4, <1>7, <1>8, <1>10 DEF SendersFollow
        <3>2. CASE i # q.id
            BY <3>2, <1>4, <1>7 DEF SendersFollow
        <3> QED BY <3>1, <3>2
    <2> QED BY <2>2, <2>3, <1>6, <1>9 DEF AuthorityInv, EffectInv
<1>11. CASE q.action \notin LargeActions
    <2>1. senders' = Append(senders, rec)
        BY <1>2, <1>11
    <2> HIDE DEF rec
    <2>2. /\ senders' \in Seq(Sender) /\ DOMAIN senders = 1 .. n /\ DOMAIN senders' = 1 .. n + 1
          /\ senders'[n + 1] = rec /\ \A k \in 1 .. n : senders'[k] = senders[k]
        BY <2>1, <1>4, <1>5
    <2> HIDE DEF n
    <2>3. AuthorityTypeOK'
        BY <2>2, <1>2, <1>4, <1>6, <1>7 DEF AuthorityTypeOK
    <2>4. SendersFollow'
        <3> SUFFICES ASSUME NEW i \in IntentIds
                     PROVE  /\ origin'[i].serial >= origin'[i].base
                            /\ origin'[i].serial = origin'[i].base =>
                                  \A k \in 1 .. n + 1 : senders'[k].id # i
                            /\ origin'[i].serial = origin'[i].base + 1 /\ origin'[i].via = "wire"
                               /\ origin'[i].action \notin LargeActions =>
                                  \E k \in 1 .. n + 1 :
                                     /\ senders'[k] = [id |-> i, sender |-> origin'[i].sender,
                                                       action |-> origin'[i].action]
                                     /\ \A j \in 1 .. n + 1 : senders'[j].id = i => j = k
            BY <2>2 DEF SendersFollow
        <3>1. CASE i = q.id
            <4>1. origin'[i].serial >= origin'[i].base + 1
                BY <3>1, <1>4, <1>7, <1>8 DEF SendersFollow
            <4>2. ASSUME origin'[i].serial = origin'[i].base + 1
                  PROVE  /\ senders'[n + 1] = [id |-> i, sender |-> origin'[i].sender,
                                               action |-> origin'[i].action]
                         /\ \A j \in 1 .. n + 1 : senders'[j].id = i => j = n + 1
                <5>1. origin[i].serial = origin[i].base
                    BY <4>2, <3>1, <1>7, <1>8
                <5>2. \A k \in 1 .. n : senders[k].id # i
                    BY <5>1, <1>4, <2>2 DEF SendersFollow
                <5>3. \A j \in 1 .. n + 1 : senders'[j].id = i => j = n + 1
                    BY <5>2, <2>2, <1>4
                <5> QED BY <5>3, <3>1, <2>2, <1>7 DEF rec
            <4>3. origin'[i].serial \in Nat /\ origin'[i].base \in Nat
                BY <3>1, <1>7, <1>8
            <4> QED BY <4>1, <4>2, <4>3, <1>4
        <3>2. CASE i # q.id
            <4>1. origin'[i] = origin[i] /\ senders'[n + 1].id # i
                BY <3>2, <1>5, <1>7, <2>2
            <4>2. ASSUME \A k \in 1 .. n : senders[k].id # i
                  PROVE  \A k \in 1 .. n + 1 : senders'[k].id # i
                BY <4>1, <4>2, <2>2, <1>4
            <4>3. ASSUME NEW x, \E k \in 1 .. n : /\ senders[k] = x
                                                  /\ \A j \in 1 .. n : senders[j].id = i => j = k
                  PROVE  \E k \in 1 .. n + 1 : /\ senders'[k] = x
                                               /\ \A j \in 1 .. n + 1 : senders'[j].id = i => j = k
                BY <4>1, <4>3, <2>2, <1>4
            <4>4. /\ origin[i].serial >= origin[i].base
                  /\ origin[i].serial = origin[i].base => \A k \in 1 .. n : senders[k].id # i
                  /\ origin[i].serial = origin[i].base + 1 /\ origin[i].via = "wire"
                     /\ origin[i].action \notin LargeActions =>
                        \E k \in 1 .. n :
                           /\ senders[k] = [id |-> i, sender |-> origin[i].sender,
                                            action |-> origin[i].action]
                           /\ \A j \in 1 .. n : senders[j].id = i => j = k
                BY <1>4, <2>2 DEF SendersFollow
            <4> DEFINE kept == [id |-> i, sender |-> origin[i].sender, action |-> origin[i].action]
            <4>5. (\E k \in 1 .. n : /\ senders[k] = kept
                                     /\ \A j \in 1 .. n : senders[j].id = i => j = k) =>
                     \E k \in 1 .. n + 1 : /\ senders'[k] = kept
                                           /\ \A j \in 1 .. n + 1 : senders'[j].id = i => j = k
                BY <4>3
            <4>6. kept = [id |-> i, sender |-> origin'[i].sender, action |-> origin'[i].action]
                BY <4>1, Zenon
            <4> HIDE DEF kept
            <4>7. origin[i].serial = origin[i].base + 1 /\ origin[i].via = "wire"
                  /\ origin[i].action \notin LargeActions =>
                     \E k \in 1 .. n : /\ senders[k] = kept
                                       /\ \A j \in 1 .. n : senders[j].id = i => j = k
                BY <4>4 DEF kept
            <4>8. origin'[i].serial = origin'[i].base + 1 /\ origin'[i].via = "wire"
                  /\ origin'[i].action \notin LargeActions =>
                     \E k \in 1 .. n + 1 : /\ senders'[k] = kept
                                           /\ \A j \in 1 .. n + 1 : senders'[j].id = i => j = k
                BY <4>1, <4>5, <4>7, Zenon
            <4>9. origin'[i].serial = origin'[i].base => \A k \in 1 .. n + 1 : senders'[k].id # i
                BY <4>1, <4>2, <4>4, Zenon
            <4>10. origin'[i].serial >= origin'[i].base
                BY <4>1, <4>4, Zenon
            <4> QED BY <4>6, <4>8, <4>9, <4>10, Zenon
        <3> QED BY <3>1, <3>2
    <2> QED BY <2>3, <2>4, <1>6, <1>9 DEF AuthorityInv, EffectInv
<1> QED BY <1>10, <1>11

\* post_intent: an admission without a sender record.
LEMMA HttpIntentInv ==
    ASSUME AuthorityInv, NEW q \in Requests, HttpIntent(q)
    PROVE  AuthorityInv'
<1>1. PICK r \in Resolve(q.name) :
          AdmitResult(table, q.id, r) = "Ok" /\ table' = Admit(table, q.id, r, now)
    BY DEF HttpIntent
<1>2. /\ q.via = "http" /\ origin' = Admitted(q)
      /\ UNCHANGED <<senders, consumed, now, effects, started>>
    BY DEF HttpIntent
<1>3. q.id \in IntentIds /\ r \in Resources \ Foreign
    BY AuthorityAssumption, ResolveOwn
<1>4. AuthorityTypeOK /\ SendersFollow
    BY DEF AuthorityInv
<1>5. table' \subseteq Entry /\ TablePending' /\ AliasExclusive'
    BY <1>1, <1>3, AdmitTable
<1>6. /\ origin' \in [IntentIds -> Origin]
      /\ \A i \in IntentIds \ {q.id} : origin'[i] = origin[i]
      /\ origin'[q.id].serial = origin[q.id].serial + 1 /\ origin'[q.id].base = origin[q.id].base
      /\ origin'[q.id].via = "http"
    <2>1. /\ origin' \in [IntentIds -> Origin]
          /\ \A i \in IntentIds \ {q.id} : origin'[i] = origin[i]
          /\ origin'[q.id] = [serial |-> origin[q.id].serial + 1, base |-> origin[q.id].base,
                              via |-> q.via, sender |-> q.sender, action |-> q.action]
        BY <1>2, AdmittedFacts
    <2> QED BY <2>1, <1>2
<1>7. origin[q.id].serial \in Nat /\ origin[q.id].base \in Nat
    BY <1>3, <1>4 DEF AuthorityTypeOK, Origin
<1>8. EffectInv'
    BY <1>2, EffectUnchanged DEF EffectInv, AuthorityInv, effectPart
<1>9. AuthorityTypeOK'
    BY <1>2, <1>4, <1>5, <1>6 DEF AuthorityTypeOK
<1>10. SendersFollow'
    <2> SUFFICES ASSUME NEW i \in IntentIds
                 PROVE  /\ origin'[i].serial >= origin'[i].base
                        /\ origin'[i].serial = origin'[i].base =>
                              \A k \in DOMAIN senders : senders[k].id # i
                        /\ origin'[i].serial = origin'[i].base + 1 /\ origin'[i].via = "wire"
                           /\ origin'[i].action \notin LargeActions =>
                              \E k \in DOMAIN senders :
                                 /\ senders[k] = [id |-> i, sender |-> origin'[i].sender,
                                                  action |-> origin'[i].action]
                                 /\ \A j \in DOMAIN senders : senders[j].id = i => j = k
        BY <1>2 DEF SendersFollow
    <2>1. CASE i = q.id
        BY <2>1, <1>4, <1>6, <1>7 DEF SendersFollow
    <2>2. CASE i # q.id
        BY <2>2, <1>4, <1>6 DEF SendersFollow
    <2> QED BY <2>1, <2>2
<1> QED BY <1>5, <1>8, <1>9, <1>10 DEF AuthorityInv, EffectInv

\* What the checks of verify_grant_then establish before the hook runs, when they are
\* given the parties' own certificates.
Cleared(g) ==
    /\ g.intent \in IntentIds
    /\ now < g.notAfter /\ \A c \in consumed : c.id # g.id
    /\ g.approver = g.subject => {"agent", "approver"} \subseteq CertOf[g.subject].roles

\* verify_grant_then's checks, whatever certificates and time it is given.
LEMMA ChecksFacts ==
    ASSUME AuthorityInv, NEW g \in Grants, NEW from, NEW approver, NEW subject, NEW first,
           GrantChecks(g, from, approver, subject, first)
    PROVE  /\ g.intent \in IntentIds /\ from = g.approver
           /\ "approver" \in approver.roles /\ approver.key = g.approver
           /\ "agent" \in subject.roles /\ subject.key = g.subject
           /\ now < g.notAfter
           /\ \A c \in consumed : c.id # g.id
<1>1. PICK e \in MatchForGrant(table, g.intent), s \in Lookup(g.intent) :
        /\ from = g.approver
        /\ "approver" \in approver.roles /\ approver.key = g.approver
        /\ "agent" \in subject.roles /\ subject.key = g.subject
        /\ NotExpired(g, first)
    BY DEF GrantChecks
<1>2. g.intent \in IntentIds
    BY DEF MatchForGrant, AuthorityInv, AuthorityTypeOK, Entry
<1> QED BY <1>1, <1>2 DEF NotExpired, GrantChecks

\* dispatch_grant passes one certificate as both parties': it carries both roles.
LEMMA DispatchCleared ==
    ASSUME AuthorityInv, NEW g \in Grants, NEW from \in Parties, DispatchAccepts(g, from)
    PROVE  Cleared(g)
<1>1. GrantChecks(g, from, CertOf[from], CertOf[from], now)
    BY DEF DispatchAccepts
<1>2. /\ g.intent \in IntentIds /\ from = g.approver
      /\ "approver" \in CertOf[from].roles /\ "agent" \in CertOf[from].roles
      /\ now < g.notAfter /\ \A c \in consumed : c.id # g.id
    BY <1>1, ChecksFacts
<1> QED BY <1>2 DEF Cleared

\* A direct caller passes each party's own certificate.
LEMMA DirectCleared ==
    ASSUME AuthorityInv, NEW g \in Grants, NEW from \in Parties, DirectAccepts(g, from)
    PROVE  Cleared(g)
<1>1. PICK first \in 0 .. now :
          GrantChecks(g, from, CertOf[g.approver], CertOf[g.subject], first)
    BY DEF DirectAccepts
<1>2. /\ g.intent \in IntentIds
      /\ "approver" \in CertOf[g.approver].roles /\ "agent" \in CertOf[g.subject].roles
      /\ now < g.notAfter /\ \A c \in consumed : c.id # g.id
    BY <1>1, ChecksFacts
<1> QED BY <1>2 DEF Cleared

\* commit_consumed prunes only what check_expiry refuses from now on.
LEMMA RoomKeeps ==
    ASSUME AuthorityInv, RoomFor(now) \subseteq consumed', now' = now,
           NEW g \in Grants, Spent(g, consumed, now)
    PROVE  Spent(g, consumed', now')
<1>1. g.notAfter \in Nat /\ now \in Nat
    BY AuthorityAssumption DEF AuthorityInv, AuthorityTypeOK
<1>2. CASE g.notAfter <= now
    BY <1>2 DEF Spent
<1>3. CASE ~(g.notAfter <= now)
    <2> DEFINE c == [id |-> g.id, expiry |-> g.notAfter]
    <2>1. c \in consumed /\ c.expiry > now
        BY <1>1, <1>3 DEF Spent
    <2>2. c \in RoomFor(now)
        BY <2>1 DEF RoomFor
    <2> QED BY <2>2 DEF Spent
<1> QED BY <1>2, <1>3

\* The execute hook with a successful commit_consumed: the grant has not taken
\* effect before, and is spent from here on.
LEMMA ExecuteInv ==
    ASSUME AuthorityInv, NEW g \in Grants, Cleared(g), Execute(g), UNCHANGED <<now, started>>
    PROVE  EffectInv' /\ effects' \in Seq(Effect) /\ started' \in 0 .. Len(effects')
<1> DEFINE x == [grant |-> g, sender |-> origin[g.intent].sender,
                 action |-> origin[g.intent].action]
           n == Len(effects)
<1>1. /\ consumed' = RoomFor(now) \cup {[id |-> g.id, expiry |-> g.notAfter]}
      /\ effects' = Append(effects, x)
    BY DEF Execute
<1>2. AuthorityTypeOK /\ effects \in Seq(Effect) /\ n \in Nat /\ started \in 0 .. n
    BY DEF AuthorityInv, AuthorityTypeOK
<1>3. now \in Nat /\ g.notAfter \in Nat
    BY AuthorityAssumption DEF AuthorityInv, AuthorityTypeOK
<1>4. x \in Effect /\ x.grant = g
    <2>1. origin[g.intent] \in Origin
        BY <1>2 DEF Cleared, AuthorityTypeOK
    <2>2. origin[g.intent].sender \in Parties \cup {Self} /\ origin[g.intent].action \in Actions
        BY <2>1 DEF Origin
    <2> QED BY <2>2 DEF Effect
<1> HIDE DEF x
<1>5. /\ effects' \in Seq(Effect) /\ DOMAIN effects = 1 .. n /\ Len(effects') = n + 1
      /\ DOMAIN effects' = 1 .. n + 1
      /\ effects'[n + 1] = x /\ \A k \in 1 .. n : effects'[k] = effects[k]
    BY <1>1, <1>2, <1>4
<1>t. Recent = started + 1 .. n
    BY DEF Recent
<1> HIDE DEF n
<1>r. Recent' = started + 1 .. n + 1
    BY <1>5 DEF Recent
<1>6. \A k \in 1 .. n : effects[k].grant \in Grants
    <2>1. \A k \in 1 .. n : effects[k] \in Effect
        BY <1>2, <1>5
    <2> QED BY <2>1 DEF Effect
<1>7. EffectsSpent'
    <2> SUFFICES ASSUME NEW k \in started + 1 .. n + 1
                 PROVE  Spent(effects'[k].grant, consumed', now')
        BY <1>r DEF EffectsSpent
    <2>1. CASE k \in started + 1 .. n
        <3>1. Spent(effects[k].grant, consumed, now) /\ k \in 1 .. n
            BY <2>1, <1>2, <1>t DEF AuthorityInv, EffectsSpent
        <3>2. RoomFor(now) \subseteq consumed'
            BY <1>1
        <3>3. Spent(effects[k].grant, consumed', now')
            BY <3>1, <3>2, <1>6, RoomKeeps
        <3> QED BY <3>1, <3>3, <1>5
    <2>2. CASE k = n + 1
        BY <2>2, <1>1, <1>4, <1>5 DEF Spent
    <2> QED BY <2>1, <2>2, <1>2
<1>8. \A k \in started + 1 .. n : effects[k].grant # g
    <2> SUFFICES ASSUME NEW k \in started + 1 .. n, effects[k].grant = g PROVE FALSE  OBVIOUS
    <2>1. Spent(g, consumed, now)
        BY <1>t DEF AuthorityInv, EffectsSpent
    <2> DEFINE c == [id |-> g.id, expiry |-> g.notAfter]
    <2>2. c \notin consumed
        <3>1. c.id = g.id  OBVIOUS
        <3> QED BY <3>1 DEF Cleared
    <2> QED BY <2>1, <2>2, <1>3 DEF Spent, Cleared
<1>9. EffectOncePerGrant'
    <2> SUFFICES ASSUME NEW j \in started + 1 .. n + 1, NEW k \in started + 1 .. n + 1,
                        effects'[j].grant = effects'[k].grant
                 PROVE  j = k
        BY <1>r DEF EffectOncePerGrant, Recent
    <2>1. CASE j \in started + 1 .. n /\ k \in started + 1 .. n
        <3>1. effects[j].grant = effects[k].grant
            BY <2>1, <1>2, <1>5
        <3>2. \A l, m \in started + 1 .. n : effects[l].grant = effects[m].grant => l = m
            BY <1>t DEF AuthorityInv, EffectOncePerGrant, Recent
        <3> QED BY <2>1, <3>1, <3>2
    <2>2. CASE j = n + 1 /\ k \in started + 1 .. n
        BY <2>2, <1>2, <1>4, <1>5, <1>8
    <2>3. CASE k = n + 1 /\ j \in started + 1 .. n
        BY <2>3, <1>2, <1>4, <1>5, <1>8
    <2>4. CASE j = n + 1 /\ k = n + 1
        BY <2>4
    <2> QED BY <2>1, <2>2, <2>3, <2>4, <1>2
<1>10. ToSet(effects') = ToSet(effects) \cup {x}
    BY <1>2, <1>5 DEF ToSet
<1>11. SeparationOfDuty'
    BY <1>4, <1>10 DEF AuthorityInv, SeparationOfDuty, Cleared
<1>12. started' \in 0 .. Len(effects')
    BY <1>2, <1>5
<1> QED BY <1>5, <1>7, <1>9, <1>11, <1>12 DEF EffectInv

\* The hook with a failed commit_consumed: the ledger may be pruned, nothing fires.
LEMMA ExecuteFailsInv ==
    ASSUME AuthorityInv, ExecuteFails, UNCHANGED <<now, started>>
    PROVE  EffectInv' /\ effects' \in Seq(Effect) /\ started' \in 0 .. Len(effects')
<1>1. consumed' = RoomFor(now) /\ effects' = effects
    BY DEF ExecuteFails
<1>2. effects \in Seq(Effect) /\ started \in 0 .. Len(effects) /\ Recent' = Recent
    BY <1>1 DEF AuthorityInv, AuthorityTypeOK, Recent
<1>3. ASSUME NEW k \in Recent PROVE Spent(effects[k].grant, consumed', now')
    <2>1. effects[k] \in Effect
        BY <1>2 DEF Recent
    <2>2. effects[k].grant \in Grants
        BY <2>1 DEF Effect
    <2>3. Spent(effects[k].grant, consumed, now)
        BY DEF AuthorityInv, EffectsSpent
    <2> QED BY <1>1, <2>2, <2>3, RoomKeeps
<1>4. EffectsSpent'
    BY <1>1, <1>2, <1>3 DEF EffectsSpent
<1> QED BY <1>1, <1>2, <1>4 DEF EffectInv, AuthorityInv, EffectOncePerGrant, SeparationOfDuty

\* A grant that reached the hook, on either path.
LEMMA GrantInv ==
    ASSUME AuthorityInv, NEW g \in Grants, NEW from \in Parties,
           DispatchGrant(g, from) \/ DirectGrant(g, from)
    PROVE  AuthorityInv'
<1>1. UNCHANGED <<table, senders, now, origin, started>>
    BY DEF DispatchGrant, DirectGrant
<1>2. EffectInv' /\ effects' \in Seq(Effect) /\ started' \in 0 .. Len(effects')
    <2>1. CASE DispatchGrant(g, from)
        BY <2>1, <1>1, DispatchCleared, ExecuteInv, ExecuteFailsInv DEF DispatchGrant
    <2>2. CASE DirectGrant(g, from)
        BY <2>2, <1>1, DirectCleared, ExecuteInv, ExecuteFailsInv DEF DirectGrant
    <2> QED BY <2>1, <2>2
<1>3. AuthorityTypeOK'
    BY <1>1, <1>2 DEF AuthorityInv, AuthorityTypeOK
<1>4. TablePending' /\ AliasExclusive' /\ SendersFollow'
    BY <1>1 DEF AuthorityInv, TablePending, AliasExclusive, SendersFollow
<1> QED BY <1>2, <1>3, <1>4 DEF AuthorityInv, EffectInv

\* apply_refusal takes the entry out of the table.
LEMMA RefusalInv ==
    ASSUME AuthorityInv, NEW i \in IntentIds, NEW from \in Parties, Refusal(i, from)
    PROVE  AuthorityInv'
<1>1. PICK e \in MatchForGrant(table, i) : table' = ApplyRefusal(table, e)
    BY DEF Refusal
<1>2. UNCHANGED <<senders, consumed, now, origin, effects, started>>
    BY DEF Refusal
<1>3. e \in Entry
    BY DEF MatchForGrant, AuthorityInv, AuthorityTypeOK
<1> DEFINE d == [e EXCEPT !.state = "Rejected"]
<1>4. d.state = "Rejected"
    BY <1>3 DEF Entry
<1>5. table' \subseteq table
    <2>1. ~Live(d)
        BY <1>4 DEF Live
    <2>2. table' = Compact((table \ {e}) \cup {d})
        BY <1>1 DEF ApplyRefusal
    <2> HIDE DEF d
    <2> QED BY <2>1, <2>2 DEF Compact
<1>6. AuthorityTypeOK'
    BY <1>2, <1>5 DEF AuthorityInv, AuthorityTypeOK
<1>7. TablePending' /\ AliasExclusive'
    BY <1>5 DEF AuthorityInv, TablePending, AliasExclusive
<1>8. SendersFollow'
    BY <1>2 DEF AuthorityInv, SendersFollow
<1>9. EffectInv'
    BY <1>2, EffectUnchanged DEF AuthorityInv, EffectInv, effectPart
<1> QED BY <1>6, <1>7, <1>8, <1>9 DEF AuthorityInv, EffectInv

\* A restart forgets intents and senders together, and begins with no effects of its own.
LEMMA RestartInv ==
    ASSUME AuthorityInv, Restart
    PROVE  AuthorityInv'
<1>1. /\ table' = {} /\ senders' = <<>> /\ started' = Len(effects)
      /\ origin' = [i \in IntentIds |-> [origin[i] EXCEPT !.base = origin[i].serial]]
      /\ UNCHANGED <<now, effects>>
    BY DEF Restart
<1>2. ASSUME NEW i \in IntentIds
      PROVE  origin'[i] \in Origin /\ origin'[i].serial = origin'[i].base /\ origin'[i].base \in Nat
    <2>1. origin[i] \in Origin
        BY DEF AuthorityInv, AuthorityTypeOK
    <2>2. origin'[i] = [origin[i] EXCEPT !.base = origin[i].serial]
        BY <1>1
    <2> QED BY <2>1, <2>2 DEF Origin
<1>3. AuthorityTypeOK'
    <2>1. origin' = [i \in IntentIds |-> origin'[i]]
        BY <1>1
    <2>2. origin' \in [IntentIds -> Origin]
        BY <1>2, <2>1
    <2>3. senders' \in Seq(Sender)
        BY <1>1
    <2>4. effects' \in Seq(Effect) /\ started' \in 0 .. Len(effects')
        BY <1>1 DEF AuthorityInv, AuthorityTypeOK
    <2> QED BY <1>1, <2>2, <2>3, <2>4 DEF AuthorityInv, AuthorityTypeOK
<1>4. TablePending' /\ AliasExclusive'
    BY <1>1 DEF TablePending, AliasExclusive
<1>5. SendersFollow'
    BY <1>1, <1>2 DEF SendersFollow
<1>6. EffectInv'
    <2>1. Len(effects) \in Nat
        BY DEF AuthorityInv, AuthorityTypeOK
    <2>2. started' + 1 .. Len(effects') = {}
        BY <1>1, <2>1
    <2>3. EffectsSpent' /\ EffectOncePerGrant'
        BY <2>2 DEF EffectsSpent, Recent, EffectOncePerGrant
    <2> QED BY <1>1, <2>3 DEF AuthorityInv, EffectInv, SeparationOfDuty
<1> QED BY <1>3, <1>4, <1>5, <1>6 DEF AuthorityInv, EffectInv

\* Time spends grants and brings none back.
LEMMA TickInv ==
    ASSUME AuthorityInv, Tick
    PROVE  AuthorityInv'
<1>1. now' = now + 1 /\ UNCHANGED <<table, senders, consumed, origin, effects, started>>
    BY DEF Tick
<1>2. now \in Nat /\ effects \in Seq(Effect) /\ started \in Nat /\ Recent' = Recent
    BY <1>1 DEF Recent, AuthorityInv, AuthorityTypeOK
<1>3. AuthorityTypeOK'
    BY <1>1, <1>2 DEF AuthorityInv, AuthorityTypeOK
<1>4. EffectsSpent'
    <2> SUFFICES ASSUME NEW k \in Recent PROVE Spent(effects[k].grant, consumed, now + 1)
        BY <1>1, <1>2 DEF EffectsSpent
    <2>1. effects[k] \in Effect
        BY <1>2 DEF Recent
    <2>2. effects[k].grant.notAfter \in Nat
        BY <2>1, AuthorityAssumption DEF Effect
    <2>3. Spent(effects[k].grant, consumed, now)
        BY DEF AuthorityInv, EffectsSpent
    <2> QED BY <1>2, <2>2, <2>3 DEF Spent
<1>5. TablePending' /\ AliasExclusive' /\ SendersFollow'
    BY <1>1 DEF AuthorityInv, TablePending, AliasExclusive, SendersFollow
<1>6. EffectOncePerGrant' /\ SeparationOfDuty'
    BY <1>1 DEF AuthorityInv, EffectOncePerGrant, SeparationOfDuty
<1> QED BY <1>3, <1>4, <1>5, <1>6 DEF AuthorityInv

\* The invariant is inductive.
LEMMA AuthorityNext == AuthorityInv /\ [Next]_vars => AuthorityInv'
<1> SUFFICES ASSUME AuthorityInv, [Next]_vars PROVE AuthorityInv'  OBVIOUS
<1>1. ASSUME NEW q \in Requests, WireIntent(q) \/ HttpIntent(q) PROVE AuthorityInv'
    BY <1>1, WireIntentInv, HttpIntentInv
<1>2. ASSUME NEW g \in Grants, NEW from \in Parties,
             DispatchGrant(g, from) \/ DirectGrant(g, from)
      PROVE  AuthorityInv'
    BY <1>2, GrantInv
<1>3. ASSUME NEW i \in IntentIds, NEW from \in Parties, Refusal(i, from) PROVE AuthorityInv'
    BY <1>3, RefusalInv
<1>4. CASE Restart
    BY <1>4, RestartInv
<1>5. CASE Tick
    BY <1>5, TickInv
<1>6. CASE UNCHANGED vars
    BY <1>6 DEF vars, AuthorityInv, AuthorityTypeOK, TablePending, AliasExclusive, EffectsSpent,
                Recent, EffectOncePerGrant, SeparationOfDuty, SendersFollow
<1> QED BY <1>1, <1>2, <1>3, <1>4, <1>5, <1>6 DEF Next

\* Every reachable state of the pipeline satisfies the inductive invariant.
THEOREM AuthorityInvariant == Spec => []AuthorityInv
    BY AuthorityInit, AuthorityNext, PTL DEF Spec

\* commit_consumed and check_expiry between them let one signed grant take effect
\* once between a start and the next, for every capacity of the ledger, across prunes,
\* failed commits, refusals and intents proposed anew.
THEOREM AuthorityEffectOncePerGrant == Spec => []EffectOncePerGrant
<1>1. AuthorityInv => EffectOncePerGrant  BY DEF AuthorityInv
<1> QED BY <1>1, AuthorityInvariant, PTL

\* Neither dispatch_grant nor a direct call executes what a party approved for
\* itself, unless its certificate has both roles, for every set of certificates.
THEOREM AuthoritySeparationOfDuty == Spec => []SeparationOfDuty
<1>1. AuthorityInv => SeparationOfDuty  BY DEF AuthorityInv
<1> QED BY <1>1, AuthorityInvariant, PTL

\* BE-RES-01..04: resolve_and_admit locks entries of the own catalogue, each once,
\* whatever names and aliases there are.
THEOREM AuthorityAliasExclusive == Spec => []AliasExclusive
<1>1. AuthorityInv => AliasExclusive  BY DEF AuthorityInv
<1> QED BY <1>1, AuthorityInvariant, PTL

\* F13: SenderTable::lookup finds the sender and the action of the pending intent,
\* on the first use of its id since the start.
THEOREM AuthorityFirstUseBound == Spec => []FirstUseBound
<1>1. ASSUME AuthorityInv PROVE FirstUseBound
    <2> SUFFICES ASSUME NEW e \in table,
                        origin[e.id].serial = origin[e.id].base + 1, origin[e.id].via = "wire",
                        origin[e.id].action \notin LargeActions
                 PROVE  Lookup(e.id) = {[id |-> e.id, sender |-> origin[e.id].sender,
                                         action |-> origin[e.id].action]}
        BY DEF FirstUseBound
    <2> DEFINE rec == [id |-> e.id, sender |-> origin[e.id].sender, action |-> origin[e.id].action]
    <2>1. e.id \in IntentIds
        BY <1>1 DEF AuthorityInv, AuthorityTypeOK, Entry
    <2>2. PICK k \in DOMAIN senders :
              senders[k] = rec /\ \A j \in DOMAIN senders : senders[j].id = e.id => j = k
        BY <1>1, <2>1 DEF AuthorityInv, SendersFollow
    <2>3. rec.id = e.id  OBVIOUS
    <2>4. k \in Nat
        BY <1>1 DEF AuthorityInv, AuthorityTypeOK
    <2> HIDE DEF rec
    <2>5. {m \in DOMAIN senders : senders[m].id = e.id} = {k}
        BY <2>2, <2>3
    <2>6. Lookup(e.id) = {rec}
        BY <2>2, <2>4, <2>5 DEF Lookup
    <2> QED BY <2>6 DEF rec
<1> QED BY <1>1, AuthorityInvariant, PTL

-----------------------------------------------------------------------------
(* The intent table by itself.                                             *)

\* The invariant holds of a new table.
LEMMA InitInv == TableInit => Inv
    BY FS_EmptySet, IntentsAssumption
    DEF TableInit, Inv, TypeOK, ResourceExclusive, PendingUnique, CapacityIsLive

\* A table that lost entries still satisfies the invariant.
LEMMA SubsetInv ==
    ASSUME Inv, entries' \subseteq entries, clock' \in Nat, TypeOK'
    PROVE  Inv'
<1>1. IsFiniteSet(entries') /\ Cardinality(entries') <= Cardinality(entries)
    BY FS_Subset DEF Inv
<1>2. Cardinality(entries) \in Nat /\ Cardinality(entries') \in Nat
    BY <1>1, FS_CardinalityType DEF Inv
<1>3. CapacityIsLive'
    BY <1>1, <1>2, IntentsAssumption DEF Inv, CapacityIsLive
<1>4. ResourceExclusive' /\ PendingUnique'
    BY DEF Inv, ResourceExclusive, PendingUnique
<1> QED BY <1>1, <1>3, <1>4 DEF Inv

\* A refusal takes one pending entry out of the table.
LEMMA RefusalRemoves ==
    ASSUME Inv, NEW e \in entries
    PROVE  ApplyRefusal(entries, e) = entries \ {e}
<1> DEFINE d == [e EXCEPT !.state = "Rejected"]
<1>1. d.state = "Rejected"
    BY DEF Inv, TypeOK, Entry
<1>2. ~Live(d)
    BY <1>1 DEF Live
<1>3. \A f \in entries : Live(f)
    BY DEF Inv, CapacityIsLive
<1> QED BY <1>2, <1>3 DEF ApplyRefusal, Compact

\* A sweep takes exactly the overdue entries out of the table.
LEMMA SweepRemoves ==
    ASSUME Inv
    PROVE  ExpireTimeouts(entries, clock) = {e \in entries : ~Overdue(e, clock)}
<1> DEFINE Mark(e) == IF Overdue(e, clock) THEN [e EXCEPT !.state = "Expired"] ELSE e
<1>1. \A e \in entries : Overdue(e, clock) => Mark(e).state = "Expired"
    BY DEF Inv, TypeOK, Entry
<1>2. \A e \in entries : Overdue(e, clock) => ~Live(Mark(e))
    BY <1>1 DEF Live
<1>3. \A e \in entries : ~Overdue(e, clock) => Mark(e) = e /\ Live(e)
    BY DEF Inv, CapacityIsLive
<1>4. ExpireTimeouts(entries, clock) = Compact({Mark(e) : e \in entries})
    BY DEF ExpireTimeouts
<1> HIDE DEF Mark
<1> QED BY <1>2, <1>3, <1>4 DEF Compact

\* The invariant is inductive.
LEMMA NextInv == Inv /\ [TableNext]_tableVars => Inv'
<1> SUFFICES ASSUME Inv, [TableNext]_tableVars PROVE Inv'  OBVIOUS
<1> USE IntentsAssumption
<1>1. ASSUME NEW i \in IntentIds, NEW r \in Resources, AdmitOk(i, r)
      PROVE  Inv'
    <2> DEFINE n == [id |-> i, resource |-> r, state |-> "Pending", admitted |-> clock]
    <2>1. entries' = entries \cup {n} /\ n \in Entry /\ Live(n) /\ clock' = clock
        BY <1>1 DEF AdmitOk, Admit, Entry, IntentStates, Inv, TypeOK, Live
    <2>2. /\ MatchForGrant(entries, i) = {}
          /\ \A e \in entries : Live(e) => e.resource # r
          /\ ~(Cardinality(entries) >= MAX_PENDING)
        BY <1>1 DEF AdmitOk, AdmitResult
    <2>3. n \notin entries
        BY <2>2, <2>1
    <2>4. IsFiniteSet(entries') /\ Cardinality(entries') = Cardinality(entries) + 1
        BY <2>1, <2>3, FS_AddElement DEF Inv
    <2>5. CapacityIsLive'
        BY <2>1, <2>2, <2>4, FS_CardinalityType DEF Inv, CapacityIsLive
    <2>6. ResourceExclusive'
        BY <2>1, <2>2 DEF Inv, ResourceExclusive
    <2>7. PendingUnique'
        BY <2>1, <2>2 DEF Inv, PendingUnique, MatchForGrant
    <2>8. TypeOK'
        BY <2>1, <1>1 DEF Inv, TypeOK, AdmitOk
    <2> QED BY <2>4, <2>5, <2>6, <2>7, <2>8 DEF Inv
<1>2. ASSUME NEW i \in IntentIds, BeginExec(i) PROVE Inv'
    <2> PICK e \in MatchForGrant(entries, i) : entries' = BeginExecuting(entries, e)
        BY <1>2 DEF BeginExec
    <2> DEFINE x == [e EXCEPT !.state = "Executing"]
    <2>1. /\ e \in entries /\ e \in Entry /\ e.state = "Pending"
          /\ entries' = (entries \ {e}) \cup {x}
          /\ x \in Entry /\ x.resource = e.resource /\ x.state = "Executing" /\ Live(x)
          /\ Live(e)
        BY DEF MatchForGrant, BeginExecuting, Inv, TypeOK, Entry, IntentStates, Live
    <2>2. x \notin entries
        BY <2>1 DEF Inv, ResourceExclusive
    <2>3. IsFiniteSet(entries \ {e}) /\ Cardinality(entries \ {e}) = Cardinality(entries) - 1
        BY <2>1, FS_RemoveElement DEF Inv
    <2>4. IsFiniteSet(entries') /\ Cardinality(entries') = Cardinality(entries)
        <3> HIDE DEF x
        <3>1. Cardinality(entries) \in Nat
            BY FS_CardinalityType DEF Inv
        <3>2. x \notin entries \ {e}
            BY <2>2
        <3>3. /\ IsFiniteSet((entries \ {e}) \cup {x})
              /\ Cardinality((entries \ {e}) \cup {x}) = Cardinality(entries \ {e}) + 1
            BY <2>3, <3>2, FS_AddElement
        <3> QED BY <2>1, <2>3, <3>1, <3>3
    <2>5. CapacityIsLive'
        BY <2>1, <2>4 DEF Inv, CapacityIsLive
    <2>6. ResourceExclusive' /\ PendingUnique'
        BY <2>1 DEF Inv, ResourceExclusive, PendingUnique
    <2>7. TypeOK'
        BY <2>1, <1>2 DEF Inv, TypeOK, BeginExec
    <2> QED BY <2>4, <2>5, <2>6, <2>7 DEF Inv
<1>3. ASSUME NEW i \in IntentIds, TakeRefusal(i) PROVE Inv'
    <2>1. entries' \subseteq entries /\ clock' = clock /\ last' = "refusal"
        BY <1>3, RefusalRemoves DEF TakeRefusal, MatchForGrant
    <2>2. TypeOK'  BY <2>1 DEF Inv, TypeOK
    <2> QED BY <2>1, <2>2, SubsetInv DEF Inv, TypeOK
<1>4. CASE Sweep
    <2>1. entries' \subseteq entries /\ clock' = clock /\ last' = "sweep"
        BY <1>4, SweepRemoves DEF Sweep
    <2>2. TypeOK'  BY <2>1 DEF Inv, TypeOK
    <2> QED BY <2>1, <2>2, SubsetInv DEF Inv, TypeOK
<1>5. CASE entries' \in {entries, {}} /\ clock' \in Nat
           /\ last' \in {"refused", "nomatch", "restart", "tick"}
    BY <1>5, SubsetInv DEF Inv, TypeOK
<1>6. ASSUME NEW i \in IntentIds, NEW r \in Resources, AdmitRefused(i, r)
      PROVE  Inv'
    BY <1>5, <1>6 DEF AdmitRefused, Inv, TypeOK
<1>7. ASSUME NEW i \in IntentIds, NoMatch(i) PROVE Inv'
    BY <1>5, <1>7 DEF NoMatch, Inv, TypeOK
<1>8. CASE TableRestart  BY <1>5, <1>8 DEF TableRestart, Inv, TypeOK
<1>9. CASE ClockTick  BY <1>5, <1>9 DEF ClockTick, Inv, TypeOK
<1>10. CASE UNCHANGED tableVars
    BY <1>10, SubsetInv DEF tableVars, Inv, TypeOK
<1> QED BY <1>1, <1>2, <1>3, <1>4, <1>6, <1>7, <1>8, <1>9, <1>10 DEF TableNext

\* Every reachable table satisfies the inductive invariant.
THEOREM TableInvariant == TableSpec => []Inv
    BY InitInv, NextInv, PTL DEF TableSpec

\* BE-GRANT-06: a resource has at most one live intent, for every set of
\* intents and resources.
THEOREM TableResourceExclusive == TableSpec => []ResourceExclusive
<1>1. Inv => ResourceExclusive  BY DEF Inv
<1> QED BY <1>1, TableInvariant, PTL

\* BE-GRANT-06b: match_for_grant never has two candidates.
THEOREM TablePendingUnique == TableSpec => []PendingUnique
<1>1. Inv => PendingUnique  BY DEF Inv
<1> QED BY <1>1, TableInvariant, PTL

\* MD4: the table stays within MAX_PENDING and holds live entries only.
THEOREM TableCapacity == TableSpec => []CapacityIsLive
<1>1. Inv => CapacityIsLive  BY DEF Inv
<1> QED BY <1>1, TableInvariant, PTL

\* BE-GRANT-06a: a sweep removes exactly the overdue pending entries, and no
\* other operation lets one disappear but a refusal or a restart.
THEOREM TableExpiryExact == TableSpec => ExpiryExact
<1> DEFINE Keeps(e) == e.state = "Pending" /\ e \notin entries'
                        /\ [e EXCEPT !.state = "Executing"] \notin entries'
           Exact == /\ \A e \in entries : Keeps(e) =>
                          \/ last' \in {"refusal", "restart"}
                          \/ last' = "sweep" /\ Overdue(e, clock)
                    /\ last' = "sweep" => \A e \in entries' : ~Overdue(e, clock)
<1>1. ASSUME Inv, [TableNext]_tableVars PROVE [Exact]_tableVars
    <2>1. ASSUME NEW i \in IntentIds, NEW r \in Resources,
                 AdmitOk(i, r) \/ AdmitRefused(i, r)
          PROVE  Exact
        BY <2>1 DEF AdmitOk, AdmitRefused, Admit
    <2>2. ASSUME NEW i \in IntentIds, BeginExec(i) PROVE Exact
        BY <2>2 DEF BeginExec, BeginExecuting, MatchForGrant
    <2>3. ASSUME NEW i \in IntentIds, TakeRefusal(i) \/ NoMatch(i) PROVE Exact
        BY <2>3 DEF TakeRefusal, NoMatch
    <2>4. CASE Sweep
        BY <1>1, <2>4, SweepRemoves DEF Sweep
    <2>5. CASE TableRestart \/ ClockTick
        BY <2>5 DEF TableRestart, ClockTick
    <2> QED BY <1>1, <2>1, <2>2, <2>3, <2>4, <2>5 DEF TableNext
<1> QED BY <1>1, TableInvariant, PTL DEF TableSpec, ExpiryExact

\* The table implements a lock per resource: an executing holder keeps its
\* resource until a restart, a held resource is never given out again.
THEOREM TableImplementsLock == TableSpec => LockSpec
<1> DEFINE Hold(e) == [resource |-> e.resource, id |-> e.id, phase |-> e.state]
           h == {Hold(e) : e \in entries}
<1>1. TableInit => Lock!Init
    BY DEF TableInit, Lock!Init
<1>2. ASSUME Inv, [TableNext]_tableVars PROVE [Lock!Next]_h
    <2>t. \A e \in entries : e \in Entry /\ Live(e)
        BY <1>2 DEF Inv, TypeOK, CapacityIsLive
    <2>u. \A e, f \in entries : e.resource = f.resource => e = f
        BY <1>2, <2>t DEF Inv, ResourceExclusive
    <2>1. ASSUME NEW i \in IntentIds, NEW r \in Resources, AdmitOk(i, r)
          PROVE  Lock!Acquire(i, r)
        <3> DEFINE n == [id |-> i, resource |-> r, state |-> "Pending", admitted |-> clock]
        <3>1. entries' = entries \cup {n}
            BY <2>1 DEF AdmitOk, Admit
        <3>2. /\ \A e \in entries : ~(e.state = "Pending" /\ e.id = i)
              /\ \A e \in entries : e.resource # r
            BY <2>1, <2>t DEF AdmitOk, AdmitResult, MatchForGrant
        <3>3. h' = h \cup {Hold(n)}
            BY <3>1
        <3>4. Hold(n) = [resource |-> r, id |-> i, phase |-> "Pending"]
            OBVIOUS
        <3> QED BY <3>2, <3>3, <3>4 DEF Lock!Acquire
    <2>2. ASSUME NEW i \in IntentIds, BeginExec(i)
          PROVE  \E k \in Lock!Holder : Lock!Start(k)
        <3> PICK e \in MatchForGrant(entries, i) : entries' = BeginExecuting(entries, e)
            BY <2>2 DEF BeginExec
        <3> DEFINE x == [e EXCEPT !.state = "Executing"]
        <3>1. e \in entries /\ e \in Entry /\ e.state = "Pending"
              /\ entries' = (entries \ {e}) \cup {x}
            BY <2>t DEF MatchForGrant, BeginExecuting
        <3>2. Hold(e) \in Lock!Holder /\ Hold(e) \in h /\ Hold(e).phase = "Pending"
            BY <3>1 DEF Entry, Lock!Holder
        <3>3. Hold(x) = [Hold(e) EXCEPT !.phase = "Executing"]
            BY <3>1 DEF Entry
        <3>4. \A f \in entries : f # e => Hold(f) # Hold(e)
            BY <2>u, <3>1
        <3>5. h' = (h \ {Hold(e)}) \cup {Hold(x)}
            <4> HIDE DEF Hold
            <4> QED BY <3>1, <3>4
        <3> QED BY <3>2, <3>3, <3>5 DEF Lock!Start
    <2>3. ASSUME entries' \subseteq entries,
                 \A e \in entries \ entries' : e.state = "Pending"
          PROVE  Lock!Release
        BY <2>3 DEF Lock!Release
    <2>4. ASSUME NEW i \in IntentIds, TakeRefusal(i) PROVE Lock!Release
        BY <1>2, <2>3, <2>4, RefusalRemoves DEF TakeRefusal, MatchForGrant
    <2>5. CASE Sweep
        BY <1>2, <2>3, <2>5, SweepRemoves DEF Sweep, Overdue, Lock!Next
    <2>6. CASE TableRestart
        BY <2>6 DEF TableRestart, Lock!Restart, Lock!Next
    <2>7. CASE entries' = entries
        BY <2>7
    <2>8. ASSUME NEW i \in IntentIds, NEW r \in Resources,
                 AdmitRefused(i, r) \/ NoMatch(i)
          PROVE  entries' = entries
        BY <2>8 DEF AdmitRefused, NoMatch
    <2>9. ASSUME NEW i \in IntentIds, NoMatch(i) PROVE entries' = entries
        BY <2>9 DEF NoMatch
    <2>10. CASE ClockTick \/ UNCHANGED tableVars
        BY <2>7, <2>10 DEF ClockTick, tableVars
    <2> QED BY <1>2, <2>1, <2>2, <2>4, <2>5, <2>6, <2>7, <2>8, <2>9, <2>10
            DEF TableNext, Lock!Next
<1> QED BY <1>1, <1>2, TableInvariant, PTL DEF TableSpec, LockSpec, Lock!Spec
=============================================================================
