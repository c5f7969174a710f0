------------------------------ MODULE Evidence ------------------------------
(***************************************************************************)
(* The verdict on a claim (transport/evidence.rs): resolve_claim over the  *)
(* spans that came inline with it, while the facts behind its hooks go on: *)
(* an origin envelope that was absent is backfilled as an effect or as     *)
(* something else, and a later effect supersedes an origin for the claim.  *)
(* Who signed a span and with which role is fixed when it is sent.         *)
(***************************************************************************)
EXTENDS Naturals, Sequences, SequencesExt, FiniteSetsExt

CONSTANTS
    Spans,        \* spans: [id, sig, executor, resource, origin, volatility, method]
    SpanIds,
    Subject,      \* the resource the claim is about
    Stated,       \* stated confidences, in 1/256
    Origins,
    MaxSpans, MaxCites    \* bounds: spans of a message, ids of a claim

ASSUME ClaimAssumption ==
    /\ MaxSpans \in Nat /\ MaxCites \in Nat
    /\ Stated \subseteq Nat
    /\ \A s \in Spans : s.origin \in Origins /\ {s.sig, s.executor} \subseteq BOOLEAN

VARIABLES
    inline,       \* the spans of the message, in order
    cites,        \* the span ids the claim cites, in order
    stated,       \* confidence_q8
    origin,       \* resolve_origin: origin -> "absent", "effect" or "other"
    superseded    \* is_superseded: the origins a later effect has overtaken

evidenceVars == <<inline, cites, stated, origin, superseded>>

-----------------------------------------------------------------------------
\* ceiling_q8 of class_of: how a span was observed; unknown methods are inference.
Ceiling(method) ==
    CASE method \in 1 .. 4 -> 242
      [] method \in 5 .. 6 -> 191
      [] method = 7        -> 216
      [] OTHER             -> 165

IsVolatile(v) == v # 2

EffectiveConfidence(n, ceiling) == IF n <= ceiling THEN n ELSE ceiling

\* match_span: the first inline span with this id, as a set.
MatchSpan(id) ==
    LET hits == {k \in DOMAIN inline : inline[k].id = id}
    IN  {inline[k] : k \in {k \in hits : \A j \in hits : k <= j}}

\* span_supportable and the subject test, in the order of the loop.
SpanSupportable(s) == s.sig /\ s.executor
Matches(s) == SpanSupportable(s) /\ s.resource = Subject

\* Mutant: an absent origin ends the walk.
CiteStops(acc, id) ==
    LET hit == {s \in MatchSpan(id) : Matches(s)}
        lost(s) == IsVolatile(s.volatility) /\ s.origin \in superseded
    IN  IF acc.unresolved THEN acc
        ELSE [strongest |-> Max({acc.strongest} \cup
                  {Ceiling(s.method) : s \in {s \in hit : origin[s.origin] = "effect" /\ ~lost(s)}}),
              unresolved |-> \E s \in hit : origin[s.origin] = "absent"]

\* One turn of the loop of resolve_claim.
Cite(acc, id) ==
    LET hit == {s \in MatchSpan(id) : Matches(s)}
        lost(s) == IsVolatile(s.volatility) /\ s.origin \in superseded
    IN  [strongest |-> Max({acc.strongest} \cup
             {Ceiling(s.method) : s \in {s \in hit : origin[s.origin] = "effect" /\ ~lost(s)}}),
         unresolved |-> acc.unresolved \/ \E s \in hit : origin[s.origin] = "absent"]

\* resolve_claim: the state, its number and pending_stronger.
ResolveClaim ==
    LET after[n \in 0 .. Len(cites)] ==
          IF n = 0 THEN [strongest |-> 0, unresolved |-> FALSE] ELSE Cite(after[n - 1], cites[n])
        acc == after[Len(cites)]
    IN  IF acc.strongest > 0
        THEN [st |-> "supported", q8 |-> EffectiveConfidence(stated, acc.strongest), pending |-> acc.unresolved]
        ELSE [st |-> IF acc.unresolved THEN "unresolved" ELSE "unsupported", q8 |-> 0, pending |-> acc.unresolved]

-----------------------------------------------------------------------------
ClaimInit ==
    /\ inline = <<>> /\ cites = <<>> /\ stated = 0
    /\ origin = [o \in Origins |-> "absent"] /\ superseded = {}

\* A message brings a claim and spans, while some origins are known already.
Receive ==
    /\ inline = <<>>
    /\ inline' \in SeqOf(Spans, MaxSpans) \ {<<>>}
    /\ cites' \in SeqOf(SpanIds, MaxCites) /\ stated' \in Stated
    /\ UNCHANGED <<origin, superseded>>

\* An absent envelope arrives.
Backfill(o, kind) ==
    /\ inline # <<>> /\ origin[o] = "absent"
    /\ origin' = [origin EXCEPT ![o] = kind]
    /\ UNCHANGED <<inline, cites, stated, superseded>>

\* A later effect on the resource overtakes this origin.
Supersede(o) ==
    /\ inline # <<>> /\ o \notin superseded
    /\ superseded' = superseded \cup {o}
    /\ UNCHANGED <<inline, cites, stated, origin>>

\* The next claim is judged by itself.
Forget ==
    /\ inline # <<>>
    /\ inline' = <<>> /\ cites' = <<>> /\ stated' = 0
    /\ origin' = [o \in Origins |-> "absent"] /\ superseded' = {}

ClaimNext ==
    \/ Receive
    \/ \E o \in Origins, kind \in {"effect", "other"} : Backfill(o, kind)
    \/ \E o \in Origins : Supersede(o)
    \/ Forget

ClaimSpec == ClaimInit /\ [][ClaimNext]_evidenceVars

-----------------------------------------------------------------------------
\* The reference: the spans the claim rests on, in no order.
Cited ==
    {inline[k] : k \in {k \in DOMAIN inline :
        /\ Contains(cites, inline[k].id)
        /\ \A j \in 1 .. k - 1 : inline[j].id # inline[k].id}}
Proper == {s \in Cited : s.sig /\ s.executor /\ s.resource = Subject}
Support == {s \in Proper : origin[s.origin] = "effect" /\ (s.volatility = 2 \/ s.origin \notin superseded)}
Strength == Max({0} \cup {IF s.method \in 1 .. 4 THEN 242 ELSE IF s.method = 7 THEN 216
                          ELSE IF s.method \in {5, 6} THEN 191 ELSE 165 : s \in Support})

\* BE-EVID-02/05/09: resolve_claim's verdict depends on the set of cited spans and
\* not on their order: the strongest support that is left, cut off at the stated
\* confidence.  "Unresolved" and pending_stronger are true to their word: a verdict
\* that does not announce a change is not changed by any backfill, and a backfill
\* never takes support away.
VerdictFollows ==
    LET v == ResolveClaim
        w == ResolveClaim'
    IN  /\ w.st = "supported" <=> Support' # {}
        /\ w.q8 = Min({stated', Strength'})
        /\ w.pending <=> \E s \in Proper' : origin'[s.origin] = "absent"
        /\ w.st = "unresolved" => w.pending
        /\ (\E o \in Origins : origin[o] = "absent" /\ origin'[o] # "absent") =>
              w.q8 >= v.q8 /\ (~v.pending => w = v)

\* The verdict before and after every step.
EvidenceExact == [][VerdictFollows]_evidenceVars
=============================================================================
