----------------------------- MODULE MCAuthority ----------------------------
(***************************************************************************)
(* An agent and an approver with certificates the daemon's binding lets    *)
(* through, and an agent whose certificate has both roles, as a hook other *)
(* than the daemon's may supply; two own resources (one with an alias),    *)
(* one foreign one, an ambiguous alias, and intents and grants that cross  *)
(* each other.  Beside it the intent table alone, under all of its         *)
(* operations, the ones the daemon does not call included.                 *)
(***************************************************************************)
EXTENDS Authority, IntentTable

PipelineStep == TableInit /\ Next /\ UNCHANGED tableVars

TableStep == Init /\ TableNext /\ UNCHANGED vars

BothInit == Init /\ TableInit

BothSpec == BothInit /\ [][PipelineStep \/ TableStep]_<<vars, tableVars>>

-----------------------------------------------------------------------------

MCAliases == {<<"n1", "r1">>, <<"n2", "r1">>, <<"n2", "r2">>}

Cert(k, roles, v, scopes) == [key |-> k, roles |-> roles, version |-> v, scopes |-> scopes]

MCCertOf ==
    [p \in {"ag1", "ag2", "ap"} |->
        CASE p = "ag1" -> Cert(p, {"agent"}, 2, {})
          [] p = "ag2" -> Cert(p, {"agent", "approver"}, 3, {"root"})
          [] p = "ap"  -> Cert(p, {"approver"}, 3, {"r1"})]

MCPathsOf == [r \in {"r1", "r2", "rf"} |-> {r, "root"}]

Req(i, n, s, a) == [id |-> i, name |-> n, sender |-> s, action |-> a, via |-> "wire"]

MCRequests ==
    {Req("i1", "r1", "ag1", "a"), Req("i1", "n1", "ap", "a"), Req("i2", "n1", "ag2", "a"),
     Req("i2", "rf", "ag1", "a"), Req("i1", "n2", "ag1", "a"), Req("i2", "r2", "ag2", "big"),
     [Req("i1", "r2", "ag1", "a") EXCEPT !.via = "http"]}

MCGrant(x, i, ap, su, r, a, t) ==
    [id |-> x, version |-> 2, signer |-> ap, intent |-> i, approver |-> ap, subject |-> su,
     executor |-> "ex", resource |-> r, digest |-> a, notAfter |-> t]

\* An approver's grant to an agent and, under the same id, to itself; and the
\* dual-role agent's own.
MCGrants ==
    {MCGrant("g1", "i1", "ap", "ag1", "r1", "a", 3),
     MCGrant("g1", "i1", "ap", "ap", "r1", "a", 2), MCGrant("g4", "i2", "ag2", "ag2", "r1", "a", 2)}
=============================================================================
