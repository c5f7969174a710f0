-------------------------- MODULE MCEnvelopeLedger --------------------------
(***************************************************************************)
(* Eleven envelopes on three (sender, channel) pairs: a chain with a fork  *)
(* and a parent nobody sends, an equivocating pair, and sequence numbers   *)
(* further apart than the window is wide.                                  *)
(*                                                                         *)
(* The other two tables of the same struct Ledger, the causal graph of an  *)
(* audit, the verdict on a claim and the walk that asks for what is absent *)
(* run beside it.  They share no field with the envelopes or with each     *)
(* other, so that a step of one part is taken with the others in their     *)
(* initial states.                                                         *)
(***************************************************************************)
EXTENDS EnvelopeLedger, EvidenceTables, CausalDag, SyncWalk, Evidence

\* Spans: a strong and a weak one on the subject, stable and volatile, one on
\* another resource, one badly signed and one by somebody who is no executor.
SpanOf(id, sig, exec, res, o, v, meth) ==
    [id |-> id, sig |-> sig, executor |-> exec, resource |-> res, origin |-> o, volatility |-> v, method |-> meth]

MCSpans ==
    {SpanOf(1, TRUE, TRUE, Subject, "o1", 1, 4),  SpanOf(2, TRUE, TRUE, Subject, "o2", 2, 7),
     SpanOf(2, TRUE, TRUE, Subject, "o1", 2, 8),  SpanOf(1, TRUE, TRUE, Subject, "o2", 0, 5),
     SpanOf(2, TRUE, TRUE, "else", "o2", 2, 1),   SpanOf(1, FALSE, TRUE, Subject, "o1", 2, 1),
     SpanOf(1, TRUE, FALSE, Subject, "o1", 2, 1)}

\* Histories of five hashes, the last one the root: a chain, two diamonds, a fan
\* and a ladder, and a root without parents.
MCGraphs == {
    << {}, {1}, {2}, {3}, {4} >>,      << {}, {}, {2}, {2}, {3, 4} >>,
    << {}, {1}, {}, {1, 2}, {2, 4} >>, << {}, {}, {}, {}, {1, 2, 3, 4} >>,
    << {}, {1}, {1, 2}, {2, 3}, {3, 4} >>, << {}, {}, {}, {}, {} >>}

\* One envelope that fits into no response by itself.
MCWireLen == [h \in 1 .. MaxHash |-> IF h = 3 THEN 4 ELSE IF h = 2 THEN 3 ELSE 1]

Env(h, s, c, q, ps) == [hash |-> h, sender |-> s, channel |-> c, seq |-> q, parents |-> ps]

MCEnvelopes ==
    {Env(1, "a", "x", 0, {}),     Env(2, "a", "x", 1, {1}),  Env(3, "a", "x", 1, {}),
     Env(4, "a", "x", 3, {2, 5}), Env(5, "b", "x", 1, {1}),  Env(6, "b", "x", 0, {}),
     Env(7, "a", "y", 2, {3, 6}), Env(8, "b", "x", 2, {99}),
     Env(9, "b", "x", 4, {5}),    Env(10, "a", "x", 2, {}),  Env(11, "b", "x", 3, {10})}

OthersInit == ClaimInit /\ WalkInit

EnvelopeStep ==
    TablesInit /\ DagInit /\ OthersInit /\ Next /\ UNCHANGED <<tableVars, dagVars, evidenceVars, walkVars>>

TableStep ==
    Init /\ DagInit /\ OthersInit /\ TablesNext /\ UNCHANGED <<vars, dagVars, evidenceVars, walkVars>>

DagStep ==
    Init /\ TablesInit /\ OthersInit /\ DagNext /\ UNCHANGED <<vars, tableVars, evidenceVars, walkVars>>

ClaimStep ==
    Init /\ TablesInit /\ DagInit /\ WalkInit /\ ClaimNext /\ UNCHANGED <<vars, tableVars, dagVars, walkVars>>

SyncStep ==
    Init /\ TablesInit /\ DagInit /\ ClaimInit /\ WalkNext /\ UNCHANGED <<vars, tableVars, dagVars, evidenceVars>>

LedgerInit == Init /\ TablesInit /\ DagInit /\ OthersInit

LedgerSpec ==
    LedgerInit /\ [][EnvelopeStep \/ TableStep \/ DagStep \/ ClaimStep \/ SyncStep]_
                        <<vars, tableVars, dagVars, evidenceVars, walkVars>>
=============================================================================
