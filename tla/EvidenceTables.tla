--------------------------- MODULE EvidenceTables ---------------------------
(***************************************************************************)
(* The anchor and revocation tables of the in-memory evidence ledger       *)
(* (ledger_envelope.rs): first-write-wins anchors, and revocations that    *)
(* are evicted, lowest certificate expiry first, when the table is full.   *)
(*                                                                         *)
(* The revocation Vec is a sequence, because min_by_key takes the FIRST of *)
(* the lowest entries and swap_remove moves the last one into its place.   *)
(***************************************************************************)
EXTENDS Integers, Sequences, SequencesExt

CONSTANTS
    Pubkeys, Hashes,
    Expiries,           \* cert_expiry_ms values a Revoke body can carry, u64::MAX
                        \* for a body without the field among them
    MAX_ANCHORS,        \* 256 in the code
    MAX_REVOCATIONS     \* 64 in the code

ASSUME TablesAssumption ==
    Expiries \subseteq Nat /\ MAX_ANCHORS \in Nat /\ MAX_REVOCATIONS \in Nat \ {0}

VARIABLES
    anchors,        \* anchors: a set of [pubkey, hash]
    revocations,    \* revocations: a sequence of [pubkey, hash, expiry]
    everRevoked     \* the [pubkey, expiry] of every record set_revocation has stored

tableVars == <<anchors, revocations, everRevoked>>

TablesInit == anchors = {} /\ revocations = <<>> /\ everRevoked = {}

\* Anchored(k): get_anchor(k) is Some.
Anchored(k) == \E a \in anchors : a.pubkey = k

\* is_revoked
IsRevoked(k) == \E r \in ToSet(revocations) : r.pubkey = k

\* Mutant: a full table gives up its latest-expiring record.
EvictHighest(revs) ==
    LET i == CHOOSE i \in DOMAIN revs : \A j \in DOMAIN revs : revs[i].expiry >= revs[j].expiry
    IN  Front([revs EXCEPT ![i] = Last(revs)])

\* min_by_key and swap_remove on a non-empty table.
Evict(revs) ==
    LET i == CHOOSE i \in DOMAIN revs :
                 /\ \A j \in DOMAIN revs : revs[i].expiry <= revs[j].expiry
                 /\ \A j \in 1 .. i - 1 : revs[i].expiry < revs[j].expiry
    IN  Front([revs EXCEPT ![i] = Last(revs)])

-----------------------------------------------------------------------------
\* set_anchor stores the first anchor of a key.
SetAnchor(k, h) ==
    /\ ~Anchored(k) /\ Cardinality(anchors) < MAX_ANCHORS
    /\ anchors' = anchors \cup {[pubkey |-> k, hash |-> h]}
    /\ UNCHANGED <<revocations, everRevoked>>

\* set_anchor returns without storing: the same anchor again, Divergence, AnchorsFull.
AnchorKept(k, h) ==
    /\ Anchored(k) \/ Cardinality(anchors) >= MAX_ANCHORS
    /\ UNCHANGED tableVars

\* set_revocation stores the record, making room first if there is none.
SetRevocation(k, h, x) ==
    /\ ~IsRevoked(k)
    /\ LET r == [pubkey |-> k, hash |-> h, expiry |-> x]
           room == IF Len(revocations) >= MAX_REVOCATIONS THEN Evict(revocations) ELSE revocations
       IN  /\ revocations' = Append(room, r)
           /\ everRevoked' = everRevoked \cup {[pubkey |-> k, expiry |-> x]}
    /\ UNCHANGED anchors

\* set_revocation returns without storing: the same revocation again, or Divergence.
RevocationKept(k, h, x) == IsRevoked(k) /\ UNCHANGED tableVars

TablesNext ==
    \E k \in Pubkeys, h \in Hashes :
        \/ SetAnchor(k, h) \/ AnchorKept(k, h)
        \/ \E x \in Expiries : SetRevocation(k, h, x) \/ RevocationKept(k, h, x)

TablesSpec == TablesInit /\ [][TablesNext]_tableVars

-----------------------------------------------------------------------------
\* F10: set_revocation on a full table gives up what costs the least.  A record
\* that was stored once and is gone has MAX_REVOCATIONS - 1 records in the table
\* that expire no sooner.
KeepsLatest ==
    \A r \in everRevoked \ {[pubkey |-> q.pubkey, expiry |-> q.expiry] : q \in ToSet(revocations)} :
        Cardinality({i \in DOMAIN revocations : revocations[i].expiry >= r.expiry})
            >= MAX_REVOCATIONS - 1
=============================================================================
