----------------------------- MODULE CausalDag ------------------------------
(***************************************************************************)
(* The causal graph over envelope hashes (transport/dag.rs) and the audit  *)
(* rule that asks it (transport/historical.rs).  Nodes are interned in the *)
(* order of their first mention and known by that index; each has a list   *)
(* of parents; ancestry is a breadth-first search over those lists.  An    *)
(* insert that is refused keeps the nodes it has interned.  The visited    *)
(* bitmap and the queue are scratch: every search leaves them clear.       *)
(***************************************************************************)
EXTENDS Integers, Sequences, SequencesExt

CONSTANTS
    Nodes,             \* envelope hashes
    MAX_NODES,         \* 128 in the code
    MAX_PARENTS,       \* 8 in the code
    Anchor, Revoke     \* the sender's anchor, and its revocation

ASSUME DagAssumption ==
    MAX_NODES \in Nat \ {0} /\ MAX_PARENTS \in Nat \ {0} /\ {Anchor, Revoke} \subseteq Nodes

VARIABLES
    nodes,      \* index -> hash
    parents,    \* index -> the indices of its parents
    edges       \* history: the edges whose insert returned Ok

dagVars == <<nodes, parents, edges>>

DagInit == nodes = <<>> /\ parents = <<>> /\ edges = {}

\* index_of on interned nodes ns, as the set of the index or {}.
IndexOf(ns, h) == {i \in DOMAIN ns : ns[i] = h}

\* intern: h is known, or there is room for it.
Interned(ns, h) == IF IndexOf(ns, h) # {} THEN ns ELSE Append(ns, h)

Fits(ns, h) == IndexOf(ns, h) # {} \/ Len(ns) < MAX_NODES

\* A list of parents behind the queue q, without the ones that were queued before.
Enqueued(q, list) ==
    LET put[j \in 0 .. Len(list)] ==
          IF j = 0 THEN q
          ELSE IF list[j] \in ToSet(put[j - 1]) THEN put[j - 1] ELSE Append(put[j - 1], list[j])
    IN  put[Len(list)]

\* is_ancestor_idx: the work queue after its first k entries were looked at; the
\* visited nodes are those that were ever queued.  The search stops at the hit.
IsAncestorIdx(ps, a, d) ==
    LET work[k \in 0 .. MAX_NODES] ==
          IF k = 0 THEN <<d>>
          ELSE IF k > Len(work[k - 1]) \/ a \in ToSet(work[k - 1]) THEN work[k - 1]
          ELSE Enqueued(work[k - 1], ps[work[k - 1][k]])
    IN  a # d /\ a \in ToSet(work[MAX_NODES])

\* The lists of parents, with empty ones for nodes that were just interned.
Lists(ns) == [i \in DOMAIN ns |-> IF i \in DOMAIN parents THEN parents[i] ELSE <<>>]

\* An insert that ends with nodes ns and lists ps.
Leaves(ns, ps) == nodes' = ns /\ parents' = ps

\* A self-loop, or no room for the parent.
InsertNothing(parent, child) ==
    /\ parent = child \/ ~Fits(nodes, parent)
    /\ UNCHANGED dagVars

\* No room for the child: the parent stays.
InsertParentOnly(parent, child) ==
    /\ parent # child /\ Fits(nodes, parent)
    /\ ~Fits(Interned(nodes, parent), child)
    /\ Leaves(Interned(nodes, parent), Lists(Interned(nodes, parent)))
    /\ UNCHANGED edges

\* Mutant: the edge is wired without the cycle guard.
InsertEdgeUnguarded(parent, child) ==
    /\ parent # child /\ Fits(nodes, parent) /\ Fits(Interned(nodes, parent), child)
    /\ LET ns == Interned(Interned(nodes, parent), child)
           ps == Lists(ns)
       IN  \E p \in IndexOf(ns, parent), c \in IndexOf(ns, child) :
              /\ Leaves(ns, IF p \in ToSet(ps[c]) THEN ps ELSE [ps EXCEPT ![c] = Append(@, p)])
              /\ edges' = edges \cup {<<parent, child>>}

\* Both interned: refused if the edge closes a cycle (I2) or the list is full; Ok
\* if it is there already (I3) or was added.
InsertEdge(parent, child) ==
    /\ parent # child /\ Fits(nodes, parent) /\ Fits(Interned(nodes, parent), child)
    /\ LET ns == Interned(Interned(nodes, parent), child)
           ps == Lists(ns)
       IN  \E p \in IndexOf(ns, parent), c \in IndexOf(ns, child) :
              IF \/ IsAncestorIdx(ps, c, p)
                 \/ p \notin ToSet(ps[c]) /\ Len(ps[c]) >= MAX_PARENTS
              THEN Leaves(ns, ps) /\ UNCHANGED edges
              ELSE /\ Leaves(ns, IF p \in ToSet(ps[c]) THEN ps
                                 ELSE [ps EXCEPT ![c] = Append(@, p)])
                   /\ edges' = edges \cup {<<parent, child>>}

DagNext ==
    \E parent, child \in Nodes :
        \/ InsertNothing(parent, child)
        \/ InsertParentOnly(parent, child)
        \/ InsertEdge(parent, child)

DagSpec == DagInit /\ [][DagNext]_dagVars

\* is_ancestor: an unknown node has no causal position.
IsAncestor(a, d) ==
    \E i \in IndexOf(nodes, a), j \in IndexOf(nodes, d) : IsAncestorIdx(parents, i, j)

\* historical_validity for a sender whose certificate chain is sound.
HistoricalValidity(env) ==
    IF ~IsAncestor(Anchor, env) THEN "NotDescendantOfAnchor"
    ELSE IF IsAncestor(Revoke, env) THEN "DescendantOfRevocation"
    ELSE "Ok"

-----------------------------------------------------------------------------
\* The edges taken, one step back from the hashes in S.
ParentsOf(S) == {e[1] : e \in {x \in edges : x[2] \in S}}

\* The hashes causally before d, by the reference definition: back[n] has those with
\* a path to d of at most n + 1 edges.
Before(d) ==
    LET back[n \in 0 .. MAX_NODES] ==
          IF n = 0 THEN ParentsOf({d}) ELSE back[n - 1] \cup ParentsOf(back[n - 1])
    IN  back[MAX_NODES]

\* BE-EVID-05a and BE-HIST-03/04: whatever inserts were refused, repeated or out of
\* room, the search answers the strict causal order of the edges that were taken,
\* which has no cycle; and the audit accepts what comes after the anchor and not
\* after the revocation.
CausalExact ==
    \A d \in Nodes :
        /\ \A a \in Nodes : IsAncestor(a, d) <=> a \in Before(d)
        /\ HistoricalValidity(d) = "Ok" <=> Anchor \in Before(d) /\ Revoke \notin Before(d)
=============================================================================
