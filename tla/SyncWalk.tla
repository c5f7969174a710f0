------------------------------ MODULE SyncWalk ------------------------------
(***************************************************************************)
(* How a node catches up (transport/sync.rs): WalkQueue goes from a root   *)
(* over the parents it knows and surfaces the ones it does not know        *)
(* (BE-SYNC-03), a peer that has everything answers with build_response    *)
(* (BE-SYNC-02), and the next walk starts with what came.                  *)
(*                                                                         *)
(* A hash is a number, its parents are smaller ones.  Who resolves a hash, *)
(* and in which order the parents of one are pushed, is the caller's       *)
(* affair: every order is allowed.                                         *)
(***************************************************************************)
EXTENDS Naturals, Sequences, SequencesExt, FiniteSets

CONSTANTS
    MaxHash,                    \* bound: hashes are 1 .. MaxHash, the root is MaxHash
    Graphs,                     \* the histories: hash -> the set of its parents
    WireLen,                    \* hash -> the bytes of its envelope
    WALK_MAX_DEPTH,             \* 128 in the code; counts the hashes walked
    WALK_MAX_TOTAL,             \* 4096 in the code
    MAX_RESPONSE_ENVELOPES,     \* 64 in the code
    MAX_RESPONSE_BYTES,
    RESPONSE_HEADER,
    MaxWalks                    \* bound: walks one after the other

ASSUME WalkAssumption ==
    /\ MaxHash \in Nat \ {0} /\ WireLen \in [1 .. MaxHash -> Nat]
    /\ Graphs \subseteq [1 .. MaxHash -> SUBSET (1 .. MaxHash)]
    /\ WALK_MAX_DEPTH \in Nat /\ WALK_MAX_TOTAL \in Nat \ {0}
    /\ MAX_RESPONSE_ENVELOPES \in Nat \ {0} /\ MAX_RESPONSE_BYTES \in Nat
    /\ RESPONSE_HEADER \in 0 .. MAX_RESPONSE_BYTES

VARIABLES
    graph,       \* the history
    known,       \* the hashes the node can resolve
    queue,       \* WalkQueue.queue
    visited,     \* WalkQueue.visited
    depth,       \* WalkQueue.depth
    unresolved,  \* WalkQueue.unresolved
    todo,        \* parents of the hash in hand that are still to be pushed
    walked,      \* history: what next() has returned in this walk
    exhausted,   \* history: some push of this walk was refused
    walks        \* the number of walks begun

walkVars == <<graph, known, queue, visited, depth, unresolved, todo, walked, exhausted, walks>>

Root == MaxHash
WalkHashes == 1 .. MaxHash

\* WalkQueue::new.
NewWalk ==
    /\ queue' = <<Root>> /\ visited' = <<Root>> /\ depth' = 0 /\ unresolved' = <<>>
    /\ todo' = {} /\ walked' = <<>> /\ exhausted' = FALSE

WalkInit ==
    /\ graph = [h \in WalkHashes |-> {}] /\ known = {} /\ walks = 0
    /\ queue = <<>> /\ visited = <<>> /\ depth = 0 /\ unresolved = <<>>
    /\ todo = {} /\ walked = <<>> /\ exhausted = FALSE

\* A node begins with some history and some part of it.
Begin ==
    /\ walks = 0 /\ walks' = 1
    /\ graph' \in Graphs /\ known' \in SUBSET WalkHashes
    /\ NewWalk

\* next returns a hash: its parents are pushed if it resolves, it is recorded as
\* unresolved if not.
Seen(s, h) == h \in ToSet(s)
Step ==
    /\ walks > 0 /\ todo = {} /\ depth < WALK_MAX_DEPTH /\ queue # <<>>
    /\ LET h == Head(queue)
       IN  /\ queue' = Tail(queue) /\ depth' = depth + 1
           /\ walked' = Append(walked, h)
           /\ todo' = IF h \in known THEN graph[h] ELSE {}
           /\ unresolved' = IF h \in known \/ Seen(unresolved, h) THEN unresolved
                            ELSE Append(unresolved, h)
    /\ UNCHANGED <<graph, known, visited, exhausted, walks>>

\* Mutant: push looks only at what still waits.
TakenQueued(h) == Seen(queue, h)

\* push: a hash that was seen, also one that was surfaced, is never queued again.
Taken(h) == Seen(visited, h)

Push(h) ==
    /\ h \in todo /\ todo' = todo \ {h}
    /\ IF Len(visited) >= WALK_MAX_TOTAL
       THEN exhausted' = TRUE /\ UNCHANGED <<queue, visited>>
       ELSE /\ UNCHANGED exhausted
            /\ IF Taken(h) THEN UNCHANGED <<queue, visited>>
               ELSE queue' = Append(queue, h) /\ visited' = Append(visited, h)
    /\ UNCHANGED <<graph, known, depth, unresolved, walked, walks>>

\* next returns None.
Over == walks > 0 /\ todo = {} /\ (depth >= WALK_MAX_DEPTH \/ queue = <<>>)

\* One item that the peer does not have: it is written, or ends the response.
Write(r, h) ==
    IF Len(r.sent) < MAX_RESPONSE_ENVELOPES /\ r.pos + WireLen[h] + 1 <= MAX_RESPONSE_BYTES
    THEN [sent |-> Append(r.sent, h), pos |-> r.pos + WireLen[h], truncated |-> FALSE]
    ELSE [sent |-> r.sent, pos |-> r.pos, truncated |-> TRUE]

\* build_response over the items in their order; what the peer has is skipped.
Build(items, have) ==
    LET built[n \in 0 .. Len(items)] ==
          IF n = 0 THEN [sent |-> <<>>, pos |-> RESPONSE_HEADER, truncated |-> FALSE]
          ELSE IF built[n - 1].truncated \/ items[n] \in have THEN built[n - 1]
          ELSE Write(built[n - 1], items[n])
    IN  built[Len(items)]

\* The peer answers with what the node lacks, oldest first; what was written
\* before a truncation counts.  Then the node walks again.
Oldest == [i \in 1 .. MaxHash |-> i]
Answer ==
    /\ Over /\ unresolved # <<>> /\ walks < MaxWalks
    /\ known' = known \cup ToSet(Build(Oldest, known).sent)
    /\ walks' = walks + 1
    /\ NewWalk /\ UNCHANGED graph

\* The walk is over and nobody is asked.
Done == Over /\ UNCHANGED walkVars

WalkNext ==
    \/ Begin
    \/ Step
    \/ \E h \in WalkHashes : Push(h)
    \/ Answer
    \/ Done

WalkSpec == WalkInit /\ [][WalkNext]_walkVars

-----------------------------------------------------------------------------
\* The hashes a walk without limits would come to.
Closure(S) == S \cup UNION {graph[h] : h \in S \cap known}
Reached == LET grow[n \in 0 .. MaxHash] == IF n = 0 THEN {Root} ELSE Closure(grow[n - 1])
           IN  grow[MaxHash]

\* What of s is not in have, in its order.
Lacking(s, have) ==
    LET kept[n \in 0 .. Len(s)] ==
          IF n = 0 THEN <<>>
          ELSE IF s[n] \in have THEN kept[n - 1] ELSE Append(kept[n - 1], s[n])
    IN  kept[Len(s)]

\* The bytes of the envelopes in s.
Bytes(s) ==
    LET sum[n \in 0 .. Len(s)] == IF n = 0 THEN 0 ELSE sum[n - 1] + WireLen[s[n]]
    IN  sum[Len(s)]

\* A walk hands out each hash once and only what the root leads to, surfaces every
\* unknown hash it handed out once, and when it ends it has seen everything unless a
\* push was refused or the depth bound left hashes behind.
WalkComplete ==
    /\ IsInjective(visited) /\ IsPrefix(walked, visited) /\ ToSet(walked) \subseteq Reached
    /\ Len(visited) <= WALK_MAX_TOTAL /\ depth = Len(walked) /\ depth <= WALK_MAX_DEPTH
    /\ unresolved = Lacking(walked, known)
    /\ Over /\ ~exhausted /\ queue = <<>> => ToSet(walked) = Reached

\* A response keeps its limits, holds what the peer lacks in order, leaves something
\* out only if it says so, and is empty only if there is nothing to send or the first
\* missing envelope does not fit by itself.
ResponseExact ==
    LET r == Build(Oldest, known)
        lacks == Lacking(Oldest, known)
    IN  /\ IsPrefix(r.sent, lacks) /\ (r.truncated <=> r.sent # lacks)
        /\ Len(r.sent) <= MAX_RESPONSE_ENVELOPES /\ r.pos <= MAX_RESPONSE_BYTES
        /\ r.pos = RESPONSE_HEADER + Bytes(r.sent)
        /\ r.sent = <<>> /\ lacks # <<>> =>
              RESPONSE_HEADER + WireLen[Head(lacks)] >= MAX_RESPONSE_BYTES

\* BE-SYNC-02/03: a walk hands out and surfaces each hash once and is complete unless
\* a bound was met; a response is the longest legal prefix of what the peer lacks and
\* says so when it is not all of it.
WalkExact == WalkComplete /\ ResponseExact
=============================================================================
