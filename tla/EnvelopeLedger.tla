--------------------------- MODULE EnvelopeLedger ---------------------------
(***************************************************************************)
(* The in-memory evidence ledger (ledger_envelope.rs) as the daemon drives *)
(* it: handle_envelope's dedupe, the F5 admission pipeline of verify.rs    *)
(* (parents, then the sequence window, then the insert) and the hand-over  *)
(* to dispatch.                                                            *)
(*                                                                         *)
(* Envelopes is a fixed set of signed envelopes the network may deliver in *)
(* any order and any number of times, two of them possibly claiming the    *)
(* same (sender, channel, seq).  An envelope is stored by its hash.  The   *)
(* seq_windows Vec is a function of the pair; a pair the Vec has no row    *)
(* for has the window ReplayWindow::new() makes, since a row is pushed     *)
(* only after its window has checked (and so recorded) a first counter.    *)
(***************************************************************************)
EXTENDS ReplayFilter, FiniteSets

CONSTANTS
    Envelopes,        \* records [hash, sender, channel, seq, parents]
    MAX_ENVELOPES,    \* 4096 in the code
    MAX_SEQ_WINDOWS   \* 256 in the code

\* A hash identifies its envelope, and an envelope cannot contain its own hash.
ASSUME EnvelopesAssumption ==
    /\ \A e, f \in Envelopes : e.hash = f.hash => e = f
    /\ \A e \in Envelopes : e.seq \in Nat /\ e.hash \notin e.parents
    /\ IsFiniteSet(Envelopes)
    /\ MAX_ENVELOPES \in Nat /\ MAX_SEQ_WINDOWS \in Nat

VARIABLES
    store,        \* envelopes: the accepted ones
    windows,      \* seq_windows: (sender, channel) -> replay window
    inserts,      \* inserts_total
    storefull,    \* storefull_total
    dispatched,   \* how often dispatch_envelope ran on each envelope
    last          \* the class of the last arrival, as the wire counters name it

vars == <<store, windows, inserts, storefull, dispatched, last>>

Pair(e) == <<e.sender, e.channel>>

SameKey(e, f) == Pair(e) = Pair(f) /\ e.seq = f.seq

Init ==
    /\ store = {}
    /\ windows = [p \in {Pair(e) : e \in Envelopes} |-> NewWindow]
    /\ inserts = 0 /\ storefull = 0
    /\ dispatched = [e \in Envelopes |-> 0]
    /\ last = "none"

\* The pairs that have a row in seq_windows.
Tracked == {p \in DOMAIN windows : windows[p].initialized}

\* find_envelope: the stored envelopes under the key of e.
FindEnvelope(e) == {f \in store : SameKey(e, f)}

\* Mutant: one known parent is enough.
AllParentsPresentAny(e) == e.parents = {} \/ \E f \in store : f.hash \in e.parents

\* all_parents_present
AllParentsPresent(e) == \A p \in e.parents : \E f \in store : f.hash = p

\* The verdict of check_seq.
SeqOk(e) ==
    /\ Pair(e) \in Tracked \/ Cardinality(Tracked) < MAX_SEQ_WINDOWS
    /\ Fresh(windows[Pair(e)], e.seq)

\* The windows after check_seq has returned Ok.
SeqTaken(e) == [windows EXCEPT ![Pair(e)] = Record(@, e.seq)]

-----------------------------------------------------------------------------
\* One action per exit of handle_envelope.  A refusal counts one reject of its class.

\* The signature gate: a forged copy of e is dropped before anything is read.
BadSignature(e) ==
    /\ last' = "BadSignature"
    /\ UNCHANGED <<store, windows, inserts, storefull, dispatched>>

\* Mutant: insert_envelope's idempotent Ok is taken for an acceptance.
DuplicateDispatched(e) ==
    /\ e \in FindEnvelope(e)
    /\ dispatched' = [dispatched EXCEPT ![e] = @ + 1]
    /\ last' = "Duplicate"
    /\ UNCHANGED <<store, windows, inserts, storefull>>

\* The same envelope again: return without dispatching it.
Duplicate(e) ==
    /\ e \in FindEnvelope(e)
    /\ last' = "Duplicate"
    /\ UNCHANGED <<store, windows, inserts, storefull, dispatched>>

\* The key is taken by another envelope.
Equivocation(e) ==
    /\ FindEnvelope(e) # {} /\ e \notin FindEnvelope(e)
    /\ last' = "Equivocation"
    /\ UNCHANGED <<store, windows, inserts, storefull, dispatched>>

\* Mutant: the sequence number is taken before the parents are looked up.
UnknownParentsSeqFirst(e) ==
    /\ FindEnvelope(e) = {} /\ ~AllParentsPresent(e)
    /\ windows' = IF SeqOk(e) THEN SeqTaken(e) ELSE windows
    /\ last' = "UnknownParents"
    /\ UNCHANGED <<store, inserts, storefull, dispatched>>

\* F5: parents come first, so the sequence number is not taken.
UnknownParents(e) ==
    /\ FindEnvelope(e) = {} /\ ~AllParentsPresent(e)
    /\ last' = "UnknownParents"
    /\ UNCHANGED <<store, windows, inserts, storefull, dispatched>>

\* WindowStale and SeqWindowsFull, one class on the wire.
SeqWindowStale(e) ==
    /\ FindEnvelope(e) = {} /\ AllParentsPresent(e) /\ ~SeqOk(e)
    /\ last' = "SeqWindowStale"
    /\ UNCHANGED <<store, windows, inserts, storefull, dispatched>>

\* insert_envelope has no room: check_seq has already taken the number.
StoreFull(e) ==
    /\ FindEnvelope(e) = {} /\ AllParentsPresent(e) /\ SeqOk(e)
    /\ Cardinality(store) >= MAX_ENVELOPES
    /\ windows' = SeqTaken(e)
    /\ inserts' = inserts + 1 /\ storefull' = storefull + 1
    /\ last' = "Equivocation"
    /\ UNCHANGED <<store, dispatched>>

\* Stored, counted and handed to dispatch_envelope.
Admitted(e) ==
    /\ FindEnvelope(e) = {} /\ AllParentsPresent(e) /\ SeqOk(e)
    /\ Cardinality(store) < MAX_ENVELOPES
    /\ windows' = SeqTaken(e)
    /\ store' = store \cup {e}
    /\ inserts' = inserts + 1
    /\ dispatched' = [dispatched EXCEPT ![e] = @ + 1]
    /\ last' = "Dispatched"
    /\ UNCHANGED storefull

Next ==
    \E e \in Envelopes :
        \/ BadSignature(e) \/ Duplicate(e) \/ Equivocation(e) \/ UnknownParents(e)
        \/ SeqWindowStale(e) \/ StoreFull(e) \/ Admitted(e)

Spec == Init /\ [][Next]_vars

-----------------------------------------------------------------------------
\* BE-ENV-03/05: whatever the network repeats, reorders or equivocates, at most
\* one envelope is ever dispatched under one (sender, channel, seq), and once.
OneDispatchPerSeq ==
    /\ \A e \in Envelopes : dispatched[e] <= 1
    /\ \A e, f \in Envelopes :
           SameKey(e, f) /\ dispatched[e] > 0 /\ dispatched[f] > 0 => e = f

\* BE-LEDGER-01: dispatch is causal, every parent of a stored envelope is stored.
ParentsClosed == \A e \in store : e.parents \subseteq {f.hash : f \in store}

\* The numbers the window of p would refuse as seen.
Marked(p) ==
    IF windows[p].initialized THEN {windows[p].largest - d : d \in windows[p].bits} ELSE {}

\* Taken numbers that no stored envelope carries.
Burnt ==
    {b \in UNION {{p} \X Marked(p) : p \in DOMAIN windows} :
        ~\E e \in store : b = <<Pair(e), e.seq>>}

\* F5, window and store in step: a stored number is marked, or has fallen behind
\* its window; an envelope refused for unknown parents keeps its number, so that it
\* is admissible once they have come.  Numbers are lost to a full store only, one
\* for each StoreFull, and inserts_total counts just the stored and the StoreFulls.
WindowsMatchStore ==
    /\ \A e \in store :
          LET w == windows[Pair(e)]
          IN  /\ w.initialized
              /\ e.seq \in Marked(Pair(e)) \/ w.largest - e.seq >= WINDOW_BITS
    /\ Cardinality(Burnt) <= storefull
    /\ inserts = Cardinality(store) + storefull
=============================================================================
