------------------------ MODULE EnvelopeLedgerProofs ------------------------
(***************************************************************************)
(* Proofs about the ledger's parts, for every set of envelopes, nodes and  *)
(* histories, every window width and every limit: EnvelopeLedger (one      *)
(* dispatch per sequence number, causal closure, windows against the       *)
(* store), EvidenceTables (the latest anchor and revocation is kept),      *)
(* CausalDag (no cycle, and the search is ancestry), SyncWalk (a walk is   *)
(* complete up to its bounds, a response exact) and Evidence (a verdict is *)
(* the strongest support of the cited spans).                              *)
(***************************************************************************)
EXTENDS EnvelopeLedger, EvidenceTables, CausalDag, SyncWalk, Evidence, DataLemmas

Pairs == {Pair(e) : e \in Envelopes}

\* The numbers a window would refuse as seen.
SeenIn(w) == IF w.initialized THEN {w.largest - d : d \in w.bits} ELSE {}

\* A number has been taken: it is marked, or has fallen behind the window.
TakenIn(w, s) == w.initialized /\ (s \in SeenIn(w) \/ w.largest - s >= WINDOW_BITS)

LedgerTypeOK ==
    /\ store \subseteq Envelopes
    /\ windows \in [Pairs -> Window]
    /\ inserts \in Nat /\ storefull \in Nat
    /\ dispatched \in [Envelopes -> Nat]

\* Dispatch follows the store, and the store has one envelope per key.
DispatchInv ==
    /\ \A e \in Envelopes : dispatched[e] = IF e \in store THEN 1 ELSE 0
    /\ \A e, f \in store : SameKey(e, f) => e = f

\* What the windows know of the store.  An unused window has no bit set: the first
\* number it records would otherwise mark others with it.
WindowInv ==
    /\ \A p \in Pairs : ~windows[p].initialized => windows[p].bits = {}
    /\ \A e \in store : TakenIn(windows[Pair(e)], e.seq)

CountInv ==
    /\ IsFiniteSet(Burnt) /\ Cardinality(Burnt) <= storefull
    /\ inserts = Cardinality(store) + storefull

LedgerInv == LedgerTypeOK /\ DispatchInv /\ ParentsClosed /\ WindowInv /\ CountInv

-----------------------------------------------------------------------------
\* check() keeps the type of a window.
LEMMA RecordWindow ==
    ASSUME NEW w \in Window, NEW c \in Nat, Fresh(w, c)
    PROVE  Record(w, c) \in Window /\ Record(w, c).initialized
<1> USE WindowAssumption DEF Window
<1>1. CASE ~w.initialized
    BY <1>1 DEF Record
<1>2. CASE w.initialized /\ c > w.largest
    BY <1>2 DEF Record, ShiftLeft
<1>3. CASE w.initialized /\ c <= w.largest
    BY <1>3 DEF Record, Fresh
<1> QED BY <1>1, <1>2, <1>3

\* Recording marks the counter and no other one.
LEMMA RecordSeen ==
    ASSUME NEW w \in Window, NEW c \in Nat, Fresh(w, c), ~w.initialized => w.bits = {}
    PROVE  c \in SeenIn(Record(w, c)) /\ SeenIn(Record(w, c)) \subseteq SeenIn(w) \cup {c}
<1> USE WindowAssumption DEF Window
<1>1. CASE ~w.initialized
    <2>1. Record(w, c) = [initialized |-> TRUE, largest |-> c, bits |-> {0}]
        BY <1>1 DEF Record
    <2> QED BY <2>1 DEF SeenIn
<1>2. CASE w.initialized /\ c > w.largest
    <2>1. Record(w, c) = [initialized |-> TRUE, largest |-> c,
                          bits |-> ShiftLeft(w.bits, c - w.largest) \cup {0}]
        BY <1>2 DEF Record
    <2>2. c \in SeenIn(Record(w, c))
        <3>1. c - 0 \in {c - d : d \in ShiftLeft(w.bits, c - w.largest) \cup {0}}  OBVIOUS
        <3> QED BY <2>1, <3>1 DEF SeenIn
    <2>3. ASSUME NEW x \in SeenIn(Record(w, c)) PROVE x \in SeenIn(w) \cup {c}
        <3>1. PICK d \in ShiftLeft(w.bits, c - w.largest) \cup {0} : x = c - d
            BY <2>1 DEF SeenIn
        <3>2. CASE d = 0
            BY <3>1, <3>2
        <3>3. CASE d \in ShiftLeft(w.bits, c - w.largest)
            <4>1. d \in 0 .. WINDOW_BITS - 1 /\ d - (c - w.largest) \in w.bits
                BY <3>3 DEF ShiftLeft
            <4>2. x = w.largest - (d - (c - w.largest))
                BY <3>1, <4>1
            <4> QED BY <4>1, <4>2, <1>2 DEF SeenIn
        <3> QED BY <3>1, <3>2, <3>3
    <2> QED BY <2>2, <2>3
<1>3. CASE w.initialized /\ c <= w.largest
    <2>1. Record(w, c) = [w EXCEPT !.bits = @ \cup {w.largest - c}]
        BY <1>3 DEF Record
    <2>2. Record(w, c).initialized /\ Record(w, c).largest = w.largest
          /\ Record(w, c).bits = w.bits \cup {w.largest - c}
        BY <2>1, <1>3
    <2>3. w.largest - (w.largest - c) = c
        OBVIOUS
    <2> QED BY <2>2, <2>3, <1>3 DEF SeenIn
<1> QED BY <1>1, <1>2, <1>3

\* Recording forgets nothing: what was taken stays marked or falls behind.
LEMMA RecordTaken ==
    ASSUME NEW w \in Window, NEW c \in Nat, Fresh(w, c), NEW s \in Nat, TakenIn(w, s)
    PROVE  TakenIn(Record(w, c), s)
<1> USE WindowAssumption DEF Window
<1>0. w.initialized  BY DEF TakenIn
<1>1. CASE c > w.largest
    <2>1. Record(w, c) = [initialized |-> TRUE, largest |-> c,
                          bits |-> ShiftLeft(w.bits, c - w.largest) \cup {0}]
        BY <1>0, <1>1 DEF Record
    <2>2. CASE w.largest - s >= WINDOW_BITS
        BY <2>1, <2>2, <1>1 DEF TakenIn
    <2>3. CASE s \in SeenIn(w)
        <3>1. PICK d \in w.bits : s = w.largest - d
            BY <2>3, <1>0 DEF SeenIn
        <3> DEFINE n == d + (c - w.largest)
        <3>2. s = c - n /\ n \in Nat /\ n - (c - w.largest) = d
            BY <3>1, <1>1
        <3>3. CASE n < WINDOW_BITS
            <4>1. n \in ShiftLeft(w.bits, c - w.largest)
                BY <3>2, <3>3 DEF ShiftLeft
            <4> QED BY <4>1, <3>2, <2>1 DEF TakenIn, SeenIn
        <3>4. CASE n >= WINDOW_BITS
            BY <3>4, <3>2, <2>1 DEF TakenIn
        <3> QED BY <3>2, <3>3, <3>4
    <2> QED BY <2>2, <2>3 DEF TakenIn
<1>2. CASE c <= w.largest
    <2>1. Record(w, c) = [w EXCEPT !.bits = @ \cup {w.largest - c}]
        BY <1>0, <1>2 DEF Record
    <2>2. Record(w, c).initialized /\ Record(w, c).largest = w.largest
          /\ w.bits \subseteq Record(w, c).bits
        BY <2>1, <1>0
    <2> QED BY <2>2, <1>0 DEF TakenIn, SeenIn
<1> QED BY <1>1, <1>2

\* The properties speak of Marked, the lemmas of SeenIn.
LEMMA MarkedSeen == \A p : Marked(p) = SeenIn(windows[p])
    BY DEF Marked, SeenIn

\* Membership in Burnt.
LEMMA InBurnt ==
    ASSUME LedgerTypeOK, NEW b
    PROVE  b \in Burnt <=>
              /\ \E p \in Pairs : \E s \in SeenIn(windows[p]) : b = <<p, s>>
              /\ ~\E e \in store : b = <<Pair(e), e.seq>>
<1>1. DOMAIN windows = Pairs  BY DEF LedgerTypeOK
<1>2. b \in UNION {{p} \X Marked(p) : p \in DOMAIN windows}
        <=> \E p \in Pairs : \E s \in SeenIn(windows[p]) : b = <<p, s>>
    BY <1>1, MarkedSeen
<1> QED BY <1>2 DEF Burnt

\* The same in the next state.
LEMMA InBurntNext ==
    ASSUME LedgerTypeOK', NEW b
    PROVE  b \in Burnt' <=>
              /\ \E p \in Pairs : \E s \in SeenIn(windows'[p]) : b = <<p, s>>
              /\ ~\E e \in store' : b = <<Pair(e), e.seq>>
<1>1. DOMAIN windows' = Pairs  BY DEF LedgerTypeOK
<1>2. \A p : Marked(p)' = SeenIn(windows'[p])
    BY DEF Marked, SeenIn
<1>3. b \in UNION {{p} \X Marked(p)' : p \in DOMAIN windows'}
        <=> \E p \in Pairs : \E s \in SeenIn(windows'[p]) : b = <<p, s>>
    BY <1>1, <1>2
<1> QED BY <1>3 DEF Burnt

\* One more element counts for at most one.
LEMMA CardinalityGrows ==
    ASSUME NEW S, NEW T, NEW x, IsFiniteSet(S), T \subseteq S \cup {x}
    PROVE  IsFiniteSet(T) /\ Cardinality(T) <= Cardinality(S) + 1
<1>1. IsFiniteSet(S \cup {x})
      /\ Cardinality(S \cup {x}) = IF x \in S THEN Cardinality(S) ELSE Cardinality(S) + 1
    BY FS_AddElement
<1>2. IsFiniteSet(T) /\ Cardinality(T) <= Cardinality(S \cup {x})
    BY <1>1, FS_Subset
<1>3. Cardinality(S) \in Nat /\ Cardinality(T) \in Nat
    BY <1>2, FS_CardinalityType
<1> QED BY <1>1, <1>2, <1>3
-----------------------------------------------------------------------------
\* An empty ledger satisfies the invariant.
LEMMA LedgerInit == Init => LedgerInv
<1> SUFFICES ASSUME Init PROVE LedgerInv  OBVIOUS
<1> USE WindowAssumption, EnvelopesAssumption
<1>1. LedgerTypeOK
    BY DEF Init, LedgerTypeOK, Pairs, Window, NewWindow
<1>2. DispatchInv /\ ParentsClosed
    BY DEF Init, DispatchInv, ParentsClosed
<1>3. WindowInv
    BY DEF Init, WindowInv, Pairs, NewWindow
<1>4. CountInv
    <2>1. \A p \in Pairs : SeenIn(windows[p]) = {}
        BY DEF Init, Pairs, SeenIn, NewWindow
    <2>2. Burnt = {}
        BY <1>1, <2>1, InBurnt
    <2> QED BY <2>2, FS_EmptySet DEF CountInv, Init
<1> QED BY <1>1, <1>2, <1>3, <1>4 DEF LedgerInv

\* A refusal that touches neither table nor counter preserves the invariant.
LEMMA LedgerUnchanged ==
    ASSUME LedgerInv, UNCHANGED <<store, windows, inserts, storefull, dispatched>>
    PROVE  LedgerInv'
    BY DEF LedgerInv, LedgerTypeOK, DispatchInv, ParentsClosed, WindowInv, CountInv, Burnt, Marked

\* What check_seq leaves behind once it has returned Ok, whatever follows it.
LEMMA SeqTakenFacts ==
    ASSUME LedgerInv, NEW e \in Envelopes, SeqOk(e), windows' = SeqTaken(e)
    PROVE  /\ windows' \in [Pairs -> Window]
           /\ \A p \in Pairs : ~windows'[p].initialized => windows'[p].bits = {}
           /\ \A f \in store \cup {e} : TakenIn(windows'[Pair(f)], f.seq)
           /\ \A p \in Pairs : \A s \in SeenIn(windows'[p]) :
                 s \in SeenIn(windows[p]) \/ <<p, s>> = <<Pair(e), e.seq>>
<1> DEFINE w == windows[Pair(e)]
<1>1. Pair(e) \in Pairs /\ e.seq \in Nat /\ w \in Window /\ Fresh(w, e.seq)
    BY EnvelopesAssumption DEF Pairs, LedgerInv, LedgerTypeOK, SeqOk
<1>2. ~w.initialized => w.bits = {}
    BY <1>1 DEF LedgerInv, WindowInv
<1>3. /\ windows \in [Pairs -> Window]
      /\ windows' = [windows EXCEPT ![Pair(e)] = Record(w, e.seq)]
    BY DEF SeqTaken, LedgerInv, LedgerTypeOK
<1>4. Record(w, e.seq) \in Window /\ Record(w, e.seq).initialized
    BY <1>1, RecordWindow
<1>5. /\ e.seq \in SeenIn(Record(w, e.seq))
      /\ SeenIn(Record(w, e.seq)) \subseteq SeenIn(w) \cup {e.seq}
    BY <1>1, <1>2, RecordSeen
<1> HIDE DEF w
<1>6. windows' \in [Pairs -> Window]
    BY <1>3, <1>4
<1>7. \A p \in Pairs : windows'[p] = IF p = Pair(e) THEN Record(w, e.seq) ELSE windows[p]
    BY <1>3
<1>8. \A p \in Pairs : ~windows'[p].initialized => windows'[p].bits = {}
    BY <1>7, <1>4 DEF LedgerInv, WindowInv
<1>9. ASSUME NEW f \in store \cup {e} PROVE TakenIn(windows'[Pair(f)], f.seq)
    <2>1. Pair(f) \in Pairs /\ f.seq \in Nat
        BY EnvelopesAssumption DEF Pairs, LedgerInv, LedgerTypeOK
    <2>2. CASE f = e
        BY <2>1, <2>2, <1>4, <1>5, <1>7 DEF TakenIn
    <2>3. CASE f \in store /\ Pair(f) # Pair(e)
        BY <2>1, <2>3, <1>7 DEF LedgerInv, WindowInv
    <2>4. CASE f \in store /\ Pair(f) = Pair(e)
        <3>1. TakenIn(w, f.seq)
            BY <2>4 DEF w, LedgerInv, WindowInv
        <3>2. w \in Window /\ Fresh(w, e.seq)
            BY <1>1 DEF w
        <3>3. TakenIn(Record(w, e.seq), f.seq)
            BY <3>1, <3>2, <2>1, <1>1, RecordTaken
        <3> QED BY <3>3, <2>1, <2>4, <1>7
    <2> QED BY <2>2, <2>3, <2>4
<1>10. \A p \in Pairs : \A s \in SeenIn(windows'[p]) :
          s \in SeenIn(windows[p]) \/ <<p, s>> = <<Pair(e), e.seq>>
    <2> SUFFICES ASSUME NEW p \in Pairs, NEW s \in SeenIn(windows'[p]), s \notin SeenIn(windows[p])
                 PROVE  p = Pair(e) /\ s = e.seq
        OBVIOUS
    <2>1. p = Pair(e)
        BY <1>7
    <2>2. s \in SeenIn(Record(w, e.seq)) /\ s \notin SeenIn(w)
        BY <2>1, <1>7 DEF w
    <2> QED BY <2>1, <2>2, <1>5
<1> QED BY <1>6, <1>8, <1>9, <1>10

\* A number taken for an envelope that finds no room is the one number lost.
LEMMA StoreFullInv ==
    ASSUME LedgerInv, NEW e \in Envelopes, StoreFull(e)
    PROVE  LedgerInv'
<1>1. SeqOk(e) /\ windows' = SeqTaken(e) /\ UNCHANGED <<store, dispatched>>
      /\ inserts' = inserts + 1 /\ storefull' = storefull + 1
    BY DEF StoreFull
<1>2. LedgerTypeOK'
    BY <1>1, SeqTakenFacts DEF LedgerInv, LedgerTypeOK
<1>3. DispatchInv' /\ ParentsClosed'
    BY <1>1 DEF LedgerInv, DispatchInv, ParentsClosed
<1>4. WindowInv'
    BY <1>1, SeqTakenFacts DEF WindowInv
<1>5. CountInv'
    <2> DEFINE x == <<Pair(e), e.seq>>
    <2>1. LedgerTypeOK  BY DEF LedgerInv
    <2>2. ASSUME NEW b \in Burnt' PROVE b \in Burnt \cup {x}
        <3>1. /\ \E p \in Pairs : \E s \in SeenIn(windows'[p]) : b = <<p, s>>
              /\ ~\E f \in store : b = <<Pair(f), f.seq>>
            BY <1>1, <1>2, <2>2, InBurntNext
        <3>2. PICK p \in Pairs : \E s \in SeenIn(windows'[p]) : b = <<p, s>>
            BY <3>1
        <3>3. PICK s \in SeenIn(windows'[p]) : b = <<p, s>>
            BY <3>2
        <3>4. s \in SeenIn(windows[p]) \/ b = x
            BY <3>3, <1>1, SeqTakenFacts
        <3> QED BY <3>1, <3>3, <3>4, <2>1, InBurnt
    <2>3. IsFiniteSet(Burnt') /\ Cardinality(Burnt') <= Cardinality(Burnt) + 1
        BY <2>2, CardinalityGrows DEF LedgerInv, CountInv
    <2>4. Cardinality(Burnt) \in Nat /\ Cardinality(Burnt') \in Nat
          /\ Cardinality(store) \in Nat /\ Cardinality(Burnt) <= storefull
        <3>1. IsFiniteSet(store)
            BY <2>1, EnvelopesAssumption, FS_Subset DEF LedgerTypeOK
        <3> QED BY <2>3, <3>1, FS_CardinalityType DEF LedgerInv, CountInv
    <2>5. inserts' = Cardinality(store') + storefull'
        BY <1>1, <2>4, <2>1 DEF LedgerInv, CountInv, LedgerTypeOK
    <2> QED BY <2>1, <2>3, <2>4, <2>5, <1>1 DEF CountInv, LedgerTypeOK
<1> QED BY <1>2, <1>3, <1>4, <1>5 DEF LedgerInv

\* An admission stores, marks and dispatches the envelope, and loses no number.
LEMMA AdmittedInv ==
    ASSUME LedgerInv, NEW e \in Envelopes, Admitted(e)
    PROVE  LedgerInv'
<1>1. SeqOk(e) /\ windows' = SeqTaken(e) /\ store' = store \cup {e}
      /\ inserts' = inserts + 1 /\ storefull' = storefull
      /\ dispatched' = [dispatched EXCEPT ![e] = @ + 1]
      /\ FindEnvelope(e) = {} /\ AllParentsPresent(e)
    BY DEF Admitted
<1>2. e \notin store
    BY <1>1 DEF FindEnvelope, SameKey
<1>3. LedgerTypeOK'
    BY <1>1, SeqTakenFacts DEF LedgerInv, LedgerTypeOK
<1>4. DispatchInv'
    <2>1. \A f \in Envelopes : dispatched'[f] = IF f \in store' THEN 1 ELSE 0
        BY <1>1, <1>2 DEF LedgerInv, LedgerTypeOK, DispatchInv
    <2>2. \A f, g \in store' : SameKey(f, g) => f = g
        BY <1>1 DEF LedgerInv, DispatchInv, FindEnvelope, SameKey
    <2> QED BY <2>1, <2>2 DEF DispatchInv
<1>5. ParentsClosed'
    <2>1. e.parents \subseteq {f.hash : f \in store}
        BY <1>1 DEF AllParentsPresent
    <2> QED BY <2>1, <1>1 DEF LedgerInv, ParentsClosed
<1>6. WindowInv'
    BY <1>1, SeqTakenFacts DEF WindowInv
<1>7. CountInv'
    <2>1. LedgerTypeOK /\ IsFiniteSet(Burnt) /\ Cardinality(Burnt) <= storefull
        BY DEF LedgerInv, CountInv
    <2>2. ASSUME NEW b \in Burnt' PROVE b \in Burnt
        <3>1. /\ \E p \in Pairs : \E s \in SeenIn(windows'[p]) : b = <<p, s>>
              /\ ~\E f \in store' : b = <<Pair(f), f.seq>>
            BY <1>3, <2>2, InBurntNext
        <3>2. PICK p \in Pairs : \E s \in SeenIn(windows'[p]) : b = <<p, s>>
            BY <3>1
        <3>3. PICK s \in SeenIn(windows'[p]) : b = <<p, s>>
            BY <3>2
        <3>4. s \in SeenIn(windows[p])
            BY <3>1, <3>3, <1>1, SeqTakenFacts
        <3>5. ~\E f \in store : b = <<Pair(f), f.seq>>
            BY <3>1, <1>1
        <3> QED BY <3>3, <3>4, <3>5, <2>1, InBurnt
    <2>3. IsFiniteSet(Burnt') /\ Cardinality(Burnt') <= Cardinality(Burnt)
        BY <2>1, <2>2, FS_Subset
    <2>4. IsFiniteSet(store)
        BY <2>1, EnvelopesAssumption, FS_Subset DEF LedgerTypeOK
    <2>5. Cardinality(store') = Cardinality(store) + 1
        BY <1>1, <1>2, <2>4, FS_AddElement
    <2>6. Cardinality(store) \in Nat /\ Cardinality(Burnt) \in Nat /\ Cardinality(Burnt') \in Nat
        BY <2>1, <2>3, <2>4, FS_CardinalityType
    <2>7. inserts' = Cardinality(store') + storefull'
        BY <1>1, <2>5, <2>6, <2>1 DEF LedgerInv, CountInv, LedgerTypeOK
    <2> QED BY <2>1, <2>3, <2>6, <2>7, <1>1 DEF CountInv, LedgerTypeOK
<1> QED BY <1>3, <1>4, <1>5, <1>6, <1>7 DEF LedgerInv

\* The invariant is inductive.
LEMMA LedgerNext == LedgerInv /\ [Next]_vars => LedgerInv'
<1> SUFFICES ASSUME LedgerInv, [Next]_vars PROVE LedgerInv'  OBVIOUS
<1>1. ASSUME NEW e \in Envelopes,
             \/ BadSignature(e) \/ Duplicate(e) \/ Equivocation(e)
             \/ UnknownParents(e) \/ SeqWindowStale(e)
      PROVE  LedgerInv'
    BY <1>1, LedgerUnchanged
    DEF BadSignature, Duplicate, Equivocation, UnknownParents, SeqWindowStale
<1>2. ASSUME NEW e \in Envelopes, StoreFull(e) PROVE LedgerInv'
    BY <1>2, StoreFullInv
<1>3. ASSUME NEW e \in Envelopes, Admitted(e) PROVE LedgerInv'
    BY <1>3, AdmittedInv
<1>4. CASE UNCHANGED vars
    BY <1>4, LedgerUnchanged DEF vars
<1> QED BY <1>1, <1>2, <1>3, <1>4 DEF Next

\* Every reachable state of the ledger satisfies the inductive invariant.
THEOREM LedgerInvariant == Spec => []LedgerInv
    BY LedgerInit, LedgerNext, PTL DEF Spec

\* BE-ENV-03/05: handle_envelope hands at most one envelope per (sender, channel,
\* seq) to dispatch_envelope, and once, for every set of envelopes the network
\* repeats, reorders or equivocates with.
THEOREM LedgerOneDispatchPerSeq == Spec => []OneDispatchPerSeq
<1>1. LedgerInv => OneDispatchPerSeq
    BY DEF LedgerInv, LedgerTypeOK, DispatchInv, OneDispatchPerSeq
<1> QED BY <1>1, LedgerInvariant, PTL

\* BE-LEDGER-01: insert_envelope only ever extends a causally closed store.
THEOREM LedgerParentsClosed == Spec => []ParentsClosed
<1>1. LedgerInv => ParentsClosed  BY DEF LedgerInv
<1> QED BY <1>1, LedgerInvariant, PTL

\* F5: a stored number is marked or has fallen behind, numbers are lost to a full
\* store only, and inserts_total is exact, for every size of store and window.
THEOREM LedgerWindowsMatchStore == Spec => []WindowsMatchStore
<1>1. LedgerInv => WindowsMatchStore
    BY MarkedSeen DEF LedgerInv, WindowInv, CountInv, TakenIn, WindowsMatchStore
<1> QED BY <1>1, LedgerInvariant, PTL
-----------------------------------------------------------------------------
\* The records of the revocation table.
Revocation == [pubkey : Pubkeys, hash : Hashes, expiry : Expiries]

\* The table still holds the record r of everRevoked.
Held(r) == \E j \in DOMAIN revocations :
               revocations[j].pubkey = r.pubkey /\ revocations[j].expiry = r.expiry

\* The table is full, and at most one of its records expires sooner than r.
OneSooner(r) ==
    /\ Len(revocations) = MAX_REVOCATIONS
    /\ \E k \in DOMAIN revocations :
          \A j \in DOMAIN revocations \ {k} : revocations[j].expiry >= r.expiry

TablesInv ==
    /\ revocations \in Seq(Revocation) /\ Len(revocations) <= MAX_REVOCATIONS
    /\ everRevoked \subseteq [pubkey : Pubkeys, expiry : Expiries]
    /\ \A r \in everRevoked : Held(r) \/ OneSooner(r)

\* min_by_key takes a record that expires no later than any other, and swap_remove
\* moves the last one into its place.
LEMMA EvictFacts ==
    ASSUME NEW revs \in Seq(Revocation), Len(revs) > 0
    PROVE  \E i \in DOMAIN revs :
              /\ \A j \in DOMAIN revs : revs[i].expiry <= revs[j].expiry
              /\ Evict(revs) \in Seq(Revocation) /\ Len(Evict(revs)) = Len(revs) - 1
              /\ \A j \in 1 .. Len(revs) - 1 :
                    Evict(revs)[j] = IF j = i THEN revs[Len(revs)] ELSE revs[j]
<1> DEFINE Earliest(i) == /\ \A j \in DOMAIN revs : revs[i].expiry <= revs[j].expiry
                       /\ \A j \in 1 .. i - 1 : revs[i].expiry < revs[j].expiry
           n == Len(revs)
           i == CHOOSE i \in DOMAIN revs : Earliest(i)
           T == {revs[j].expiry : j \in 1 .. n}
<1>1. DOMAIN revs = 1 .. n /\ n \in Nat \ {0} /\ \A j \in 1 .. n : revs[j] \in Revocation
    OBVIOUS
<1>2. \A j \in 1 .. n : revs[j].expiry \in Nat
    BY <1>1, TablesAssumption DEF Revocation
<1>3. \E m \in 1 .. n : Earliest(m)
    <2>1. T \in SUBSET Nat /\ T # {}
        BY <1>1, <1>2
    <2>2. PICK low \in T : \A y \in T : low <= y
        BY <2>1, LeastNatural
    <2> DEFINE U == {j \in 1 .. n : revs[j].expiry = low}
    <2>3. U \in SUBSET Nat /\ U # {}
        BY <1>1, <2>2
    <2>4. PICK m \in U : \A y \in U : m <= y
        BY <2>3, LeastNatural
    <2>5. m \in 1 .. n /\ revs[m].expiry = low
        BY <2>4
    <2>6. \A j \in 1 .. n : revs[m].expiry <= revs[j].expiry
        BY <2>2, <2>5
    <2>7. ASSUME NEW j \in 1 .. m - 1 PROVE revs[m].expiry < revs[j].expiry
        <3>1. j \in 1 .. n /\ j < m
            BY <2>5, <1>1
        <3>2. j \notin U
            BY <3>1, <2>4, <2>5
        <3> QED BY <3>1, <3>2, <2>5, <2>6, <1>2
    <2> QED BY <2>5, <2>6, <2>7, <1>1
<1>4. i \in 1 .. n /\ Earliest(i)
    BY <1>1, <1>3
<1>5. Evict(revs) = Front([revs EXCEPT ![i] = Last(revs)])
    BY DEF Evict
<1> HIDE DEF i
<1>6. [revs EXCEPT ![i] = Last(revs)] \in Seq(Revocation)
      /\ Len([revs EXCEPT ![i] = Last(revs)]) = n
      /\ \A j \in 1 .. n : [revs EXCEPT ![i] = Last(revs)][j] = IF j = i THEN revs[n] ELSE revs[j]
    BY <1>1, <1>4 DEF Last
<1>7. Evict(revs) \in Seq(Revocation) /\ Len(Evict(revs)) = n - 1
      /\ \A j \in 1 .. n - 1 : Evict(revs)[j] = IF j = i THEN revs[n] ELSE revs[j]
    BY <1>1, <1>5, <1>6 DEF Front
<1> QED BY <1>1, <1>4, <1>7
\* set_revocation into a table with room: nothing is lost.
LEMMA RoomInv ==
    ASSUME TablesInv, NEW q \in Revocation, Len(revocations) < MAX_REVOCATIONS,
           revocations' = Append(revocations, q),
           everRevoked' = everRevoked \cup {[pubkey |-> q.pubkey, expiry |-> q.expiry]}
    PROVE  TablesInv'
<1> DEFINE n == Len(revocations)
<1>1. revocations \in Seq(Revocation) /\ n \in Nat /\ MAX_REVOCATIONS \in Nat
    BY TablesAssumption DEF TablesInv
<1>2. /\ revocations' \in Seq(Revocation) /\ Len(revocations') = n + 1
      /\ DOMAIN revocations = 1 .. n /\ DOMAIN revocations' = 1 .. n + 1
      /\ revocations'[n + 1] = q /\ \A j \in 1 .. n : revocations'[j] = revocations[j]
    BY <1>1
<1>3. everRevoked' \subseteq [pubkey : Pubkeys, expiry : Expiries]
    BY DEF TablesInv, Revocation
<1>4. ASSUME NEW r \in everRevoked' PROVE Held(r)'
    <2>1. CASE r \in everRevoked
        <3>1. Held(r)
            BY <2>1, <1>1 DEF TablesInv, OneSooner
        <3> QED BY <3>1, <1>1, <1>2 DEF Held
    <2>2. CASE r = [pubkey |-> q.pubkey, expiry |-> q.expiry]
        BY <2>2, <1>1, <1>2 DEF Held
    <2> QED BY <2>1, <2>2
<1> QED BY <1>1, <1>2, <1>3, <1>4 DEF TablesInv

\* set_revocation into a full table: the evicted record and every record lost
\* before it expire no later than all that remain, the new one excepted.
LEMMA EvictInv ==
    ASSUME TablesInv, NEW q \in Revocation, Len(revocations) >= MAX_REVOCATIONS,
           revocations' = Append(Evict(revocations), q),
           everRevoked' = everRevoked \cup {[pubkey |-> q.pubkey, expiry |-> q.expiry]}
    PROVE  TablesInv'
<1> DEFINE n == Len(revocations)
<1>1. revocations \in Seq(Revocation) /\ n = MAX_REVOCATIONS /\ n \in Nat \ {0}
      /\ DOMAIN revocations = 1 .. n
    BY TablesAssumption DEF TablesInv
<1>2. PICK i \in 1 .. n :
          /\ \A j \in 1 .. n : revocations[i].expiry <= revocations[j].expiry
          /\ Evict(revocations) \in Seq(Revocation) /\ Len(Evict(revocations)) = n - 1
          /\ \A j \in 1 .. n - 1 :
                Evict(revocations)[j] = IF j = i THEN revocations[n] ELSE revocations[j]
    <2>1. Len(revocations) > 0  BY <1>1
    <2> HIDE DEF n
    <2> QED BY <1>1, <2>1, EvictFacts DEF n
<1>3. /\ revocations' \in Seq(Revocation) /\ Len(revocations') = n
      /\ DOMAIN revocations' = 1 .. n /\ revocations'[n] = q
      /\ \A j \in 1 .. n - 1 :
            revocations'[j] = IF j = i THEN revocations[n] ELSE revocations[j]
    BY <1>1, <1>2
<1>4. \A j \in 1 .. n : revocations[j].expiry \in Nat /\ revocations[j].pubkey \in Pubkeys
    <2>1. \A j \in 1 .. n : revocations[j] \in Revocation  BY <1>1
    <2> QED BY <2>1, TablesAssumption DEF Revocation
<1>5. everRevoked' \subseteq [pubkey : Pubkeys, expiry : Expiries]
    BY DEF TablesInv, Revocation
<1>6. ASSUME NEW r \in everRevoked', ~Held(r)' PROVE OneSooner(r)'
    <2>1. r \in everRevoked
        BY <1>1, <1>3, <1>6 DEF Held
    <2>2. r.expiry \in Nat
        BY <1>5, TablesAssumption
    <2>3. \A j \in 1 .. n \ {i} : revocations[j].expiry >= r.expiry
        <3>1. CASE Held(r)
            <4>1. PICK j \in 1 .. n :
                      revocations[j].pubkey = r.pubkey /\ revocations[j].expiry = r.expiry
                BY <3>1, <1>1 DEF Held
            <4>2. ASSUME j # i PROVE FALSE
                <5>1. \E m \in 1 .. n - 1 : revocations'[m] = revocations[j]
                    <6>1. CASE j = n
                        BY <6>1, <4>2, <1>1, <1>3
                    <6>2. CASE j # n
                        BY <6>2, <4>2, <1>1, <1>3
                    <6> QED BY <6>1, <6>2
                <5>2. 1 .. n - 1 \subseteq DOMAIN revocations'
                    BY <1>1, <1>3
                <5> QED BY <5>1, <5>2, <4>1, <1>6 DEF Held
            <4> QED BY <4>1, <4>2, <1>2, <1>4, <2>2
        <3>2. CASE OneSooner(r)
            <4>1. PICK k \in 1 .. n : \A j \in 1 .. n \ {k} : revocations[j].expiry >= r.expiry
                BY <3>2, <1>1 DEF OneSooner
            <4>2. ASSUME NEW j \in 1 .. n \ {i}, j = k PROVE revocations[j].expiry >= r.expiry
                <5>1. revocations[i].expiry >= r.expiry
                    BY <4>1, <4>2
                <5> QED BY <5>1, <1>2, <1>4, <2>2
            <4> QED BY <4>1, <4>2
        <3> QED BY <2>1, <3>1, <3>2 DEF TablesInv
    <2>4. ASSUME NEW j \in 1 .. n \ {n} PROVE revocations'[j].expiry >= r.expiry
        <3>1. j \in 1 .. n - 1
            BY <1>1
        <3>2. CASE j = i
            BY <3>1, <3>2, <1>1, <1>3, <2>3
        <3>3. CASE j # i
            BY <3>1, <3>3, <1>1, <1>3, <2>3
        <3> QED BY <3>2, <3>3
    <2> QED BY <2>4, <1>1, <1>3 DEF OneSooner
<1> QED BY <1>1, <1>3, <1>5, <1>6 DEF TablesInv

\* The tables' invariant is inductive.
LEMMA TablesNextInv == TablesInv /\ [TablesNext]_tableVars => TablesInv'
<1> SUFFICES ASSUME TablesInv, [TablesNext]_tableVars PROVE TablesInv'  OBVIOUS
<1>1. ASSUME UNCHANGED <<revocations, everRevoked>> PROVE TablesInv'
    BY <1>1 DEF TablesInv, Held, OneSooner
<1>2. ASSUME NEW k \in Pubkeys, NEW h \in Hashes, SetAnchor(k, h) \/ AnchorKept(k, h)
      PROVE  TablesInv'
    BY <1>1, <1>2 DEF SetAnchor, AnchorKept, tableVars
<1>3. ASSUME NEW k \in Pubkeys, NEW h \in Hashes, NEW x \in Expiries, SetRevocation(k, h, x)
      PROVE  TablesInv'
    <2> DEFINE q == [pubkey |-> k, hash |-> h, expiry |-> x]
    <2>1. q \in Revocation /\ q.pubkey = k /\ q.expiry = x
        BY DEF Revocation
    <2>2. everRevoked' = everRevoked \cup {[pubkey |-> q.pubkey, expiry |-> q.expiry]}
        BY <1>3 DEF SetRevocation
    <2>3. CASE Len(revocations) >= MAX_REVOCATIONS
        <3>1. revocations' = Append(Evict(revocations), q)
            BY <1>3, <2>3 DEF SetRevocation
        <3> HIDE DEF q
        <3> QED BY <3>1, <2>1, <2>2, <2>3, EvictInv
    <2>4. CASE ~(Len(revocations) >= MAX_REVOCATIONS)
        <3>1. revocations' = Append(revocations, q)
            BY <1>3, <2>4 DEF SetRevocation
        <3>2. Len(revocations) < MAX_REVOCATIONS
            BY <2>4, TablesAssumption DEF TablesInv
        <3> HIDE DEF q
        <3> QED BY <3>1, <3>2, <2>1, <2>2, RoomInv
    <2> QED BY <2>3, <2>4
<1>4. ASSUME NEW k \in Pubkeys, NEW h \in Hashes, NEW x \in Expiries, RevocationKept(k, h, x)
      PROVE  TablesInv'
    BY <1>1, <1>4 DEF RevocationKept, tableVars
<1>5. CASE UNCHANGED tableVars
    BY <1>1, <1>5 DEF tableVars
<1> QED BY <1>2, <1>3, <1>4, <1>5 DEF TablesNext

\* In every reachable state of the tables a lost record has at most one record
\* in the full table that expires sooner.
THEOREM TablesInvariant == TablesSpec => []TablesInv
<1>1. TablesInit => TablesInv
    BY TablesAssumption DEF TablesInit, TablesInv
<1> QED BY <1>1, TablesNextInv, PTL DEF TablesSpec

\* F10: set_revocation on a full table gives up what costs the least, for every
\* size of the table and every order of revocations, repeated ones included.
THEOREM TablesKeepsLatest == TablesSpec => []KeepsLatest
<1>1. ASSUME TablesInv PROVE KeepsLatest
    <2> SUFFICES ASSUME NEW r \in everRevoked,
                        r \notin {[pubkey |-> q.pubkey, expiry |-> q.expiry] : q \in ToSet(revocations)}
                 PROVE  Cardinality({i \in DOMAIN revocations : revocations[i].expiry >= r.expiry})
                            >= MAX_REVOCATIONS - 1
        BY DEF KeepsLatest
    <2> DEFINE n == Len(revocations)
               Later == {i \in 1 .. n : revocations[i].expiry >= r.expiry}
    <2>0. DOMAIN revocations = 1 .. n /\ n \in Nat
        BY <1>1 DEF TablesInv
    <2>1. r = [pubkey |-> r.pubkey, expiry |-> r.expiry]
        BY <1>1 DEF TablesInv
    <2>2. ~Held(r)
        BY <2>0, <2>1 DEF Held, ToSet
    <2>3. OneSooner(r)
        BY <1>1, <2>2 DEF TablesInv
    <2>4. PICK k \in 1 .. n : \A j \in 1 .. n \ {k} : revocations[j].expiry >= r.expiry
        BY <2>0, <2>3 DEF OneSooner
    <2>5. IsFiniteSet(1 .. n) /\ Cardinality(1 .. n) = n
        BY <2>0, FS_Interval
    <2>6. IsFiniteSet(Later)
        BY <2>5, FS_Subset
    <2>7. Cardinality(1 .. n \ {k}) = n - 1
        BY <2>5, FS_RemoveElement
    <2>8. 1 .. n \ {k} \subseteq Later
        BY <2>4
    <2>9. Cardinality(1 .. n \ {k}) <= Cardinality(Later)
        BY <2>6, <2>8, FS_Subset
    <2>10. Cardinality(Later) \in Nat /\ n = MAX_REVOCATIONS
        BY <2>3, <2>6, FS_CardinalityType DEF OneSooner
    <2> QED BY <2>0, <2>7, <2>9, <2>10
<1> QED BY <1>1, TablesInvariant, PTL

-----------------------------------------------------------------------------
(* The causal graph of an audit.                                           *)

\* A queue of nodes 1 .. n, each once.
Queue(n) == {q \in Seq(1 .. n) : \A i, j \in 1 .. Len(q) : q[i] = q[j] => i = j}

\* The recursion of Enqueued.
Puts(q, list, f) ==
    f = [j \in 0 .. Len(list) |->
           IF j = 0 THEN q
           ELSE IF list[j] \in ToSet(f[j - 1]) THEN f[j - 1] ELSE Append(f[j - 1], list[j])]

\* One more node at the end of a queue.
LEMMA QueueAppend ==
  ASSUME NEW n \in Nat, NEW q \in Queue(n), NEW x \in (1 .. n) \ ToSet(q)
  PROVE  /\ Append(q, x) \in Queue(n) /\ ToSet(Append(q, x)) = ToSet(q) \cup {x}
         /\ Len(Append(q, x)) = Len(q) + 1 /\ \A i \in 1 .. Len(q) : Append(q, x)[i] = q[i]
  <1>1. q \in Seq(1 .. n) /\ Len(q) \in Nat /\ DOMAIN q = 1 .. Len(q) BY DEF Queue
  <1>2. \A i \in 1 .. Len(q) : q[i] # x BY <1>1 DEF ToSet
  <1> DEFINE r == Append(q, x)
  <1>3. /\ r \in Seq(1 .. n) /\ Len(r) = Len(q) + 1 /\ r[Len(q) + 1] = x
        /\ DOMAIN r = 1 .. Len(q) + 1 /\ \A i \in 1 .. Len(q) : r[i] = q[i]
    BY <1>1
  <1> HIDE DEF r
  <1>4. \A i \in 1 .. Len(r) : i \in 1 .. Len(q) \/ i = Len(q) + 1 BY <1>1, <1>3
  <1>5. \A i, j \in 1 .. Len(r) : r[i] = r[j] => i = j
    <2> SUFFICES ASSUME NEW i \in 1 .. Len(r), NEW j \in 1 .. Len(r), r[i] = r[j] PROVE i = j
      OBVIOUS
    <2>1. \A k, l \in 1 .. Len(q) : q[k] = q[l] => k = l BY DEF Queue
    <2> QED BY <1>2, <1>3, <1>4, <2>1
  <1>6. r \in Queue(n) BY <1>3, <1>5 DEF Queue
  <1>7. ToSet(r) = ToSet(q) \cup {x}
    <2>1. \A y : y \in ToSet(r) <=> \E i \in 1 .. Len(r) : y = r[i] BY <1>3 DEF ToSet
    <2>2. \A y : y \in ToSet(q) <=> \E i \in 1 .. Len(q) : y = q[i] BY <1>1 DEF ToSet
    <2>3. ASSUME NEW y \in ToSet(r) PROVE y \in ToSet(q) \cup {x}
      <3>1. PICK i \in 1 .. Len(r) : y = r[i] BY <2>1
      <3> QED BY <1>3, <1>4, <2>2, <3>1
    <2>4. ASSUME NEW y \in ToSet(q) PROVE y \in ToSet(r)
      <3>1. PICK i \in 1 .. Len(q) : y = q[i] BY <2>2
      <3>2. i \in 1 .. Len(r) /\ r[i] = q[i] BY <1>1, <1>3
      <3> QED BY <2>1, <3>1, <3>2
    <2>5. x \in ToSet(r)
      <3>1. Len(q) + 1 \in 1 .. Len(r) BY <1>1, <1>3
      <3> QED BY <1>3, <2>1, <3>1
    <2> QED BY <2>3, <2>4, <2>5
  <1> QED BY <1>3, <1>6, <1>7 DEF r

\* Enqueued keeps the queue and adds the nodes of the list, each once.
LEMMA EnqueuedFacts ==
  ASSUME NEW n \in Nat, NEW q \in Queue(n), NEW list \in Seq(1 .. n)
  PROVE  /\ Enqueued(q, list) \in Queue(n)
         /\ ToSet(Enqueued(q, list)) = ToSet(q) \cup ToSet(list)
         /\ Len(q) <= Len(Enqueued(q, list))
         /\ \A i \in 1 .. Len(q) : Enqueued(q, list)[i] = q[i]
  <1> DEFINE N == Len(list)
             G == [j \in 1 .. N |-> [r \in Queue(n) |->
                     IF list[j] \in ToSet(r) THEN r ELSE Append(r, list[j])]]
  <1>0. N \in Nat /\ DOMAIN list = 1 .. N /\ \A j \in 1 .. N : list[j] \in 1 .. n OBVIOUS
  <1>1. Steps(Queue(n), N, G)
    BY <1>0, QueueAppend DEF Steps
  <1>2. PICK g \in [0 .. N -> Queue(n)] : \A j \in 0 .. N : g[j] = IF j = 0 THEN q ELSE G[j][g[j - 1]]
    <2> HIDE DEF G, N
    <2>1. N \in Nat BY <1>0
    <2>2. PICK g : Carried(Queue(n), q, N, G, g) BY <1>1, <2>1, IterationExists
    <2> QED BY <2>2 DEF Carried
  <1>3. \E f : Puts(q, list, f)
    <2>1. \A j \in 0 .. N : j # 0 => j \in 1 .. N /\ j - 1 \in 0 .. N BY <1>0
    <2>2. \A j \in 0 .. N : g[j] = IF j = 0 THEN q
                                   ELSE IF list[j] \in ToSet(g[j - 1]) THEN g[j - 1] ELSE Append(g[j - 1], list[j])
      BY <1>2, <2>1
    <2>3. g = [j \in 0 .. N |-> g[j]] BY <1>2
    <2> HIDE DEF G
    <2>4. Puts(q, list, g) BY <2>2, <2>3 DEF Puts
    <2> QED BY <2>4
  <1>4. Enqueued(q, list) = (CHOOSE f : Puts(q, list, f))[Len(list)]
    BY Zenon DEF Enqueued, Puts
  <1>5. PICK f : f = CHOOSE h : Puts(q, list, h) OBVIOUS
  <1>6. Puts(q, list, f) BY <1>3, <1>5
  <1>7. \A j \in 0 .. N : f[j] = IF j = 0 THEN q
            ELSE IF list[j] \in ToSet(f[j - 1]) THEN f[j - 1] ELSE Append(f[j - 1], list[j])
    BY <1>6, Zenon DEF Puts
  <1> HIDE DEF G
  <1> DEFINE Part(j) == {list[i] : i \in 1 .. j}
             Good(j) == /\ f[j] \in Queue(n) /\ ToSet(f[j]) = ToSet(q) \cup Part(j)
                        /\ Len(q) <= Len(f[j]) /\ \A i \in 1 .. Len(q) : f[j][i] = q[i]
             T == {j \in 0 .. N : ~Good(j)}
  <1>8. Len(q) \in Nat BY DEF Queue
  <1>9. T = {}
    <2> SUFFICES ASSUME T # {} PROVE FALSE OBVIOUS
    <2>1. PICK m \in T : \A k \in T : m <= k
      <3>1. T \in SUBSET Nat OBVIOUS
      <3> QED BY <3>1, LeastNatural
    <2>2. CASE m = 0
      <3>1. f[0] = q BY <1>0, <1>7
      <3>2. Part(0) = {} OBVIOUS
      <3> QED BY <1>8, <2>1, <2>2, <3>1, <3>2
    <2>3. CASE m # 0
      <3>1. m - 1 \in 0 .. N /\ ~(m <= m - 1) /\ m \in 1 .. N BY <2>1, <2>3
      <3>2. Good(m - 1) BY <2>1, <3>1
      <3>3. f[m] = IF list[m] \in ToSet(f[m - 1]) THEN f[m - 1] ELSE Append(f[m - 1], list[m])
        BY <1>7, <2>3, <3>1
      <3>4. Part(m) = Part(m - 1) \cup {list[m]}
        <4>1. \A i \in 1 .. m : i \in 1 .. m - 1 \/ i = m BY <3>1
        <4>2. \A i \in 1 .. m - 1 : i \in 1 .. m BY <3>1
        <4>3. m \in 1 .. m BY <3>1
        <4> QED BY <4>1, <4>2, <4>3
      <3> HIDE DEF Part
      <3>5. list[m] \in 1 .. n BY <1>0, <3>1
      <3>6. CASE list[m] \in ToSet(f[m - 1]) BY <2>1, <3>2, <3>3, <3>4, <3>6
      <3>7. CASE list[m] \notin ToSet(f[m - 1])
        <4> DEFINE p == f[m - 1]
        <4>1. p \in Queue(n) /\ list[m] \in (1 .. n) \ ToSet(p) BY <3>2, <3>5, <3>7
        <4>2. /\ f[m] \in Queue(n) /\ ToSet(f[m]) = ToSet(p) \cup {list[m]}
              /\ Len(f[m]) = Len(p) + 1 /\ \A i \in 1 .. Len(p) : f[m][i] = p[i]
          BY <3>3, <3>7, <4>1, QueueAppend
        <4>3. Len(p) \in Nat BY <4>1 DEF Queue
        <4>4. Len(q) <= Len(p) /\ \A i \in 1 .. Len(q) : p[i] = q[i] BY <3>2
        <4>5. ToSet(f[m]) = ToSet(q) \cup Part(m) BY <3>2, <3>4, <4>2
        <4> HIDE DEF p
        <4>6. Len(q) <= Len(f[m]) BY <1>8, <4>2, <4>3, <4>4
        <4>7. \A i \in 1 .. Len(q) : f[m][i] = q[i]
          <5>1. \A i \in 1 .. Len(q) : i \in 1 .. Len(p) BY <1>8, <4>3, <4>4
          <5> QED BY <4>2, <4>4, <5>1
        <4>8. Good(m) BY <4>2, <4>5, <4>6, <4>7
        <4> HIDE DEF Good
        <4> QED BY <2>1, <4>8
      <3> QED BY <3>6, <3>7
    <2> QED BY <2>2, <2>3
  <1>10. Good(N)
    <2>1. N \in 0 .. N BY <1>0
    <2> HIDE DEF Good
    <2> QED BY <1>9, <2>1
  <1>11. Part(N) = ToSet(list) BY <1>0 DEF ToSet
  <1> QED BY <1>4, <1>5, <1>10, <1>11

\* The recursion of the search.
Works(ps, a, d, f) ==
    f = [k \in 0 .. MAX_NODES |->
           IF k = 0 THEN <<d>>
           ELSE IF k > Len(f[k - 1]) \/ a \in ToSet(f[k - 1]) THEN f[k - 1]
           ELSE Enqueued(f[k - 1], ps[f[k - 1][k]])]

\* The nodes in S have their parents in T.
Parented(ps, S, T) == \A i \in S : ToSet(ps[i]) \subseteq T

\* A queue has no more places than there are nodes.
LEMMA QueueRoom ==
  ASSUME NEW n \in Nat, NEW q \in Queue(n)
  PROVE  Len(q) \in Nat /\ Len(q) <= n /\ ToSet(q) \subseteq 1 .. n /\ DOMAIN q = 1 .. Len(q)
         /\ \A i \in 1 .. Len(q) : q[i] \in 1 .. n
  <1>1. q \in Seq(1 .. n) /\ Len(q) \in Nat /\ DOMAIN q = 1 .. Len(q) BY DEF Queue
  <1>2. \A i \in 1 .. Len(q) : q[i] \in 1 .. n BY <1>1
  <1>3. IsFiniteSet(Range(q)) /\ Cardinality(Range(q)) = Len(q)
    BY <1>1, CountDistinct DEF Queue
  <1>4. Range(q) \in SUBSET (1 .. n) BY <1>1, <1>2 DEF Range
  <1>5. IsFiniteSet(1 .. n) /\ Cardinality(1 .. n) = n
    <2>1. IsFiniteSet(1 .. n) /\ Cardinality(1 .. n) = IF 1 > n THEN 0 ELSE n - 1 + 1
      BY FS_Interval
    <2> QED BY <2>1
  <1>6. Cardinality(Range(q)) <= Cardinality(1 .. n) BY <1>4, <1>5, FS_Subset
  <1>7. ToSet(q) \subseteq 1 .. n BY <1>1, <1>2 DEF ToSet
  <1> QED BY <1>1, <1>2, <1>3, <1>5, <1>6, <1>7

\* is_ancestor_idx finds a exactly if every set of nodes that has the parents of d and
\* the parents of its own members has a.
LEMMA SearchExact ==
  ASSUME NEW n \in Nat, n <= MAX_NODES, NEW ps \in [1 .. n -> Seq(1 .. n)],
         NEW a \in 1 .. n, NEW d \in 1 .. n
  PROVE  IsAncestorIdx(ps, a, d) <=>
             /\ a # d
             /\ \A S \in SUBSET (1 .. n) : Parented(ps, S \cup {d}, S) => a \in S
  <1>0. MAX_NODES \in Nat \ {0} /\ MAX_NODES \in 0 .. MAX_NODES BY DagAssumption
  <1> DEFINE N == MAX_NODES
             G == [k \in 1 .. N |-> [q \in Queue(n) |->
                     IF k > Len(q) \/ a \in ToSet(q) THEN q ELSE Enqueued(q, ps[q[k]])]]
  <1>1. \A k \in 1 .. N : \A q \in Queue(n) : k <= Len(q) => q[k] \in 1 .. n /\ ps[q[k]] \in Seq(1 .. n)
    BY DEF Queue
  <1>2. Steps(Queue(n), N, G)
    <2> SUFFICES ASSUME NEW k \in 1 .. N, NEW q \in Queue(n) PROVE G[k][q] \in Queue(n)
      BY DEF Steps
    <2>1. Len(q) \in Nat BY QueueRoom
    <2>2. CASE k > Len(q) \/ a \in ToSet(q) BY <2>2
    <2>3. CASE ~(k > Len(q) \/ a \in ToSet(q))
      <3>1. ps[q[k]] \in Seq(1 .. n) BY <1>1, <2>1, <2>3
      <3>2. Enqueued(q, ps[q[k]]) \in Queue(n) BY <3>1, EnqueuedFacts
      <3> QED BY <2>3, <3>2
    <2> QED BY <2>2, <2>3
  <1>3. <<d>> \in Queue(n) BY DEF Queue
  <1>4. PICK g \in [0 .. N -> Queue(n)] : \A k \in 0 .. N : g[k] = IF k = 0 THEN <<d>> ELSE G[k][g[k - 1]]
    <2> HIDE DEF G
    <2>1. N \in Nat BY <1>0
    <2>2. PICK g : Carried(Queue(n), <<d>>, N, G, g) BY <1>2, <1>3, <2>1, IterationExists
    <2> QED BY <2>2 DEF Carried
  <1>5. \E f : Works(ps, a, d, f)
    <2>1. \A k \in 0 .. N : k # 0 => k \in 1 .. N /\ k - 1 \in 0 .. N BY <1>0
    <2>2. \A k \in 0 .. N : g[k] = IF k = 0 THEN <<d>>
             ELSE IF k > Len(g[k - 1]) \/ a \in ToSet(g[k - 1]) THEN g[k - 1]
             ELSE Enqueued(g[k - 1], ps[g[k - 1][k]])
      BY <1>4, <2>1
    <2>3. g = [k \in 0 .. N |-> g[k]] BY <1>4
    <2> HIDE DEF G
    <2>4. Works(ps, a, d, g) BY <2>2, <2>3 DEF Works
    <2> QED BY <2>4
  <1>6. PICK f : f = CHOOSE h : Works(ps, a, d, h) OBVIOUS
  <1>7. Works(ps, a, d, f) BY <1>5, <1>6
  <1>8. \A k \in 0 .. N : f[k] = IF k = 0 THEN <<d>>
             ELSE IF k > Len(f[k - 1]) \/ a \in ToSet(f[k - 1]) THEN f[k - 1]
             ELSE Enqueued(f[k - 1], ps[f[k - 1][k]])
    BY <1>7, Zenon DEF Works
  <1>9. IsAncestorIdx(ps, a, d) <=> a # d /\ a \in ToSet(f[MAX_NODES])
    <2>1. IsAncestorIdx(ps, a, d) <=> a # d /\ a \in ToSet((CHOOSE h : Works(ps, a, d, h))[MAX_NODES])
      BY Zenon DEF IsAncestorIdx, Works
    <2> QED BY <1>6, <2>1
  <1> HIDE DEF G
  <1> DEFINE Looked(k) == {f[k][i] : i \in {j \in 1 .. Len(f[k]) : j <= k}}
             Good(k) == /\ f[k] \in Queue(n) /\ d \in ToSet(f[k])
                        /\ \A S \in SUBSET (1 .. n) : Parented(ps, S \cup {d}, S) => ToSet(f[k]) \subseteq S \cup {d}
                        /\ a \in ToSet(f[k]) \/ Parented(ps, Looked(k), ToSet(f[k]))
             T == {k \in 0 .. N : ~Good(k)}
  <1>10. T = {}
    <2> SUFFICES ASSUME T # {} PROVE FALSE OBVIOUS
    <2>1. PICK m \in T : \A k \in T : m <= k
      <3>1. T \in SUBSET Nat BY <1>0
      <3> QED BY <3>1, LeastNatural
    <2>2. CASE m = 0
      <3>1. f[0] = <<d>>
        <4>1. 0 \in 0 .. N BY <1>0
        <4>2. f[0] = IF 0 = 0 THEN <<d>>
                     ELSE IF 0 > Len(f[0 - 1]) \/ a \in ToSet(f[0 - 1]) THEN f[0 - 1]
                     ELSE Enqueued(f[0 - 1], ps[f[0 - 1][0]])
          BY <1>8, <4>1, Zenon
        <4> QED BY <4>2, Zenon
      <3>2. ToSet(f[0]) = {d}
        <4>1. DOMAIN <<d>> = {1} OBVIOUS
        <4> QED BY <3>1, <4>1 DEF ToSet
      <3>3. Looked(0) = {} OBVIOUS
      <3>4. Good(0) BY <1>3, <3>1, <3>2, <3>3 DEF Parented
      <3> HIDE DEF Good
      <3> QED BY <2>1, <2>2, <3>4
    <2>3. CASE m # 0
      <3>1. m - 1 \in 0 .. N /\ ~(m <= m - 1) /\ m \in 1 .. N BY <1>0, <2>1, <2>3
      <3>2. Good(m - 1)
        <4> HIDE DEF Good
        <4> QED BY <2>1, <3>1
      <3> DEFINE q == f[m - 1]
      <3>3. q \in Queue(n) /\ d \in ToSet(q) BY <3>2
      <3>4. Len(q) \in Nat /\ DOMAIN q = 1 .. Len(q) BY <3>3, QueueRoom
      <3>5. f[m] = IF m > Len(q) \/ a \in ToSet(q) THEN q ELSE Enqueued(q, ps[q[m]])
        BY <1>8, <2>3, <3>1
      <3>6. CASE a \in ToSet(q)
        <4>1. Good(m) BY <3>2, <3>5, <3>6
        <4> HIDE DEF Good
        <4> QED BY <2>1, <4>1
      <3>7. CASE m > Len(q) /\ a \notin ToSet(q)
        <4>1. f[m] = q BY <3>5, <3>7
        <4>2. Looked(m) \subseteq Looked(m - 1)
          <5>1. \A j \in 1 .. Len(q) : j <= m => j <= m - 1 BY <3>1, <3>4, <3>7
          <5> QED BY <4>1, <5>1
        <4>3. Parented(ps, Looked(m), ToSet(f[m])) BY <3>2, <3>7, <4>1, <4>2 DEF Parented
        <4> HIDE DEF Looked
        <4>4. Good(m) BY <3>2, <4>1, <4>3
        <4> HIDE DEF Good
        <4> QED BY <2>1, <4>4
      <3>8. CASE ~(m > Len(q)) /\ a \notin ToSet(q)
        <4>1. m \in 1 .. Len(q) BY <3>1, <3>4, <3>8
        <4>2. q[m] \in ToSet(q) /\ q[m] \in 1 .. n /\ ps[q[m]] \in Seq(1 .. n)
          <5> HIDE DEF q
          <5>1. q[m] \in 1 .. n BY <3>3, <4>1, QueueRoom
          <5> QED BY <3>4, <4>1, <5>1 DEF ToSet
        <4>3. /\ f[m] \in Queue(n) /\ ToSet(f[m]) = ToSet(q) \cup ToSet(ps[q[m]])
              /\ Len(q) <= Len(f[m]) /\ \A i \in 1 .. Len(q) : f[m][i] = q[i]
          <5> HIDE DEF q
          <5>1. f[m] = Enqueued(q, ps[q[m]]) BY <3>5, <3>8
          <5>2. PICK l : l = ps[q[m]] OBVIOUS
          <5>3. PICK p : p = q OBVIOUS
          <5>4. l \in Seq(1 .. n) /\ p \in Queue(n) /\ n \in Nat /\ f[m] = Enqueued(p, l)
            BY <3>3, <4>2, <5>1, <5>2, <5>3
          <5>5. Enqueued(p, l) \in Queue(n) BY <5>4, EnqueuedFacts
          <5>6. ToSet(Enqueued(p, l)) = ToSet(p) \cup ToSet(l) BY <5>4, EnqueuedFacts
          <5>7. Len(p) <= Len(Enqueued(p, l)) BY <5>4, EnqueuedFacts
          <5>8. \A i \in 1 .. Len(p) : Enqueued(p, l)[i] = p[i] BY <5>4, EnqueuedFacts
          <5> QED BY <5>2, <5>3, <5>4, <5>5, <5>6, <5>7, <5>8
        <4>4. ASSUME NEW S \in SUBSET (1 .. n), Parented(ps, S \cup {d}, S) PROVE ToSet(f[m]) \subseteq S \cup {d}
          <5>1. ToSet(q) \subseteq S \cup {d} BY <3>2, <4>4
          <5>2. q[m] \in S \cup {d} BY <4>2, <5>1
          <5>3. ToSet(ps[q[m]]) \subseteq S BY <4>4, <5>2 DEF Parented
          <5> QED BY <4>3, <5>1, <5>3
        <4>5. ASSUME NEW x \in Looked(m) PROVE x \in Looked(m - 1) \/ x = q[m]
          <5>1. PICK i \in 1 .. Len(f[m]) : i <= m /\ x = f[m][i] BY <4>5
          <5>2. i \in 1 .. Len(q) /\ x = q[i] BY <3>4, <4>1, <4>3, <5>1
          <5>3. i <= m - 1 \/ i = m BY <3>1, <5>1
          <5> QED BY <5>2, <5>3
        <4>6. Parented(ps, Looked(m - 1), ToSet(q)) BY <3>2, <3>8
        <4> HIDE DEF Looked
        <4>7. Parented(ps, Looked(m), ToSet(f[m])) BY <4>3, <4>5, <4>6 DEF Parented
        <4>8. d \in ToSet(f[m]) BY <3>3, <4>3
        <4>9. Good(m) BY <4>3, <4>4, <4>7, <4>8
        <4> HIDE DEF Good
        <4> QED BY <2>1, <4>9
      <3> HIDE DEF q
      <3> QED BY <3>6, <3>7, <3>8
    <2> QED BY <2>2, <2>3
  <1>11. Good(N) BY <1>0, <1>10
  <1> DEFINE Q == f[MAX_NODES]
  <1>12. Q \in Queue(n) /\ d \in ToSet(Q) BY <1>11
  <1>13. Len(Q) \in Nat /\ Len(Q) <= N /\ DOMAIN Q = 1 .. Len(Q) /\ ToSet(Q) \in SUBSET (1 .. n)
    BY <1>0, <1>12, QueueRoom
  <1>14. a \in ToSet(Q) \/ Parented(ps, ToSet(Q), ToSet(Q))
    <2>1. ToSet(Q) \subseteq Looked(N)
      <3>1. \A i \in 1 .. Len(Q) : i <= N BY <1>0, <1>13
      <3> QED BY <1>13, <3>1 DEF ToSet
    <2>2. a \in ToSet(Q) \/ Parented(ps, Looked(N), ToSet(Q)) BY <1>11
    <2> HIDE DEF Looked, Q
    <2> QED BY <2>1, <2>2 DEF Parented
  <1>15. \A S \in SUBSET (1 .. n) : Parented(ps, S \cup {d}, S) => ToSet(Q) \subseteq S \cup {d}
    BY <1>11
  <1> HIDE DEF Q, Good, Looked
  <1>16. ASSUME a # d, a \in ToSet(Q), NEW S \in SUBSET (1 .. n), Parented(ps, S \cup {d}, S)
         PROVE  a \in S
    BY <1>15, <1>16
  <1>17. ASSUME a \notin ToSet(Q)
         PROVE  \E S \in SUBSET (1 .. n) : Parented(ps, S \cup {d}, S) /\ a \notin S
    <2>1. ToSet(Q) \cup {d} = ToSet(Q) BY <1>12
    <2>2. Parented(ps, ToSet(Q) \cup {d}, ToSet(Q)) BY <1>14, <1>17, <2>1
    <2> QED BY <1>13, <1>17, <2>2
  <1> QED BY <1>9, <1>16, <1>17 DEF Q

\* A graph of interned hashes with their lists of parents, which are the edges E.
Graph(ns, ps, E) ==
    /\ ns \in Seq(Nodes) /\ Len(ns) <= MAX_NODES
    /\ \A i, j \in 1 .. Len(ns) : ns[i] = ns[j] => i = j
    /\ ps \in [1 .. Len(ns) -> Seq(1 .. Len(ns))]
    /\ E \subseteq Nodes \X Nodes
    /\ \A p, c \in 1 .. Len(ns) : p \in ToSet(ps[c]) <=> <<ns[p], ns[c]>> \in E
    /\ \A x, y : <<x, y>> \in E => x \in ToSet(ns) /\ y \in ToSet(ns)

\* S has the parents of d, and of its members.
Down(E, d, S) == \A x, y : <<x, y>> \in E /\ (y = d \/ y \in S) => x \in S

\* a is before d: in every set that goes down from d.
IsBefore(E, a, d) == \A S \in SUBSET Nodes : Down(E, d, S) => a \in S

\* No hash is before itself: there is a set that says so.
Acyclic(E) == \A d \in Nodes : \E S \in SUBSET Nodes : Down(E, d, S) /\ d \notin S

DagInv == Graph(nodes, parents, edges) /\ Acyclic(edges)

\* The hashes before a hash go down from it, themselves.
LEMMA LeastDown ==
  ASSUME NEW E, NEW d
  PROVE  \E S \in SUBSET Nodes : Down(E, d, Nodes) => Down(E, d, S) /\ \A T \in SUBSET Nodes : Down(E, d, T) => S \subseteq T
  <1> DEFINE S == {a \in Nodes : IsBefore(E, a, d)}
  <1>1. \A T \in SUBSET Nodes : Down(E, d, T) => S \subseteq T BY DEF IsBefore
  <1>2. ASSUME Down(E, d, Nodes) PROVE Down(E, d, S)
    <2> SUFFICES ASSUME NEW x, NEW y, <<x, y>> \in E, y = d \/ y \in S PROVE x \in S BY DEF Down
    <2>1. x \in Nodes BY <1>2 DEF Down
    <2>2. ASSUME NEW T \in SUBSET Nodes, Down(E, d, T) PROVE x \in T
      <3>1. y = d \/ y \in T BY <1>1, <2>2
      <3> QED BY <2>2, <3>1 DEF Down
    <2> QED BY <2>1, <2>2 DEF IsBefore
  <1>3. S \in SUBSET Nodes OBVIOUS
  <1> HIDE DEF S
  <1> QED BY <1>1, <1>2, <1>3

\* An edge to a hash that is not before its new parent closes no cycle.
LEMMA AcyclicGrows ==
  ASSUME NEW E, E \subseteq Nodes \X Nodes, Acyclic(E), NEW p \in Nodes, NEW c \in Nodes, p # c,
         ~IsBefore(E, c, p)
  PROVE  Acyclic(E \cup {<<p, c>>})
  <1>1. \A d : Down(E, d, Nodes) BY DEF Down
  <1>2. \A d : \E S \in SUBSET Nodes : Down(E, d, S) /\ \A T \in SUBSET Nodes : Down(E, d, T) => S \subseteq T
    BY <1>1, LeastDown
  <1>3. PICK P \in SUBSET Nodes : Down(E, p, P) /\ \A T \in SUBSET Nodes : Down(E, p, T) => P \subseteq T
    BY <1>2
  <1>4. c \notin P BY <1>3 DEF IsBefore
  <1>5. SUFFICES ASSUME NEW d \in Nodes
                 PROVE  \E S \in SUBSET Nodes : Down(E \cup {<<p, c>>}, d, S) /\ d \notin S
    BY DEF Acyclic
  <1>6. PICK A \in SUBSET Nodes : Down(E, d, A) /\ \A T \in SUBSET Nodes : Down(E, d, T) => A \subseteq T
    BY <1>2
  <1>7. d \notin A BY <1>6 DEF Acyclic
  <1>8. CASE c # d /\ c \notin A
    <2>1. Down(E \cup {<<p, c>>}, d, A) BY <1>6, <1>8 DEF Down
    <2> QED BY <1>7, <2>1
  <1>9. CASE c = d \/ c \in A
    <2> DEFINE S == A \cup {p} \cup P
    <2>1. Down(E \cup {<<p, c>>}, d, S)
      <3> SUFFICES ASSUME NEW x, NEW y, <<x, y>> \in E \cup {<<p, c>>}, y = d \/ y \in S
                   PROVE  x \in S
        BY DEF Down
      <3>1. CASE <<x, y>> \in E BY <1>3, <1>6, <3>1 DEF Down
      <3>2. CASE <<x, y>> \notin E BY <3>2
      <3> QED BY <3>1, <3>2
    <2>2. d # p
      <3> SUFFICES ASSUME d = p PROVE FALSE OBVIOUS
      <3>1. A \subseteq P BY <1>3, <1>6
      <3> QED BY <1>4, <1>9, <3>1
    <2>3. d \notin P
      <3> SUFFICES ASSUME d \in P PROVE FALSE OBVIOUS
      <3>1. Down(E, d, P) BY <1>3 DEF Down
      <3>2. A \subseteq P BY <1>6, <3>1
      <3> QED BY <1>4, <1>9, <3>2
    <2>4. S \in SUBSET Nodes /\ d \notin S BY <1>7, <2>2, <2>3
    <2> QED BY <2>1, <2>4
  <1> QED BY <1>8, <1>9

\* The search answers what is before what.
LEMMA SearchBefore ==
  ASSUME NEW ns, NEW ps, NEW E, Graph(ns, ps, E), NEW a \in 1 .. Len(ns), NEW d \in 1 .. Len(ns)
  PROVE  IsAncestorIdx(ps, a, d) <=> a # d /\ IsBefore(E, ns[a], ns[d])
  <1> DEFINE n == Len(ns)
  <1>1. /\ ns \in Seq(Nodes) /\ n \in Nat /\ n <= MAX_NODES /\ DOMAIN ns = 1 .. n
        /\ \A i \in 1 .. n : ns[i] \in Nodes
        /\ ps \in [1 .. n -> Seq(1 .. n)]
    BY DEF Graph
  <1>2. \A p, c \in 1 .. n : p \in ToSet(ps[c]) <=> <<ns[p], ns[c]>> \in E BY DEF Graph
  <1>3. \A i, j \in 1 .. n : ns[i] = ns[j] => i = j BY DEF Graph
  <1>4. \A x, y : <<x, y>> \in E => \E p, c \in 1 .. n : x = ns[p] /\ y = ns[c]
    BY <1>1 DEF Graph, ToSet
  <1>5. \A c \in 1 .. n : ToSet(ps[c]) \subseteq 1 .. n
    <2> SUFFICES ASSUME NEW c \in 1 .. n PROVE ToSet(ps[c]) \subseteq 1 .. n OBVIOUS
    <2>1. ps[c] \in Seq(1 .. n) BY <1>1
    <2> QED BY <2>1 DEF ToSet
  <1> HIDE DEF n
  <1> USE DEF n
  <1>6. IsAncestorIdx(ps, a, d) <=>
             /\ a # d
             /\ \A S \in SUBSET (1 .. n) : Parented(ps, S \cup {d}, S) => a \in S
    BY <1>1, SearchExact
  <1>7. ASSUME \A S \in SUBSET (1 .. n) : Parented(ps, S \cup {d}, S) => a \in S,
               NEW T \in SUBSET Nodes, Down(E, ns[d], T)
        PROVE  ns[a] \in T
    <2> DEFINE S == {i \in 1 .. n : ns[i] \in T}
    <2>1. Parented(ps, S \cup {d}, S)
      <3> SUFFICES ASSUME NEW i \in S \cup {d}, NEW p \in ToSet(ps[i]) PROVE p \in S BY DEF Parented
      <3>1. i \in 1 .. n /\ p \in 1 .. n BY <1>5
      <3>2. <<ns[p], ns[i]>> \in E BY <1>2, <3>1
      <3>3. ns[i] = ns[d] \/ ns[i] \in T OBVIOUS
      <3>4. ns[p] \in T BY <1>7, <3>2, <3>3 DEF Down
      <3> QED BY <3>1, <3>4
    <2>2. a \in S BY <1>7, <2>1
    <2> QED BY <2>2
  <1>8. ASSUME IsBefore(E, ns[a], ns[d]), NEW S \in SUBSET (1 .. n), Parented(ps, S \cup {d}, S)
        PROVE  a \in S
    <2> DEFINE T == {ns[i] : i \in S}
    <2>1. T \in SUBSET Nodes BY <1>1
    <2>2. Down(E, ns[d], T)
      <3> SUFFICES ASSUME NEW x, NEW y, <<x, y>> \in E, y = ns[d] \/ y \in T PROVE x \in T BY DEF Down
      <3>1. PICK p \in 1 .. n, c \in 1 .. n : x = ns[p] /\ y = ns[c] BY <1>4
      <3>2. c \in S \cup {d} BY <1>3, <3>1
      <3>3. p \in ToSet(ps[c]) BY <1>2, <3>1
      <3>4. p \in S BY <1>8, <3>2, <3>3 DEF Parented
      <3> QED BY <3>1, <3>4
    <2>3. ns[a] \in T BY <1>8, <2>1, <2>2 DEF IsBefore
    <2> QED BY <1>3, <2>3
  <1>9. (\A S \in SUBSET (1 .. n) : Parented(ps, S \cup {d}, S) => a \in S) <=> IsBefore(E, ns[a], ns[d])
    BY <1>7, <1>8 DEF IsBefore
  <1> QED BY <1>6, <1>9

\* The recursion of Before.
Backs(d, f) ==
    f = [n \in 0 .. MAX_NODES |->
           IF n = 0 THEN ParentsOf({d}) ELSE f[n - 1] \cup ParentsOf(f[n - 1])]

\* The reference definition of what is before a hash has exactly that.
LEMMA BeforeExact ==
  ASSUME Graph(nodes, parents, edges), NEW a \in Nodes, NEW d \in Nodes
  PROVE  a \in Before(d) <=> IsBefore(edges, a, d)
  <1>0. MAX_NODES \in Nat /\ MAX_NODES \in 0 .. MAX_NODES BY DagAssumption
  <1> DEFINE U == ToSet(nodes)
             N == MAX_NODES
             V == SUBSET U
             G == [k \in 1 .. N |-> [S \in V |-> S \cup ParentsOf(S)]]
  <1>1. DOMAIN nodes = 1 .. Len(nodes) /\ Len(nodes) \in Nat BY DEF Graph
  <1>2. IsFiniteSet(U) /\ Cardinality(U) <= N
    <2>1. IsFiniteSet(Range(nodes)) /\ Cardinality(Range(nodes)) = Len(nodes)
      BY <1>1, CountDistinct DEF Graph
    <2>2. U = Range(nodes) BY DEF ToSet, Range
    <2> HIDE DEF U
    <2> QED BY <2>1, <2>2 DEF Graph
  <1>3. \A S : ParentsOf(S) = Behind(edges, S) BY DEF ParentsOf, Behind
  <1>4. \A S : ParentsOf(S) \subseteq U
    <2> SUFFICES ASSUME NEW S, NEW e \in edges PROVE e[1] \in U BY DEF ParentsOf
    <2>1. e = <<e[1], e[2]>> BY DEF Graph
    <2> QED BY <2>1 DEF Graph
  <1>5. PICK g : Carried(V, ParentsOf({d}), N, G, g)
    <2>1. Steps(V, N, G) BY <1>4 DEF Steps
    <2>2. ParentsOf({d}) \in V BY <1>4
    <2> HIDE DEF G, V
    <2>3. N \in Nat BY <1>0
    <2> QED BY <2>1, <2>2, <2>3, IterationExists
  <1>6. \E f : Backs(d, f)
    <2>1. g \in [0 .. N -> V] BY <1>5 DEF Carried
    <2>2. \A n \in 0 .. N : g[n] = IF n = 0 THEN ParentsOf({d}) ELSE G[n][g[n - 1]]
      BY <1>5, Zenon DEF Carried
    <2>3. \A n \in 0 .. N : n # 0 => n \in 1 .. N /\ n - 1 \in 0 .. N BY <1>0
    <2>4. \A n \in 0 .. N : n # 0 => g[n - 1] \in V
      <3> HIDE DEF V
      <3> QED BY <2>1, <2>3
    <2>5. \A n \in 0 .. N : n # 0 => G[n][g[n - 1]] = g[n - 1] \cup ParentsOf(g[n - 1])
      <3> HIDE DEF V
      <3> QED BY <2>3, <2>4
    <2>6. g = [n \in 0 .. N |-> g[n]] BY <2>1
    <2> HIDE DEF G, V
    <2>7. \A n \in 0 .. N : g[n] = IF n = 0 THEN ParentsOf({d}) ELSE g[n - 1] \cup ParentsOf(g[n - 1])
      BY <2>2, <2>5
    <2>8. Backs(d, g) BY <2>6, <2>7 DEF Backs
    <2> QED BY <2>8
  <1>7. PICK f : f = CHOOSE h : Backs(d, h) OBVIOUS
  <1>8. Backs(d, f) BY <1>6, <1>7
  <1>9. Before(d) = f[MAX_NODES] BY <1>7, Zenon DEF Before, Backs
  <1>10. \A n \in 0 .. N : f[n] = IF n = 0 THEN ParentsOf({d}) ELSE f[n - 1] \cup Behind(edges, f[n - 1])
    <2>1. \A n \in 0 .. N : f[n] = IF n = 0 THEN ParentsOf({d}) ELSE f[n - 1] \cup ParentsOf(f[n - 1])
      BY <1>8, Zenon DEF Backs
    <2> QED BY <1>3, <2>1
  <1> DEFINE S0 == ParentsOf({d})
  <1>11. S0 \in SUBSET U /\ \A e \in edges : e[1] \in U
    <2>1. \A e \in edges : e \in {x \in edges : x[2] \in {e[2]}} OBVIOUS
    <2>2. \A e \in edges : e[1] \in ParentsOf({e[2]}) BY <2>1 DEF ParentsOf
    <2> HIDE DEF U
    <2> QED BY <1>4, <2>2
  <1> HIDE DEF S0, U, G, V
  <1>12. PICK E : E = edges OBVIOUS
  <1>13. PICK B : B = f[MAX_NODES] OBVIOUS
  <1>14. /\ S0 \subseteq B /\ Behind(E, B) \subseteq B /\ B \subseteq U
         /\ \A S : S0 \subseteq S /\ Behind(E, S) \subseteq S => B \subseteq S
    <2>1. Growth(E, S0, N, f)
      BY <1>10, <1>12 DEF S0, Growth
    <2>2. \A e \in E : e[1] \in U BY <1>11, <1>12
    <2> QED BY <1>0, <1>2, <1>11, <1>13, <2>1, <2>2, GrowthCloses
  <1>15. \A S : Down(E, d, S) <=> S0 \subseteq S /\ Behind(E, S) \subseteq S
    <2>1. \A e \in E : e = <<e[1], e[2]>> BY <1>12 DEF Graph
    <2>2. S0 = Behind(E, {d}) BY <1>3, <1>12 DEF S0
    <2>3. ASSUME NEW S, Down(E, d, S) PROVE S0 \subseteq S /\ Behind(E, S) \subseteq S
      BY <2>1, <2>2, <2>3 DEF Down, Behind
    <2>4. ASSUME NEW S, S0 \subseteq S, Behind(E, S) \subseteq S PROVE Down(E, d, S)
      <3> SUFFICES ASSUME NEW x, NEW y, <<x, y>> \in E, y = d \/ y \in S PROVE x \in S BY DEF Down
      <3>1. <<x, y>>[1] = x /\ <<x, y>>[2] = y OBVIOUS
      <3>2. y = d => x \in Behind(E, {d}) BY <3>1 DEF Behind
      <3>3. y \in S => x \in Behind(E, S) BY <3>1 DEF Behind
      <3> QED BY <2>2, <2>4, <3>2, <3>3
    <2> QED BY <2>3, <2>4
  <1>16. U \subseteq Nodes
    BY <1>1 DEF U, ToSet, Graph
  <1>17. B \in SUBSET Nodes /\ Down(E, d, B) BY <1>14, <1>15, <1>16
  <1>18. \A S : Down(E, d, S) => B \subseteq S BY <1>14, <1>15
  <1>19. a \in B <=> IsBefore(E, a, d) BY <1>17, <1>18 DEF IsBefore
  <1> QED BY <1>9, <1>12, <1>13, <1>19

\* The hashes ns are nodes, each once, as far as there is room.
Hashed(ns) ==
    /\ ns \in Seq(Nodes) /\ Len(ns) <= MAX_NODES
    /\ \A i, j \in 1 .. Len(ns) : ns[i] = ns[j] => i = j

\* The hashes ms begin with those of ns.
Longer(ns, ms) == Len(ns) <= Len(ms) /\ \A i \in 1 .. Len(ns) : ms[i] = ns[i]

\* intern keeps the places of the hashes it knows.
LEMMA InternedFacts ==
  ASSUME NEW ns, Hashed(ns), NEW h \in Nodes, Fits(ns, h)
  PROVE  Hashed(Interned(ns, h)) /\ Longer(ns, Interned(ns, h))
  <1>0. ns \in Seq(Nodes) /\ Len(ns) \in Nat /\ DOMAIN ns = 1 .. Len(ns) BY DEF Hashed
  <1>1. CASE IndexOf(ns, h) # {}
    <2>1. Interned(ns, h) = ns BY <1>1 DEF Interned
    <2> QED BY <1>0, <2>1 DEF Longer
  <1>2. CASE IndexOf(ns, h) = {}
    <2> DEFINE r == Append(ns, h)
    <2>1. Interned(ns, h) = r BY <1>2 DEF Interned
    <2>2. \A i \in 1 .. Len(ns) : ns[i] # h BY <1>0, <1>2 DEF IndexOf
    <2>3. Len(ns) + 1 <= MAX_NODES BY <1>0, <1>2, DagAssumption DEF Fits
    <2>4. r \in Seq(Nodes) /\ Len(r) = Len(ns) + 1 /\ r[Len(ns) + 1] = h /\ \A i \in 1 .. Len(ns) : r[i] = ns[i]
      BY <1>0
    <2> HIDE DEF r
    <2>5. \A i \in 1 .. Len(r) : i \in 1 .. Len(ns) \/ i = Len(ns) + 1 BY <1>0, <2>4
    <2>6. \A i, j \in 1 .. Len(ns) : ns[i] = ns[j] => i = j BY DEF Hashed
    <2>7. \A i, j \in 1 .. Len(r) : r[i] = r[j] => i = j BY <2>2, <2>4, <2>5, <2>6
    <2>8. Hashed(r) BY <2>3, <2>4, <2>7 DEF Hashed
    <2>9. Longer(ns, r) BY <1>0, <2>4 DEF Longer
    <2> QED BY <2>1, <2>8, <2>9
  <1> QED BY <1>1, <1>2

\* New hashes come with empty lists, and change no edge.
LEMMA ListsFacts ==
  ASSUME Graph(nodes, parents, edges), NEW ns, Hashed(ns), Longer(nodes, ns)
  PROVE  Graph(ns, Lists(ns), edges)
  <1> DEFINE ps == Lists(ns)
  <1>1. /\ nodes \in Seq(Nodes) /\ Len(nodes) \in Nat /\ DOMAIN nodes = 1 .. Len(nodes)
        /\ parents \in [1 .. Len(nodes) -> Seq(1 .. Len(nodes))]
    BY DEF Graph
  <1>2. ns \in Seq(Nodes) /\ Len(ns) \in Nat /\ DOMAIN ns = 1 .. Len(ns) /\ Len(nodes) <= Len(ns)
    BY DEF Hashed, Longer
  <1>3. \A i \in 1 .. Len(nodes) : i \in 1 .. Len(ns) /\ ns[i] = nodes[i] BY <1>1, <1>2 DEF Longer
  <1>4. ps = [i \in 1 .. Len(ns) |-> IF i \in 1 .. Len(nodes) THEN parents[i] ELSE <<>>]
    BY <1>1, <1>2 DEF Lists
  <1> HIDE DEF ps
  <1>5. \A i \in 1 .. Len(nodes) : ps[i] = parents[i] BY <1>3, <1>4
  <1>6. \A i \in 1 .. Len(ns) : i \notin 1 .. Len(nodes) => ps[i] = <<>> /\ ToSet(ps[i]) = {}
    BY <1>4 DEF ToSet
  <1>7. \A i \in 1 .. Len(ns) : ps[i] \in Seq(1 .. Len(ns))
    <2> SUFFICES ASSUME NEW i \in 1 .. Len(ns) PROVE ps[i] \in Seq(1 .. Len(ns)) OBVIOUS
    <2>1. CASE i \in 1 .. Len(nodes)
      <3>1. parents[i] \in Seq(1 .. Len(nodes)) BY <1>1, <2>1
      <3>2. \A k \in 1 .. Len(parents[i]) : parents[i][k] \in 1 .. Len(ns) BY <1>1, <1>2, <3>1
      <3>3. PICK l : l = parents[i] OBVIOUS
      <3>4. l \in Seq(1 .. Len(nodes)) /\ \A k \in 1 .. Len(l) : l[k] \in 1 .. Len(ns) BY <3>1, <3>2, <3>3
      <3>5. l \in Seq(1 .. Len(ns)) BY <3>4, SeqWithin
      <3> QED BY <1>5, <2>1, <3>3, <3>5
    <2>2. CASE i \notin 1 .. Len(nodes)
      <3>1. ps[i] = <<>> BY <1>6, <2>2
      <3>2. <<>> \in Seq(1 .. Len(ns)) OBVIOUS
      <3> QED BY <3>1, <3>2
    <2> QED BY <2>1, <2>2
  <1>8. ps \in [1 .. Len(ns) -> Seq(1 .. Len(ns))] BY <1>4, <1>7
  <1>9. \A x : x \in ToSet(nodes) => x \in ToSet(ns)
    <2> SUFFICES ASSUME NEW x \in ToSet(nodes) PROVE x \in ToSet(ns) OBVIOUS
    <2>1. PICK i \in 1 .. Len(nodes) : x = nodes[i] BY <1>1 DEF ToSet
    <2> QED BY <1>2, <1>3, <2>1 DEF ToSet
  <1>10. \A i \in 1 .. Len(nodes) : ToSet(ps[i]) \subseteq 1 .. Len(nodes)
    <2> SUFFICES ASSUME NEW i \in 1 .. Len(nodes) PROVE ToSet(ps[i]) \subseteq 1 .. Len(nodes) OBVIOUS
    <2>1. parents[i] \in Seq(1 .. Len(nodes)) BY <1>1
    <2> QED BY <1>5, <2>1 DEF ToSet
  <1>11. \A i, j \in 1 .. Len(ns) : ns[i] = ns[j] => i = j BY DEF Hashed
  <1>12. ASSUME NEW p \in 1 .. Len(ns), NEW c \in 1 .. Len(ns)
         PROVE  p \in ToSet(ps[c]) <=> <<ns[p], ns[c]>> \in edges
    <2>1. CASE p \in 1 .. Len(nodes) /\ c \in 1 .. Len(nodes)
      <3>1. p \in ToSet(parents[c]) <=> <<nodes[p], nodes[c]>> \in edges BY <2>1 DEF Graph
      <3> QED BY <1>3, <1>5, <2>1, <3>1
    <2>2. CASE p \notin 1 .. Len(nodes) \/ c \notin 1 .. Len(nodes)
      <3>1. p \notin ToSet(ps[c]) BY <1>6, <1>10, <2>2
      <3>2. <<ns[p], ns[c]>> \notin edges
        <4> SUFFICES ASSUME <<ns[p], ns[c]>> \in edges PROVE FALSE OBVIOUS
        <4>1. ns[p] \in ToSet(nodes) /\ ns[c] \in ToSet(nodes) BY DEF Graph
        <4>2. PICK i \in 1 .. Len(nodes), j \in 1 .. Len(nodes) : ns[p] = nodes[i] /\ ns[c] = nodes[j]
          BY <1>1, <4>1 DEF ToSet
        <4>3. p = i /\ c = j BY <1>3, <1>11, <4>2
        <4> QED BY <2>2, <4>3
      <3> QED BY <3>1, <3>2
    <2> QED BY <2>1, <2>2
  <1>13. \A x, y : <<x, y>> \in edges => x \in ToSet(ns) /\ y \in ToSet(ns) BY <1>9 DEF Graph
  <1>14. edges \subseteq Nodes \X Nodes BY DEF Graph
  <1>15. ns \in Seq(Nodes) /\ Len(ns) <= MAX_NODES BY DEF Hashed
  <1>16. Graph(ns, ps, edges) BY <1>8, <1>11, <1>12, <1>13, <1>14, <1>15 DEF Graph
  <1> QED BY <1>16 DEF ps

\* A new parent at the end of a list is a new edge.
LEMMA GraphGrows ==
  ASSUME NEW ns, NEW ps, NEW E, Graph(ns, ps, E), NEW p \in 1 .. Len(ns), NEW c \in 1 .. Len(ns)
  PROVE  Graph(ns, [ps EXCEPT ![c] = Append(@, p)], E \cup {<<ns[p], ns[c]>>})
  <1> DEFINE n == Len(ns)
             qs == [ps EXCEPT ![c] = Append(@, p)]
             F == E \cup {<<ns[p], ns[c]>>}
  <1>1. /\ ns \in Seq(Nodes) /\ n \in Nat /\ DOMAIN ns = 1 .. n /\ \A i \in 1 .. n : ns[i] \in Nodes
        /\ ps \in [1 .. n -> Seq(1 .. n)] /\ ps[c] \in Seq(1 .. n) /\ p \in 1 .. n
    BY DEF Graph
  <1>2. Append(ps[c], p) \in Seq(1 .. n) /\ ToSet(Append(ps[c], p)) = ToSet(ps[c]) \cup {p}
    <2>1. PICK l : l = ps[c] OBVIOUS
    <2>2. l \in Seq(1 .. n) /\ Len(l) \in Nat /\ DOMAIN l = 1 .. Len(l) BY <1>1, <2>1
    <2>3. PICK r : r = Append(l, p) OBVIOUS
    <2>4. /\ r \in Seq(1 .. n) /\ Len(r) = Len(l) + 1 /\ DOMAIN r = 1 .. Len(l) + 1
          /\ r[Len(l) + 1] = p /\ \A i \in 1 .. Len(l) : r[i] = l[i]
      <3> HIDE DEF n
      <3> QED BY <1>1, <2>2, <2>3
    <2>5. \A i \in 1 .. Len(l) + 1 : i \in 1 .. Len(l) \/ i = Len(l) + 1 BY <2>2
    <2>6. Len(l) + 1 \in 1 .. Len(l) + 1 /\ \A i \in 1 .. Len(l) : i \in 1 .. Len(l) + 1 BY <2>2
    <2>7. ToSet(r) = ToSet(l) \cup {p} BY <2>2, <2>4, <2>5, <2>6 DEF ToSet
    <2> QED BY <2>1, <2>3, <2>4, <2>7
  <1>3. qs \in [1 .. n -> Seq(1 .. n)] BY <1>1, <1>2
  <1>4. \A j \in 1 .. n : ToSet(qs[j]) = IF j = c THEN ToSet(ps[c]) \cup {p} ELSE ToSet(ps[j])
    BY <1>1, <1>2
  <1> HIDE DEF qs
  <1>5. \A i, j \in 1 .. n : ns[i] = ns[j] => i = j BY DEF Graph
  <1>6. ASSUME NEW i \in 1 .. n, NEW j \in 1 .. n PROVE i \in ToSet(qs[j]) <=> <<ns[i], ns[j]>> \in F
    <2>1. i \in ToSet(ps[j]) <=> <<ns[i], ns[j]>> \in E BY DEF Graph
    <2>2. <<ns[i], ns[j]>> = <<ns[p], ns[c]>> <=> i = p /\ j = c BY <1>1, <1>5
    <2> QED BY <1>4, <2>1, <2>2
  <1>7. \A x, y : <<x, y>> \in F => x \in ToSet(ns) /\ y \in ToSet(ns)
    <2>1. ns[p] \in ToSet(ns) /\ ns[c] \in ToSet(ns) BY <1>1 DEF ToSet
    <2>2. \A x, y : <<x, y>> \in E => x \in ToSet(ns) /\ y \in ToSet(ns) BY DEF Graph
    <2> QED BY <2>1, <2>2
  <1>8. F \subseteq Nodes \X Nodes
    <2>1. ns[p] \in Nodes /\ ns[c] \in Nodes BY <1>1
    <2> QED BY <2>1 DEF Graph
  <1>9. Len(ns) <= MAX_NODES BY DEF Graph
  <1>10. Graph(ns, qs, F)
    <2> HIDE DEF F
    <2> QED BY <1>1, <1>3, <1>5, <1>6, <1>7, <1>8, <1>9 DEF Graph
  <1> QED BY <1>10 DEF qs

\* An empty graph has no cycle.
LEMMA DagInitInv == DagInit => DagInv
  <1> SUFFICES ASSUME DagInit PROVE DagInv OBVIOUS
  <1>1. nodes = <<>> /\ parents = <<>> /\ edges = {} BY DEF DagInit
  <1>2. Graph(nodes, parents, edges)
    <2>1. nodes \in Seq(Nodes) /\ Len(nodes) = 0 BY <1>1
    <2>2. 1 .. Len(nodes) = {} BY <2>1
    <2>3. parents \in [1 .. Len(nodes) -> Seq(1 .. Len(nodes))] BY <1>1, <2>2
    <2> QED BY <1>1, <2>1, <2>2, <2>3, DagAssumption DEF Graph
  <1>3. Acyclic(edges) BY <1>1 DEF Acyclic, Down
  <1> QED BY <1>2, <1>3 DEF DagInv

\* The first insert of an edge leaves one hash behind.
LEMMA DagParentOnly ==
  ASSUME DagInv, NEW parent \in Nodes, NEW child \in Nodes, InsertParentOnly(parent, child)
  PROVE  DagInv'
  <1>1. Graph(nodes, parents, edges) BY DEF DagInv
  <1>2. PICK ns : ns = Interned(nodes, parent) OBVIOUS
  <1>3. Hashed(nodes) BY <1>1 DEF Graph, Hashed
  <1>4. Hashed(ns) /\ Longer(nodes, ns) BY <1>2, <1>3, InternedFacts DEF InsertParentOnly
  <1>5. Graph(ns, Lists(ns), edges) BY <1>1, <1>4, ListsFacts
  <1>6. nodes' = ns /\ parents' = Lists(ns) /\ edges' = edges
    BY <1>2 DEF InsertParentOnly, Leaves
  <1>7. Graph(nodes', parents', edges') BY <1>5, <1>6
  <1>8. Acyclic(edges') BY <1>6 DEF DagInv
  <1> QED BY <1>7, <1>8 DEF DagInv, Graph, Acyclic

\* An insert that comes to the edge keeps the order without a cycle.
LEMMA DagEdge ==
  ASSUME DagInv, NEW parent \in Nodes, NEW child \in Nodes, InsertEdge(parent, child)
  PROVE  DagInv'
  <1>1. Graph(nodes, parents, edges) BY DEF DagInv
  <1>2. PICK ns : ns = Interned(Interned(nodes, parent), child) OBVIOUS
  <1>3. PICK ps : ps = Lists(ns) OBVIOUS
  <1>4. PICK E : E = edges OBVIOUS
  <1>5. Hashed(nodes) BY <1>1 DEF Graph, Hashed
  <1>6. Hashed(ns) /\ Longer(nodes, ns)
    <2>1. PICK ms : ms = Interned(nodes, parent) OBVIOUS
    <2>2. Hashed(ms) /\ Longer(nodes, ms) BY <1>5, <2>1, InternedFacts DEF InsertEdge
    <2>3. Hashed(ns) /\ Longer(ms, ns) BY <1>2, <2>1, <2>2, InternedFacts DEF InsertEdge
    <2>4. Len(nodes) \in Nat /\ Len(ms) \in Nat /\ Len(ns) \in Nat BY <1>5, <2>2, <2>3 DEF Hashed
    <2> QED BY <2>2, <2>3, <2>4 DEF Longer
  <1>7. Graph(ns, ps, E) /\ Acyclic(E) BY <1>1, <1>3, <1>4, <1>6, ListsFacts DEF DagInv
  <1>8. PICK p \in IndexOf(ns, parent), c \in IndexOf(ns, child) :
          IF IsAncestorIdx(ps, c, p) \/ (p \notin ToSet(ps[c]) /\ Len(ps[c]) >= MAX_PARENTS)
          THEN Leaves(ns, ps) /\ UNCHANGED edges
          ELSE /\ Leaves(ns, IF p \in ToSet(ps[c]) THEN ps ELSE [ps EXCEPT ![c] = Append(@, p)])
               /\ edges' = edges \cup {<<parent, child>>}
    BY <1>2, <1>3, Zenon DEF InsertEdge
  <1>9. p \in 1 .. Len(ns) /\ c \in 1 .. Len(ns) /\ ns[p] = parent /\ ns[c] = child
    <2>1. DOMAIN ns = 1 .. Len(ns) BY <1>6 DEF Hashed
    <2> QED BY <2>1 DEF IndexOf
  <1>10. p # c BY <1>9 DEF InsertEdge
  <1>11. CASE IsAncestorIdx(ps, c, p) \/ (p \notin ToSet(ps[c]) /\ Len(ps[c]) >= MAX_PARENTS)
    <2>1. nodes' = ns /\ parents' = ps /\ edges' = E BY <1>4, <1>8, <1>11 DEF Leaves
    <2>2. Graph(nodes', parents', edges') /\ Acyclic(edges') BY <1>7, <2>1
    <2> QED BY <2>2 DEF DagInv, Graph, Acyclic
  <1>12. CASE ~(IsAncestorIdx(ps, c, p) \/ (p \notin ToSet(ps[c]) /\ Len(ps[c]) >= MAX_PARENTS))
    <2> DEFINE F == E \cup {<<ns[p], ns[c]>>}
    <2>1. /\ nodes' = ns /\ parents' = IF p \in ToSet(ps[c]) THEN ps ELSE [ps EXCEPT ![c] = Append(@, p)]
          /\ edges' = F
      BY <1>4, <1>8, <1>9, <1>12 DEF Leaves
    <2>2. ~IsBefore(E, ns[c], ns[p])
      <3>1. ~IsAncestorIdx(ps, c, p) BY <1>12
      <3> QED BY <1>7, <1>9, <1>10, <3>1, SearchBefore
    <2>3. Acyclic(F)
      <3>1. E \subseteq Nodes \X Nodes BY <1>7 DEF Graph
      <3>2. ns[p] \in Nodes /\ ns[c] \in Nodes /\ ns[p] # ns[c] BY <1>9 DEF InsertEdge
      <3> QED BY <1>7, <2>2, <3>1, <3>2, AcyclicGrows
    <2>4. CASE p \in ToSet(ps[c])
      <3>1. <<ns[p], ns[c]>> \in E BY <1>7, <1>9, <2>4 DEF Graph
      <3>2. nodes' = ns /\ parents' = ps /\ edges' = E BY <2>1, <2>4, <3>1
      <3>3. Graph(nodes', parents', edges') /\ Acyclic(edges') BY <1>7, <3>2
      <3> QED BY <3>3 DEF DagInv, Graph, Acyclic
    <2>5. CASE p \notin ToSet(ps[c])
      <3>1. Graph(ns, [ps EXCEPT ![c] = Append(@, p)], F) BY <1>7, <1>9, GraphGrows
      <3> HIDE DEF F
      <3>2. parents' = [ps EXCEPT ![c] = Append(@, p)] BY <2>1, <2>5
      <3>3. Graph(nodes', parents', edges') /\ Acyclic(edges') BY <2>1, <2>3, <3>1, <3>2
      <3> QED BY <3>3 DEF DagInv, Graph, Acyclic
    <2> QED BY <2>4, <2>5
  <1> QED BY <1>11, <1>12

\* Every insert keeps the graph and its order.
LEMMA DagNextInv == DagInv /\ [DagNext]_dagVars => DagInv'
  <1> SUFFICES ASSUME DagInv, [DagNext]_dagVars PROVE DagInv' OBVIOUS
  <1>1. CASE UNCHANGED dagVars
    BY <1>1 DEF DagInv, dagVars, Graph, Acyclic
  <1>2. CASE DagNext
    <2>1. PICK parent \in Nodes, child \in Nodes :
            InsertNothing(parent, child) \/ InsertParentOnly(parent, child) \/ InsertEdge(parent, child)
      BY <1>2 DEF DagNext
    <2>2. CASE InsertNothing(parent, child)
      BY <2>2 DEF InsertNothing, DagInv, dagVars, Graph, Acyclic
    <2>3. CASE InsertParentOnly(parent, child) BY <2>3, DagParentOnly
    <2>4. CASE InsertEdge(parent, child) BY <2>4, DagEdge
    <2> QED BY <2>1, <2>2, <2>3, <2>4
  <1> QED BY <1>1, <1>2

\* The graph holds the edges that were taken, which have no cycle, for any hashes and
\* any limits.
THEOREM DagInvariant == DagSpec => []DagInv
  <1> QED BY DagInitInv, DagNextInv, PTL DEF DagSpec

\* The public query answers what is before what; an unknown hash is before nothing, and
\* nothing is before it.
LEMMA IsAncestorExact ==
  ASSUME DagInv, NEW a \in Nodes, NEW d \in Nodes
  PROVE  IsAncestor(a, d) <=> IsBefore(edges, a, d)
  <1>1. Graph(nodes, parents, edges) BY DEF DagInv
  <1>2. DOMAIN nodes = 1 .. Len(nodes) /\ \A i \in 1 .. Len(nodes) : nodes[i] \in ToSet(nodes)
    BY <1>1 DEF Graph, ToSet
  <1>3. ASSUME NEW i \in IndexOf(nodes, a), NEW j \in IndexOf(nodes, d)
        PROVE  IsAncestorIdx(parents, i, j) <=> IsBefore(edges, a, d)
    <2>1. i \in 1 .. Len(nodes) /\ j \in 1 .. Len(nodes) /\ nodes[i] = a /\ nodes[j] = d
      BY <1>2 DEF IndexOf
    <2>2. IsAncestorIdx(parents, i, j) <=> i # j /\ IsBefore(edges, nodes[i], nodes[j])
      BY <1>1, <2>1, SearchBefore
    <2>3. a = d => ~IsBefore(edges, a, d) BY DEF DagInv, Acyclic, IsBefore
    <2> QED BY <2>1, <2>2, <2>3
  <1>4. ASSUME IndexOf(nodes, d) = {} PROVE ~IsBefore(edges, a, d)
    <2>1. d \notin ToSet(nodes) BY <1>2, <1>4 DEF IndexOf, ToSet
    <2>2. \A x, y : <<x, y>> \in edges => y # d BY <1>1, <2>1 DEF Graph
    <2>3. Down(edges, d, {}) BY <2>2 DEF Down
    <2> QED BY <2>3 DEF IsBefore
  <1>5. ASSUME IndexOf(nodes, a) = {} PROVE ~IsBefore(edges, a, d)
    <2>1. a \notin ToSet(nodes) BY <1>2, <1>5 DEF IndexOf, ToSet
    <2>2. \A x, y : <<x, y>> \in edges => x # a /\ x \in Nodes BY <1>1, <2>1 DEF Graph
    <2>3. Down(edges, d, Nodes \ {a}) BY <2>2 DEF Down
    <2>4. Nodes \ {a} \in SUBSET Nodes /\ a \notin Nodes \ {a} OBVIOUS
    <2> QED BY <2>3, <2>4 DEF IsBefore
  <1>6. CASE IndexOf(nodes, a) # {} /\ IndexOf(nodes, d) # {}
    BY <1>3, <1>6 DEF IsAncestor
  <1>7. CASE IndexOf(nodes, a) = {} \/ IndexOf(nodes, d) = {}
    BY <1>4, <1>5, <1>7 DEF IsAncestor
  <1> QED BY <1>6, <1>7

\* BE-EVID-05a and BE-HIST-03/04 (is_ancestor, historical_validity): the search answers
\* the strict causal order of the edges that were taken, whatever was refused, repeated or
\* out of room, and the audit follows it.
THEOREM DagCausalExact == DagSpec => []CausalExact
  <1>1. DagInv => CausalExact
    <2> SUFFICES ASSUME DagInv, NEW d \in Nodes
                 PROVE  /\ \A a \in Nodes : IsAncestor(a, d) <=> a \in Before(d)
                        /\ HistoricalValidity(d) = "Ok" <=> Anchor \in Before(d) /\ Revoke \notin Before(d)
      BY DEF CausalExact
    <2>1. ASSUME NEW a \in Nodes PROVE IsAncestor(a, d) <=> a \in Before(d)
      <3>1. Graph(nodes, parents, edges) BY DEF DagInv
      <3> QED BY <3>1, IsAncestorExact, BeforeExact
    <2>2. Anchor \in Nodes /\ Revoke \in Nodes BY DagAssumption
    <2>3. HistoricalValidity(d) = "Ok" <=> IsAncestor(Anchor, d) /\ ~IsAncestor(Revoke, d)
      BY DEF HistoricalValidity
    <2> QED BY <2>1, <2>2, <2>3
  <1> QED BY <1>1, DagInvariant, PTL

-----------------------------------------------------------------------------
(* Sync: what a walk comes to, and what a response holds.                  *)

\* The elements of a sequence with one more entry.
LEMMA ToSetAppend ==
  ASSUME NEW S, NEW s \in Seq(S), NEW x \in S
  PROVE  ToSet(Append(s, x)) = ToSet(s) \cup {x}
  <1>1. PICK r : r = Append(s, x) OBVIOUS
  <1>2. /\ Len(s) \in Nat /\ DOMAIN s = 1 .. Len(s) /\ DOMAIN r = 1 .. Len(s) + 1
        /\ r[Len(s) + 1] = x /\ \A i \in 1 .. Len(s) : r[i] = s[i]
    BY <1>1
  <1>3. \A i \in 1 .. Len(s) + 1 : i \in 1 .. Len(s) \/ i = Len(s) + 1 BY <1>2
  <1>4. Len(s) + 1 \in 1 .. Len(s) + 1 /\ \A i \in 1 .. Len(s) : i \in 1 .. Len(s) + 1 BY <1>2
  <1>5. ToSet(r) = ToSet(s) \cup {x} BY <1>2, <1>3, <1>4 DEF ToSet
  <1> QED BY <1>1, <1>5

\* The recursions of Lacking, Bytes and Build.
Lacks(s, have, f) ==
    f = [n \in 0 .. Len(s) |->
           IF n = 0 THEN <<>>
           ELSE IF s[n] \in have THEN f[n - 1] ELSE Append(f[n - 1], s[n])]

Weighs(s, f) == f = [n \in 0 .. Len(s) |-> IF n = 0 THEN 0 ELSE f[n - 1] + WireLen[s[n]]]

Builds(items, have, f) ==
    f = [n \in 0 .. Len(items) |->
           IF n = 0 THEN [sent |-> <<>>, pos |-> RESPONSE_HEADER, truncated |-> FALSE]
           ELSE IF f[n - 1].truncated \/ items[n] \in have THEN f[n - 1]
           ELSE Write(f[n - 1], items[n])]

\* What is lacking of the first n entries.
LEMMA LacksExist ==
  ASSUME NEW H, NEW s \in Seq(H), NEW have
  PROVE  \E f : Lacks(s, have, f) /\ f \in [0 .. Len(s) -> Seq(H)]
  <1> DEFINE N == Len(s)
             V == Seq(H)
             G == [n \in 1 .. N |-> [r \in V |-> IF s[n] \in have THEN r ELSE Append(r, s[n])]]
  <1>0. N \in Nat /\ \A n \in 1 .. N : s[n] \in H OBVIOUS
  <1>1. Steps(V, N, G) BY <1>0 DEF Steps
  <1>2. <<>> \in V OBVIOUS
  <1>3. PICK f : Carried(V, <<>>, N, G, f)
    <2> HIDE DEF V, G, N
    <2> QED BY <1>0, <1>1, <1>2, IterationExists
  <1>4. f \in [0 .. N -> V] BY <1>3 DEF Carried
  <1>5. \A n \in 0 .. N : f[n] = IF n = 0 THEN <<>> ELSE G[n][f[n - 1]]
    BY <1>3, Zenon DEF Carried
  <1>6. \A n \in 0 .. N : n # 0 => n \in 1 .. N /\ n - 1 \in 0 .. N BY <1>0
  <1>7. \A n \in 0 .. N : n # 0 => f[n - 1] \in V
    <2> HIDE DEF V
    <2> QED BY <1>4, <1>6
  <1>8. \A n \in 0 .. N : n # 0 => G[n][f[n - 1]] = IF s[n] \in have THEN f[n - 1] ELSE Append(f[n - 1], s[n])
    <2> HIDE DEF V
    <2> QED BY <1>6, <1>7
  <1>9. f = [n \in 0 .. N |-> f[n]] BY <1>4
  <1> HIDE DEF G, V
  <1>10. \A n \in 0 .. N : f[n] = IF n = 0 THEN <<>>
             ELSE IF s[n] \in have THEN f[n - 1] ELSE Append(f[n - 1], s[n])
    BY <1>5, <1>8
  <1>11. Lacks(s, have, f) BY <1>9, <1>10 DEF Lacks
  <1> QED BY <1>4, <1>11 DEF V

\* Two such functions agree on a common beginning.
LEMMA LacksAgree ==
  ASSUME NEW H, NEW s \in Seq(H), NEW t \in Seq(H), Len(s) <= Len(t), \A k \in 1 .. Len(s) : s[k] = t[k],
         NEW have, NEW f, NEW g, Lacks(s, have, f), Lacks(t, have, g)
  PROVE  \A n \in 0 .. Len(s) : f[n] = g[n]
  <1> DEFINE B == {n \in 0 .. Len(s) : f[n] # g[n]}
  <1> SUFFICES ASSUME B # {} PROVE FALSE OBVIOUS
  <1>1. PICK m \in B : \A k \in B : m <= k
    <2>1. B \in SUBSET Nat OBVIOUS
    <2> QED BY <2>1, LeastNatural
  <1>2. m \in 0 .. Len(s) /\ m \in 0 .. Len(t) OBVIOUS
  <1>3. /\ f[m] = IF m = 0 THEN <<>> ELSE IF s[m] \in have THEN f[m - 1] ELSE Append(f[m - 1], s[m])
        /\ g[m] = IF m = 0 THEN <<>> ELSE IF t[m] \in have THEN g[m - 1] ELSE Append(g[m - 1], t[m])
    BY <1>2, Zenon DEF Lacks
  <1>4. m # 0 BY <1>1, <1>3
  <1>5. m - 1 \in 0 .. Len(s) /\ ~(m <= m - 1) /\ m \in 1 .. Len(s) BY <1>2, <1>4
  <1>6. f[m - 1] = g[m - 1] BY <1>1, <1>5
  <1>7. s[m] = t[m] BY <1>5
  <1> QED BY <1>1, <1>3, <1>4, <1>6, <1>7

\* f has what is lacking of every beginning of s.
Kept(H, s, have, f) ==
    /\ f \in [0 .. Len(s) -> Seq(H)] /\ Lacks(s, have, f) /\ Lacking(s, have) = f[Len(s)]
    /\ \A n \in 0 .. Len(s) :
          f[n] = IF n = 0 THEN <<>> ELSE IF s[n] \in have THEN f[n - 1] ELSE Append(f[n - 1], s[n])

\* Lacking solves its recursion.
LEMMA LackingFunction ==
  ASSUME NEW H, NEW s \in Seq(H), NEW have
  PROVE  \E f : Kept(H, s, have, f)
  <1>1. PICK f : f = CHOOSE g : Lacks(s, have, g) OBVIOUS
  <1>2. Lacking(s, have) = f[Len(s)]
    BY <1>1, Zenon DEF Lacking, Lacks
  <1>3. Lacks(s, have, f) BY <1>1, LacksExist
  <1>4. PICK g : Lacks(s, have, g) /\ g \in [0 .. Len(s) -> Seq(H)] BY LacksExist
  <1>5. Len(s) \in Nat /\ Len(s) <= Len(s) OBVIOUS
  <1>6. \A n \in 0 .. Len(s) : f[n] = g[n] BY <1>3, <1>4, <1>5, LacksAgree
  <1>7. f = [n \in 0 .. Len(s) |-> f[n]]
    <2>1. DOMAIN f = 0 .. Len(s) BY <1>3, Zenon DEF Lacks
    <2>2. f = [n \in DOMAIN f |-> f[n]] BY <1>3, Zenon DEF Lacks
    <2> QED BY <2>1, <2>2
  <1>8. \A n \in 0 .. Len(s) : g[n] \in Seq(H)
    <2> HIDE DEF Lacks
    <2> QED BY <1>4
  <1>9. f \in [0 .. Len(s) -> Seq(H)] BY <1>6, <1>7, <1>8
  <1>10. \A n \in 0 .. Len(s) :
            f[n] = IF n = 0 THEN <<>> ELSE IF s[n] \in have THEN f[n - 1] ELSE Append(f[n - 1], s[n])
    BY <1>3, Zenon DEF Lacks
  <1> QED BY <1>2, <1>3, <1>9, <1>10 DEF Kept

\* One more entry is lacking unless it is there; what is lacking is part of the sequence.
LEMMA LackingAppend ==
  ASSUME NEW H, NEW s \in Seq(H), NEW x \in H, NEW have
  PROVE  Lacking(Append(s, x), have) = IF x \in have THEN Lacking(s, have) ELSE Append(Lacking(s, have), x)
  <1>1. PICK t : t = Append(s, x) OBVIOUS
  <1>2. /\ t \in Seq(H) /\ Len(t) = Len(s) + 1 /\ t[Len(t)] = x /\ Len(s) \in Nat
        /\ \A k \in 1 .. Len(s) : s[k] = t[k]
    BY <1>1
  <1>3. PICK f : Kept(H, s, have, f) BY LackingFunction
  <1>4. PICK g : Kept(H, t, have, g) BY <1>2, LackingFunction
  <1>5. Len(s) <= Len(t) /\ Len(s) \in 0 .. Len(s) /\ Len(t) \in 0 .. Len(t) /\ Len(t) # 0 /\ Len(t) - 1 = Len(s)
    BY <1>2
  <1>6. f[Len(s)] = g[Len(s)]
    <2>1. \A n \in 0 .. Len(s) : f[n] = g[n] 
      <3>1. Lacks(s, have, f) /\ Lacks(t, have, g) BY <1>3, <1>4 DEF Kept
      <3> QED BY <1>2, <1>5, <3>1, LacksAgree
    <2> QED BY <1>5, <2>1
  <1>7. g[Len(t)] = IF t[Len(t)] \in have THEN g[Len(t) - 1] ELSE Append(g[Len(t) - 1], t[Len(t)])
    <2>1. PICK n : n = Len(t) OBVIOUS
    <2>2. g[n] = IF n = 0 THEN <<>> ELSE IF t[n] \in have THEN g[n - 1] ELSE Append(g[n - 1], t[n])
      BY <1>4, <1>5, <2>1 DEF Kept
    <2> QED BY <1>5, <2>1, <2>2
  <1>8. Lacking(s, have) = f[Len(s)] /\ Lacking(t, have) = g[Len(t)] BY <1>3, <1>4 DEF Kept
  <1> QED BY <1>1, <1>2, <1>5, <1>6, <1>7, <1>8

\* What is lacking of a sequence is in it, and not in have; nothing is lacking of nothing.
LEMMA LackingType ==
  ASSUME NEW H, NEW s \in Seq(H), NEW have
  PROVE  /\ Lacking(s, have) \in Seq(H) /\ (s = <<>> => Lacking(s, have) = <<>>)
         /\ ToSet(Lacking(s, have)) \subseteq ToSet(s)
  <1>0. PICK f : Kept(H, s, have, f) BY LackingFunction
  <1>1. /\ f \in [0 .. Len(s) -> Seq(H)] /\ Lacking(s, have) = f[Len(s)]
        /\ \A n \in 0 .. Len(s) :
              f[n] = IF n = 0 THEN <<>> ELSE IF s[n] \in have THEN f[n - 1] ELSE Append(f[n - 1], s[n])
    BY <1>0 DEF Kept
  <1>2. Len(s) \in Nat /\ Len(s) \in 0 .. Len(s) /\ DOMAIN s = 1 .. Len(s) OBVIOUS
  <1>3. s = <<>> => Lacking(s, have) = <<>>
    <2>1. s = <<>> => Len(s) = 0 OBVIOUS
    <2> QED BY <1>1, <1>2, <2>1
  <1> DEFINE Good(n) == ToSet(f[n]) \subseteq ToSet(s)
             T == {n \in 0 .. Len(s) : ~Good(n)}
  <1>4. T = {}
    <2> SUFFICES ASSUME T # {} PROVE FALSE OBVIOUS
    <2>1. PICK m \in T : \A k \in T : m <= k
      <3>1. T \in SUBSET Nat OBVIOUS
      <3> QED BY <3>1, LeastNatural
    <2>2. CASE m = 0
      <3>1. f[m] = <<>> BY <1>1, <2>1, <2>2
      <3>2. ToSet(f[m]) = {} BY <3>1 DEF ToSet
      <3> QED BY <2>1, <3>2
    <2>3. CASE m # 0
      <3>1. m - 1 \in 0 .. Len(s) /\ ~(m <= m - 1) /\ m \in 1 .. Len(s) BY <2>1, <2>3
      <3>2. Good(m - 1) BY <2>1, <3>1
      <3>3. f[m] = f[m - 1] \/ f[m] = Append(f[m - 1], s[m]) BY <1>1, <2>1, <2>3
      <3>4. f[m - 1] \in Seq(H) /\ s[m] \in H /\ s[m] \in ToSet(s)
        <4>1. s[m] \in ToSet(s) BY <1>2, <3>1 DEF ToSet
        <4>2. s[m] \in H BY <3>1
        <4>3. f[m - 1] \in Seq(H)
          <5> HIDE DEF Good
          <5> QED BY <1>1, <3>1
        <4> QED BY <4>1, <4>2, <4>3
      <3>5. PICK p : p = f[m - 1] OBVIOUS
      <3>6. ToSet(Append(p, s[m])) \subseteq ToSet(p) \cup {s[m]}
        <4>1. p \in Seq(H) BY <3>4, <3>5
        <4> QED BY <3>4, <4>1, ToSetAppend
      <3>7. Good(m) BY <3>2, <3>3, <3>4, <3>5, <3>6
      <3> HIDE DEF Good
      <3> QED BY <2>1, <3>7
    <2> QED BY <2>2, <2>3
  <1>5. Good(Len(s)) BY <1>2, <1>4
  <1>6. f[Len(s)] \in Seq(H) BY <1>1, <1>2
  <1> QED BY <1>1, <1>3, <1>5, <1>6

\* f has the bytes of every beginning of s.
Weighed(s, f) ==
    /\ f \in [0 .. Len(s) -> Nat] /\ Weighs(s, f) /\ Bytes(s) = f[Len(s)]
    /\ \A n \in 0 .. Len(s) : f[n] = IF n = 0 THEN 0 ELSE f[n - 1] + WireLen[s[n]]

\* Two functions that weigh agree on a common beginning.
LEMMA WeighsAgree ==
  ASSUME NEW s \in Seq(WalkHashes), NEW t \in Seq(WalkHashes), Len(s) <= Len(t),
         \A k \in 1 .. Len(s) : s[k] = t[k], NEW f, NEW g, Weighs(s, f), Weighs(t, g)
  PROVE  \A n \in 0 .. Len(s) : f[n] = g[n]
  <1> DEFINE B == {n \in 0 .. Len(s) : f[n] # g[n]}
  <1> SUFFICES ASSUME B # {} PROVE FALSE OBVIOUS
  <1>1. PICK m \in B : \A k \in B : m <= k
    <2>1. B \in SUBSET Nat OBVIOUS
    <2> QED BY <2>1, LeastNatural
  <1>2. m \in 0 .. Len(s) /\ m \in 0 .. Len(t) OBVIOUS
  <1>3. /\ f[m] = IF m = 0 THEN 0 ELSE f[m - 1] + WireLen[s[m]]
        /\ g[m] = IF m = 0 THEN 0 ELSE g[m - 1] + WireLen[t[m]]
    BY <1>2, Zenon DEF Weighs
  <1>4. m # 0 BY <1>1, <1>3
  <1>5. m - 1 \in 0 .. Len(s) /\ ~(m <= m - 1) /\ m \in 1 .. Len(s) BY <1>2, <1>4
  <1>6. f[m - 1] = g[m - 1] BY <1>1, <1>5
  <1>7. s[m] = t[m] BY <1>5
  <1> QED BY <1>1, <1>3, <1>4, <1>6, <1>7

\* Bytes solves its recursion.
LEMMA BytesFunction ==
  ASSUME NEW s \in Seq(WalkHashes)
  PROVE  \E f : Weighed(s, f)
  <1> DEFINE N == Len(s)
             G == [n \in 1 .. N |-> [r \in Nat |-> r + WireLen[s[n]]]]
  <1>0. N \in Nat /\ N <= N /\ \A n \in 1 .. N : WireLen[s[n]] \in Nat
    <2>1. \A n \in 1 .. N : s[n] \in WalkHashes OBVIOUS
    <2>2. \A h \in WalkHashes : WireLen[h] \in Nat BY WalkAssumption DEF WalkHashes
    <2> QED BY <2>1, <2>2
  <1>1. Steps(Nat, N, G) BY <1>0 DEF Steps
  <1>2. PICK g : Carried(Nat, 0, N, G, g)
    <2> HIDE DEF G, N
    <2>1. 0 \in Nat OBVIOUS
    <2> QED BY <1>0, <1>1, <2>1, IterationExists
  <1>3. g \in [0 .. N -> Nat] BY <1>2 DEF Carried
  <1>4. \A n \in 0 .. N : g[n] = IF n = 0 THEN 0 ELSE g[n - 1] + WireLen[s[n]]
    <2>1. \A n \in 0 .. N : g[n] = IF n = 0 THEN 0 ELSE G[n][g[n - 1]]
      BY <1>2, Zenon DEF Carried
    <2>2. \A n \in 0 .. N : n # 0 => n \in 1 .. N /\ g[n - 1] \in Nat BY <1>0, <1>3
    <2> QED BY <2>1, <2>2
  <1>5. g = [n \in 0 .. N |-> g[n]] BY <1>3
  <1> HIDE DEF G
  <1>6. Weighs(s, g) BY <1>4, <1>5 DEF Weighs
  <1>7. PICK f : f = CHOOSE h : Weighs(s, h) OBVIOUS
  <1>8. Weighs(s, f) BY <1>6, <1>7
  <1>9. Bytes(s) = f[N] BY <1>7, Zenon DEF Bytes, Weighs
  <1>10. \A n \in 0 .. N : f[n] = g[n]
    <2>1. \A k \in 1 .. N : s[k] = s[k] OBVIOUS
    <2> QED BY <1>0, <1>6, <1>8, <2>1, WeighsAgree
  <1>11. f \in [0 .. N -> Nat]
    <2>1. f = [n \in 0 .. N |-> f[n]]
      <3>1. DOMAIN f = 0 .. N BY <1>8, Zenon DEF Weighs
      <3>2. f = [n \in DOMAIN f |-> f[n]] BY <1>8, Zenon DEF Weighs
      <3> QED BY <3>1, <3>2
    <2> QED BY <1>3, <1>10, <2>1
  <1>12. \A n \in 0 .. N : f[n] = IF n = 0 THEN 0 ELSE f[n - 1] + WireLen[s[n]]
    BY <1>8, Zenon DEF Weighs
  <1> QED BY <1>8, <1>9, <1>11, <1>12 DEF Weighed

\* One more envelope adds its bytes.
LEMMA BytesAppend ==
  ASSUME NEW s \in Seq(WalkHashes), NEW h \in WalkHashes
  PROVE  /\ Bytes(s) \in Nat /\ Bytes(Append(s, h)) = Bytes(s) + WireLen[h]
         /\ s = <<>> => Bytes(s) = 0
  <1>1. PICK t : t = Append(s, h) OBVIOUS
  <1>2. /\ t \in Seq(WalkHashes) /\ Len(t) = Len(s) + 1 /\ t[Len(t)] = h /\ Len(s) \in Nat
        /\ \A k \in 1 .. Len(s) : s[k] = t[k]
    BY <1>1
  <1>3. PICK f : Weighed(s, f) BY BytesFunction
  <1>4. PICK g : Weighed(t, g) BY <1>2, BytesFunction
  <1>5. Len(s) <= Len(t) /\ Len(s) \in 0 .. Len(s) /\ Len(t) \in 0 .. Len(t) /\ Len(t) # 0 /\ Len(t) - 1 = Len(s)
    BY <1>2
  <1>6. f[Len(s)] = g[Len(s)]
    <2>1. Weighs(s, f) /\ Weighs(t, g) BY <1>3, <1>4 DEF Weighed
    <2>2. \A n \in 0 .. Len(s) : f[n] = g[n] BY <1>2, <1>5, <2>1, WeighsAgree
    <2> QED BY <1>5, <2>2
  <1>7. g[Len(t)] = g[Len(t) - 1] + WireLen[t[Len(t)]]
    <2>1. PICK n : n = Len(t) OBVIOUS
    <2>2. g[n] = IF n = 0 THEN 0 ELSE g[n - 1] + WireLen[t[n]] BY <1>4, <1>5, <2>1 DEF Weighed
    <2> QED BY <1>5, <2>1, <2>2
  <1>8. Bytes(s) = f[Len(s)] /\ Bytes(t) = g[Len(t)] BY <1>3, <1>4 DEF Weighed
  <1>9. f[Len(s)] \in Nat
    <2>1. f \in [0 .. Len(s) -> Nat] BY <1>3 DEF Weighed
    <2> QED BY <1>5, <2>1
  <1>10. s = <<>> => f[Len(s)] = 0
    <2>1. f[0] = 0 BY <1>2, <1>3 DEF Weighed
    <2> QED BY <2>1
  <1> QED BY <1>1, <1>2, <1>5, <1>6, <1>7, <1>8, <1>9, <1>10

-----------------------------------------------------------------------------
\* A response in the making.
Response == [sent : Seq(WalkHashes), pos : Nat, truncated : BOOLEAN]

\* r has the beginning of what was lacking so far, and all of it unless it is cut off,
\* where the next one did not fit.
Filled(r, lacks) ==
    /\ r \in Response /\ IsPrefix(r.sent, lacks)
    /\ Len(r.sent) <= MAX_RESPONSE_ENVELOPES /\ r.pos <= MAX_RESPONSE_BYTES
    /\ r.pos = RESPONSE_HEADER + Bytes(r.sent)
    /\ ~r.truncated => r.sent = lacks
    /\ r.truncated => /\ Len(r.sent) < Len(lacks)
                      /\ \/ Len(r.sent) >= MAX_RESPONSE_ENVELOPES
                         \/ r.pos + WireLen[lacks[Len(r.sent) + 1]] + 1 > MAX_RESPONSE_BYTES

\* A beginning stays one when entries are added at the end.
LEMMA PrefixAppend ==
  ASSUME NEW S, NEW s \in Seq(S), NEW t \in Seq(S), IsPrefix(s, t), NEW x \in S
  PROVE  IsPrefix(s, Append(t, x))
  <1>1. PICK r : r = Append(t, x) OBVIOUS
  <1>2. /\ r \in Seq(S) /\ Len(r) = Len(t) + 1 /\ Len(t) \in Nat /\ Len(s) \in Nat
        /\ \A k \in 1 .. Len(t) : r[k] = t[k]
    BY <1>1
  <1>3. Len(s) <= Len(t) /\ SubSeq(s, 1, Len(s)) = SubSeq(t, 1, Len(s)) BY DEF IsPrefix
  <1>4. SubSeq(r, 1, Len(s)) = SubSeq(t, 1, Len(s)) BY <1>2, <1>3
  <1> QED BY <1>1, <1>2, <1>3, <1>4 DEF IsPrefix

\* A sequence is a beginning of itself.
LEMMA PrefixSelf ==
  ASSUME NEW S, NEW s \in Seq(S) PROVE IsPrefix(s, s)
  BY DEF IsPrefix

\* An item that the peer has changes nothing, any other one is written or the end.
LEMMA FilledStep ==
  ASSUME NEW r, NEW lacks \in Seq(WalkHashes), Filled(r, lacks), NEW h \in WalkHashes
  PROVE  /\ r.truncated => Filled(r, Append(lacks, h))
         /\ ~r.truncated => Filled(Write(r, h), Append(lacks, h))
  <1>0. /\ WireLen[h] \in Nat /\ MAX_RESPONSE_ENVELOPES \in Nat /\ MAX_RESPONSE_BYTES \in Nat /\ RESPONSE_HEADER \in Nat
    BY WalkAssumption DEF WalkHashes
  <1>1. r \in Response /\ r.sent \in Seq(WalkHashes) /\ r.pos \in Nat BY DEF Filled, Response
  <1>2. PICK l : l = Append(lacks, h) OBVIOUS
  <1>3. /\ l \in Seq(WalkHashes) /\ Len(l) = Len(lacks) + 1 /\ Len(lacks) \in Nat /\ Len(r.sent) \in Nat
        /\ l[Len(lacks) + 1] = h /\ \A k \in 1 .. Len(lacks) : l[k] = lacks[k]
    BY <1>1, <1>2
  <1>4. IsPrefix(r.sent, l) BY <1>1, <1>2, PrefixAppend DEF Filled
  <1>5. CASE r.truncated
    <2>1. Len(r.sent) < Len(lacks) BY <1>5 DEF Filled
    <2>2. l[Len(r.sent) + 1] = lacks[Len(r.sent) + 1] BY <1>3, <2>1
    <2>3. Len(r.sent) < Len(l) BY <1>3, <2>1
    <2>4. Filled(r, l) BY <1>4, <1>5, <2>2, <2>3 DEF Filled
    <2> QED BY <1>2, <1>5, <2>4
  <1>6. CASE ~r.truncated
    <2>1. r.sent = lacks BY <1>6 DEF Filled
    <2>2. CASE Len(r.sent) < MAX_RESPONSE_ENVELOPES /\ r.pos + WireLen[h] + 1 <= MAX_RESPONSE_BYTES
      <3>1. PICK w : w = Write(r, h) OBVIOUS
      <3>2. w = [sent |-> l, pos |-> r.pos + WireLen[h], truncated |-> FALSE]
        BY <1>2, <2>1, <2>2, <3>1 DEF Write
      <3>3. w.sent = l /\ w.pos = r.pos + WireLen[h] /\ w.truncated = FALSE /\ w \in Response
        BY <1>0, <1>1, <1>3, <3>2 DEF Response
      <3>4. Bytes(l) = Bytes(r.sent) + WireLen[h] /\ Bytes(r.sent) \in Nat BY <1>2, <2>1, BytesAppend
      <3>5. w.pos = RESPONSE_HEADER + Bytes(w.sent) BY <1>0, <3>3, <3>4 DEF Filled
      <3>6. IsPrefix(w.sent, l) BY <1>3, <3>3, PrefixSelf
      <3>7. Len(w.sent) <= MAX_RESPONSE_ENVELOPES /\ w.pos <= MAX_RESPONSE_BYTES
        BY <1>0, <1>1, <1>3, <2>1, <2>2, <3>3
      <3>8. Filled(w, l) BY <3>3, <3>5, <3>6, <3>7 DEF Filled
      <3> QED BY <1>2, <1>6, <3>1, <3>8
    <2>3. CASE ~(Len(r.sent) < MAX_RESPONSE_ENVELOPES /\ r.pos + WireLen[h] + 1 <= MAX_RESPONSE_BYTES)
      <3>1. PICK w : w = Write(r, h) OBVIOUS
      <3>2. w = [sent |-> r.sent, pos |-> r.pos, truncated |-> TRUE]
        BY <2>3, <3>1 DEF Write
      <3>3. w.sent = r.sent /\ w.pos = r.pos /\ w.truncated = TRUE /\ w \in Response
        BY <1>1, <3>2 DEF Response
      <3>4. Len(w.sent) < Len(l) /\ l[Len(w.sent) + 1] = h BY <1>3, <2>1, <3>3
      <3>5. \/ Len(w.sent) >= MAX_RESPONSE_ENVELOPES
            \/ w.pos + WireLen[h] + 1 > MAX_RESPONSE_BYTES
        BY <1>0, <1>1, <1>3, <2>3, <3>3
      <3>6. Filled(w, l) BY <1>4, <3>3, <3>4, <3>5 DEF Filled
      <3> QED BY <1>2, <1>6, <3>1, <3>6
    <2> QED BY <2>2, <2>3
  <1> QED BY <1>5, <1>6

\* Whatever the items and whatever the peer has: the response is a beginning of what it
\* lacks, within the limits.
LEMMA BuildFilled ==
  ASSUME NEW items \in Seq(WalkHashes), NEW have
  PROVE  Filled(Build(items, have), Lacking(items, have))
  <1> DEFINE N == Len(items)
             Empty == [sent |-> <<>>, pos |-> RESPONSE_HEADER, truncated |-> FALSE]
             G == [n \in 1 .. N |-> [r \in Response |->
                     IF r.truncated \/ items[n] \in have THEN r ELSE Write(r, items[n])]]
  <1>0. N \in Nat /\ N \in 0 .. N /\ \A n \in 1 .. N : items[n] \in WalkHashes OBVIOUS
  <1>1. \A h \in WalkHashes : WireLen[h] \in Nat BY WalkAssumption DEF WalkHashes
  <1>2. \A r \in Response : \A h \in WalkHashes : Write(r, h) \in Response
    <2> SUFFICES ASSUME NEW r \in Response, NEW h \in WalkHashes PROVE Write(r, h) \in Response OBVIOUS
    <2>1. r.sent \in Seq(WalkHashes) /\ r.pos \in Nat /\ WireLen[h] \in Nat BY <1>1 DEF Response
    <2>2. Append(r.sent, h) \in Seq(WalkHashes) /\ r.pos + WireLen[h] \in Nat BY <2>1
    <2> QED BY <2>1, <2>2 DEF Write, Response
  <1>3. Steps(Response, N, G) BY <1>0, <1>2 DEF Steps
  <1>4. Empty \in Response BY WalkAssumption DEF Response
  <1>5. PICK g : Carried(Response, Empty, N, G, g)
    <2> HIDE DEF G, N, Empty
    <2> QED BY <1>0, <1>3, <1>4, IterationExists
  <1>6. Builds(items, have, g)
    <2>1. g \in [0 .. N -> Response] BY <1>5 DEF Carried
    <2>2. \A n \in 0 .. N : g[n] = IF n = 0 THEN Empty ELSE G[n][g[n - 1]]
      <3> HIDE DEF Empty, G
      <3> QED BY <1>5, Zenon DEF Carried
    <2>3. \A n \in 0 .. N : n # 0 => n \in 1 .. N /\ g[n - 1] \in Response BY <1>0, <2>1
    <2>4. \A n \in 0 .. N : n # 0 =>
              G[n][g[n - 1]] = IF g[n - 1].truncated \/ items[n] \in have THEN g[n - 1] ELSE Write(g[n - 1], items[n])
      BY <2>3
    <2>5. g = [n \in 0 .. N |-> g[n]] BY <2>1
    <2> HIDE DEF G, Empty
    <2>6. \A n \in 0 .. N : g[n] = IF n = 0 THEN Empty
             ELSE IF g[n - 1].truncated \/ items[n] \in have THEN g[n - 1] ELSE Write(g[n - 1], items[n])
      BY <2>2, <2>4
    <2> QED BY <2>5, <2>6 DEF Builds, Empty
  <1>7. PICK b : b = CHOOSE h : Builds(items, have, h) OBVIOUS
  <1>8. Builds(items, have, b) BY <1>6, <1>7
  <1>9. Build(items, have) = b[N] BY <1>7, Zenon DEF Build, Builds
  <1>10. \A n \in 0 .. N : b[n] = IF n = 0 THEN Empty
             ELSE IF b[n - 1].truncated \/ items[n] \in have THEN b[n - 1] ELSE Write(b[n - 1], items[n])
    BY <1>8, Zenon DEF Builds
  <1>11. PICK f : Kept(WalkHashes, items, have, f) BY LackingFunction
  <1>12. /\ f \in [0 .. N -> Seq(WalkHashes)] /\ Lacking(items, have) = f[N]
         /\ \A n \in 0 .. N :
               f[n] = IF n = 0 THEN <<>> ELSE IF items[n] \in have THEN f[n - 1] ELSE Append(f[n - 1], items[n])
    BY <1>11 DEF Kept
  <1> HIDE DEF G
  <1> DEFINE T == {n \in 0 .. N : ~Filled(b[n], f[n])}
  <1>13. T = {}
    <2> SUFFICES ASSUME T # {} PROVE FALSE OBVIOUS
    <2>1. PICK m \in T : \A k \in T : m <= k
      <3>1. T \in SUBSET Nat OBVIOUS
      <3> QED BY <3>1, LeastNatural
    <2>2. CASE m = 0
      <3>1. 0 \in 0 .. N BY <1>0
      <3>2. <<>> \in Seq(WalkHashes) /\ 1 \in WalkHashes /\ Len(<<>>) = 0 BY WalkAssumption DEF WalkHashes
      <3>3. Bytes(<<>>) = 0 BY <3>2, BytesAppend
      <3>4. IsPrefix(<<>>, <<>>) BY <3>2, PrefixSelf
      <3>5. Empty.sent = <<>> /\ Empty.pos = RESPONSE_HEADER /\ Empty.truncated = FALSE OBVIOUS
      <3> HIDE DEF Empty
      <3>6. b[0] = Empty
        <4>1. b[0] = IF 0 = 0 THEN Empty
                     ELSE IF b[0 - 1].truncated \/ items[0] \in have THEN b[0 - 1] ELSE Write(b[0 - 1], items[0])
          BY <1>10, <3>1, Zenon
        <4> QED BY <4>1, Zenon
      <3>7. f[0] = <<>> BY <1>12, <3>1
      <3>8. PICK e : e = <<>> OBVIOUS
      <3>9. Len(e) <= MAX_RESPONSE_ENVELOPES /\ RESPONSE_HEADER <= MAX_RESPONSE_BYTES
            /\ RESPONSE_HEADER = RESPONSE_HEADER + 0
        BY <3>2, <3>8, WalkAssumption
      <3>10. Empty.sent = e /\ IsPrefix(e, e) /\ Bytes(e) = 0 BY <3>3, <3>4, <3>5, <3>8
      <3>11. Filled(Empty, e)
        BY <1>4, <3>5, <3>9, <3>10 DEF Filled
      <3>12. Filled(b[m], f[m]) BY <2>2, <3>6, <3>7, <3>8, <3>11
      <3> QED BY <2>1, <3>12
    <2>3. CASE m # 0
      <3>1. m - 1 \in 0 .. N /\ ~(m <= m - 1) /\ m \in 1 .. N BY <2>1, <2>3
      <3>2. Filled(b[m - 1], f[m - 1]) BY <2>1, <3>1
      <3>3. PICK r : r = b[m - 1] OBVIOUS
      <3>4. PICK l : l = f[m - 1] OBVIOUS
      <3>5. PICK h : h = items[m] OBVIOUS
      <3>6. b[m] = IF r.truncated \/ h \in have THEN r ELSE Write(r, h) BY <1>10, <2>3, <3>1, <3>3, <3>5
      <3>7. f[m] = IF h \in have THEN l ELSE Append(l, h) BY <1>12, <2>3, <3>1, <3>4, <3>5
      <3>8. l \in Seq(WalkHashes) /\ h \in WalkHashes BY <1>0, <1>12, <3>1, <3>4, <3>5
      <3>9. Filled(r, l) BY <3>2, <3>3, <3>4
      <3>10. /\ r.truncated => Filled(r, Append(l, h))
             /\ ~r.truncated => Filled(Write(r, h), Append(l, h))
        BY <3>8, <3>9, FilledStep
      <3>11. Filled(b[m], f[m]) BY <3>6, <3>7, <3>9, <3>10
      <3> QED BY <2>1, <3>11
    <2> QED BY <2>2, <2>3
  <1> QED BY <1>0, <1>9, <1>12, <1>13

\* What ResponseExact says holds of every answer.
LEMMA ResponseAlwaysExact == ResponseExact
  <1>1. Oldest \in Seq(WalkHashes)
    <2>1. MaxHash \in Nat BY WalkAssumption
    <2> QED BY <2>1 DEF Oldest, WalkHashes
  <1>2. PICK r : r = Build(Oldest, known) OBVIOUS
  <1>3. PICK l : l = Lacking(Oldest, known) OBVIOUS
  <1>4. Filled(r, l) /\ l \in Seq(WalkHashes)
    <2>1. PICK o : o = Oldest OBVIOUS
    <2>2. o \in Seq(WalkHashes) BY <1>1, <2>1
    <2>3. PICK k : k = known OBVIOUS
    <2>4. Filled(Build(o, k), Lacking(o, k)) BY <2>2, BuildFilled, Zenon
    <2>5. Lacking(o, k) \in Seq(WalkHashes) BY <2>2, LackingType, Zenon
    <2> QED BY <1>2, <1>3, <2>1, <2>3, <2>4, <2>5
  <1>5. /\ r.sent \in Seq(WalkHashes) /\ r.pos \in Nat /\ r.truncated \in BOOLEAN
        /\ Len(r.sent) \in Nat /\ Len(l) \in Nat
    BY <1>4 DEF Filled, Response
  <1>6. r.truncated <=> r.sent # l
    <2>1. r.truncated => Len(r.sent) < Len(l) BY <1>4 DEF Filled
    <2>2. ~r.truncated => r.sent = l BY <1>4 DEF Filled
    <2> QED BY <1>5, <2>1, <2>2
  <1>7. r.sent = <<>> /\ l # <<>> => RESPONSE_HEADER + WireLen[Head(l)] >= MAX_RESPONSE_BYTES
    <2> SUFFICES ASSUME r.sent = <<>>, l # <<>> PROVE RESPONSE_HEADER + WireLen[Head(l)] >= MAX_RESPONSE_BYTES
      OBVIOUS
    <2>1. Len(r.sent) = 0 /\ Head(l) = l[1] /\ l[1] \in WalkHashes BY <1>4
    <2>2. r.truncated BY <1>6
    <2>3. r.pos + WireLen[l[1]] + 1 > MAX_RESPONSE_BYTES
      <3>1. Len(r.sent) + 1 = 1 BY <2>1
      <3>2. \/ Len(r.sent) >= MAX_RESPONSE_ENVELOPES
            \/ r.pos + WireLen[l[Len(r.sent) + 1]] + 1 > MAX_RESPONSE_BYTES
        BY <1>4, <2>2 DEF Filled
      <3> QED BY <2>1, <3>1, <3>2, WalkAssumption
    <2>4. r.pos = RESPONSE_HEADER
      <3>1. Bytes(r.sent) = 0
        <4>1. 1 \in WalkHashes BY WalkAssumption DEF WalkHashes
        <4> QED BY <1>5, <4>1, BytesAppend
      <3>2. r.pos = RESPONSE_HEADER + Bytes(r.sent) BY <1>4 DEF Filled
      <3> QED BY <3>1, <3>2, WalkAssumption
    <2>5. WireLen[l[1]] \in Nat BY <2>1, WalkAssumption DEF WalkHashes
    <2> QED BY <2>1, <2>3, <2>4, <2>5, WalkAssumption
  <1> QED BY <1>2, <1>3, <1>4, <1>6, <1>7 DEF ResponseExact, Filled

-----------------------------------------------------------------------------
(* What a walk keeps.                                                      *)

\* What was seen is what was handed out, then what waits.
Parted(w, q, v) ==
    /\ w \in Seq(WalkHashes) /\ q \in Seq(WalkHashes) /\ v \in Seq(WalkHashes)
    /\ Len(v) = Len(w) + Len(q)
    /\ \A i \in 1 .. Len(w) : v[i] = w[i]
    /\ \A i \in 1 .. Len(q) : v[Len(w) + i] = q[i]

Once(v) == \A i, j \in 1 .. Len(v) : v[i] = v[j] => i = j

\* S holds the root and, with a known hash, its parents.
Below(g, k, S) == Root \in S /\ \A h \in S \cap k : g[h] \subseteq S

\* The first that waits is handed out.
LEMMA HeadMoves ==
  ASSUME NEW w, NEW q, NEW v, Parted(w, q, v), q # <<>>
  PROVE  /\ Head(q) \in WalkHashes /\ Head(q) \in ToSet(v) /\ Parted(Append(w, Head(q)), Tail(q), v)
         /\ Once(v) => Head(q) \notin ToSet(w)
  <1>1. /\ w \in Seq(WalkHashes) /\ q \in Seq(WalkHashes) /\ v \in Seq(WalkHashes)
        /\ Len(w) \in Nat /\ Len(q) \in Nat /\ Len(q) # 0 /\ Len(v) = Len(w) + Len(q)
        /\ DOMAIN w = 1 .. Len(w) /\ DOMAIN v = 1 .. Len(v)
    BY DEF Parted
  <1>2. PICK h : h = Head(q) OBVIOUS
  <1>3. PICK t : t = Tail(q) OBVIOUS
  <1>4. PICK x : x = Append(w, h) OBVIOUS
  <1>5. h = q[1] /\ h \in WalkHashes /\ 1 \in 1 .. Len(q) BY <1>1, <1>2
  <1>6. t \in Seq(WalkHashes) /\ Len(t) = Len(q) - 1 /\ \A i \in 1 .. Len(t) : t[i] = q[i + 1] BY <1>1, <1>3
  <1>7. x \in Seq(WalkHashes) /\ Len(x) = Len(w) + 1 /\ x[Len(w) + 1] = h /\ \A i \in 1 .. Len(w) : x[i] = w[i]
    BY <1>1, <1>4, <1>5
  <1>8. v[Len(w) + 1] = h /\ Len(w) + 1 \in 1 .. Len(v) BY <1>1, <1>5 DEF Parted
  <1>9. h \in ToSet(v) BY <1>1, <1>8 DEF ToSet
  <1>10. \A i \in 1 .. Len(x) : v[i] = x[i]
    <2>1. \A i \in 1 .. Len(x) : i \in 1 .. Len(w) \/ i = Len(w) + 1 BY <1>1, <1>7
    <2>2. \A i \in 1 .. Len(w) : v[i] = w[i] BY DEF Parted
    <2> QED BY <1>7, <1>8, <2>1, <2>2
  <1>11. \A i \in 1 .. Len(t) : v[Len(x) + i] = t[i]
    <2> SUFFICES ASSUME NEW i \in 1 .. Len(t) PROVE v[Len(x) + i] = t[i] OBVIOUS
    <2>1. i + 1 \in 1 .. Len(q) /\ Len(w) + (i + 1) = Len(x) + i BY <1>1, <1>6, <1>7
    <2>2. v[Len(w) + (i + 1)] = q[i + 1] BY <2>1 DEF Parted
    <2> QED BY <1>6, <2>1, <2>2
  <1>12. Len(v) = Len(x) + Len(t) BY <1>1, <1>6, <1>7
  <1>13. Parted(x, t, v) BY <1>1, <1>6, <1>7, <1>10, <1>11, <1>12 DEF Parted
  <1>14. ASSUME Once(v), h \in ToSet(w) PROVE FALSE
    <2>1. PICK i \in 1 .. Len(w) : h = w[i] BY <1>1, <1>14 DEF ToSet
    <2>2. v[i] = h /\ i \in 1 .. Len(v) /\ i # Len(w) + 1 BY <1>1, <2>1 DEF Parted
    <2> QED BY <1>8, <1>14, <2>2 DEF Once
  <1> QED BY <1>2, <1>3, <1>4, <1>5, <1>9, <1>13, <1>14

\* A hash that was not seen waits at the end.
LEMMA TailGrows ==
  ASSUME NEW w, NEW q, NEW v, Parted(w, q, v), NEW h \in WalkHashes
  PROVE  /\ Parted(w, Append(q, h), Append(v, h)) /\ Len(Append(v, h)) = Len(v) + 1
         /\ Once(v) /\ h \notin ToSet(v) => Once(Append(v, h))
  <1>1. /\ w \in Seq(WalkHashes) /\ q \in Seq(WalkHashes) /\ v \in Seq(WalkHashes)
        /\ Len(w) \in Nat /\ Len(q) \in Nat /\ Len(v) \in Nat /\ Len(v) = Len(w) + Len(q)
        /\ DOMAIN v = 1 .. Len(v)
    BY DEF Parted
  <1>2. PICK p : p = Append(q, h) OBVIOUS
  <1>3. PICK x : x = Append(v, h) OBVIOUS
  <1>4. p \in Seq(WalkHashes) /\ Len(p) = Len(q) + 1 /\ p[Len(q) + 1] = h /\ \A i \in 1 .. Len(q) : p[i] = q[i]
    BY <1>1, <1>2
  <1>5. x \in Seq(WalkHashes) /\ Len(x) = Len(v) + 1 /\ x[Len(v) + 1] = h /\ \A i \in 1 .. Len(v) : x[i] = v[i]
    BY <1>1, <1>3
  <1>6. \A i \in 1 .. Len(w) : x[i] = w[i]
    <2>1. \A i \in 1 .. Len(w) : i \in 1 .. Len(v) BY <1>1
    <2>2. \A i \in 1 .. Len(w) : v[i] = w[i] BY DEF Parted
    <2> QED BY <1>5, <2>1, <2>2
  <1>7. \A i \in 1 .. Len(p) : x[Len(w) + i] = p[i]
    <2> SUFFICES ASSUME NEW i \in 1 .. Len(p) PROVE x[Len(w) + i] = p[i] OBVIOUS
    <2>1. CASE i \in 1 .. Len(q)
      <3>1. Len(w) + i \in 1 .. Len(v) BY <1>1, <2>1
      <3>2. v[Len(w) + i] = q[i] BY <2>1 DEF Parted
      <3> QED BY <1>4, <1>5, <2>1, <3>1, <3>2
    <2>2. CASE i \notin 1 .. Len(q)
      <3>1. Len(p) = Len(q) + 1 BY <1>4
      <3>2. i = Len(q) + 1 BY <1>1, <2>2, <3>1
      <3>3. Len(w) + i = Len(v) + 1 BY <1>1, <3>2
      <3> QED BY <1>4, <1>5, <3>2, <3>3
    <2> QED BY <2>1, <2>2
  <1>8. Len(x) = Len(w) + Len(p) BY <1>1, <1>4, <1>5
  <1>9. Parted(w, p, x) BY <1>1, <1>4, <1>5, <1>6, <1>7, <1>8 DEF Parted
  <1>10. ASSUME Once(v), h \notin ToSet(v) PROVE Once(x)
    <2>1. \A i \in 1 .. Len(v) : v[i] # h BY <1>1, <1>10 DEF ToSet
    <2>2. \A i \in 1 .. Len(x) : i \in 1 .. Len(v) \/ i = Len(v) + 1 BY <1>1, <1>5
    <2>3. \A i, j \in 1 .. Len(v) : v[i] = v[j] => i = j BY <1>10 DEF Once
    <2>4. \A i, j \in 1 .. Len(x) : x[i] = x[j] => i = j BY <1>5, <2>1, <2>2, <2>3
    <2> QED BY <2>4 DEF Once
  <1> QED BY <1>2, <1>3, <1>5, <1>9, <1>10

\* What was handed out was seen, and is all of it when nothing waits.
LEMMA PartedFacts ==
  ASSUME NEW w, NEW q, NEW v, Parted(w, q, v)
  PROVE  /\ ToSet(w) \subseteq ToSet(v) /\ ToSet(v) \subseteq WalkHashes /\ IsPrefix(w, v)
         /\ Len(w) <= Len(v)
         /\ q = <<>> => ToSet(w) = ToSet(v)
  <1>1. /\ w \in Seq(WalkHashes) /\ q \in Seq(WalkHashes) /\ v \in Seq(WalkHashes)
        /\ Len(w) \in Nat /\ Len(q) \in Nat /\ Len(v) = Len(w) + Len(q)
        /\ DOMAIN w = 1 .. Len(w) /\ DOMAIN v = 1 .. Len(v)
        /\ \A i \in 1 .. Len(w) : v[i] = w[i]
    BY DEF Parted
  <1>2. \A i \in 1 .. Len(w) : i \in 1 .. Len(v) BY <1>1
  <1>3. ToSet(w) \subseteq ToSet(v) BY <1>1, <1>2 DEF ToSet
  <1>4. ToSet(v) \subseteq WalkHashes BY <1>1 DEF ToSet
  <1>5. SubSeq(w, 1, Len(w)) = SubSeq(v, 1, Len(w)) BY <1>1, <1>2
  <1>6. IsPrefix(w, v) BY <1>1, <1>5 DEF IsPrefix
  <1>7. ASSUME q = <<>> PROVE ToSet(w) = ToSet(v)
    <2>1. Len(q) = 0 BY <1>7
    <2>2. Len(v) = Len(w) BY <1>1, <2>1
    <2> QED BY <1>1, <2>2 DEF ToSet
  <1> QED BY <1>1, <1>3, <1>4, <1>6, <1>7

\* The recursion of Reached.
Reaches(f) == f = [n \in 0 .. MaxHash |-> IF n = 0 THEN {Root} ELSE Closure(f[n - 1])]

\* Reached is the smallest set that holds the root and the parents of what is known in it.
LEMMA ReachedIsLeast ==
  ASSUME graph \in [WalkHashes -> SUBSET WalkHashes]
  PROVE  /\ Reached \in SUBSET WalkHashes /\ Below(graph, known, Reached)
         /\ \A S \in SUBSET WalkHashes : Below(graph, known, S) => Reached \subseteq S
  <1> DEFINE N == MaxHash
             V == SUBSET WalkHashes
             P == {x \in WalkHashes \X WalkHashes : x[2] \in known /\ x[1] \in graph[x[2]]}
             G == [n \in 1 .. N |-> [S \in V |-> Closure(S)]]
  <1>1. N \in Nat /\ N \in 0 .. N /\ Root \in WalkHashes
    BY WalkAssumption DEF Root, WalkHashes
  <1>2. \A S \in V : Closure(S) = S \cup Behind(P, S)
    <2> SUFFICES ASSUME NEW S \in V PROVE Closure(S) = S \cup Behind(P, S) OBVIOUS
    <2>1. ASSUME NEW x \in UNION {graph[h] : h \in S \cap known} PROVE x \in Behind(P, S)
      <3>1. PICK h \in S \cap known : x \in graph[h] BY <2>1
      <3>2. <<x, h>> \in P BY <3>1
      <3> HIDE DEF P
      <3> QED BY <3>1, <3>2 DEF Behind
    <2>2. ASSUME NEW x \in Behind(P, S) PROVE x \in UNION {graph[h] : h \in S \cap known}
      <3>1. PICK e \in P : e[2] \in S /\ x = e[1] BY <2>2 DEF Behind
      <3> QED BY <3>1
    <2> QED BY <2>1, <2>2 DEF Closure
  <1>3. \A S \in V : Closure(S) \in V BY DEF Closure
  <1>4. Steps(V, N, G) BY <1>3 DEF Steps
  <1>5. \E f : Reaches(f)
    <2>1. PICK g : Carried(V, {Root}, N, G, g)
      <3>1. {Root} \in V BY <1>1
      <3> HIDE DEF G, N, V
      <3> QED BY <1>1, <1>4, <3>1, IterationExists
    <2>2. g \in [0 .. N -> V] BY <2>1 DEF Carried
    <2>3. \A n \in 0 .. N : g[n] = IF n = 0 THEN {Root} ELSE G[n][g[n - 1]]
      BY <2>1, Zenon DEF Carried
    <2>4. \A n \in 0 .. N : n # 0 => n \in 1 .. N /\ n - 1 \in 0 .. N BY <1>1
    <2>5. \A n \in 0 .. N : n # 0 => g[n - 1] \in V
      <3> HIDE DEF V
      <3> QED BY <2>2, <2>4
    <2>6. \A n \in 0 .. N : n # 0 => G[n][g[n - 1]] = Closure(g[n - 1])
      <3> HIDE DEF V
      <3> QED BY <2>4, <2>5
    <2>7. g = [n \in 0 .. N |-> g[n]] BY <2>2
    <2> HIDE DEF G, V
    <2>8. \A n \in 0 .. N : g[n] = IF n = 0 THEN {Root} ELSE Closure(g[n - 1]) BY <2>3, <2>6
    <2> QED BY <2>7, <2>8 DEF Reaches
  <1>6. PICK f : f = CHOOSE h : Reaches(h) OBVIOUS
  <1>7. Reaches(f) BY <1>5, <1>6
  <1>8. Reached = f[N] BY <1>6, Zenon DEF Reached, Reaches
  <1>9. \A n \in 0 .. N : f[n] = IF n = 0 THEN {Root} ELSE Closure(f[n - 1])
    BY <1>7, Zenon DEF Reaches
  <1>10. \A n \in 0 .. N : f[n] \in V
    <2> DEFINE T == {n \in 0 .. N : f[n] \notin V}
    <2> SUFFICES ASSUME T # {} PROVE FALSE OBVIOUS
    <2>1. PICK m \in T : \A k \in T : m <= k
      <3>1. T \in SUBSET Nat BY <1>1
      <3> QED BY <3>1, LeastNatural
    <2>2. m # 0 BY <1>1, <1>9, <2>1
    <2>3. m - 1 \in 0 .. N /\ ~(m <= m - 1) BY <1>1, <2>1, <2>2
    <2>4. f[m - 1] \in V BY <2>1, <2>3
    <2>5. f[m] = Closure(f[m - 1]) BY <1>9, <2>1, <2>2
    <2>6. f[m] \in V
      <3> HIDE DEF V
      <3> QED BY <1>3, <2>4, <2>5
    <2> QED BY <2>1, <2>6
  <1>11. PICK E : E = P OBVIOUS
  <1>12. Growth(E, {Root}, N, f)
    <2>1. \A n \in 0 .. N : n # 0 => n - 1 \in 0 .. N BY <1>1
    <2> HIDE DEF V, P
    <2>2. \A n \in 0 .. N : n # 0 => Closure(f[n - 1]) = f[n - 1] \cup Behind(E, f[n - 1])
      BY <1>2, <1>10, <1>11, <2>1
    <2> QED BY <1>9, <2>2 DEF Growth
  <1>13. IsFiniteSet(WalkHashes) /\ Cardinality(WalkHashes) <= N
    <2>1. IsFiniteSet(1 .. N) /\ Cardinality(1 .. N) = IF 1 > N THEN 0 ELSE N - 1 + 1
      BY <1>1, FS_Interval
    <2> QED BY <1>1, <2>1, WalkAssumption DEF WalkHashes
  <1>14. \A e \in E : e[1] \in WalkHashes BY <1>11
  <1>15. {Root} \in SUBSET WalkHashes BY <1>1
  <1>16. PICK B : B = f[N] OBVIOUS
  <1>17. PICK U : U = WalkHashes OBVIOUS
  <1>18. PICK R : R = {Root} OBVIOUS
  <1> HIDE DEF P, V, G, N
  <1>19. /\ R \subseteq B /\ Behind(E, B) \subseteq B /\ B \subseteq U
         /\ \A S : R \subseteq S /\ Behind(E, S) \subseteq S => B \subseteq S
    <2>1. Growth(E, R, N, f) /\ IsFiniteSet(U) /\ Cardinality(U) <= N /\ R \in SUBSET U
      BY <1>12, <1>13, <1>15, <1>17, <1>18
    <2>2. N \in Nat /\ \A e \in E : e[1] \in U BY <1>1, <1>14, <1>17
    <2> QED BY <1>16, <2>1, <2>2, GrowthCloses
  <1>20. \A S \in SUBSET WalkHashes : Below(graph, known, S) <=> {Root} \subseteq S /\ Behind(E, S) \subseteq S
    <2> SUFFICES ASSUME NEW S \in SUBSET WalkHashes
                 PROVE  Below(graph, known, S) <=> {Root} \subseteq S /\ Behind(E, S) \subseteq S
      OBVIOUS
    <2>1. S \cup Behind(E, S) = S \cup UNION {graph[h] : h \in S \cap known}
      BY <1>2, <1>11 DEF V, Closure
    <2>2. Behind(E, S) \subseteq S <=> UNION {graph[h] : h \in S \cap known} \subseteq S BY <2>1
    <2> QED BY <2>2 DEF Below
  <1> QED BY <1>8, <1>16, <1>17, <1>18, <1>19, <1>20

\* A walk keeps its parts together; what it saw is in every set that holds the root and
\* what is behind it; what it handed out has its parents seen or still to be pushed,
\* unless a push was refused.
WalkInv ==
    /\ graph \in [WalkHashes -> SUBSET WalkHashes] /\ known \in SUBSET WalkHashes
    /\ todo \in SUBSET WalkHashes /\ walks \in Nat /\ exhausted \in BOOLEAN
    /\ Parted(walked, queue, visited) /\ Once(visited)
    /\ Len(visited) <= WALK_MAX_TOTAL /\ depth = Len(walked) /\ depth <= WALK_MAX_DEPTH
    /\ unresolved = Lacking(walked, known)
    /\ walks > 0 => Root \in ToSet(visited)
    /\ \A S \in SUBSET WalkHashes :
          Below(graph, known, S) => ToSet(visited) \subseteq S /\ todo \subseteq S
    /\ exhausted \/ \A h \in ToSet(walked) \cap known : graph[h] \subseteq ToSet(visited) \cup todo

\* A new walk has seen the root.
LEMMA NewWalkFacts ==
  ASSUME graph' \in [WalkHashes -> SUBSET WalkHashes], known' \in SUBSET WalkHashes, walks' \in Nat, NewWalk
  PROVE  WalkInv'
  <1>1. /\ WALK_MAX_TOTAL \in Nat /\ WALK_MAX_TOTAL >= 1 /\ WALK_MAX_DEPTH \in Nat /\ Root \in WalkHashes
    BY WalkAssumption DEF Root, WalkHashes
  <1>2. PICK r : r = <<Root>> OBVIOUS
  <1>3. PICK e : e = <<>> OBVIOUS
  <1>4. /\ r \in Seq(WalkHashes) /\ e \in Seq(WalkHashes) /\ Len(r) = 1 /\ Len(e) = 0 /\ r[1] = Root
        /\ ToSet(r) = {Root} /\ ToSet(e) = {}
    BY <1>1, <1>2, <1>3 DEF ToSet
  <1>5. Parted(e, r, r) BY <1>4 DEF Parted
  <1>6. Once(r) BY <1>4 DEF Once
  <1>7. PICK k : k = known' OBVIOUS
  <1>8. Lacking(e, k) = e BY <1>3, <1>4, LackingType
  <1>9. /\ queue' = r /\ visited' = r /\ walked' = e /\ unresolved' = e /\ depth' = 0 /\ todo' = {} /\ exhausted' = FALSE
    BY <1>2, <1>3 DEF NewWalk
  <1>10. \A S \in SUBSET WalkHashes : Below(graph', known', S) => ToSet(r) \subseteq S /\ {} \subseteq S
    BY <1>4 DEF Below
  <1>11. Len(r) <= WALK_MAX_TOTAL /\ 0 = Len(e) /\ 0 <= WALK_MAX_DEPTH BY <1>1, <1>4
  <1> QED BY <1>4, <1>5, <1>6, <1>7, <1>8, <1>9, <1>10, <1>11 DEF WalkInv

\* A hash is handed out.
LEMMA StepKeeps == ASSUME WalkInv, Step PROVE WalkInv'
  <1>1. PICK h : h = Head(queue) OBVIOUS
  <1>2. PICK w : w = walked OBVIOUS
  <1>3. PICK x : x = Append(walked, h) OBVIOUS
  <1>4. PICK q : q = queue OBVIOUS
  <1>5. PICK k : k = known OBVIOUS
  <1>6. PICK v : v = visited OBVIOUS
  <1>7. Parted(w, q, v) /\ q # <<>> /\ h = Head(q) /\ Once(v) /\ x = Append(w, h)
    BY <1>1, <1>2, <1>3, <1>4, <1>6 DEF WalkInv, Step
  <1>8. h \in WalkHashes /\ h \in ToSet(v) /\ Parted(x, Tail(q), v) /\ h \notin ToSet(w)
    BY <1>7, HeadMoves
  <1>9. w \in Seq(WalkHashes) /\ Len(w) \in Nat BY <1>7 DEF Parted
  <1>10. Len(x) = Len(w) + 1 /\ ToSet(x) = ToSet(w) \cup {h}
    BY <1>7, <1>8, <1>9, ToSetAppend
  <1>11. PICK l : l = Lacking(w, k) OBVIOUS
  <1>12. l \in Seq(WalkHashes) /\ ToSet(l) \subseteq ToSet(w) BY <1>9, <1>11, LackingType
  <1>13. Lacking(x, k) = IF h \in k THEN l ELSE Append(l, h) BY <1>7, <1>8, <1>9, <1>11, LackingAppend
  <1>14. unresolved = l BY <1>2, <1>5, <1>11 DEF WalkInv
  <1>15. /\ walked' = x /\ queue' = Tail(q) /\ visited' = v /\ known' = k /\ depth' = depth + 1
         /\ graph' = graph /\ walks' = walks /\ exhausted' = exhausted
         /\ todo' = IF h \in k THEN graph[h] ELSE {}
         /\ unresolved' = IF h \in k \/ h \in ToSet(l) THEN l ELSE Append(l, h)
    BY <1>1, <1>3, <1>4, <1>5, <1>6, <1>14 DEF Step, Seen
  <1>16. unresolved' = Lacking(walked', known') BY <1>8, <1>12, <1>13, <1>15
  <1>17. depth' = Len(walked') /\ depth' <= WALK_MAX_DEPTH
    <2>1. depth = Len(w) /\ depth < WALK_MAX_DEPTH BY <1>2 DEF WalkInv, Step
    <2> QED BY <1>9, <1>10, <1>15, <2>1, WalkAssumption
  <1>18. graph[h] \in SUBSET WalkHashes BY <1>8 DEF WalkInv
  <1>19. \A S \in SUBSET WalkHashes :
            Below(graph', known', S) => ToSet(visited') \subseteq S /\ todo' \subseteq S
    <2> SUFFICES ASSUME NEW S \in SUBSET WalkHashes, Below(graph', known', S)
                 PROVE  ToSet(visited') \subseteq S /\ todo' \subseteq S
      OBVIOUS
    <2>1. Below(graph, k, S) BY <1>15
    <2>2. ToSet(v) \subseteq S BY <1>5, <1>6, <2>1 DEF WalkInv
    <2>3. h \in k => graph[h] \subseteq S BY <1>8, <2>1, <2>2 DEF Below
    <2> QED BY <1>15, <2>2, <2>3
  <1>20. exhausted' \/ \A g \in ToSet(walked') \cap known' : graph'[g] \subseteq ToSet(visited') \cup todo'
    <2> SUFFICES ASSUME ~exhausted', NEW g \in ToSet(walked') \cap known'
                 PROVE  graph'[g] \subseteq ToSet(visited') \cup todo'
      OBVIOUS
    <2>1. g \in k /\ (g \in ToSet(w) \/ g = h) BY <1>10, <1>15
    <2>2. CASE g = h BY <1>15, <2>1, <2>2
    <2>3. CASE g \in ToSet(w)
      <3>1. todo = {} /\ ~exhausted BY <1>15 DEF Step
      <3>2. graph[g] \subseteq ToSet(v) \cup todo BY <1>2, <1>5, <1>6, <2>1, <2>3, <3>1 DEF WalkInv
      <3> QED BY <1>15, <3>1, <3>2
    <2> QED BY <2>1, <2>2, <2>3
  <1>21. todo' \in SUBSET WalkHashes BY <1>15, <1>18
  <1>22. Parted(walked', queue', visited') BY <1>8, <1>15
  <1>23. /\ graph' \in [WalkHashes -> SUBSET WalkHashes] /\ known' \in SUBSET WalkHashes
         /\ walks' \in Nat /\ exhausted' \in BOOLEAN /\ Once(visited') /\ Len(visited') <= WALK_MAX_TOTAL
         /\ walks' > 0 => Root \in ToSet(visited')
    BY <1>5, <1>6, <1>15 DEF WalkInv
  <1> QED BY <1>16, <1>17, <1>19, <1>20, <1>21, <1>22, <1>23 DEF WalkInv

\* A parent is pushed, refused, or was seen.
LEMMA PushKeeps == ASSUME WalkInv, NEW h \in WalkHashes, Push(h) PROVE WalkInv'
  <1>1. PICK v : v = visited OBVIOUS
  <1>2. PICK q : q = queue OBVIOUS
  <1>3. PICK w : w = walked OBVIOUS
  <1>4. Parted(w, q, v) /\ Once(v) /\ v \in Seq(WalkHashes) /\ Len(v) \in Nat
    BY <1>1, <1>2, <1>3 DEF WalkInv, Parted
  <1>5. /\ graph' = graph /\ known' = known /\ depth' = depth /\ unresolved' = unresolved /\ walked' = walked
        /\ walks' = walks /\ todo' = todo \ {h} /\ h \in todo
    BY DEF Push
  <1>6. /\ graph' \in [WalkHashes -> SUBSET WalkHashes] /\ known' \in SUBSET WalkHashes
        /\ todo' \in SUBSET WalkHashes /\ walks' \in Nat
        /\ depth' = Len(walked') /\ depth' <= WALK_MAX_DEPTH /\ unresolved' = Lacking(walked', known')
    BY <1>5 DEF WalkInv
  <1>7. CASE Len(visited) >= WALK_MAX_TOTAL
    <2>1. exhausted' = TRUE /\ queue' = queue /\ visited' = visited BY <1>7 DEF Push
    <2>2. \A S \in SUBSET WalkHashes :
            Below(graph', known', S) => ToSet(visited') \subseteq S /\ todo' \subseteq S
      BY <1>5, <2>1 DEF WalkInv
    <2>3. /\ Parted(walked', queue', visited') /\ Once(visited') /\ Len(visited') <= WALK_MAX_TOTAL
          /\ walks' > 0 => Root \in ToSet(visited')
      BY <1>5, <2>1 DEF WalkInv
    <2> QED BY <1>6, <2>1, <2>2, <2>3 DEF WalkInv
  <1>8. CASE ~(Len(visited) >= WALK_MAX_TOTAL) /\ h \in ToSet(visited)
    <2>1. exhausted' = exhausted /\ queue' = queue /\ visited' = visited BY <1>8 DEF Push, Taken, Seen
    <2>2. \A S \in SUBSET WalkHashes :
            Below(graph', known', S) => ToSet(visited') \subseteq S /\ todo' \subseteq S
      BY <1>5, <2>1 DEF WalkInv
    <2>3. /\ Parted(walked', queue', visited') /\ Once(visited') /\ Len(visited') <= WALK_MAX_TOTAL
          /\ walks' > 0 => Root \in ToSet(visited')
      BY <1>5, <2>1 DEF WalkInv
    <2>4. ToSet(visited') \cup todo' = ToSet(visited) \cup todo BY <1>5, <1>8, <2>1
    <2>5. exhausted' \/ \A g \in ToSet(walked') \cap known' : graph'[g] \subseteq ToSet(visited') \cup todo'
      BY <1>5, <2>1, <2>4 DEF WalkInv
    <2>6. exhausted' \in BOOLEAN BY <2>1 DEF WalkInv
    <2> QED BY <1>6, <2>2, <2>3, <2>5, <2>6 DEF WalkInv
  <1>9. CASE ~(Len(visited) >= WALK_MAX_TOTAL) /\ h \notin ToSet(visited)
    <2>1. exhausted' = exhausted /\ queue' = Append(q, h) /\ visited' = Append(v, h)
      BY <1>1, <1>2, <1>9 DEF Push, Taken, Seen
    <2>2. Parted(w, Append(q, h), Append(v, h)) /\ Len(Append(v, h)) = Len(v) + 1 /\ Once(Append(v, h))
      <3>1. h \notin ToSet(v) BY <1>1, <1>9
      <3> QED BY <1>4, <3>1, TailGrows
    <2>3. ToSet(visited') = ToSet(v) \cup {h} BY <1>4, <2>1, ToSetAppend
    <2>4. Len(visited') <= WALK_MAX_TOTAL
      BY <1>1, <1>4, <1>9, <2>1, <2>2, WalkAssumption
    <2>5. \A S \in SUBSET WalkHashes :
            Below(graph', known', S) => ToSet(visited') \subseteq S /\ todo' \subseteq S
      BY <1>1, <1>5, <2>3 DEF WalkInv
    <2>6. ToSet(visited') \cup todo' = ToSet(visited) \cup todo BY <1>1, <1>5, <2>3
    <2>7. exhausted' \/ \A g \in ToSet(walked') \cap known' : graph'[g] \subseteq ToSet(visited') \cup todo'
      BY <1>5, <2>1, <2>6 DEF WalkInv
    <2>8. exhausted' \in BOOLEAN /\ (walks' > 0 => Root \in ToSet(visited'))
      BY <1>1, <1>5, <2>1, <2>3 DEF WalkInv
    <2>9. Parted(walked', queue', visited') /\ Once(visited') BY <1>3, <1>5, <2>1, <2>2
    <2> QED BY <1>6, <2>4, <2>5, <2>7, <2>8, <2>9 DEF WalkInv
  <1> QED BY <1>7, <1>8, <1>9

\* The walk invariant holds in every state.
THEOREM WalkInvariant == WalkSpec => []WalkInv
  <1>1. WalkInit => WalkInv
    <2> SUFFICES ASSUME WalkInit PROVE WalkInv OBVIOUS
    <2>1. PICK e : e = <<>> OBVIOUS
    <2>2. queue = e /\ visited = e /\ walked = e /\ unresolved = e /\ todo = {} /\ depth = 0 /\ walks = 0
          /\ exhausted = FALSE /\ known = {}
      BY <2>1 DEF WalkInit
    <2>3. e \in Seq(WalkHashes) /\ Len(e) = 0 /\ ToSet(e) = {} BY <2>1 DEF ToSet
    <2>4. Parted(e, e, e) /\ Once(e) BY <2>3 DEF Parted, Once
    <2>5. Lacking(e, {}) = e BY <2>1, <2>3, LackingType
    <2>6. graph \in [WalkHashes -> SUBSET WalkHashes] BY DEF WalkInit
    <2>7. 0 <= WALK_MAX_TOTAL /\ 0 <= WALK_MAX_DEPTH BY WalkAssumption
    <2>8. \A S \in SUBSET WalkHashes : ToSet(visited) \subseteq S /\ todo \subseteq S BY <2>2, <2>3
    <2>9. ~(walks > 0) /\ walks \in Nat BY <2>2
    <2>10. \A h \in ToSet(walked) \cap known : graph[h] \subseteq ToSet(visited) \cup todo BY <2>2
    <2> QED BY <2>2, <2>3, <2>4, <2>5, <2>6, <2>7, <2>8, <2>9, <2>10 DEF WalkInv
  <1>2. WalkInv /\ [WalkNext]_walkVars => WalkInv'
    <2> SUFFICES ASSUME WalkInv, [WalkNext]_walkVars PROVE WalkInv' OBVIOUS
    <2>1. CASE Begin
      <3>1. graph' \in [WalkHashes -> SUBSET WalkHashes] BY <2>1, WalkAssumption DEF Begin, WalkHashes
      <3>2. known' \in SUBSET WalkHashes /\ walks' \in Nat /\ NewWalk BY <2>1 DEF Begin
      <3> QED BY <3>1, <3>2, NewWalkFacts
    <2>2. CASE Step BY <2>2, StepKeeps
    <2>3. ASSUME NEW h \in WalkHashes, Push(h) PROVE WalkInv' BY <2>3, PushKeeps
    <2>4. CASE Answer
      <3>1. PICK o : o = Oldest OBVIOUS
      <3>2. PICK k : k = known OBVIOUS
      <3>3. o \in Seq(WalkHashes)
        <4>1. MaxHash \in Nat BY WalkAssumption
        <4> QED BY <3>1, <4>1 DEF Oldest, WalkHashes
      <3>4. PICK r : r = Build(o, k) OBVIOUS
      <3>5. Filled(r, Lacking(o, k)) BY <3>3, <3>4, BuildFilled
      <3>6. ToSet(r.sent) \subseteq WalkHashes
        <4>1. r.sent \in Seq(WalkHashes) BY <3>5 DEF Filled, Response
        <4> QED BY <4>1 DEF ToSet
      <3>7. known' \in SUBSET WalkHashes BY <2>4, <3>1, <3>2, <3>4, <3>6 DEF Answer, WalkInv
      <3>8. graph' \in [WalkHashes -> SUBSET WalkHashes] /\ walks' \in Nat /\ NewWalk
        BY <2>4 DEF Answer, WalkInv
      <3> QED BY <3>7, <3>8, NewWalkFacts
    <2>5. CASE UNCHANGED walkVars BY <2>5 DEF walkVars, WalkInv
    <2>6. CASE Done BY <2>5, <2>6 DEF Done
    <2> QED BY <2>1, <2>2, <2>3, <2>4, <2>5, <2>6 DEF WalkNext
  <1> QED BY <1>1, <1>2, PTL DEF WalkSpec

\* BE-SYNC-02/03 for every history: a walk and a response say what WalkExact says.
THEOREM SyncWalkExact == WalkSpec => []WalkExact
  <1>1. WalkInv => WalkComplete
    <2> SUFFICES ASSUME WalkInv PROVE WalkComplete OBVIOUS
    <2>1. PICK v : v = visited OBVIOUS
    <2>2. PICK q : q = queue OBVIOUS
    <2>3. PICK w : w = walked OBVIOUS
    <2>4. Parted(w, q, v) /\ Once(v) /\ graph \in [WalkHashes -> SUBSET WalkHashes]
      BY <2>1, <2>2, <2>3 DEF WalkInv
    <2>5. /\ ToSet(w) \subseteq ToSet(v) /\ ToSet(v) \subseteq WalkHashes /\ IsPrefix(w, v)
          /\ q = <<>> => ToSet(w) = ToSet(v)
      BY <2>4, PartedFacts
    <2>6. DOMAIN v = 1 .. Len(v) BY <2>4 DEF Parted
    <2>7. IsInjective(v) BY <2>4, <2>6 DEF Once, IsInjective
    <2>8. /\ Reached \in SUBSET WalkHashes /\ Below(graph, known, Reached)
          /\ \A S \in SUBSET WalkHashes : Below(graph, known, S) => Reached \subseteq S
      BY <2>4, ReachedIsLeast
    <2>9. ToSet(v) \subseteq Reached BY <2>1, <2>8 DEF WalkInv
    <2>10. ASSUME Over, ~exhausted, queue = <<>> PROVE ToSet(walked) = Reached
      <3>1. todo = {} /\ walks > 0 BY <2>10 DEF Over
      <3>2. Root \in ToSet(v) BY <2>1, <3>1 DEF WalkInv
      <3>3. ToSet(w) = ToSet(v) BY <2>2, <2>5, <2>10
      <3>4. \A h \in ToSet(w) \cap known : graph[h] \subseteq ToSet(v)
        BY <2>1, <2>3, <2>10, <3>1 DEF WalkInv
      <3>5. Below(graph, known, ToSet(v)) BY <3>2, <3>3, <3>4 DEF Below
      <3> QED BY <2>3, <2>5, <2>8, <2>9, <3>3, <3>5
    <2>11. Len(visited) <= WALK_MAX_TOTAL /\ depth = Len(walked) /\ depth <= WALK_MAX_DEPTH
           /\ unresolved = Lacking(walked, known)
      BY DEF WalkInv
    <2> QED BY <2>1, <2>3, <2>5, <2>7, <2>9, <2>10, <2>11 DEF WalkComplete
  <1>2. ResponseExact BY ResponseAlwaysExact
  <1>3. WalkInv => WalkExact BY <1>1, <1>2 DEF WalkExact
  <1> QED BY <1>3, WalkInvariant, PTL

-----------------------------------------------------------------------------
(* The verdicts on a claim.                                                *)

\* The values of a ceiling.
Ceilings == {0, 165, 191, 216, 242}

\* The span found for an id, and those for the first n cited ids.
Hits(id) == {s \in MatchSpan(id) : Matches(s)}
Found(n) == UNION {Hits(cites[k]) : k \in 1 .. n}

\* A span that still backs the claim.
Backing(s) == origin[s.origin] = "effect" /\ ~(IsVolatile(s.volatility) /\ s.origin \in superseded)

Missing(S) == \E s \in S : origin[s.origin] = "absent"

\* n is the strongest ceiling among S, or 0.
Tops(n, S) ==
    /\ n \in Ceilings
    /\ n = 0 \/ \E s \in S : Backing(s) /\ Ceiling(s.method) = n
    /\ \A s \in S : Backing(s) => Ceiling(s.method) <= n

\* An accumulator of the loop.
Tally(n, b) == [strongest |-> n, unresolved |-> b]

\* Every method has a ceiling, and it is not 0.
LEMMA CeilingType == \A m : Ceiling(m) \in Ceilings /\ Ceiling(m) > 0
  BY DEF Ceiling, Ceilings

\* The largest of some ceilings.
LEMMA MaxCeiling ==
  ASSUME NEW S, S \subseteq Ceilings, S # {}
  PROVE  Max(S) \in S /\ \A y \in S : y <= Max(S)
  <1>1. \E x \in S : \A y \in S : x >= y
    <2>1. \A y \in S : y \in {0, 165, 191, 216, 242} BY DEF Ceilings
    <2>2. CASE 242 \in S BY <2>1, <2>2
    <2>3. CASE 242 \notin S /\ 216 \in S BY <2>1, <2>3
    <2>4. CASE 242 \notin S /\ 216 \notin S /\ 191 \in S BY <2>1, <2>4
    <2>5. CASE 242 \notin S /\ 216 \notin S /\ 191 \notin S /\ 165 \in S BY <2>1, <2>5
    <2>6. CASE 242 \notin S /\ 216 \notin S /\ 191 \notin S /\ 165 \notin S BY <2>1, <2>6
    <2> QED BY <2>2, <2>3, <2>4, <2>5, <2>6
  <1>2. Max(S) \in S /\ \A y \in S : Max(S) >= y
    BY <1>1, Zenon DEF Max
  <1>3. S \subseteq Nat BY DEF Ceilings
  <1> QED BY <1>2, <1>3

\* It is the only one that tops them.
LEMMA TopsIsMax ==
  ASSUME NEW S, NEW n, Tops(n, S),
         NEW T, T = {0} \cup {Ceiling(s.method) : s \in {x \in S : Backing(x)}}
  PROVE  Max(T) = n
  <1>1. T \subseteq Ceilings /\ T # {} /\ 0 \in T BY CeilingType DEF Ceilings
  <1>2. n \in T BY DEF Tops
  <1>3. n \in Nat /\ T \subseteq Nat BY <1>1, <1>2 DEF Ceilings
  <1>4. \A y \in T : y <= n BY <1>3 DEF Tops
  <1>5. Max(T) \in T /\ \A y \in T : y <= Max(T) BY <1>1, MaxCeiling
  <1> QED BY <1>2, <1>3, <1>4, <1>5

\* One turn of the loop.
LEMMA CiteTops ==
  ASSUME NEW n, NEW S, Tops(n, S), NEW id
  PROVE  \E m : Tops(m, S \cup Hits(id)) /\ Cite(Tally(n, Missing(S)), id) = Tally(m, Missing(S \cup Hits(id)))
  <1>a. PICK T : T = Hits(id) OBVIOUS
  <1>b. PICK b \in BOOLEAN : b = Missing(S) BY DEF Missing
  <1> DEFINE X == {n} \cup {Ceiling(s.method) : s \in {x \in T : Backing(x)}}
  <1>1. X \subseteq Ceilings /\ X # {} BY CeilingType DEF Tops
  <1>2. Max(X) \in X /\ \A y \in X : y <= Max(X) BY <1>1, MaxCeiling
  <1>3. X \subseteq Nat /\ n \in X BY <1>1 DEF Ceilings
  <1>4. PICK m : m = Max(X) OBVIOUS
  <1>5. Tops(m, S \cup T)
    <2>1. m \in Ceilings BY <1>1, <1>2, <1>4
    <2>2. m = 0 \/ \E s \in S \cup T : Backing(s) /\ Ceiling(s.method) = m
      BY <1>2, <1>4 DEF Tops
    <2>3. ASSUME NEW s \in S \cup T, Backing(s) PROVE Ceiling(s.method) <= m
      <3>1. CASE s \in S
        <4>1. Ceiling(s.method) <= n /\ n <= m BY <1>2, <1>3, <1>4, <2>3, <3>1 DEF Tops
        <4>2. Ceiling(s.method) \in Nat /\ n \in Nat /\ m \in Nat
          BY <1>3, <2>1, CeilingType DEF Ceilings
        <4> QED BY <4>1, <4>2
      <3>2. CASE s \in T
        <4>1. Ceiling(s.method) \in X BY <2>3, <3>2
        <4> QED BY <1>2, <1>4, <4>1
      <3> QED BY <3>1, <3>2
    <2> QED BY <2>1, <2>2, <2>3 DEF Tops
  <1>6. Cite(Tally(n, b), id) = Tally(m, Missing(S \cup T))
    <2>1. PICK a : a = Tally(n, b) OBVIOUS
    <2>2. a.strongest = n /\ a.unresolved = b BY <2>1 DEF Tally
    <2>3. X = {a.strongest} \cup {Ceiling(s.method) : s \in {s \in T : origin[s.origin] = "effect" /\
                                  ~(IsVolatile(s.volatility) /\ s.origin \in superseded)}}
      BY <2>2 DEF Backing
    <2>4. (a.unresolved \/ \E s \in T : origin[s.origin] = "absent") <=> Missing(S \cup T)
      BY <1>b, <2>2 DEF Missing
    <2>5. PICK u \in BOOLEAN : u = (a.unresolved \/ \E s \in T : origin[s.origin] = "absent")
      OBVIOUS
    <2>6. u = Missing(S \cup T) BY <2>4, <2>5 DEF Missing
    <2>7. Cite(a, id) = [strongest |-> Max(X), unresolved |-> u]
      <3>1. Cite(a, id) = [strongest |-> Max({a.strongest} \cup
             {Ceiling(s.method) : s \in {s \in T : origin[s.origin] = "effect" /\
                                  ~(IsVolatile(s.volatility) /\ s.origin \in superseded)}}),
           unresolved |-> a.unresolved \/ \E s \in T : origin[s.origin] = "absent"]
        BY <1>a, Zenon DEF Cite, Hits
      <3> QED BY <2>3, <2>5, <3>1, Zenon
    <2> QED BY <1>4, <2>1, <2>6, <2>7 DEF Tally
  <1> QED BY <1>a, <1>b, <1>5, <1>6

\* What the loop has made of the first n cited ids.
Gathered(after, N) ==
    after = [n \in 0 .. N |-> IF n = 0 THEN [strongest |-> 0, unresolved |-> FALSE]
                              ELSE Cite(after[n - 1], cites[n])]

\* There is such a function.
LEMMA GatheredExists ==
  ASSUME NEW N \in Nat PROVE \E after : Gathered(after, N)
  <1> DEFINE T == {n \in Nat : ~ \E r : Gathered(r, n)}
  <1> SUFFICES ASSUME T # {} PROVE FALSE OBVIOUS
  <1>1. PICK m \in T : \A k \in T : m <= k
    <2>1. T \in SUBSET Nat OBVIOUS
    <2> QED BY <2>1, LeastNatural
  <1>2. CASE m = 0
    <2> DEFINE r == [n \in 0 .. 0 |-> [strongest |-> 0, unresolved |-> FALSE]]
    <2>1. \A n \in 0 .. 0 : n = 0 OBVIOUS
    <2>2. r = [n \in 0 .. 0 |-> IF n = 0 THEN [strongest |-> 0, unresolved |-> FALSE]
                                ELSE Cite(r[n - 1], cites[n])]
      BY <2>1
    <2>3. Gathered(r, 0) BY <2>2, Zenon DEF Gathered
    <2> QED BY <1>1, <1>2, <2>3
  <1>3. CASE m # 0
    <2>1. m - 1 \in Nat /\ m \in Nat /\ ~(m <= m - 1) BY <1>1, <1>3
    <2>2. PICK q : Gathered(q, m - 1) BY <1>1, <2>1
    <2> DEFINE v(f, n) == IF n = 0 THEN [strongest |-> 0, unresolved |-> FALSE]
                          ELSE Cite(f[n - 1], cites[n])
               r == [n \in 0 .. m |-> v(q, n)]
    <2>3. \A n \in 0 .. m - 1 : n \in 0 .. m /\ r[n] = q[n]
      <3> SUFFICES ASSUME NEW n \in 0 .. m - 1 PROVE n \in 0 .. m /\ r[n] = q[n] OBVIOUS
      <3>1. n \in 0 .. m BY <2>1
      <3> QED BY <2>2, <3>1, Zenon DEF Gathered
    <2>4. \A n \in 0 .. m : n # 0 => n - 1 \in 0 .. m - 1 BY <2>1
    <2>5. \A n \in 0 .. m : r[n] = v(r, n)
      <3> SUFFICES ASSUME NEW n \in 0 .. m PROVE r[n] = v(r, n) OBVIOUS
      <3>1. r[n] = v(q, n) BY Zenon
      <3> HIDE DEF r
      <3>2. CASE n = 0 BY <3>1, <3>2
      <3>3. CASE n # 0
        <4>1. r[n - 1] = q[n - 1] BY <2>3, <2>4, <3>3
        <4> QED BY <3>1, <4>1
      <3> QED BY <3>2, <3>3
    <2>6. r = [n \in 0 .. m |-> r[n]] OBVIOUS
    <2> HIDE DEF r
    <2>7. Gathered(r, m) BY <2>5, <2>6, Zenon DEF Gathered
    <2> QED BY <1>1, <2>7
  <1> QED BY <1>2, <1>3

\* After n ids the accumulator holds the strongest ceiling of what was found for them.
LEMMA LoopTops ==
  ASSUME NEW N \in Nat, NEW after, Gathered(after, N)
  PROVE  \E m : Tops(m, Found(N)) /\ after[N] = Tally(m, Missing(Found(N)))
  <1> DEFINE Good(n) == \E m : Tops(m, Found(n)) /\ after[n] = Tally(m, Missing(Found(n)))
             T == {n \in 0 .. N : ~Good(n)}
  <1>1. T = {}
    <2> SUFFICES ASSUME T # {} PROVE FALSE OBVIOUS
    <2>1. PICK n \in T : \A k \in T : n <= k
      <3>1. T \in SUBSET Nat OBVIOUS
      <3> QED BY <3>1, LeastNatural
    <2>2. CASE n = 0
      <3>1. Found(0) = {}
        <4>1. 1 .. 0 = {} OBVIOUS
        <4> QED BY <4>1 DEF Found
      <3>2. after[0] = [strongest |-> 0, unresolved |-> FALSE]
        <4>1. 0 \in 0 .. N OBVIOUS
        <4> QED BY <4>1, Zenon DEF Gathered
      <3>3. Tops(0, {}) BY DEF Tops, Ceilings
      <3>4. Missing({}) = FALSE BY DEF Missing
      <3>5. after[0] = Tally(0, Missing({})) BY <3>2, <3>4 DEF Tally
      <3> QED BY <2>1, <2>2, <3>1, <3>3, <3>5
    <2>3. CASE n # 0
      <3>1. n \in 1 .. N /\ n - 1 \in 0 .. N /\ ~(n <= n - 1) /\ n \in 0 .. N BY <2>1, <2>3
      <3>2. PICK m : Tops(m, Found(n - 1)) /\ after[n - 1] = Tally(m, Missing(Found(n - 1)))
        BY <2>1, <3>1
      <3>3. after[n] = Cite(after[n - 1], cites[n])
        BY <2>3, <3>1, Zenon DEF Gathered
      <3>4. PICK S : S = Found(n - 1) OBVIOUS
      <3>5. PICK E : E = Hits(cites[n]) OBVIOUS
      <3>6. Found(n) = S \cup E
        <4>1. \A k : k \in 1 .. n <=> k \in 1 .. n - 1 \/ k = n BY <3>1
        <4> QED BY <3>4, <3>5, <4>1, Zenon DEF Found
      <3>8. \E x : Tops(x, S \cup E) /\ Cite(Tally(m, Missing(S)), cites[n]) = Tally(x, Missing(S \cup E))
        BY <3>2, <3>4, <3>5, CiteTops
      <3>9. Good(n) BY <3>2, <3>3, <3>4, <3>6, <3>8
      <3> QED BY <2>1, <3>9
    <2> QED BY <2>2, <2>3
  <1>2. N \in 0 .. N OBVIOUS
  <1> QED BY <1>1, <1>2

\* What the ids find is what they cite.
LEMMA FoundIsProper ==
  ASSUME NEW N \in Nat, DOMAIN inline = 1 .. N, Len(cites) \in Nat
  PROVE  Found(Len(cites)) = Proper
  <1>1. ASSUME NEW s \in Found(Len(cites)) PROVE s \in Proper
    <2>1. PICK k \in 1 .. Len(cites) : s \in MatchSpan(cites[k]) /\ Matches(s) BY <1>1 DEF Found, Hits
    <2>2. PICK j \in 1 .. N : /\ inline[j] = s /\ inline[j].id = cites[k]
                              /\ \A i \in 1 .. N : inline[i].id = cites[k] => j <= i
      BY <2>1 DEF MatchSpan
    <2>3. Contains(cites, inline[j].id) BY <2>2 DEF Contains
    <2>4. ASSUME NEW i \in 1 .. j - 1 PROVE inline[i].id # inline[j].id
      <3>1. i \in 1 .. N /\ ~(j <= i) OBVIOUS
      <3> QED BY <2>2, <3>1
    <2>5. s \in Cited BY <2>2, <2>3, <2>4 DEF Cited
    <2> QED BY <2>1, <2>5 DEF Proper, Matches, SpanSupportable
  <1>2. ASSUME NEW s \in Proper PROVE s \in Found(Len(cites))
    <2>1. s \in Cited /\ Matches(s) BY <1>2 DEF Proper, Matches, SpanSupportable
    <2>2. PICK j \in 1 .. N : /\ inline[j] = s /\ Contains(cites, s.id)
                              /\ \A i \in 1 .. j - 1 : inline[i].id # s.id
      BY <2>1 DEF Cited
    <2>3. PICK k \in 1 .. Len(cites) : cites[k] = s.id BY <2>2 DEF Contains
    <2>4. ASSUME NEW i \in 1 .. N, inline[i].id = s.id PROVE j <= i
      <3>1. i \in 1 .. j - 1 \/ j <= i OBVIOUS
      <3> QED BY <2>2, <2>4, <3>1
    <2>5. s \in MatchSpan(cites[k]) BY <2>2, <2>3, <2>4 DEF MatchSpan
    <2> QED BY <2>1, <2>3, <2>5 DEF Found, Hits
  <1> QED BY <1>1, <1>2

\* The fields of a claim, and what is known of every origin.
ClaimInv ==
    /\ inline \in Seq(Spans) /\ cites \in Seq(SpanIds) /\ stated \in Nat
    /\ origin \in [Origins -> {"absent", "effect", "other"}]

\* A verdict: is there support, how strong, and is any origin missing.
Verdict(some, n, lost, q) ==
    IF some THEN [st |-> "supported", q8 |-> EffectiveConfidence(q, n), pending |-> lost]
    ELSE [st |-> IF lost THEN "unresolved" ELSE "unsupported", q8 |-> 0, pending |-> lost]

\* The verdict goes by the set of cited spans.
Reckoned ==
    \E n : /\ Tops(n, Proper) /\ Strength = n /\ (n > 0 <=> Support # {})
           /\ ResolveClaim = Verdict(n > 0, n, Missing(Proper), stated)

\* Every verdict does.
LEMMA ClaimReckoned == ClaimInv => Reckoned
  <1> SUFFICES ASSUME ClaimInv PROVE Reckoned OBVIOUS
  <1>1. PICK N : N = Len(cites) OBVIOUS
  <1>2. N \in Nat /\ Len(inline) \in Nat /\ DOMAIN inline = 1 .. Len(inline)
    BY <1>1 DEF ClaimInv
  <1>3. PICK after : after = CHOOSE r : Gathered(r, N) OBVIOUS
  <1>4. Gathered(after, N) BY <1>2, <1>3, GatheredExists
  <1>5. PICK n : Tops(n, Found(N)) /\ after[N] = Tally(n, Missing(Found(N)))
    BY <1>2, <1>4, LoopTops
  <1>6. Found(N) = Proper BY <1>1, <1>2, FoundIsProper
  <1>7. PICK b \in BOOLEAN : b = Missing(Proper) BY DEF Missing
  <1>8. Tops(n, Proper) /\ after[N] = Tally(n, b) BY <1>5, <1>6, <1>7
  <1>9. PICK a : a = after[N] OBVIOUS
  <1>10. a.strongest = n /\ a.unresolved = b BY <1>8, <1>9 DEF Tally
  <1>11. Support = {x \in Proper : Backing(x)} BY DEF Support, Backing, IsVolatile
  <1>12. Strength = n
    <2>1. \A s : Ceiling(s.method) = IF s.method \in 1 .. 4 THEN 242 ELSE IF s.method = 7 THEN 216
                                     ELSE IF s.method \in {5, 6} THEN 191 ELSE 165
      <3> SUFFICES ASSUME NEW m
                   PROVE  Ceiling(m) = IF m \in 1 .. 4 THEN 242 ELSE IF m = 7 THEN 216
                                       ELSE IF m \in {5, 6} THEN 191 ELSE 165
        OBVIOUS
      <3>1. 5 .. 6 = {5, 6} OBVIOUS
      <3>2. CASE m \in 1 .. 4 \/ m \in 5 .. 6 \/ m = 7 BY <3>1, <3>2 DEF Ceiling
      <3>3. CASE ~(m \in 1 .. 4 \/ m \in 5 .. 6 \/ m = 7) BY <3>1, <3>3 DEF Ceiling
      <3> QED BY <3>2, <3>3
    <2>2. Strength = Max({0} \cup {Ceiling(s.method) : s \in {x \in Proper : Backing(x)}})
      <3>1. {Ceiling(s.method) : s \in Support} =
              {IF s.method \in 1 .. 4 THEN 242 ELSE IF s.method = 7 THEN 216
               ELSE IF s.method \in {5, 6} THEN 191 ELSE 165 : s \in Support}
        BY <2>1
      <3>2. Strength = Max({0} \cup {Ceiling(s.method) : s \in Support})
        BY <3>1, Zenon DEF Strength
      <3> QED BY <1>11, <3>2
    <2> QED BY <1>8, <2>2, TopsIsMax
  <1>13. n > 0 <=> Support # {}
    <2>1. n \in Nat BY <1>8 DEF Tops, Ceilings
    <2>2. \A m : Ceiling(m) \in Nat /\ Ceiling(m) > 0 BY CeilingType DEF Ceilings
    <2> QED BY <1>8, <1>11, <2>1, <2>2 DEF Tops
  <1>14. ResolveClaim = IF a.strongest > 0
              THEN [st |-> "supported", q8 |-> EffectiveConfidence(stated, a.strongest), pending |-> a.unresolved]
              ELSE [st |-> IF a.unresolved THEN "unresolved" ELSE "unsupported", q8 |-> 0, pending |-> a.unresolved]
    BY <1>1, <1>3, <1>9, Zenon DEF ResolveClaim, Gathered
  <1>15. ResolveClaim = Verdict(n > 0, n, b, stated)
    BY <1>10, <1>14, Zenon DEF Verdict
  <1> QED BY <1>7, <1>8, <1>12, <1>13, <1>15 DEF Reckoned

\* Every step keeps the fields in their ranges.
LEMMA ClaimStepKeeps == ClaimInv /\ [ClaimNext]_evidenceVars => ClaimInv'
  <1> SUFFICES ASSUME ClaimInv, [ClaimNext]_evidenceVars PROVE ClaimInv' OBVIOUS
  <1> USE DEF ClaimInv
  <1>1. CASE UNCHANGED evidenceVars BY <1>1 DEF evidenceVars
  <1>2. CASE Receive
    <2>1. MaxSpans \in Nat /\ MaxCites \in Nat BY ClaimAssumption
    <2>2. inline' \in Seq(Spans)
      <3>1. inline' \in SeqOf(Spans, MaxSpans) BY <1>2 DEF Receive
      <3>2. PICK m \in 0 .. MaxSpans : inline' \in [1 .. m -> Spans] BY <3>1 DEF SeqOf
      <3> QED BY <2>1, <3>2
    <2>3. cites' \in Seq(SpanIds)
      <3>1. cites' \in SeqOf(SpanIds, MaxCites) BY <1>2 DEF Receive
      <3>2. PICK m \in 0 .. MaxCites : cites' \in [1 .. m -> SpanIds] BY <3>1 DEF SeqOf
      <3> QED BY <2>1, <3>2
    <2>4. stated' \in Nat BY <1>2, ClaimAssumption DEF Receive
    <2> QED BY <1>2, <2>2, <2>3, <2>4 DEF Receive
  <1>3. ASSUME NEW o \in Origins, NEW kind \in {"effect", "other"}, Backfill(o, kind) PROVE ClaimInv'
    BY <1>3 DEF Backfill
  <1>4. ASSUME NEW o \in Origins, Supersede(o) PROVE ClaimInv'
    BY <1>4 DEF Supersede
  <1>5. CASE Forget
    <2>1. <<>> \in Seq(Spans) /\ <<>> \in Seq(SpanIds) OBVIOUS
    <2> QED BY <1>5, <2>1 DEF Forget
  <1> QED BY <1>1, <1>2, <1>3, <1>4, <1>5 DEF ClaimNext

\* For any spans, ids and origins: the fields of a claim stay in their ranges.
THEOREM ClaimInvariant == ClaimSpec => []ClaimInv
  <1>1. ClaimInit => ClaimInv
    <2>1. <<>> \in Seq(Spans) /\ <<>> \in Seq(SpanIds) OBVIOUS
    <2> QED BY <2>1 DEF ClaimInit, ClaimInv
  <1> QED BY <1>1, ClaimStepKeeps, PTL DEF ClaimSpec

\* An absent origin that comes takes no support away, and gives some only to a claim
\* whose verdict was pending.
LEMMA BackfillAdds ==
  ASSUME ClaimInv, NEW o \in Origins, NEW kind \in {"effect", "other"}, Backfill(o, kind)
  PROVE  /\ Proper' = Proper /\ stated' = stated /\ Support \subseteq Support'
         /\ ~Missing(Proper) => Support' = Support /\ ~Missing(Proper)'
  <1>1. inline' = inline /\ cites' = cites /\ superseded' = superseded /\ stated' = stated
    BY DEF Backfill
  <1>2. Proper' = Proper
    <2>1. Cited' = Cited BY <1>1 DEF Cited
    <2> QED BY <2>1 DEF Proper
  <1>3. origin[o] = "absent" /\ \A x : x # o /\ x \in Origins => origin'[x] = origin[x]
    BY DEF Backfill, ClaimInv
  <1>4. \A s \in Proper : s.origin \in Origins
    <2>1. \A s \in Cited : s \in Spans BY DEF Cited, ClaimInv
    <2> QED BY <2>1, ClaimAssumption DEF Proper
  <1>5. ASSUME NEW s \in Support PROVE s \in Support'
    <2>1. s \in Proper /\ origin[s.origin] = "effect" BY DEF Support
    <2>2. s.origin # o /\ s.origin \in Origins BY <1>3, <1>4, <2>1
    <2>3. origin'[s.origin] = "effect" BY <1>3, <2>1, <2>2
    <2> QED BY <1>1, <1>2, <1>5, <2>1, <2>3 DEF Support
  <1>6. ASSUME ~Missing(Proper) PROVE Support' = Support /\ ~Missing(Proper)'
    <2>1. \A s \in Proper : origin'[s.origin] = origin[s.origin] /\ origin[s.origin] # "absent"
      BY <1>3, <1>4, <1>6 DEF Missing
    <2>2. ~Missing(Proper)' BY <1>2, <2>1 DEF Missing
    <2>3. Support' = Support BY <1>1, <1>2, <2>1 DEF Support
    <2> QED BY <2>2, <2>3
  <1> QED BY <1>1, <1>2, <1>5, <1>6

\* A verdict in parts.
LEMMA VerdictParts ==
  ASSUME NEW n, n \in Ceilings, NEW q \in Nat, NEW lost \in BOOLEAN, NEW v, v = Verdict(n > 0, n, lost, q)
  PROVE  /\ v.st = "supported" <=> n > 0
         /\ v.q8 = IF q <= n THEN q ELSE n
         /\ v.pending = lost
         /\ v.st = "unresolved" => lost
  <1>1. n \in Nat BY DEF Ceilings
  <1>2. CASE n > 0
    <2>1. v = [st |-> "supported", q8 |-> EffectiveConfidence(q, n), pending |-> lost]
      BY <1>2 DEF Verdict
    <2> QED BY <1>2, <2>1 DEF EffectiveConfidence
  <1>3. CASE ~(n > 0)
    <2>1. PICK x : x = IF lost THEN "unresolved" ELSE "unsupported" OBVIOUS
    <2>2. v = [st |-> x, q8 |-> 0, pending |-> lost] BY <1>3, <2>1 DEF Verdict
    <2>3. v.st = x /\ v.q8 = 0 /\ v.pending = lost BY <2>2
    <2> QED BY <1>1, <1>3, <2>1, <2>3
  <1> QED BY <1>2, <1>3

\* The smaller of two numbers.
LEMMA MinTwo ==
  ASSUME NEW x \in Nat, NEW y \in Nat PROVE Min({x, y}) = IF x <= y THEN x ELSE y
  <1>1. \E z \in {x, y} : \A u \in {x, y} : z <= u OBVIOUS
  <1>2. Min({x, y}) \in {x, y} /\ \A u \in {x, y} : Min({x, y}) <= u
    BY <1>1, Zenon DEF Min
  <1> QED BY <1>2

\* A step from one verdict to the next.
LEMMA VerdictStep == ClaimInv /\ Reckoned /\ ClaimInv' /\ Reckoned' /\ [ClaimNext]_evidenceVars
                        => [VerdictFollows]_evidenceVars
  <1> SUFFICES ASSUME ClaimInv, Reckoned, ClaimInv', Reckoned', ClaimNext
               PROVE  VerdictFollows
    OBVIOUS
  <1>1. PICK v : v = ResolveClaim OBVIOUS
  <1>2. PICK w : w = ResolveClaim' OBVIOUS
  <1>3. PICK n : /\ Tops(n, Proper) /\ (n > 0 <=> Support # {})
                 /\ v = Verdict(n > 0, n, Missing(Proper), stated)
    BY <1>1 DEF Reckoned
  <1>4. PICK m : /\ Tops(m, Proper)' /\ Strength' = m /\ (m > 0 <=> Support' # {})
                 /\ w = Verdict(m > 0, m, Missing(Proper)', stated')
    BY <1>2 DEF Reckoned, Verdict
  <1>5. stated \in Nat /\ stated' \in Nat BY DEF ClaimInv
  <1>6. n \in Ceilings /\ m \in Ceilings BY <1>3, <1>4 DEF Tops
  <1>7. n \in Nat /\ m \in Nat BY <1>6 DEF Ceilings
  <1>8. PICK a \in BOOLEAN : a = Missing(Proper) BY DEF Missing
  <1>9. PICK b \in BOOLEAN : b = Missing(Proper)' BY DEF Missing
  <1>10. /\ v.q8 = IF stated <= n THEN stated ELSE n
         /\ v.pending = a
    BY <1>3, <1>5, <1>6, <1>8, VerdictParts
  <1>11. /\ w.st = "supported" <=> m > 0
         /\ w.q8 = IF stated' <= m THEN stated' ELSE m
         /\ w.pending = b
         /\ w.st = "unresolved" => b
    BY <1>4, <1>5, <1>6, <1>9, VerdictParts
  <1>12. w.q8 = Min({stated', Strength'})
    BY <1>4, <1>5, <1>7, <1>11, MinTwo
  <1>13. b <=> \E s \in Proper' : origin'[s.origin] = "absent"
    BY <1>9 DEF Missing
  <1>14. ASSUME NEW o \in Origins, origin[o] = "absent", origin'[o] # "absent"
         PROVE  w.q8 >= v.q8 /\ (~v.pending => w = v)
    <2>1. \E x \in Origins, kind \in {"effect", "other"} : Backfill(x, kind)
      BY <1>14 DEF ClaimNext, Receive, Supersede, Forget
    <2>2. /\ Proper' = Proper /\ stated' = stated /\ Support \subseteq Support'
          /\ ~Missing(Proper) => Support' = Support /\ ~Missing(Proper)'
      BY <2>1, BackfillAdds
    <2>3. \A s \in Proper : Backing(s) <=> s \in Support
      BY DEF Support, Backing, IsVolatile
    <2>4. \A s \in Proper : Backing(s)' <=> s \in Support'
      BY <2>2 DEF Support, Backing, IsVolatile
    <2>5. n <= m
      <3>1. CASE n = 0 BY <1>7, <3>1
      <3>2. CASE n # 0
        <4>1. PICK s \in Proper : Backing(s) /\ Ceiling(s.method) = n BY <1>3, <3>2 DEF Tops
        <4>2. Backing(s)' BY <2>2, <2>3, <2>4, <4>1
        <4> QED BY <1>4, <2>2, <4>1, <4>2 DEF Tops
      <3> QED BY <3>1, <3>2
    <2>6. w.q8 >= v.q8 BY <1>5, <1>7, <1>10, <1>11, <2>2, <2>5
    <2>7. ASSUME ~v.pending PROVE w = v
      <3>1. ~Missing(Proper) BY <1>8, <1>10, <2>7
      <3>2. Support' = Support /\ ~Missing(Proper)' BY <2>2, <3>1
      <3>3. a = FALSE /\ b = FALSE BY <1>8, <1>9, <3>1, <3>2
      <3>4. m <= n
        <4>1. CASE m = 0 BY <1>7, <4>1
        <4>2. CASE m # 0
          <5>1. PICK s \in Proper : Backing(s)' /\ Ceiling(s.method) = m BY <1>4, <2>2, <4>2 DEF Tops
          <5>2. Backing(s) BY <2>3, <2>4, <3>2, <5>1
          <5> QED BY <1>3, <5>1, <5>2 DEF Tops
        <4> QED BY <4>1, <4>2
      <3>5. m = n BY <1>7, <2>5, <3>4
      <3>6. w = Verdict(m > 0, m, b, stated') /\ v = Verdict(n > 0, n, a, stated)
        BY <1>3, <1>4, <1>8, <1>9 DEF Verdict
      <3> QED BY <2>2, <3>3, <3>5, <3>6
    <2> QED BY <2>6, <2>7
  <1>15. VerdictFollows
    BY <1>1, <1>2, <1>4, <1>11, <1>12, <1>13, <1>14 DEF VerdictFollows
  <1> QED BY <1>15

\* For any spans and any bounds on spans and citations: a verdict is the strongest support among the
\* cited spans whatever their order, no backfill takes support away, and only a verdict
\* that said so is changed by one.
THEOREM ClaimEvidenceExact == ClaimSpec => EvidenceExact
  BY ClaimInvariant, ClaimReckoned, VerdictStep, PTL DEF ClaimSpec, EvidenceExact
=============================================================================
