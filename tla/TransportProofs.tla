--------------------------- MODULE TransportProofs ---------------------------
(***************************************************************************)
(* Theorems about the tables of the transport: the request budgets of      *)
(* sync.rs, the fragment accounting of reassembly.rs, the relay's store    *)
(* (relay_store.rs) and routes (relay.rs), the endpoints (listener.rs) and *)
(* the parsers (codec.rs).                                                 *)
(***************************************************************************)
EXTENDS Reassembly, RateTable, RelayStore, RelayMesh, Codec, DataLemmas, SequenceTheorems

-----------------------------------------------------------------------------
(* The budgets.                                                            *)

\* The k-th admission of history h; a place before the first is an unused stamp.
At(h, k) == IF k >= 1 THEN h[k] ELSE 0

\* The admission that place i of a ring with next place x holds, after n admissions.
Place(n, x, i) == n - x + i + 1 - (IF i < x THEN 0 ELSE BUDGET)

\* The ring w holds the last BUDGET admissions of h, the oldest at its next place.
RingOf(w, h) ==
    /\ w.next \in 0 .. BUDGET - 1
    /\ w.stamps \in [0 .. BUDGET - 1 -> Nat]
    /\ \A i \in 0 .. BUDGET - 1 : w.stamps[i] = At(h, Place(Len(h), w.next, i))

\* Admissions come in the order of the clock t, and BUDGET of them take a window.
Spaced(h, t) ==
    /\ h \in Seq(Nat)
    /\ \A k \in 1 .. Len(h) : h[k] \in 1 .. t
    /\ \A j, k \in 1 .. Len(h) : j <= k => h[j] <= h[k]
    /\ \A k \in 1 .. Len(h) - BUDGET : h[k + BUDGET] - h[k] >= RATE_WINDOW

RateInv ==
    /\ time \in Nat /\ time >= 1
    /\ DOMAIN rows \subseteq Peers
    /\ DOMAIN admitted = Peers /\ admitted = [p \in Peers |-> admitted[p]]
    /\ \A p \in Peers : Spaced(admitted[p], time)
    /\ \A p \in DOMAIN rows : RingOf(rows[p], admitted[p])
    /\ \A p \in Peers \ DOMAIN rows : admitted[p] = <<>>

\* A set within an interval of n numbers has n of them exactly when it has them all.
LEMMA FillsInterval ==
    ASSUME NEW a \in Int, NEW b \in Int, NEW n \in Nat, b - a + 1 = n, NEW S, S \subseteq a .. b
    PROVE  /\ IsFiniteSet(S) /\ Cardinality(S) \in Nat /\ Cardinality(S) <= n
           /\ Cardinality(S) < n <=> S # a .. b
  <1>1. IsFiniteSet(a .. b) /\ Cardinality(a .. b) = n
    <2>1. IsFiniteSet(a .. b) /\ Cardinality(a .. b) = IF a > b THEN 0 ELSE b - a + 1
      BY FS_Interval
    <2> QED BY <2>1
  <1>2. /\ IsFiniteSet(S) /\ Cardinality(S) <= Cardinality(a .. b)
        /\ Cardinality(S) = Cardinality(a .. b) => S = a .. b
    BY <1>1, FS_Subset
  <1>3. Cardinality(S) \in Nat
    BY <1>2, FS_CardinalityType
  <1> QED BY <1>1, <1>2, <1>3

\* A set of places of a ring has BUDGET of them exactly when it has them all.
LEMMA FillsRing ==
    ASSUME NEW S, S \subseteq 0 .. BUDGET - 1
    PROVE  Cardinality(S) < BUDGET <=> S # 0 .. BUDGET - 1
  <1> DEFINE b == BUDGET - 1
  <1>1. 0 \in Int /\ b \in Int /\ BUDGET \in Nat /\ b - 0 + 1 = BUDGET /\ S \subseteq 0 .. b
    BY RateAssumption
  <1> HIDE DEF b
  <1>2. Cardinality(S) < BUDGET <=> S # 0 .. b
    BY <1>1, FillsInterval, Zenon
  <1> QED BY <1>2 DEF b

\* The ring is full of the window exactly when the last BUDGET admissions are inside it.
LEMMA RingFull ==
    ASSUME NEW w, NEW h, RingOf(w, h), Spaced(h, time), time \in Nat
    PROVE  LET n == Len(h)
               recent == {k \in DOMAIN h : time - h[k] < RATE_WINDOW}
           IN  /\ Inside(w) \subseteq 0 .. BUDGET - 1
               /\ recent \subseteq n - BUDGET + 1 .. n
               /\ Inside(w) = 0 .. BUDGET - 1 <=> recent = n - BUDGET + 1 .. n
  <1> DEFINE n == Len(h)
             recent == {k \in DOMAIN h : time - h[k] < RATE_WINDOW}
  <1> USE RateAssumption
  <1>0. n \in Nat /\ DOMAIN h = 1 .. n /\ \A k \in 1 .. n : h[k] \in Nat /\ h[k] >= 1 /\ h[k] <= time
    BY DEF Spaced
  <1>1. DOMAIN w.stamps = 0 .. BUDGET - 1
    BY DEF RingOf
  <1>2. recent \subseteq n - BUDGET + 1 .. n
    <2> SUFFICES ASSUME NEW k \in recent PROVE k \in n - BUDGET + 1 .. n
      OBVIOUS
    <2>1. k \in 1 .. n /\ time - h[k] < RATE_WINDOW BY <1>0
    <2>2. ASSUME k <= n - BUDGET PROVE FALSE
      <3>1. k \in 1 .. n - BUDGET /\ k + BUDGET \in 1 .. n BY <1>0, <2>1, <2>2
      <3>2. h[k + BUDGET] - h[k] >= RATE_WINDOW /\ h[k + BUDGET] <= time BY <1>0, <3>1 DEF Spaced
      <3> QED BY <1>0, <2>1, <3>1, <3>2
    <2> QED BY <1>0, <2>1, <2>2
  <1>3. ASSUME Inside(w) = 0 .. BUDGET - 1 PROVE recent = n - BUDGET + 1 .. n
    <2> SUFFICES ASSUME NEW k \in n - BUDGET + 1 .. n PROVE k \in recent
      BY <1>2
    <2> DEFINE i == IF k > n - w.next THEN k - n + w.next - 1 ELSE k - n + w.next - 1 + BUDGET
    <2> HIDE DEF n
    <2>0. w.next \in 0 .. BUDGET - 1 /\ n \in Nat /\ BUDGET \in Nat \ {0} /\ k \in Int
      BY <1>0 DEF RingOf
    <2>1. i \in 0 .. BUDGET - 1 /\ Place(n, w.next, i) = k
      <3>1. CASE k > n - w.next
        BY <2>0, <3>1 DEF Place
      <3>2. CASE ~(k > n - w.next)
        BY <2>0, <3>2 DEF Place
      <3> QED BY <3>1, <3>2
    <2> USE DEF n
    <2>2. w.stamps[i] = At(h, k)
      BY <2>1 DEF RingOf
    <2>3. w.stamps[i] # 0 /\ time - w.stamps[i] < RATE_WINDOW
      BY <1>3, <2>1 DEF Inside
    <2>4. k >= 1
      BY <2>2, <2>3 DEF At
    <2> QED BY <1>0, <2>2, <2>3, <2>4 DEF At
  <1>4. ASSUME recent = n - BUDGET + 1 .. n PROVE Inside(w) = 0 .. BUDGET - 1
    <2> SUFFICES ASSUME NEW i \in 0 .. BUDGET - 1 PROVE i \in Inside(w)
      BY <1>1 DEF Inside
    <2> DEFINE k == Place(n, w.next, i)
    <2> HIDE DEF n
    <2>0. w.next \in 0 .. BUDGET - 1 /\ n \in Nat /\ BUDGET \in Nat \ {0}
      BY <1>0 DEF RingOf
    <2>1. k \in n - BUDGET + 1 .. n
      <3>1. CASE i < w.next
        BY <2>0, <3>1 DEF Place
      <3>2. CASE ~(i < w.next)
        BY <2>0, <3>2 DEF Place
      <3> QED BY <3>1, <3>2
    <2> USE DEF n
    <2>2. k \in DOMAIN h /\ time - h[k] < RATE_WINDOW
      BY <1>4, <2>1
    <2>3. w.stamps[i] = h[k]
      BY <1>0, <2>2 DEF RingOf, At
    <2> QED BY <1>0, <1>1, <2>2, <2>3 DEF Inside
  <1>5. Inside(w) \subseteq 0 .. BUDGET - 1
    BY <1>1 DEF Inside
  <1> QED BY <1>2, <1>3, <1>4, <1>5

\* What admit counts in the ring decides as the whole history would.
LEMMA RingDecides ==
    ASSUME NEW w, NEW h, RingOf(w, h), Spaced(h, time), time \in Nat
    PROVE  LET recent == {k \in DOMAIN h : time - h[k] < RATE_WINDOW}
           IN  /\ Cardinality(recent) <= BUDGET
               /\ Cardinality(Inside(w)) < BUDGET <=> Cardinality(recent) < BUDGET
  <1> DEFINE n == Len(h)
             recent == {k \in DOMAIN h : time - h[k] < RATE_WINDOW}
  <1>0. n \in Nat BY DEF Spaced
  <1>1. /\ Inside(w) \subseteq 0 .. BUDGET - 1
        /\ recent \subseteq n - BUDGET + 1 .. n
        /\ Inside(w) = 0 .. BUDGET - 1 <=> recent = n - BUDGET + 1 .. n
    BY RingFull
  <1> HIDE DEF n, recent
  <1>2. Cardinality(Inside(w)) < BUDGET <=> Inside(w) # 0 .. BUDGET - 1
    BY <1>1, FillsRing
  <1>3. /\ Cardinality(recent) <= BUDGET
        /\ Cardinality(recent) < BUDGET <=> recent # n - BUDGET + 1 .. n
    <2> DEFINE a == n - BUDGET + 1
    <2>1. a \in Int /\ n \in Int /\ BUDGET \in Nat /\ n - a + 1 = BUDGET
      BY <1>0, RateAssumption
    <2>2. recent \subseteq a .. n BY <1>1
    <2> HIDE DEF a
    <2>3. Cardinality(recent) <= BUDGET
      BY <2>1, <2>2, FillsInterval, Zenon
    <2>4. Cardinality(recent) < BUDGET <=> recent # a .. n
      BY <2>1, <2>2, FillsInterval, Zenon
    <2> QED BY <2>3, <2>4 DEF a
  <1> QED BY <1>1, <1>2, <1>3 DEF recent

\* The next place of a ring after one more stamp.
LEMMA NextPlace ==
    ASSUME NEW x \in 0 .. BUDGET - 1
    PROVE  (x + 1) % BUDGET = IF x + 1 = BUDGET THEN 0 ELSE x + 1
  BY RateAssumption

\* RateWindow::admit overwrites the oldest stamp: the ring goes on holding the last
\* BUDGET admissions.
LEMMA StampedRing ==
    ASSUME NEW w, NEW h \in Seq(Nat), RingOf(w, h), time \in Nat
    PROVE  RingOf(Stamped(w), Append(h, time))
  <1> DEFINE n == Len(h)
             v == Stamped(w)
             x == w.next
  <1>1. n \in Nat /\ BUDGET \in Nat \ {0} /\ x \in 0 .. BUDGET - 1
    BY RateAssumption DEF RingOf
  <1>2. /\ v.next = IF x + 1 = BUDGET THEN 0 ELSE x + 1
        /\ v.stamps = [w.stamps EXCEPT ![x] = time]
    BY <1>1, NextPlace DEF Stamped
  <1>3. v.next \in 0 .. BUDGET - 1 /\ v.stamps \in [0 .. BUDGET - 1 -> Nat]
    <2>1. w.stamps \in [0 .. BUDGET - 1 -> Nat] BY DEF RingOf
    <2> HIDE DEF v, x
    <2>2. v.next \in 0 .. BUDGET - 1 BY <1>1, <1>2
    <2>3. v.stamps \in [0 .. BUDGET - 1 -> Nat] BY <1>2, <2>1
    <2> QED BY <2>2, <2>3
  <1>4. /\ Len(Append(h, time)) = n + 1
        /\ \A k \in 1 .. n : Append(h, time)[k] = h[k]
        /\ Append(h, time)[n + 1] = time
    OBVIOUS
  <1>5. ASSUME NEW i \in 0 .. BUDGET - 1
        PROVE  v.stamps[i] = At(Append(h, time), Place(n + 1, v.next, i))
    <2> HIDE DEF n, v, x
    <2>1. CASE i = x
      <3>1. Place(n + 1, v.next, i) = n + 1
        BY <1>1, <1>2, <2>1 DEF Place
      <3>2. v.stamps[i] = time
        BY <1>1, <1>2, <2>1 DEF RingOf
      <3> QED BY <1>1, <1>4, <3>1, <3>2 DEF At
    <2>2. CASE i # x
      <3>1. Place(n + 1, v.next, i) = Place(n, x, i) /\ Place(n, x, i) <= n /\ Place(n, x, i) \in Int
        BY <1>1, <1>2, <2>2 DEF Place
      <3>2. v.stamps[i] = At(h, Place(n, x, i))
        BY <1>1, <1>2, <2>2 DEF RingOf, n, x
      <3> QED BY <1>1, <1>4, <3>1, <3>2 DEF At
    <2> QED BY <2>1, <2>2
  <1> QED BY <1>3, <1>4, <1>5 DEF RingOf

\* The ring of a new peer holds no admission.
LEMMA NewRing == RingOf(NewRow, <<>>)
  <1>1. \A i \in 0 .. BUDGET - 1 : ~(Place(0, 0, i) >= 1)
    BY RateAssumption DEF Place
  <1> QED BY <1>1, RateAssumption DEF RingOf, NewRow, At

\* An admission the ring allows is a window away from the one BUDGET places before.
LEMMA AdmissionSpaced ==
    ASSUME NEW w, NEW h, RingOf(w, h), Spaced(h, time), time \in Nat, time >= 1,
           Cardinality(Inside(w)) < BUDGET
    PROVE  Spaced(Append(h, time), time)
  <1> DEFINE n == Len(h)
             g == Append(h, time)
  <1>1. /\ n \in Nat /\ h \in Seq(Nat) /\ BUDGET \in Nat \ {0} /\ RATE_WINDOW \in Nat
        /\ \A k \in 1 .. n : h[k] \in 1 .. time /\ h[k] \in Nat
    BY RateAssumption DEF Spaced
  <1>2. /\ g \in Seq(Nat) /\ Len(g) = n + 1
        /\ \A k \in 1 .. n : g[k] = h[k]
        /\ g[n + 1] = time
    BY <1>1
  <1>3. ASSUME n + 1 - BUDGET >= 1 PROVE time - h[n + 1 - BUDGET] >= RATE_WINDOW
    <2> DEFINE recent == {k \in DOMAIN h : time - h[k] < RATE_WINDOW}
               a == n + 1 - BUDGET
    <2>1. recent # n - BUDGET + 1 .. n
      <3>1. /\ Inside(w) \subseteq 0 .. BUDGET - 1
            /\ Inside(w) = 0 .. BUDGET - 1 <=> recent = n - BUDGET + 1 .. n
        BY RingFull
      <3>2. Inside(w) # 0 .. BUDGET - 1
        BY <3>1, FillsRing
      <3> QED BY <3>1, <3>2
    <2>2. recent \subseteq n - BUDGET + 1 .. n
      BY RingFull
    <2>3. PICK k \in n - BUDGET + 1 .. n : k \notin recent
      BY <2>1, <2>2
    <2>4. DOMAIN h = 1 .. n /\ a \in 1 .. n /\ k \in 1 .. n /\ a <= k
      BY <1>1, <1>3, <2>3
    <2>5. time - h[k] >= RATE_WINDOW
      BY <1>1, <2>3, <2>4
    <2>6. h[a] <= h[k]
      BY <2>4 DEF Spaced
    <2>7. h[a] \in Nat /\ h[k] \in Nat /\ RATE_WINDOW \in Nat
      BY <1>1, <2>4
    <2> QED BY <2>5, <2>6, <2>7
  <1> HIDE DEF g, n
  <1>4. \A k \in 1 .. n + 1 : g[k] \in 1 .. time
    <2> SUFFICES ASSUME NEW k \in 1 .. n + 1 PROVE g[k] \in 1 .. time
      OBVIOUS
    <2>1. CASE k = n + 1
      <3>1. time \in 1 .. time OBVIOUS
      <3> QED BY <1>2, <2>1, <3>1
    <2>2. CASE k # n + 1
      <3>1. k \in 1 .. n BY <1>1, <2>2
      <3> QED BY <1>1, <1>2, <3>1
    <2> QED BY <2>1, <2>2
  <1>5. \A j, k \in 1 .. n + 1 : j <= k => g[j] <= g[k]
    <2> SUFFICES ASSUME NEW j \in 1 .. n + 1, NEW k \in 1 .. n + 1, j <= k PROVE g[j] <= g[k]
      OBVIOUS
    <2>1. CASE k = n + 1
      BY <1>1, <1>2, <1>4, <2>1
    <2>2. CASE k # n + 1
      <3>1. j \in 1 .. n /\ k \in 1 .. n BY <1>1, <2>2
      <3>2. h[j] <= h[k] BY <3>1 DEF Spaced, n
      <3> QED BY <1>2, <3>1, <3>2
    <2> QED BY <2>1, <2>2
  <1>6. \A k \in 1 .. n + 1 - BUDGET : g[k + BUDGET] - g[k] >= RATE_WINDOW
    <2> SUFFICES ASSUME NEW k \in 1 .. n + 1 - BUDGET PROVE g[k + BUDGET] - g[k] >= RATE_WINDOW
      OBVIOUS
    <2>1. CASE k = n + 1 - BUDGET
      <3>1. k + BUDGET = n + 1 /\ k \in 1 .. n /\ n + 1 - BUDGET >= 1 BY <1>1, <2>1
      <3> QED BY <1>2, <1>3, <2>1, <3>1
    <2>2. CASE k # n + 1 - BUDGET
      <3>1. k \in 1 .. n - BUDGET /\ k \in 1 .. n /\ k + BUDGET \in 1 .. n BY <1>1, <2>2
      <3>2. h[k + BUDGET] - h[k] >= RATE_WINDOW BY <3>1 DEF Spaced, n
      <3> QED BY <1>2, <3>1, <3>2
    <2> QED BY <2>1, <2>2
  <1>7. Spaced(g, time)
    <2>1. \A k \in 1 .. Len(g) : g[k] \in 1 .. time BY <1>2, <1>4
    <2>2. \A j, k \in 1 .. Len(g) : j <= k => g[j] <= g[k] BY <1>2, <1>5
    <2>3. \A k \in 1 .. Len(g) - BUDGET : g[k + BUDGET] - g[k] >= RATE_WINDOW
      <3> SUFFICES ASSUME NEW k \in 1 .. Len(g) - BUDGET PROVE g[k + BUDGET] - g[k] >= RATE_WINDOW
        OBVIOUS
      <3>1. k \in 1 .. n + 1 - BUDGET BY <1>1, <1>2
      <3> QED BY <1>6, <3>1
    <2>4. g \in Seq(Nat) BY <1>2
    <2> QED BY <2>1, <2>2, <2>3, <2>4, Zenon DEF Spaced
  <1> QED BY <1>7 DEF g

\* Every request and every tick keeps the rings and the histories together.
LEMMA RateStepKeeps == RateInv /\ [RateNext]_rateVars => RateInv'
  <1> SUFFICES ASSUME RateInv, [RateNext]_rateVars PROVE RateInv'
    OBVIOUS
  <1>1. CASE UNCHANGED rateVars
    BY <1>1 DEF rateVars, RateInv
  <1>2. ASSUME NEW p \in Peers, Refuse(p) PROVE RateInv'
    BY <1>2 DEF Refuse, rateVars, RateInv
  <1>3. CASE RateTick
    <2>1. time' = time + 1 /\ rows' = rows /\ admitted' = admitted BY <1>3 DEF RateTick
    <2>2. \A p \in Peers : Spaced(admitted[p], time + 1)
      <3> SUFFICES ASSUME NEW p \in Peers PROVE Spaced(admitted[p], time + 1)
        OBVIOUS
      <3>1. Spaced(admitted[p], time) /\ time \in Nat BY DEF RateInv
      <3> QED BY <3>1 DEF Spaced
    <2>3. time' \in Nat /\ time' >= 1 BY <2>1 DEF RateInv
    <2>4. \A p \in Peers : Spaced(admitted'[p], time') BY <2>1, <2>2
    <2>5. \A p \in DOMAIN rows' : RingOf(rows'[p], admitted'[p]) BY <2>1 DEF RateInv
    <2> QED BY <2>1, <2>3, <2>4, <2>5 DEF RateInv
  <1>4. ASSUME NEW p \in Peers, Admit(p) PROVE RateInv'
    <2>1. /\ Cardinality(Inside(Row(p))) < BUDGET
          /\ rows' = [q \in DOMAIN rows \cup {p} |-> IF q = p THEN Stamped(Row(p)) ELSE rows[q]]
          /\ admitted' = [admitted EXCEPT ![p] = Append(@, time)] /\ time' = time
      BY <1>4 DEF Admit, Admissible
    <2>2. RingOf(Row(p), admitted[p]) /\ Spaced(admitted[p], time) /\ time \in Nat /\ time >= 1
      BY NewRing DEF RateInv, Row
    <2>3. admitted[p] \in Seq(Nat) BY <2>2 DEF Spaced
    <2>4. Spaced(Append(admitted[p], time), time) BY <2>1, <2>2, AdmissionSpaced
    <2>5. RingOf(Stamped(Row(p)), Append(admitted[p], time)) BY <2>2, <2>3, StampedRing
    <2>6. DOMAIN admitted' = Peers /\ admitted' = [q \in Peers |-> admitted'[q]]
      BY <2>1 DEF RateInv
    <2>7. /\ admitted'[p] = Append(admitted[p], time)
          /\ \A q \in Peers \ {p} : admitted'[q] = admitted[q]
      BY <2>1 DEF RateInv
    <2>8. DOMAIN rows' = DOMAIN rows \cup {p} /\ rows'[p] = Stamped(Row(p))
          /\ \A q \in DOMAIN rows \ {p} : rows'[q] = rows[q]
      BY <2>1
    <2>9. \A q \in Peers : Spaced(admitted'[q], time)
      BY <2>4, <2>7 DEF RateInv
    <2>10. \A q \in DOMAIN rows' : RingOf(rows'[q], admitted'[q])
      BY <2>5, <2>7, <2>8 DEF RateInv
    <2>11. \A q \in Peers \ DOMAIN rows' : admitted'[q] = <<>>
      BY <2>7, <2>8 DEF RateInv
    <2> QED BY <2>1, <2>2, <2>6, <2>8, <2>9, <2>10, <2>11 DEF RateInv
  <1> QED BY <1>1, <1>2, <1>3, <1>4 DEF RateNext

\* For every budget, window and set of peers: the ring of a peer is the end of its
\* history, whose admissions are a window apart BUDGET by BUDGET.
THEOREM RateInvariant == RateSpec => []RateInv
  <1>1. RateInit => RateInv
    BY RateAssumption DEF RateInit, RateInv, Spaced
  <1> QED BY <1>1, RateStepKeeps, PTL DEF RateSpec

\* BE-SYNC-04 for every budget: the ring forgets no admission too early and none too
\* late, and no window holds more than BUDGET of a peer.
THEOREM RateBudgetExact == RateSpec => []BudgetExact
  <1>1. RateInv => BudgetExact
    <2> SUFFICES ASSUME RateInv, NEW p \in Peers
                 PROVE  /\ Cardinality(Recent(p)) <= BUDGET
                        /\ p \in DOMAIN rows => (Admissible(p) <=> Cardinality(Recent(p)) < BUDGET)
      BY DEF BudgetExact
    <2>1. RingOf(Row(p), admitted[p]) /\ Spaced(admitted[p], time) /\ time \in Nat
      BY NewRing DEF RateInv, Row
    <2>2. /\ Cardinality(Recent(p)) <= BUDGET
          /\ Cardinality(Inside(Row(p))) < BUDGET <=> Cardinality(Recent(p)) < BUDGET
      BY <2>1, RingDecides DEF Recent
    <2> QED BY <2>2 DEF Admissible
  <1> QED BY <1>1, RateInvariant, PTL

-----------------------------------------------------------------------------
(* The fragments.                                                          *)

ContextSet ==
    [in_use : {TRUE}, msg_id : MsgIds, total : Nat, received : Nat, bytes : Nat,
     age : Nat, seen : SUBSET Nat]

OpenSlots == {s \in Slots : contexts[s].in_use}

\* The indices that the fragments in A give message id.
Came(A, id) == {a.index : a \in {b \in A : b.id = id}}

\* The counter of a context is the number of its seen bits, all below its total.
Counts(c) ==
    /\ c.seen \subseteq 0 .. c.total - 1
    /\ c.received = Cardinality(c.seen)

FragmentInv ==
    /\ contexts \in [Slots -> ContextSet \cup {Free}]
    /\ \A s \in OpenSlots : Counts(contexts[s])
    /\ \A s \in OpenSlots : contexts[s].seen = Came(arrived, contexts[s].msg_id)
    /\ \A s, t \in OpenSlots : contexts[s].msg_id = contexts[t].msg_id => s = t
    /\ \A a \in arrived : \E s \in OpenSlots : contexts[s].msg_id = a.id
    /\ active = Cardinality(OpenSlots)

ReassemblyInv == FragmentInv /\ CompleteExact

\* A slot is in use exactly when it holds a context.
LEMMA SlotCases ==
    ASSUME FragmentInv, NEW s \in Slots
    PROVE  /\ s \in OpenSlots => contexts[s] \in ContextSet
           /\ s \notin OpenSlots => contexts[s] = Free
           /\ contexts[s].in_use <=> s \in OpenSlots
  <1>1. contexts[s] \in ContextSet \/ contexts[s] = Free
    BY DEF FragmentInv
  <1>2. CASE contexts[s] \in ContextSet
    BY <1>2 DEF ContextSet, OpenSlots
  <1>3. CASE contexts[s] = Free
    BY <1>3 DEF Free, OpenSlots
  <1> QED BY <1>1, <1>2, <1>3

\* The open slots are finitely many.
LEMMA OpenFinite == IsFiniteSet(OpenSlots) /\ Cardinality(OpenSlots) \in Nat
  <1>1. IsFiniteSet(Slots)
    BY FS_Interval, ReassemblyAssumption DEF Slots
  <1>2. OpenSlots \subseteq Slots
    BY DEF OpenSlots
  <1> QED BY <1>1, <1>2, FS_Subset, FS_CardinalityType

\* free_context on the context of message id, or on a slot just opened for it: the
\* fragments of the other messages stay with their contexts.
LEMMA FreeKeeps ==
    ASSUME FragmentInv, NEW id, NEW s \in Slots,
           s \in OpenSlots => contexts[s].msg_id = id,
           \A r \in OpenSlots \ {s} : contexts[r].msg_id # id,
           contexts' = [contexts EXCEPT ![s] = Free],
           active' = IF s \in OpenSlots THEN active - 1 ELSE active,
           arrived' = {a \in arrived : a.id # id}
    PROVE  FragmentInv'
  <1>1. contexts' \in [Slots -> ContextSet \cup {Free}]
    BY DEF FragmentInv
  <1>2. OpenSlots' = OpenSlots \ {s} /\ \A r \in OpenSlots' : contexts'[r] = contexts[r]
    BY SlotCases DEF FragmentInv, OpenSlots, Free
  <1>3. ASSUME NEW i, i # id PROVE Came(arrived', i) = Came(arrived, i)
    BY <1>3 DEF Came
  <1>4. \A r \in OpenSlots' : contexts'[r].seen = Came(arrived', contexts'[r].msg_id)
    BY <1>2, <1>3 DEF FragmentInv
  <1>5. \A r \in OpenSlots' : Counts(contexts'[r])
    BY <1>2 DEF FragmentInv
  <1>6. \A r, t \in OpenSlots' : contexts'[r].msg_id = contexts'[t].msg_id => r = t
    BY <1>2 DEF FragmentInv
  <1>7. \A a \in arrived' : \E r \in OpenSlots' : contexts'[r].msg_id = a.id
    BY <1>2 DEF FragmentInv
  <1>8. active' = Cardinality(OpenSlots')
    BY <1>2, OpenFinite, FS_RemoveElement DEF FragmentInv
  <1> QED BY <1>1, <1>4, <1>5, <1>6, <1>7, <1>8 DEF FragmentInv

\* A fragment kept: the slot of message id, or one just opened for it, holds it.
LEMMA StoreKeeps ==
    ASSUME FragmentInv, NEW id, NEW index \in Nat, NEW size, NEW s \in Slots,
           s \in OpenSlots => contexts[s].msg_id = id,
           \A r \in OpenSlots \ {s} : contexts[r].msg_id # id,
           NEW c \in ContextSet, c.msg_id = id, Counts(c), c.seen = Came(arrived, id),
           index \notin c.seen, index < c.total, size \in Nat,
           contexts' = Stored(s, Grown(c, index, size)),
           active' = IF s \in OpenSlots THEN active ELSE active + 1,
           arrived' = arrived \cup {[id |-> id, index |-> index, size |-> size]}
    PROVE  FragmentInv'
  <1> DEFINE g == Grown(c, index, size)
             new == [id |-> id, index |-> index, size |-> size]
  <1>0. /\ c.msg_id \in MsgIds /\ c.total \in Nat /\ c.received \in Nat /\ c.bytes \in Nat
        /\ c.seen \subseteq Nat
    BY DEF ContextSet
  <1>1. /\ g \in ContextSet /\ g.in_use = TRUE /\ g.msg_id = id /\ g.total = c.total
        /\ g.seen = c.seen \cup {index} /\ g.received = c.received + 1
    BY <1>0 DEF Grown, ContextSet
  <1>2. IsFiniteSet(c.seen) /\ Cardinality(c.seen) = c.received
    <2>1. c.seen \subseteq 0 .. c.total - 1 BY DEF Counts
    <2>2. IsFiniteSet(0 .. c.total - 1)
      <3>1. 0 \in Int /\ c.total - 1 \in Int BY <1>0
      <3> QED BY <3>1, FS_Interval
    <2> QED BY <2>1, <2>2, FS_Subset DEF Counts
  <1>3. Counts(g)
    <2>1. Cardinality(c.seen \cup {index}) = c.received + 1
      <3>1. Cardinality(c.seen \cup {index}) = Cardinality(c.seen) + 1
        BY <1>2, FS_AddElement, Zenon
      <3> QED BY <1>2, <3>1
    <2>2. c.seen \cup {index} \subseteq 0 .. c.total - 1
      BY <1>0 DEF Counts
    <2> QED BY <1>1, <2>1, <2>2 DEF Counts
  <1>4. Came(arrived', id) = Came(arrived, id) \cup {index}
    <2>1. new.id = id /\ new.index = index /\ arrived' = arrived \cup {new}
      OBVIOUS
    <2> HIDE DEF new
    <2>2. {b \in arrived' : b.id = id} = {b \in arrived : b.id = id} \cup {new}
      BY <2>1
    <2> QED BY <2>1, <2>2 DEF Came
  <1>5. ASSUME NEW i, i # id PROVE Came(arrived', i) = Came(arrived, i)
    <2>1. new.id = id /\ arrived' = arrived \cup {new}
      OBVIOUS
    <2> HIDE DEF new
    <2>2. {b \in arrived' : b.id = i} = {b \in arrived : b.id = i}
      BY <1>5, <2>1
    <2> QED BY <2>2 DEF Came
  <1>6. contexts' = [contexts EXCEPT ![s] = g]
    BY DEF Stored
  <1> HIDE DEF g
  <1>7. contexts' \in [Slots -> ContextSet \cup {Free}]
    BY <1>1, <1>6 DEF FragmentInv
  <1>8. /\ OpenSlots' = OpenSlots \cup {s} /\ contexts'[s] = g
        /\ \A r \in OpenSlots \ {s} : contexts'[r] = contexts[r]
    BY <1>1, <1>6 DEF FragmentInv, OpenSlots
  <1>9. \A r \in OpenSlots' : Counts(contexts'[r])
    BY <1>3, <1>8 DEF FragmentInv
  <1>10. \A r \in OpenSlots' : contexts'[r].seen = Came(arrived', contexts'[r].msg_id)
    <2>1. contexts'[s].seen = Came(arrived', contexts'[s].msg_id)
      BY <1>1, <1>4, <1>8
    <2>2. ASSUME NEW r \in OpenSlots \ {s}
          PROVE  contexts'[r].seen = Came(arrived', contexts'[r].msg_id)
      <3>1. contexts[r].msg_id # id /\ contexts[r].seen = Came(arrived, contexts[r].msg_id)
        BY DEF FragmentInv
      <3> QED BY <1>5, <1>8, <3>1
    <2> QED BY <1>8, <2>1, <2>2
  <1>11. \A r, t \in OpenSlots' : contexts'[r].msg_id = contexts'[t].msg_id => r = t
    BY <1>1, <1>8 DEF FragmentInv
  <1>12. \A a \in arrived' : \E r \in OpenSlots' : contexts'[r].msg_id = a.id
    <2> SUFFICES ASSUME NEW a \in arrived' PROVE \E r \in OpenSlots' : contexts'[r].msg_id = a.id
      OBVIOUS
    <2>1. CASE a.id = id
      BY <1>1, <1>8, <2>1
    <2>2. CASE a.id # id
      <3>1. a \in arrived BY <2>2
      <3>2. PICK r \in OpenSlots : contexts[r].msg_id = a.id BY <3>1 DEF FragmentInv
      <3>3. CASE r = s
        <4>1. s \in OpenSlots /\ contexts[s].msg_id # id BY <2>2, <3>2, <3>3
        <4> QED BY <4>1
      <3>4. CASE r # s
        BY <1>8, <3>2, <3>4
      <3> QED BY <3>3, <3>4
    <2> QED BY <2>1, <2>2
  <1>13. active' = Cardinality(OpenSlots')
    BY <1>8, OpenFinite, FS_AddElement DEF FragmentInv
  <1> QED BY <1>7, <1>9, <1>10, <1>11, <1>12, <1>13 DEF FragmentInv

\* evict_expired frees the contexts in E, each with the fragments that came for it.
LEMMA EvictKeeps ==
    ASSUME FragmentInv, NEW E, E \subseteq OpenSlots,
           contexts' = [s \in Slots |-> IF s \in E THEN Free ELSE contexts[s]],
           active' = active - Cardinality(E),
           arrived' = {a \in arrived : \A s \in E : a.id # contexts[s].msg_id}
    PROVE  FragmentInv'
  <1>1. contexts' \in [Slots -> ContextSet \cup {Free}]
    BY DEF FragmentInv
  <1>2. OpenSlots' = OpenSlots \ E /\ \A r \in OpenSlots' : contexts'[r] = contexts[r]
    BY SlotCases DEF FragmentInv, OpenSlots, Free
  <1>3. ASSUME NEW i, \A s \in E : i # contexts[s].msg_id
        PROVE  Came(arrived', i) = Came(arrived, i)
    BY <1>3 DEF Came
  <1>4. \A r \in OpenSlots' : contexts'[r].seen = Came(arrived', contexts'[r].msg_id)
    <2> SUFFICES ASSUME NEW r \in OpenSlots'
                 PROVE  contexts'[r].seen = Came(arrived', contexts'[r].msg_id)
      OBVIOUS
    <2>1. r \in OpenSlots \ E /\ contexts'[r] = contexts[r] BY <1>2
    <2>2. \A s \in E : contexts[r].msg_id # contexts[s].msg_id BY <2>1 DEF FragmentInv
    <2>3. contexts[r].seen = Came(arrived, contexts[r].msg_id) BY <2>1 DEF FragmentInv
    <2> QED BY <1>3, <2>1, <2>2, <2>3
  <1>5. \A r \in OpenSlots' : Counts(contexts'[r])
    BY <1>2 DEF FragmentInv
  <1>6. \A r, t \in OpenSlots' : contexts'[r].msg_id = contexts'[t].msg_id => r = t
    BY <1>2 DEF FragmentInv
  <1>7. \A a \in arrived' : \E r \in OpenSlots' : contexts'[r].msg_id = a.id
    BY <1>2 DEF FragmentInv
  <1>8. active' = Cardinality(OpenSlots')
    <2>1. OpenSlots \cap E = E OBVIOUS
    <2>2. Cardinality(OpenSlots \ E) = Cardinality(OpenSlots) - Cardinality(OpenSlots \cap E)
      BY OpenFinite, FS_Difference
    <2> QED BY <1>2, <2>1, <2>2 DEF FragmentInv
  <1> QED BY <1>1, <1>4, <1>5, <1>6, <1>7, <1>8 DEF FragmentInv

\* Time only ages the contexts.
LEMMA AgeKeeps ==
    ASSUME FragmentInv, Tick
    PROVE  FragmentInv'
  <1>1. /\ contexts' = [s \in Slots |->
               IF contexts[s].in_use /\ contexts[s].age < INCOMPLETE_TIMEOUT
               THEN [contexts[s] EXCEPT !.age = @ + 1] ELSE contexts[s]]
        /\ active' = active /\ arrived' = arrived
    BY DEF Tick
  <1>2. ASSUME NEW s \in Slots
        PROVE  \/ contexts'[s] = contexts[s]
               \/ /\ contexts[s] \in ContextSet /\ contexts'[s] \in ContextSet
                  /\ contexts'[s].msg_id = contexts[s].msg_id /\ contexts'[s].seen = contexts[s].seen
                  /\ contexts'[s].total = contexts[s].total
                  /\ contexts'[s].received = contexts[s].received
    <2>1. CASE s \in OpenSlots /\ contexts[s].age < INCOMPLETE_TIMEOUT
      <3>1. contexts[s] \in ContextSet /\ contexts[s].in_use BY <2>1, SlotCases
      <3>2. contexts'[s] = [contexts[s] EXCEPT !.age = @ + 1] BY <1>1, <2>1, <3>1
      <3>3. ASSUME NEW c \in ContextSet
            PROVE  LET d == [c EXCEPT !.age = @ + 1]
                   IN  /\ d \in ContextSet /\ d.msg_id = c.msg_id /\ d.seen = c.seen
                       /\ d.total = c.total /\ d.received = c.received
        <4> DEFINE d == [c EXCEPT !.age = @ + 1]
        <4>1. c.age + 1 \in Nat BY DEF ContextSet
        <4>2. d \in ContextSet BY <4>1 DEF ContextSet
        <4>3. d.msg_id = c.msg_id /\ d.seen = c.seen BY DEF ContextSet
        <4>4. d.total = c.total /\ d.received = c.received BY DEF ContextSet
        <4> QED BY <4>2, <4>3, <4>4
      <3> QED BY <3>1, <3>2, <3>3
    <2>2. CASE ~(s \in OpenSlots /\ contexts[s].age < INCOMPLETE_TIMEOUT)
      BY <1>1, <2>2, SlotCases
    <2> QED BY <2>1, <2>2
  <1>3. contexts' \in [Slots -> ContextSet \cup {Free}]
    <2>1. \A s \in Slots : contexts'[s] \in ContextSet \cup {Free} BY <1>2 DEF FragmentInv
    <2>2. DOMAIN contexts' = Slots /\ contexts' = [s \in Slots |-> contexts'[s]] BY <1>1
    <2> QED BY <2>1, <2>2
  <1>4. OpenSlots' = OpenSlots
    <2>1. \A s \in Slots : contexts'[s].in_use <=> contexts[s].in_use
      BY <1>2 DEF ContextSet
    <2> QED BY <2>1 DEF OpenSlots
  <1>5. \A s \in OpenSlots : /\ contexts'[s].msg_id = contexts[s].msg_id
                             /\ contexts'[s].seen = contexts[s].seen
                             /\ contexts'[s].total = contexts[s].total
                             /\ contexts'[s].received = contexts[s].received
    BY <1>2 DEF OpenSlots
  <1>6. \A s \in OpenSlots : Counts(contexts'[s])
    BY <1>5 DEF FragmentInv, Counts
  <1>7. \A s \in OpenSlots' : contexts'[s].seen = Came(arrived', contexts'[s].msg_id)
    BY <1>1, <1>4, <1>5 DEF FragmentInv
  <1>8. \A s, t \in OpenSlots' : contexts'[s].msg_id = contexts'[t].msg_id => s = t
    BY <1>4, <1>5 DEF FragmentInv
  <1>9. \A a \in arrived' : \E s \in OpenSlots' : contexts'[s].msg_id = a.id
    BY <1>1, <1>4, <1>5 DEF FragmentInv
  <1>10. active' = Cardinality(OpenSlots')
    BY <1>1, <1>4 DEF FragmentInv
  <1> QED BY <1>3, <1>4, <1>6, <1>7, <1>8, <1>9, <1>10 DEF FragmentInv

\* The context that ingest works on: the only one of its message, with the fragments
\* that came for it, or a slot that is opened for a message without any.
LEMMA TargetContext ==
    ASSUME FragmentInv, NEW id \in MsgIds, NEW total \in Nat, NEW s \in Target(id)
    PROVE  LET c == IF Context(id) = {} THEN Fresh(id, total) ELSE contexts[s]
           IN  /\ s \in Slots
               /\ s \in OpenSlots <=> Context(id) # {}
               /\ s \in OpenSlots => contexts[s].msg_id = id
               /\ \A r \in OpenSlots \ {s} : contexts[r].msg_id # id
               /\ c \in ContextSet /\ c.msg_id = id /\ Counts(c) /\ c.seen = Came(arrived, id)
  <1>1. Context(id) = {r \in OpenSlots : contexts[r].msg_id = id}
    BY SlotCases DEF Context, OpenSlots
  <1>2. CASE Context(id) = {}
    <2>1. s \in Slots \ OpenSlots
      BY <1>2, SlotCases DEF Target
    <2>2. \A a \in arrived : a.id # id
      BY <1>1, <1>2 DEF FragmentInv
    <2>3. Came(arrived, id) = {}
      BY <2>2 DEF Came
    <2>4. /\ Fresh(id, total) \in ContextSet /\ Fresh(id, total).msg_id = id
          /\ Fresh(id, total).seen = {} /\ Fresh(id, total).received = 0
      BY DEF Fresh, ContextSet
    <2>5. Counts(Fresh(id, total))
      BY <2>4, FS_EmptySet DEF Counts
    <2> QED BY <1>1, <1>2, <2>1, <2>3, <2>4, <2>5
  <1>3. CASE Context(id) # {}
    <2>1. s \in OpenSlots /\ s \in Slots /\ contexts[s].msg_id = id
      BY <1>1, <1>3 DEF Target, OpenSlots
    <2>2. contexts[s] \in ContextSet
      BY <2>1, SlotCases
    <2>3. Counts(contexts[s]) /\ contexts[s].seen = Came(arrived, id)
      BY <2>1 DEF FragmentInv
    <2>4. \A r \in OpenSlots \ {s} : contexts[r].msg_id # id
      BY <2>1 DEF FragmentInv
    <2> QED BY <1>3, <2>1, <2>2, <2>3, <2>4
  <1> QED BY <1>2, <1>3

\* The fragments of a message, when as many came as its total says, are all of them.
LEMMA CountedIsWhole ==
    ASSUME NEW c \in ContextSet, Counts(c), NEW index \in Nat, index \notin c.seen,
           index < c.total, c.received + 1 >= c.total
    PROVE  c.seen \cup {index} = 0 .. c.total - 1
  <1>1. c.total \in Nat /\ c.seen \subseteq 0 .. c.total - 1 /\ c.received = Cardinality(c.seen)
    BY DEF ContextSet, Counts
  <1> DEFINE b == c.total - 1
             S == c.seen \cup {index}
  <1>2. b \in Int /\ c.seen \subseteq 0 .. b /\ S \subseteq 0 .. b /\ b - 0 + 1 = c.total
    BY <1>1
  <1> HIDE DEF b
  <1>3. IsFiniteSet(c.seen) /\ Cardinality(c.seen) \in Nat
    <2>1. 0 \in Int /\ b \in Int /\ c.total \in Nat /\ b - 0 + 1 = c.total
          /\ c.seen \subseteq 0 .. b
      BY <1>1, <1>2
    <2> QED BY <2>1, FillsInterval, Zenon
  <1>4. Cardinality(S) = c.received + 1
    BY <1>1, <1>3, FS_AddElement
  <1> HIDE DEF S
  <1>5. Cardinality(S) < c.total <=> S # 0 .. b
    <2>1. 0 \in Int /\ b \in Int /\ c.total \in Nat /\ b - 0 + 1 = c.total /\ S \subseteq 0 .. b
      BY <1>1, <1>2
    <2> QED BY <2>1, FillsInterval, Zenon
  <1>6. S = 0 .. b
    BY <1>1, <1>3, <1>4, <1>5
  <1> QED BY <1>6 DEF S, b

\* ingest takes a fragment, is completed by it, or gives the message up.
LEMMA IngestKeeps ==
    ASSUME ReassemblyInv, NEW id \in MsgIds, NEW index \in Indices, NEW total \in Totals,
           NEW size \in Sizes, Ingest(id, index, total, size)
    PROVE  ReassemblyInv'
  <1>0. FragmentInv /\ index \in Nat /\ total \in Nat /\ size \in Nat /\ index < total
    BY ReassemblyAssumption DEF ReassemblyInv, Ingest, WellFormed
  <1> DEFINE new == [id |-> id, index |-> index, size |-> size]
             creating == Context(id) = {}
             ctx(s) == IF creating THEN Fresh(id, total) ELSE contexts[s]
             n == IF creating THEN active + 1 ELSE active
  <1>1. PICK s \in Target(id) :
          LET c == ctx(s)
              grown == Grown(c, index, size)
          IN  /\ c.total = total /\ ~Repeats(c, index)
              /\ \/ /\ FreeContext(s, c, n, bytes_used)
                    /\ Answer("MessageDropped", id, total, {})
                    /\ GivenUp(id)
                 \/ /\ grown.received >= total
                    /\ FreeContext(s, grown, n, bytes_used + size)
                    /\ Answer("Complete", id, total, Came(arrived \cup {new}, id))
                    /\ GivenUp(id)
                 \/ /\ contexts' = Stored(s, grown)
                    /\ active' = n
                    /\ Answer("Partial", id, total, {})
                    /\ arrived' = arrived \cup {new}
    BY Zenon DEF Ingest, Came
  <1> DEFINE c == ctx(s)
             grown == Grown(c, index, size)
  <1>2. /\ s \in Slots
        /\ s \in OpenSlots <=> ~creating
        /\ s \in OpenSlots => contexts[s].msg_id = id
        /\ \A r \in OpenSlots \ {s} : contexts[r].msg_id # id
        /\ c \in ContextSet /\ c.msg_id = id /\ Counts(c) /\ c.seen = Came(arrived, id)
    BY <1>0, TargetContext
  <1>3. c.total = total /\ index \notin c.seen
    BY <1>1 DEF Repeats
  <1>4. active \in Nat
    BY <1>0, OpenFinite DEF FragmentInv
  <1>5. grown.received = c.received + 1
    BY DEF Grown
  <1>6. /\ n = IF s \in OpenSlots THEN active ELSE active + 1
        /\ n - 1 = IF s \in OpenSlots THEN active - 1 ELSE active
    BY <1>2, <1>4
  <1>7. ASSUME NEW d, NEW used, FreeContext(s, d, n, used), GivenUp(id) PROVE FragmentInv'
    <2>1. /\ contexts' = [contexts EXCEPT ![s] = Free]
          /\ active' = IF s \in OpenSlots THEN active - 1 ELSE active
          /\ arrived' = {a \in arrived : a.id # id}
      BY <1>6, <1>7 DEF FreeContext, GivenUp
    <2> QED BY <1>0, <1>2, <2>1, FreeKeeps
  <1>8. CASE /\ FreeContext(s, c, n, bytes_used)
             /\ Answer("MessageDropped", id, total, {})
             /\ GivenUp(id)
    <2>1. CompleteExact' BY <1>8 DEF CompleteExact, Answer
    <2>2. FragmentInv' BY <1>7, <1>8
    <2> QED BY <2>1, <2>2 DEF ReassemblyInv
  <1>9. CASE /\ grown.received >= total
             /\ FreeContext(s, grown, n, bytes_used + size)
             /\ Answer("Complete", id, total, Came(arrived \cup {new}, id))
             /\ GivenUp(id)
    <2>1. c.seen \cup {index} = 0 .. total - 1
      BY <1>0, <1>2, <1>3, <1>5, <1>9, CountedIsWhole
    <2>2. Came(arrived \cup {new}, id) = Came(arrived, id) \cup {index}
      <3>1. new.id = id /\ new.index = index OBVIOUS
      <3> HIDE DEF new
      <3>2. {b \in arrived \cup {new} : b.id = id} = {b \in arrived : b.id = id} \cup {new} BY <3>1
      <3> QED BY <3>1, <3>2 DEF Came
    <2>3. CompleteExact'
      <3>1. event'.total = total /\ event'.got = Came(arrived \cup {new}, id)
        BY <1>9 DEF Answer
      <3>2. Came(arrived \cup {new}, id) = 0 .. total - 1
        BY <1>2, <2>1, <2>2
      <3> QED BY <3>1, <3>2 DEF CompleteExact
    <2>4. FragmentInv' BY <1>7, <1>9
    <2> QED BY <2>3, <2>4 DEF ReassemblyInv
  <1>10. CASE /\ contexts' = Stored(s, grown)
              /\ active' = n
              /\ Answer("Partial", id, total, {})
              /\ arrived' = arrived \cup {new}
    <2>1. CompleteExact' BY <1>10 DEF CompleteExact, Answer
    <2>2. active' = IF s \in OpenSlots THEN active ELSE active + 1 BY <1>6, <1>10
    <2>3. index < c.total BY <1>0, <1>3
    <2> HIDE DEF c, n, creating
    <2>4. FragmentInv' BY <1>0, <1>2, <1>3, <1>10, <2>2, <2>3, StoreKeeps
    <2> QED BY <2>1, <2>4 DEF ReassemblyInv
  <1> QED BY <1>1, <1>8, <1>9, <1>10

\* Every header, sweep and tick keeps the fragments with their contexts.
LEMMA ReassemblyStepKeeps == ReassemblyInv /\ [Next]_vars => ReassemblyInv'
  <1> SUFFICES ASSUME ReassemblyInv, [Next]_vars PROVE ReassemblyInv'
    OBVIOUS
  <1>0. FragmentInv BY DEF ReassemblyInv
  <1>1. ASSUME UNCHANGED <<contexts, active, arrived>> PROVE FragmentInv'
    BY <1>0, <1>1 DEF FragmentInv, OpenSlots
  <1>2. CASE UNCHANGED vars
    <2>1. CompleteExact' BY <1>2 DEF vars, CompleteExact, ReassemblyInv
    <2> QED BY <1>1, <1>2, <2>1 DEF vars, ReassemblyInv
  <1>3. ASSUME NEW id \in MsgIds, NEW index \in Indices, NEW total \in Totals,
               NotTaken(id, index, total) \/ Duplicate(id, index, total)
        PROVE  ReassemblyInv'
    <2>1. CompleteExact' BY <1>3 DEF NotTaken, Duplicate, Answer, CompleteExact
    <2>2. UNCHANGED <<contexts, active, arrived>> BY <1>3 DEF NotTaken, Duplicate
    <2> QED BY <1>1, <2>1, <2>2 DEF ReassemblyInv
  <1>4. ASSUME NEW id \in MsgIds, NEW index \in Indices, NEW total \in Totals,
               TotalDisagrees(id, index, total)
        PROVE  ReassemblyInv'
    <2>1. CompleteExact' BY <1>4 DEF TotalDisagrees, Answer, CompleteExact
    <2>2. PICK s \in Context(id) : FreeContext(s, contexts[s], active, bytes_used)
      BY <1>4 DEF TotalDisagrees
    <2>3. s \in Slots /\ s \in OpenSlots /\ contexts[s].msg_id = id
      BY <2>2 DEF Context, OpenSlots
    <2>4. \A r \in OpenSlots \ {s} : contexts[r].msg_id # id
      BY <1>0, <2>3 DEF FragmentInv
    <2>5. /\ contexts' = [contexts EXCEPT ![s] = Free]
          /\ active' = active - 1 /\ arrived' = {a \in arrived : a.id # id}
      BY <1>4, <2>2 DEF FreeContext, TotalDisagrees, GivenUp
    <2>6. FragmentInv' BY <1>0, <2>3, <2>4, <2>5, FreeKeeps
    <2> QED BY <2>1, <2>6 DEF ReassemblyInv
  <1>5. CASE EvictExpired
    <2>1. CompleteExact' BY <1>5 DEF EvictExpired, None, CompleteExact
    <2>2. Expired \subseteq OpenSlots BY DEF Expired, OpenSlots
    <2>3. FragmentInv' BY <1>0, <1>5, <2>2, EvictKeeps DEF EvictExpired
    <2> QED BY <2>1, <2>3 DEF ReassemblyInv
  <1>6. CASE Tick
    <2>1. CompleteExact' BY <1>6 DEF Tick, None, CompleteExact
    <2> QED BY <1>0, <1>6, <2>1, AgeKeeps DEF ReassemblyInv
  <1> QED BY <1>2, <1>3, <1>4, <1>5, <1>6, IngestKeeps DEF Next

\* For every number of contexts, budget and header: the counter of a context is the
\* number of indices that came for its message since it was opened.
THEOREM ReassemblyInvariant == Spec => []ReassemblyInv
  <1>1. Init => ReassemblyInv
    <2> SUFFICES ASSUME Init PROVE ReassemblyInv
      OBVIOUS
    <2>1. contexts = [s \in Slots |-> Free] /\ active = 0 /\ event = None /\ arrived = {}
      BY DEF Init
    <2>2. OpenSlots = {} BY <2>1 DEF OpenSlots, Free
    <2>3. FragmentInv BY <2>1, <2>2, FS_EmptySet DEF FragmentInv
    <2>4. CompleteExact BY <2>1 DEF CompleteExact, None
    <2> QED BY <2>3, <2>4 DEF ReassemblyInv
  <1> QED BY <1>1, ReassemblyStepKeeps, PTL DEF Spec

\* BE-TR-05 for every total: PeerReassembler::ingest answers Complete only when every
\* index of the message has come, whatever was repeated, given up or swept before.
THEOREM ReassemblyCompleteExact == Spec => []CompleteExact
  <1>1. ReassemblyInv => CompleteExact
    BY DEF ReassemblyInv
  <1> QED BY <1>1, ReassemblyInvariant, PTL

-----------------------------------------------------------------------------
(* The bytes of the fragments.                                             *)

\* The bytes of the fragments in A, and those of message id.
Weight(A) == SumFunction([a \in A |-> a.size])
Of(A, id) == {a \in A : a.id = id}

\* What a context and the peer count is what came and was not given up.
BytesInv ==
    /\ IsFiniteSet(arrived) /\ \A a \in arrived : a.size \in Nat
    /\ \A s \in OpenSlots : contexts[s].bytes = Weight(Of(arrived, contexts[s].msg_id))
    /\ bytes_used = Weight(arrived) /\ bytes_used <= MEMORY_PER_PEER

AccountInv == FragmentInv /\ BytesInv

\* Weights are sums: of a part and of the rest, and of one fragment more.
LEMMA WeightSum ==
    ASSUME NEW A, IsFiniteSet(A), \A a \in A : a.size \in Nat, NEW B \in SUBSET A
    PROVE  /\ Weight(B) \in Nat
           /\ Weight(B) = SumFunctionOnSet([a \in A |-> a.size], B)
           /\ Weight(A) = Weight(B) + Weight(A \ B)
  <1> DEFINE f == [a \in A |-> a.size]
  <1>1. ASSUME NEW C \in SUBSET A
        PROVE  Weight(C) = SumFunctionOnSet(f, C) /\ Weight(C) \in Nat
    <2>1. IsFiniteSet(C) /\ \A a \in C : f[a] \in Nat
      BY FS_Subset
    <2>2. Weight(C) = SumFunctionOnSet([a \in C |-> a.size], C)
      BY DEF Weight, SumFunction
    <2>3. SumFunctionOnSet([a \in C |-> a.size], C) = SumFunctionOnSet(f, C)
      <3>1. \A a \in C : [x \in C |-> x.size][a] = f[a] OBVIOUS
      <3> QED BY <2>1, <3>1, SumSame
    <2>4. SumFunctionOnSet(f, C) \in Nat
      BY <2>1, SumTakeAway
    <2> QED BY <2>2, <2>3, <2>4
  <1>2. \A a \in A : f[a] \in Nat OBVIOUS
  <1> HIDE DEF f
  <1>3. SumFunctionOnSet(f, A) = SumFunctionOnSet(f, B) + SumFunctionOnSet(f, A \ B)
    BY <1>2, SumSplit
  <1>4. A \in SUBSET A /\ A \ B \in SUBSET A OBVIOUS
  <1> QED BY <1>1, <1>3, <1>4 DEF f

\* One fragment more weighs its size more.
LEMMA WeightAdd ==
    ASSUME NEW A, IsFiniteSet(A), \A a \in A : a.size \in Nat, NEW x, x \notin A, x.size \in Nat
    PROVE  Weight(A \cup {x}) = Weight(A) + x.size
  <1> DEFINE B == A \cup {x}
             f == [a \in B |-> a.size]
  <1>1. IsFiniteSet(B) /\ (\A a \in B : a.size \in Nat) /\ A \in SUBSET B /\ B \in SUBSET B
    BY FS_AddElement
  <1>2. B \ {x} = A /\ x \in B /\ f[x] = x.size /\ \A a \in B : f[a] \in Nat
    OBVIOUS
  <1> HIDE DEF B, f
  <1>3. SumFunctionOnSet(f, B) = f[x] + SumFunctionOnSet(f, A)
    BY <1>1, <1>2, SumTakeAway
  <1>4. Weight(B) = SumFunctionOnSet(f, B) /\ Weight(A) = SumFunctionOnSet(f, A) /\ Weight(A) \in Nat
    BY <1>1, WeightSum DEF f
  <1> QED BY <1>2, <1>3, <1>4 DEF B

\* The contexts in S hold the bytes of the fragments that came for their messages.
LEMMA ContextsWeigh ==
    ASSUME AccountInv, NEW S \in SUBSET OpenSlots
    PROVE  BytesIn(S) = Weight({a \in arrived : \E s \in S : a.id = contexts[s].msg_id})
  <1> DEFINE w == [a \in arrived |-> a.size]
             b == [s \in S |-> contexts[s].bytes]
             cls == [s \in S |-> Of(arrived, contexts[s].msg_id)]
             All == {a \in arrived : \E s \in S : a.id = contexts[s].msg_id}
  <1>1. IsFiniteSet(arrived) /\ \A a \in arrived : a.size \in Nat /\ w[a] \in Nat
    BY DEF AccountInv, BytesInv
  <1>2. IsFiniteSet(S)
    BY OpenFinite, FS_Subset
  <1>3. ASSUME NEW s \in S PROVE cls[s] \subseteq arrived /\ b[s] = SumFunctionOnSet(w, cls[s])
    <2>1. cls[s] = Of(arrived, contexts[s].msg_id) /\ cls[s] \in SUBSET arrived
      BY DEF Of
    <2>2. b[s] = Weight(cls[s])
      BY <2>1 DEF AccountInv, BytesInv
    <2> HIDE DEF cls, b
    <2> QED BY <1>1, <2>1, <2>2, WeightSum
  <1>4. \A s, t \in S : s # t => cls[s] \cap cls[t] = {}
    BY DEF AccountInv, FragmentInv, Of
  <1>5. {a \in arrived : \E s \in S : a \in cls[s]} = All
    BY DEF Of
  <1>6. BytesIn(S) = SumFunctionOnSet(b, S)
    BY DEF BytesIn, SumFunction
  <1>7. All \in SUBSET arrived OBVIOUS
  <1> HIDE DEF w, b, cls, All
  <1>8. SumFunctionOnSet(b, S) = SumFunctionOnSet(w, All)
    <2>1. \A a \in arrived : w[a] \in Nat BY <1>1
    <2>2. \A s \in S : cls[s] \subseteq arrived /\ b[s] = SumFunctionOnSet(w, cls[s]) BY <1>3
    <2>3. IsFiniteSet(arrived) BY <1>1
    <2>4. SumFunctionOnSet(b, S) = SumFunctionOnSet(w, {a \in arrived : \E s \in S : a \in cls[s]})
      BY <1>2, <1>4, <2>1, <2>2, <2>3, SumClasses
    <2> QED BY <1>5, <2>4
  <1>9. SumFunctionOnSet(w, All) = Weight(All)
    BY <1>1, <1>7, WeightSum DEF w
  <1> QED BY <1>6, <1>8, <1>9 DEF All

\* The peer's account is the bytes of its open contexts, and of their fragments.
LEMMA AccountFollows == AccountInv => AccountExact
  <1> SUFFICES ASSUME AccountInv PROVE AccountExact
    OBVIOUS
  <1>1. OpenSlots \in SUBSET OpenSlots OBVIOUS
  <1>2. {a \in arrived : \E s \in OpenSlots : a.id = contexts[s].msg_id} = arrived
    BY DEF AccountInv, FragmentInv
  <1>3. BytesIn(OpenSlots) = Weight(arrived)
    BY <1>1, <1>2, ContextsWeigh
  <1> QED BY <1>3 DEF AccountInv, FragmentInv, BytesInv, AccountExact, OpenSlots, Weight

\* free_context takes exactly the fragments of message id off the peer's account: the
\* subtraction has no difference to hide.
LEMMA FreeBytes ==
    ASSUME AccountInv, NEW id, NEW s \in Slots,
           \A r \in OpenSlots \ {s} : contexts[r].msg_id # id,
           contexts' = [contexts EXCEPT ![s] = Free],
           arrived' = {a \in arrived : a.id # id},
           NEW k \in Nat,
           LET used == bytes_used + k
               bytes == Weight(Of(arrived, id)) + k
           IN  bytes_used' = IF used >= bytes THEN used - bytes ELSE 0
    PROVE  BytesInv'
  <1>1. IsFiniteSet(arrived) /\ \A a \in arrived : a.size \in Nat
    BY DEF AccountInv, BytesInv
  <1>2. IsFiniteSet(arrived') /\ \A a \in arrived' : a.size \in Nat
    BY <1>1, FS_Subset
  <1>3. OpenSlots' \subseteq OpenSlots \ {s} /\ \A r \in OpenSlots' : contexts'[r] = contexts[r]
    BY SlotCases DEF AccountInv, FragmentInv, OpenSlots, Free
  <1>4. \A i : i # id => Of(arrived', i) = Of(arrived, i)
    BY DEF Of
  <1>5. \A r \in OpenSlots' : contexts'[r].bytes = Weight(Of(arrived', contexts'[r].msg_id))
    BY <1>3, <1>4 DEF AccountInv, BytesInv
  <1>6. Of(arrived, id) \in SUBSET arrived /\ arrived' = arrived \ Of(arrived, id)
        /\ arrived' \in SUBSET arrived
    BY DEF Of
  <1>7. /\ Weight(Of(arrived, id)) \in Nat /\ Weight(arrived') \in Nat
        /\ Weight(arrived) = Weight(Of(arrived, id)) + Weight(arrived')
    BY <1>1, <1>6, WeightSum
  <1>8. bytes_used = Weight(arrived) /\ bytes_used <= MEMORY_PER_PEER
    BY DEF AccountInv, BytesInv
  <1>9. bytes_used' = Weight(arrived') /\ bytes_used' <= MEMORY_PER_PEER
    BY <1>7, <1>8, ReassemblyAssumption
  <1> QED BY <1>2, <1>5, <1>9 DEF BytesInv

\* A fragment that is kept is on the account of its context and of the peer.
LEMMA StoreBytes ==
    ASSUME AccountInv, NEW id, NEW index, NEW size \in Nat, NEW s \in Slots,
           \A r \in OpenSlots \ {s} : contexts[r].msg_id # id,
           NEW c, c.msg_id = id, c.bytes = Weight(Of(arrived, id)),
           index \notin Came(arrived, id),
           bytes_used + size <= MEMORY_PER_PEER,
           contexts' = Stored(s, Grown(c, index, size)),
           bytes_used' = bytes_used + size,
           arrived' = arrived \cup {[id |-> id, index |-> index, size |-> size]}
    PROVE  BytesInv'
  <1> DEFINE g == Grown(c, index, size)
             new == [id |-> id, index |-> index, size |-> size]
  <1>1. IsFiniteSet(arrived) /\ \A a \in arrived : a.size \in Nat
    BY DEF AccountInv, BytesInv
  <1>2. /\ new.id = id /\ new.index = index /\ new.size = size /\ arrived' = arrived \cup {new}
        /\ g.msg_id = id /\ g.bytes = c.bytes + size /\ g.in_use = TRUE
        /\ contexts' = [contexts EXCEPT ![s] = g]
    BY DEF Grown, Stored
  <1> HIDE DEF g, new
  <1>3. new \notin arrived
    BY <1>2 DEF Came
  <1>4. IsFiniteSet(arrived') /\ \A a \in arrived' : a.size \in Nat
    BY <1>1, <1>2, FS_AddElement
  <1>5. /\ OpenSlots' = OpenSlots \cup {s} /\ contexts'[s] = g
        /\ \A r \in OpenSlots \ {s} : contexts'[r] = contexts[r]
    BY <1>2 DEF AccountInv, FragmentInv, OpenSlots
  <1>6. Weight(arrived') = Weight(arrived) + size
    BY <1>1, <1>2, <1>3, WeightAdd
  <1>7. Of(arrived', id) = Of(arrived, id) \cup {new} /\ \A i : i # id => Of(arrived', i) = Of(arrived, i)
    BY <1>2 DEF Of
  <1>8. Weight(Of(arrived, id) \cup {new}) = Weight(Of(arrived, id)) + size
    <2>1. Of(arrived, id) \subseteq arrived /\ new \notin Of(arrived, id)
      BY <1>3 DEF Of
    <2>2. IsFiniteSet(Of(arrived, id)) /\ \A a \in Of(arrived, id) : a.size \in Nat
      BY <1>1, <2>1, FS_Subset
    <2> QED BY <1>2, <2>1, <2>2, WeightAdd
  <1>9. \A r \in OpenSlots' : contexts'[r].bytes = Weight(Of(arrived', contexts'[r].msg_id))
    <2>1. contexts'[s].bytes = Weight(Of(arrived', contexts'[s].msg_id))
      BY <1>2, <1>5, <1>7, <1>8
    <2>2. ASSUME NEW r \in OpenSlots \ {s}
          PROVE  contexts'[r].bytes = Weight(Of(arrived', contexts'[r].msg_id))
      BY <1>5, <1>7 DEF AccountInv, BytesInv
    <2> QED BY <1>5, <2>1, <2>2
  <1>10. bytes_used' = Weight(arrived') /\ bytes_used' <= MEMORY_PER_PEER
    BY <1>6 DEF AccountInv, BytesInv
  <1> QED BY <1>4, <1>9, <1>10 DEF BytesInv

\* A sweep takes the bytes of all contexts it frees off the account.
LEMMA EvictBytes ==
    ASSUME AccountInv, EvictExpired
    PROVE  BytesInv'
  <1> DEFINE gone == {a \in arrived : \E s \in Expired : a.id = contexts[s].msg_id}
  <1>0. /\ contexts' = [s \in Slots |-> IF s \in Expired THEN Free ELSE contexts[s]]
        /\ bytes_used' = IF bytes_used >= BytesIn(Expired) THEN bytes_used - BytesIn(Expired) ELSE 0
        /\ arrived' = {a \in arrived : \A s \in Expired : a.id # contexts[s].msg_id}
    BY DEF EvictExpired
  <1>1. IsFiniteSet(arrived) /\ \A a \in arrived : a.size \in Nat
    BY DEF AccountInv, BytesInv
  <1>2. IsFiniteSet(arrived') /\ \A a \in arrived' : a.size \in Nat
    BY <1>0, <1>1, FS_Subset
  <1>3. Expired \in SUBSET OpenSlots BY DEF Expired, OpenSlots
  <1>4. OpenSlots' = OpenSlots \ Expired /\ \A r \in OpenSlots' : contexts'[r] = contexts[r]
    BY <1>0, SlotCases DEF AccountInv, FragmentInv, OpenSlots, Free
  <1>5. \A r \in OpenSlots' : Of(arrived', contexts[r].msg_id) = Of(arrived, contexts[r].msg_id)
    BY <1>0, <1>3, <1>4 DEF Of, AccountInv, FragmentInv
  <1>6. \A r \in OpenSlots' : contexts'[r].bytes = Weight(Of(arrived', contexts'[r].msg_id))
    BY <1>4, <1>5 DEF AccountInv, BytesInv
  <1>7. gone \in SUBSET arrived /\ arrived' = arrived \ gone /\ arrived' \in SUBSET arrived
    BY <1>0
  <1>8. BytesIn(Expired) = Weight(gone)
    BY <1>3, ContextsWeigh
  <1> HIDE DEF gone
  <1>9. /\ Weight(gone) \in Nat /\ Weight(arrived') \in Nat
        /\ Weight(arrived) = Weight(gone) + Weight(arrived')
    BY <1>1, <1>7, WeightSum
  <1>10. bytes_used = Weight(arrived) /\ bytes_used <= MEMORY_PER_PEER
    BY DEF AccountInv, BytesInv
  <1>11. bytes_used' = Weight(arrived') /\ bytes_used' <= MEMORY_PER_PEER
    BY <1>0, <1>8, <1>9, <1>10, ReassemblyAssumption
  <1> QED BY <1>2, <1>6, <1>11 DEF BytesInv

\* Time leaves the accounts alone.
LEMMA AgeBytes ==
    ASSUME AccountInv, Tick
    PROVE  BytesInv'
  <1>1. /\ contexts' = [s \in Slots |->
               IF contexts[s].in_use /\ contexts[s].age < INCOMPLETE_TIMEOUT
               THEN [contexts[s] EXCEPT !.age = @ + 1] ELSE contexts[s]]
        /\ bytes_used' = bytes_used /\ arrived' = arrived
    BY DEF Tick
  <1>2. ASSUME NEW c \in ContextSet
        PROVE  LET d == [c EXCEPT !.age = @ + 1]
               IN  d.in_use = c.in_use /\ d.msg_id = c.msg_id /\ d.bytes = c.bytes
    BY DEF ContextSet
  <1>3. ASSUME NEW s \in Slots
        PROVE  /\ contexts'[s].in_use = contexts[s].in_use
               /\ s \in OpenSlots => /\ contexts'[s].msg_id = contexts[s].msg_id
                                     /\ contexts'[s].bytes = contexts[s].bytes
    <2>1. CASE s \in OpenSlots
      <3>1. contexts[s] \in ContextSet BY <2>1, SlotCases DEF AccountInv
      <3> QED BY <1>1, <1>2, <3>1
    <2>2. CASE s \notin OpenSlots
      <3>1. ~contexts[s].in_use BY <2>2 DEF OpenSlots
      <3> QED BY <1>1, <2>2, <3>1
    <2> QED BY <2>1, <2>2
  <1>4. OpenSlots' = OpenSlots
    BY <1>3 DEF OpenSlots
  <1>5. OpenSlots \subseteq Slots BY DEF OpenSlots
  <1> QED BY <1>1, <1>3, <1>4, <1>5 DEF AccountInv, BytesInv

\* ingest keeps the accounts whether it stores, completes or gives up.
LEMMA IngestBytes ==
    ASSUME AccountInv, NEW id \in MsgIds, NEW index \in Indices, NEW total \in Totals,
           NEW size \in Sizes, Ingest(id, index, total, size)
    PROVE  BytesInv'
  <1>0. FragmentInv /\ index \in Nat /\ total \in Nat /\ size \in Nat
    BY ReassemblyAssumption DEF AccountInv
  <1> DEFINE new == [id |-> id, index |-> index, size |-> size]
             creating == Context(id) = {}
             ctx(s) == IF creating THEN Fresh(id, total) ELSE contexts[s]
             n == IF creating THEN active + 1 ELSE active
  <1>1. PICK s \in Target(id) :
          LET c == ctx(s)
              grown == Grown(c, index, size)
          IN  /\ c.total = total /\ ~Repeats(c, index)
              /\ \/ FreeContext(s, c, n, bytes_used) /\ GivenUp(id)
                 \/ FreeContext(s, grown, n, bytes_used + size) /\ GivenUp(id)
                 \/ /\ bytes_used + size <= MEMORY_PER_PEER
                    /\ contexts' = Stored(s, grown)
                    /\ bytes_used' = bytes_used + size
                    /\ arrived' = arrived \cup {new}
    BY Zenon DEF Ingest
  <1> DEFINE c == ctx(s)
             grown == Grown(c, index, size)
  <1>2. /\ s \in Slots
        /\ s \in OpenSlots <=> ~creating
        /\ s \in OpenSlots => contexts[s].msg_id = id
        /\ \A r \in OpenSlots \ {s} : contexts[r].msg_id # id
        /\ c \in ContextSet /\ c.msg_id = id /\ c.seen = Came(arrived, id)
    BY <1>0, TargetContext
  <1>3. c.bytes = Weight(Of(arrived, id)) /\ c.bytes \in Nat
    <2>1. CASE creating
      <3>1. Fresh(id, total).bytes = 0 BY DEF Fresh
      <3>2. \A a \in arrived : a.id # id
        BY <1>2, <2>1, <1>0 DEF FragmentInv
      <3>3. Of(arrived, id) = {} BY <3>2 DEF Of
      <3>4. Weight({}) = 0 BY SumEmpty DEF Weight, SumFunction
      <3> QED BY <2>1, <3>1, <3>3, <3>4
    <2>2. CASE ~creating
      BY <1>2, <2>2 DEF AccountInv, BytesInv, ContextSet
    <2> QED BY <2>1, <2>2
  <1>4. index \notin Came(arrived, id)
    BY <1>1, <1>2 DEF Repeats
  <1>5. grown.bytes = c.bytes + size
    BY DEF Grown
  <1>6. bytes_used \in Nat
    <2>1. arrived \in SUBSET arrived OBVIOUS
    <2> QED BY <2>1, WeightSum DEF AccountInv, BytesInv
  <1> HIDE DEF c, grown, n
  <1>7. CASE FreeContext(s, c, n, bytes_used) /\ GivenUp(id)
    <2>1. /\ contexts' = [contexts EXCEPT ![s] = Free]
          /\ arrived' = {a \in arrived : a.id # id}
          /\ bytes_used' = IF bytes_used + 0 >= Weight(Of(arrived, id)) + 0
                           THEN (bytes_used + 0) - (Weight(Of(arrived, id)) + 0) ELSE 0
      BY <1>3, <1>6, <1>7 DEF FreeContext, GivenUp
    <2> QED BY <1>2, <2>1, FreeBytes
  <1>8. CASE FreeContext(s, grown, n, bytes_used + size) /\ GivenUp(id)
    <2>1. /\ contexts' = [contexts EXCEPT ![s] = Free]
          /\ arrived' = {a \in arrived : a.id # id}
          /\ bytes_used' = IF bytes_used + size >= Weight(Of(arrived, id)) + size
                           THEN (bytes_used + size) - (Weight(Of(arrived, id)) + size) ELSE 0
      BY <1>3, <1>5, <1>8 DEF FreeContext, GivenUp
    <2> QED BY <1>0, <1>2, <2>1, FreeBytes
  <1>9. CASE /\ bytes_used + size <= MEMORY_PER_PEER
             /\ contexts' = Stored(s, grown)
             /\ bytes_used' = bytes_used + size
             /\ arrived' = arrived \cup {new}
    BY <1>0, <1>2, <1>3, <1>4, <1>9, StoreBytes DEF grown
  <1> QED BY <1>1, <1>7, <1>8, <1>9 DEF c, grown

\* Every step keeps the accounts.
LEMMA BytesStepKeeps == ReassemblyInv /\ BytesInv /\ [Next]_vars => BytesInv'
  <1> SUFFICES ASSUME ReassemblyInv, BytesInv, [Next]_vars PROVE BytesInv'
    OBVIOUS
  <1>0. AccountInv BY DEF ReassemblyInv, AccountInv
  <1>1. ASSUME UNCHANGED <<contexts, bytes_used, arrived>> PROVE BytesInv'
    BY <1>1 DEF BytesInv, OpenSlots
  <1>2. CASE UNCHANGED vars
    BY <1>1, <1>2 DEF vars
  <1>3. ASSUME NEW id \in MsgIds, NEW index \in Indices, NEW total \in Totals,
               NotTaken(id, index, total) \/ Duplicate(id, index, total)
        PROVE  BytesInv'
    BY <1>1, <1>3 DEF NotTaken, Duplicate
  <1>4. ASSUME NEW id \in MsgIds, NEW index \in Indices, NEW total \in Totals,
               TotalDisagrees(id, index, total)
        PROVE  BytesInv'
    <2>1. PICK s \in Context(id) : FreeContext(s, contexts[s], active, bytes_used)
      BY <1>4 DEF TotalDisagrees
    <2>2. s \in Slots /\ s \in OpenSlots /\ contexts[s].msg_id = id
      BY <2>1 DEF Context, OpenSlots
    <2>3. \A r \in OpenSlots \ {s} : contexts[r].msg_id # id
      BY <1>0, <2>2 DEF AccountInv, FragmentInv
    <2>4. bytes_used \in Nat /\ contexts[s].bytes = Weight(Of(arrived, id)) /\ contexts[s].bytes \in Nat
      <3>1. arrived \in SUBSET arrived /\ Of(arrived, id) \in SUBSET arrived BY DEF Of
      <3> QED BY <2>2, <3>1, WeightSum DEF BytesInv
    <2>5. /\ contexts' = [contexts EXCEPT ![s] = Free]
          /\ arrived' = {a \in arrived : a.id # id}
          /\ bytes_used' = IF bytes_used + 0 >= Weight(Of(arrived, id)) + 0
                           THEN (bytes_used + 0) - (Weight(Of(arrived, id)) + 0) ELSE 0
      <3>1. GivenUp(id) BY <1>4 DEF TotalDisagrees
      <3> QED BY <2>1, <2>4, <3>1 DEF FreeContext, GivenUp
    <2> QED BY <1>0, <2>2, <2>3, <2>5, FreeBytes
  <1>5. CASE EvictExpired
    BY <1>0, <1>5, EvictBytes
  <1>6. CASE Tick
    BY <1>0, <1>6, AgeBytes
  <1> QED BY <1>0, <1>2, <1>3, <1>4, <1>5, <1>6, IngestBytes DEF Next

\* For every budget, size and number of contexts: bytes_used and active of
\* PeerReassembler are the bytes and the number of its open contexts, the bytes are
\* those of the fragments that came for them, and never above the peer's budget.
THEOREM ReassemblyAccountExact == Spec => []AccountExact
  <1>1. Init => BytesInv
    <2> SUFFICES ASSUME Init PROVE BytesInv
      OBVIOUS
    <2>1. contexts = [s \in Slots |-> Free] /\ bytes_used = 0 /\ arrived = {}
      BY DEF Init
    <2>2. OpenSlots = {} BY <2>1 DEF OpenSlots, Free
    <2>3. Weight({}) = 0 BY SumEmpty DEF Weight, SumFunction
    <2> QED BY <2>1, <2>2, <2>3, FS_EmptySet, ReassemblyAssumption DEF BytesInv
  <1>2. Spec => []BytesInv
    BY <1>1, ReassemblyInvariant, BytesStepKeeps, PTL DEF Spec
  <1>3. ReassemblyInv /\ BytesInv => AccountExact
    BY AccountFollows DEF AccountInv, ReassemblyInv
  <1> QED BY <1>2, <1>3, ReassemblyInvariant, PTL

-----------------------------------------------------------------------------
(* The relay's store.                                                      *)

PacketSet == [to : Recipients, len : Nat, at : Nat, serial : Nat \ {0}]

\* A table of packets, each one stored, not yet drained and in one slot only.
Table(ps) ==
    /\ ps \in [RelaySlots -> PacketSet \cup {Empty}]
    /\ \A i \in InUse(ps) : ps[i].serial <= sent /\ ps[i].serial \notin got
    /\ \A i, j \in InUse(ps) : ps[i].serial = ps[j].serial => i = j

\* No recipient is above its quotas.
Quotas(ps) ==
    \A r \in Recipients :
        /\ Cardinality(OwnedBy(ps, r)) <= MAX_PER_RECIPIENT
        /\ BytesOf(ps, r) <= MAX_BYTES_PER_RECIPIENT

RelayInv ==
    /\ clock \in Nat /\ sent \in Nat /\ got \subseteq 1 .. sent
    /\ Table(packets) /\ Quotas(packets)
    /\ count = Cardinality(InUse(packets))
    /\ out # NoPacket => out.to = out.for /\ ~out.again /\ out.age < TTL_MS

\* Slots are finitely many, and one in use holds a packet.
LEMMA PacketCases ==
    ASSUME NEW ps, Table(ps)
    PROVE  /\ IsFiniteSet(InUse(ps)) /\ Cardinality(InUse(ps)) \in Nat
           /\ \A i \in RelaySlots : /\ i \in InUse(ps) => ps[i] \in PacketSet
                                    /\ i \notin InUse(ps) <=> ps[i] = Empty
           /\ \A r : OwnedBy(ps, r) \subseteq InUse(ps) /\ IsFiniteSet(OwnedBy(ps, r))
  <1>1. IsFiniteSet(RelaySlots)
    BY FS_Interval, RelayAssumption DEF RelaySlots
  <1>2. InUse(ps) \subseteq RelaySlots
    BY DEF InUse
  <1>3. IsFiniteSet(InUse(ps)) /\ Cardinality(InUse(ps)) \in Nat
    BY <1>1, <1>2, FS_Subset, FS_CardinalityType
  <1>4. \A r : OwnedBy(ps, r) \subseteq InUse(ps) /\ IsFiniteSet(OwnedBy(ps, r))
    <2>1. \A r : OwnedBy(ps, r) \subseteq InUse(ps) BY DEF OwnedBy
    <2> QED BY <1>3, <2>1, FS_Subset
  <1>5. ASSUME NEW i \in RelaySlots
        PROVE  /\ i \in InUse(ps) => ps[i] \in PacketSet
               /\ i \notin InUse(ps) <=> ps[i] = Empty
    <2>1. ps[i] \in PacketSet \/ ps[i] = Empty BY DEF Table
    <2>2. Empty.serial = 0 BY DEF Empty
    <2>3. ps[i] \in PacketSet => ps[i].serial # 0 BY DEF PacketSet
    <2> QED BY <2>1, <2>2, <2>3 DEF InUse
  <1> QED BY <1>3, <1>4, <1>5

\* A table with some packets of another one is a table within the quotas.
LEMMA FewerPackets ==
    ASSUME NEW ps, Table(ps), Quotas(ps), NEW S \in SUBSET InUse(ps), NEW qs,
           qs = [i \in RelaySlots |-> IF i \in S THEN Empty ELSE ps[i]]
    PROVE  /\ Table(qs) /\ Quotas(qs)
           /\ InUse(qs) = InUse(ps) \ S /\ \A i \in InUse(qs) : qs[i] = ps[i]
           /\ Cardinality(InUse(qs)) = Cardinality(InUse(ps)) - Cardinality(S)
  <1>1. InUse(qs) = InUse(ps) \ S /\ \A i \in InUse(qs) : qs[i] = ps[i]
    BY DEF InUse, Empty
  <1>2. Table(qs)
    <2>1. qs \in [RelaySlots -> PacketSet \cup {Empty}] BY DEF Table
    <2> QED BY <1>1, <2>1 DEF Table
  <1>3. ASSUME NEW r \in Recipients
        PROVE  /\ Cardinality(OwnedBy(qs, r)) <= MAX_PER_RECIPIENT
               /\ BytesOf(qs, r) <= MAX_BYTES_PER_RECIPIENT
    <2> DEFINE A == OwnedBy(ps, r)
               B == OwnedBy(qs, r)
               f == [i \in A |-> ps[i].len]
    <2>1. B \in SUBSET A /\ \A i \in B : qs[i] = ps[i]
      BY <1>1 DEF OwnedBy
    <2>2. IsFiniteSet(A) /\ IsFiniteSet(B) /\ (\A i \in A : f[i] \in Nat)
      <3>1. IsFiniteSet(A) /\ IsFiniteSet(B) BY <1>2, PacketCases
      <3>2. \A i \in A : i \in RelaySlots /\ i \in InUse(ps) BY DEF OwnedBy, InUse
      <3>3. \A i \in A : ps[i].len \in Nat BY <3>2, PacketCases DEF PacketSet
      <3> QED BY <3>1, <3>3
    <2>3. BytesOf(ps, r) = SumFunctionOnSet(f, A)
      BY DEF BytesOf, SumFunction
    <2>4. BytesOf(qs, r) = SumFunctionOnSet([i \in B |-> qs[i].len], B)
      BY DEF BytesOf, SumFunction
    <2>5. \A i \in B : [j \in B |-> qs[j].len][i] = f[i]
      BY <2>1
    <2>6. Cardinality(A) <= MAX_PER_RECIPIENT /\ BytesOf(ps, r) <= MAX_BYTES_PER_RECIPIENT
      BY DEF Quotas
    <2> HIDE DEF A, B, f
    <2>7. SumFunctionOnSet([i \in B |-> qs[i].len], B) = SumFunctionOnSet(f, B)
      BY <2>2, <2>5, SumSame
    <2>8. SumFunctionOnSet(f, A) = SumFunctionOnSet(f, B) + SumFunctionOnSet(f, A \ B)
      BY <2>1, <2>2, SumSplit
    <2>9. SumFunctionOnSet(f, B) \in Nat /\ SumFunctionOnSet(f, A \ B) \in Nat
      <3>1. IsFiniteSet(A \ B) /\ (\A i \in A \ B : f[i] \in Nat) /\ (\A i \in B : f[i] \in Nat)
        BY <2>1, <2>2, FS_Subset
      <3> QED BY <2>2, <3>1, SumTakeAway
    <2>10. Cardinality(A) \in Nat /\ Cardinality(B) \in Nat /\ Cardinality(B) <= Cardinality(A)
      BY <2>1, <2>2, FS_Subset, FS_CardinalityType
    <2>11. MAX_PER_RECIPIENT \in Nat /\ MAX_BYTES_PER_RECIPIENT \in Nat
      BY RelayAssumption
    <2>12. Cardinality(B) <= MAX_PER_RECIPIENT
      BY <2>6, <2>10, <2>11
    <2>13. BytesOf(qs, r) <= MAX_BYTES_PER_RECIPIENT
      BY <2>3, <2>4, <2>6, <2>7, <2>8, <2>9, <2>11
    <2> QED BY <2>12, <2>13 DEF B
  <1>4. Cardinality(InUse(qs)) = Cardinality(InUse(ps)) - Cardinality(S)
    <2>1. InUse(ps) \cap S = S OBVIOUS
    <2>2. Cardinality(InUse(ps) \ S) = Cardinality(InUse(ps)) - Cardinality(InUse(ps) \cap S)
      BY PacketCases, FS_Difference
    <2> QED BY <1>1, <2>1, <2>2
  <1> QED BY <1>1, <1>2, <1>3, <1>4 DEF Quotas

\* purge_expired leaves packets within their TTL, and as many as its count says.
LEMMA PurgeKeeps ==
    ASSUME RelayInv
    PROVE  /\ Table(Purged.ps) /\ Quotas(Purged.ps) /\ Purged.n = Cardinality(InUse(Purged.ps))
           /\ \A i \in InUse(Purged.ps) : /\ Purged.ps[i] = packets[i] /\ i \in InUse(packets)
                                          /\ clock - packets[i].at < TTL_MS
  <1>1. /\ Purged.ps = [i \in RelaySlots |-> IF i \in Outdated THEN Empty ELSE packets[i]]
        /\ Purged.n = count - Cardinality(Outdated)
    BY DEF Purged
  <1>2. Outdated \in SUBSET InUse(packets)
    BY DEF Outdated
  <1>3. /\ Table(Purged.ps) /\ Quotas(Purged.ps)
        /\ InUse(Purged.ps) = InUse(packets) \ Outdated
        /\ \A i \in InUse(Purged.ps) : Purged.ps[i] = packets[i]
        /\ Cardinality(InUse(Purged.ps)) = Cardinality(InUse(packets)) - Cardinality(Outdated)
    BY <1>1, <1>2, FewerPackets DEF RelayInv
  <1>4. ASSUME NEW i \in InUse(Purged.ps) PROVE clock - packets[i].at < TTL_MS
    <2>1. i \in InUse(packets) /\ i \notin Outdated /\ i \in RelaySlots
      BY <1>3 DEF InUse
    <2>2. packets[i].at \in Nat /\ clock \in Nat /\ TTL_MS \in Nat \ {0}
      BY <2>1, PacketCases, RelayAssumption DEF RelayInv, PacketSet
    <2> QED BY <2>1, <2>2 DEF Outdated
  <1> QED BY <1>1, <1>3, <1>4 DEF RelayInv

\* store puts one packet more into the table, within the quotas it looked at.
LEMMA StoreRelayKeeps ==
    ASSUME RelayInv, NEW r \in Recipients, NEW len \in Lengths, Store(r, len)
    PROVE  RelayInv'
  <1> DEFINE ps == Purged.ps
             new == [to |-> r, len |-> len, at |-> clock, serial |-> sent + 1]
  <1>1. PICK i \in RelaySlots : ps[i] = Empty /\ packets' = [ps EXCEPT ![i] = new]
    BY DEF Store
  <1>2. /\ StoreResult(Purged, r, len) = "Ok" /\ count' = Purged.n + 1 /\ sent' = sent + 1
        /\ out' = NoPacket /\ clock' = clock /\ got' = got
    BY DEF Store
  <1>3. /\ Table(ps) /\ Quotas(ps) /\ Purged.n = Cardinality(InUse(ps))
    BY PurgeKeeps
  <1>4. /\ Cardinality(OwnedBy(ps, r)) < MAX_PER_RECIPIENT
        /\ BytesOf(ps, r) + len <= MAX_BYTES_PER_RECIPIENT
    <2>1. /\ ~(Cardinality(OwnedBy(ps, r)) >= MAX_PER_RECIPIENT)
          /\ ~(BytesOf(ps, r) + len > MAX_BYTES_PER_RECIPIENT)
      BY <1>2 DEF StoreResult
    <2>2. Cardinality(OwnedBy(ps, r)) \in Nat /\ BytesOf(ps, r) \in Nat
      <3> DEFINE A == OwnedBy(ps, r)
                 f == [j \in A |-> ps[j].len]
      <3>1. IsFiniteSet(A) BY <1>3, PacketCases
      <3>2. \A j \in A : j \in RelaySlots /\ j \in InUse(ps) BY DEF OwnedBy, InUse
      <3>3. \A j \in A : f[j] \in Nat BY <1>3, <3>2, PacketCases DEF PacketSet
      <3>4. BytesOf(ps, r) = SumFunctionOnSet(f, A) BY DEF BytesOf, SumFunction
      <3> HIDE DEF f
      <3> QED BY <3>1, <3>3, <3>4, SumTakeAway, FS_CardinalityType
    <2>3. MAX_PER_RECIPIENT \in Nat /\ MAX_BYTES_PER_RECIPIENT \in Nat /\ len \in Nat
      BY RelayAssumption
    <2> QED BY <2>1, <2>2, <2>3
  <1>5. /\ new.to = r /\ new.len = len /\ new.serial = sent + 1 /\ new \in PacketSet /\ len \in Nat
        /\ sent \in Nat /\ clock \in Nat /\ got \subseteq 1 .. sent /\ new # Empty
    BY RelayAssumption DEF RelayInv, PacketSet, Empty
  <1> HIDE DEF ps, new
  <1>6. packets' \in [RelaySlots -> PacketSet \cup {Empty}]
    BY <1>1, <1>3, <1>5 DEF Table
  <1>7. /\ InUse(packets') = InUse(ps) \cup {i} /\ i \notin InUse(ps)
        /\ packets'[i] = new /\ \A j \in InUse(ps) : packets'[j] = ps[j]
    <2>1. i \notin InUse(ps) BY <1>1, <1>3, PacketCases
    <2>2. packets'[i] = new /\ \A j \in RelaySlots \ {i} : packets'[j] = ps[j]
      BY <1>1, <1>3 DEF Table
    <2>3. new.serial # 0 BY <1>5
    <2> QED BY <2>1, <2>2, <2>3 DEF InUse
  <1>8. ASSUME NEW j \in InUse(ps) PROVE ps[j].serial \in Nat /\ ps[j].serial <= sent
    <2>1. j \in RelaySlots BY DEF InUse
    <2> QED BY <1>3, <2>1, PacketCases DEF Table, PacketSet
  <1>9. Table(packets)'
    <2>1. \A j \in InUse(packets') : packets'[j].serial <= sent' /\ packets'[j].serial \notin got'
      BY <1>2, <1>3, <1>5, <1>7, <1>8 DEF Table
    <2>2. \A j, k \in InUse(packets') : packets'[j].serial = packets'[k].serial => j = k
      BY <1>3, <1>5, <1>7, <1>8 DEF Table
    <2> QED BY <1>6, <2>1, <2>2 DEF Table
  <1>10. count' = Cardinality(InUse(packets'))
    <2>1. IsFiniteSet(InUse(ps)) BY <1>3, PacketCases
    <2>2. Cardinality(InUse(ps) \cup {i}) = Cardinality(InUse(ps)) + 1
      BY <1>7, <2>1, FS_AddElement
    <2> QED BY <1>2, <1>3, <1>7, <2>2
  <1>11. ASSUME NEW q \in Recipients
         PROVE  /\ Cardinality(OwnedBy(packets', q)) <= MAX_PER_RECIPIENT
                /\ BytesOf(packets', q) <= MAX_BYTES_PER_RECIPIENT
    <2> DEFINE A == OwnedBy(ps, q)
               B == OwnedBy(packets', q)
               f == [j \in A |-> ps[j].len]
               g == [j \in B |-> packets'[j].len]
    <2>1. IsFiniteSet(A) /\ A \subseteq InUse(ps) BY <1>3, PacketCases
    <2>2. B = IF q = r THEN A \cup {i} ELSE A
      BY <1>5, <1>7 DEF OwnedBy
    <2>3. BytesOf(ps, q) = SumFunctionOnSet(f, A) /\ BytesOf(packets', q) = SumFunctionOnSet(g, B)
      BY DEF BytesOf, SumFunction
    <2>4. A \subseteq B /\ \A j \in A : f[j] = g[j] /\ f[j] \in Nat
      <3>1. \A j \in A : j \in RelaySlots /\ j \in InUse(ps) BY <2>1 DEF InUse
      <3>2. \A j \in A : ps[j].len \in Nat BY <1>3, <3>1, PacketCases DEF PacketSet
      <3>3. \A j \in A : packets'[j] = ps[j] BY <1>7, <2>1
      <3> QED BY <2>2, <3>2, <3>3
    <2>5. i \notin A BY <1>7, <2>1
    <2>6. Cardinality(A) <= MAX_PER_RECIPIENT /\ BytesOf(ps, q) <= MAX_BYTES_PER_RECIPIENT
      BY <1>3 DEF Quotas
    <2>7. q = r => g[i] = len
      BY <1>5, <1>7, <2>2
    <2> HIDE DEF A, B, f, g
    <2>8. SumFunctionOnSet(f, A) = SumFunctionOnSet(g, A)
      BY <2>1, <2>4, SumSame
    <2>9. CASE q # r
      BY <2>2, <2>3, <2>6, <2>8, <2>9 DEF B
    <2>10. CASE q = r
      <3>1. IsFiniteSet(B) /\ B \ {i} = A /\ i \in B /\ \A j \in B : g[j] \in Nat
        BY <1>5, <2>1, <2>2, <2>4, <2>5, <2>7, <2>10, FS_AddElement
      <3>2. SumFunctionOnSet(g, B) = g[i] + SumFunctionOnSet(g, A)
        BY <3>1, SumTakeAway
      <3>3. SumFunctionOnSet(g, A) \in Nat
        BY <2>1, <2>4, SumTakeAway
      <3>4. Cardinality(B) = Cardinality(A) + 1 /\ Cardinality(A) \in Nat
        BY <2>1, <2>2, <2>5, <2>10, FS_AddElement, FS_CardinalityType
      <3>5. MAX_PER_RECIPIENT \in Nat /\ MAX_BYTES_PER_RECIPIENT \in Nat
        BY RelayAssumption
      <3>6. Cardinality(A) < MAX_PER_RECIPIENT /\ BytesOf(ps, q) + len <= MAX_BYTES_PER_RECIPIENT
        BY <1>4, <2>10 DEF A
      <3>7. Cardinality(B) <= MAX_PER_RECIPIENT BY <3>4, <3>5, <3>6
      <3>8. BytesOf(packets', q) <= MAX_BYTES_PER_RECIPIENT
        BY <1>5, <2>3, <2>7, <2>8, <2>10, <3>2, <3>3, <3>5, <3>6
      <3> QED BY <3>7, <3>8 DEF B
    <2> QED BY <2>9, <2>10
  <1>12. Quotas(packets)' BY <1>11 DEF Quotas
  <1>13. got' \subseteq 1 .. sent' /\ sent' \in Nat /\ clock' \in Nat BY <1>2, <1>5
  <1> QED BY <1>2, <1>9, <1>10, <1>12, <1>13 DEF RelayInv

\* drain_next hands a packet out and takes it from the table.
LEMMA DrainKeeps ==
    ASSUME RelayInv, NEW r \in Recipients, DrainNext(r)
    PROVE  RelayInv'
  <1> DEFINE ps == Purged.ps
             mine == OwnedBy(ps, r)
             First1(i) == \A j \in mine : \/ packets[i].at < packets[j].at
                                          \/ packets[i].at = packets[j].at /\ i <= j
             idx == CHOOSE i \in mine : First1(i)
  <1>1. /\ packets' = [ps EXCEPT ![idx] = Empty]
        /\ out' = Packet(idx, r) /\ got' = got \cup {packets[idx].serial}
        /\ count' = Purged.n - 1 /\ clock' = clock /\ sent' = sent /\ mine # {}
    BY Zenon DEF DrainNext
  <1>2. /\ Table(ps) /\ Quotas(ps) /\ Purged.n = Cardinality(InUse(ps))
        /\ \A i \in InUse(ps) : /\ ps[i] = packets[i] /\ i \in InUse(packets)
                                /\ clock - packets[i].at < TTL_MS
    BY PurgeKeeps
  <1>3. idx \in mine
    <2>1. mine \subseteq InUse(ps) /\ InUse(ps) \subseteq RelaySlots
      BY <1>2, PacketCases DEF InUse
    <2>2. \A i \in mine : packets[i].at \in Nat /\ i \in Nat
      <3>1. \A i \in mine : ps[i] \in PacketSet /\ ps[i] = packets[i] BY <1>2, <2>1, PacketCases
      <3>2. RelaySlots \subseteq Nat BY RelayAssumption DEF RelaySlots
      <3> QED BY <2>1, <3>1, <3>2 DEF PacketSet
    <2> DEFINE ats == {packets[i].at : i \in mine}
    <2>3. PICK a \in ats : \A b \in ats : a <= b
      <3>1. ats \in SUBSET Nat /\ ats # {} BY <1>1, <2>2
      <3> HIDE DEF ats
      <3> QED BY <3>1, LeastNatural
    <2> DEFINE old == {i \in mine : packets[i].at = a}
    <2>4. PICK i \in old : \A j \in old : i <= j
      <3>1. old \in SUBSET Nat /\ old # {} BY <2>2, <2>3
      <3> HIDE DEF old
      <3> QED BY <3>1, LeastNatural
    <2>5. First1(i)
      <3> SUFFICES ASSUME NEW j \in mine
                   PROVE  \/ packets[i].at < packets[j].at
                          \/ packets[i].at = packets[j].at /\ i <= j
        OBVIOUS
      <3>1. packets[i].at = a /\ a <= packets[j].at /\ a \in Nat /\ packets[j].at \in Nat
        BY <2>2, <2>3, <2>4
      <3>2. CASE packets[j].at = a BY <2>4, <3>1, <3>2
      <3>3. CASE packets[j].at # a BY <3>1, <3>3
      <3> QED BY <3>2, <3>3
    <2>6. i \in mine BY <2>4
    <2> HIDE DEF First1, mine
    <2> QED BY <2>5, <2>6
  <1> HIDE DEF idx, First1
  <1>4. idx \in InUse(ps) /\ idx \in RelaySlots /\ ps[idx].to = r
    BY <1>3 DEF OwnedBy, InUse
  <1>5. packets' = [i \in RelaySlots |-> IF i \in {idx} THEN Empty ELSE ps[i]]
    BY <1>1, <1>2, <1>4 DEF Table
  <1> HIDE DEF ps, mine
  <1>6. /\ Table(packets') /\ Quotas(packets')
        /\ InUse(packets') = InUse(ps) \ {idx} /\ \A i \in InUse(packets') : packets'[i] = ps[i]
        /\ Cardinality(InUse(packets')) = Cardinality(InUse(ps)) - Cardinality({idx})
    BY <1>2, <1>4, <1>5, FewerPackets
  <1>7. count' = Cardinality(InUse(packets'))
    BY <1>1, <1>2, <1>6, FS_Singleton
  <1>8. packets[idx] = ps[idx] /\ packets[idx].serial \in 1 .. sent /\ packets[idx].serial \notin got
    <2>1. ps[idx] \in PacketSet BY <1>2, <1>4, PacketCases
    <2> QED BY <1>2, <1>4, <2>1 DEF Table, PacketSet, RelayInv
  <1>9. out'.to = out'.for /\ ~out'.again /\ out'.age < TTL_MS
    BY <1>1, <1>2, <1>4, <1>8 DEF Packet
  <1>10. got' \subseteq 1 .. sent' /\ sent' \in Nat /\ clock' \in Nat
    BY <1>1, <1>8 DEF RelayInv
  <1>11. Table(packets)'
    <2>1. \A i \in InUse(ps) \ {idx} : ps[i].serial # ps[idx].serial /\ ps[i].serial \notin got
      BY <1>2, <1>4 DEF Table
    <2>2. \A i \in InUse(packets') : packets'[i].serial \notin got'
      <3>1. got' = got \cup {ps[idx].serial} BY <1>1, <1>8
      <3>2. \A i \in InUse(packets') : i \in InUse(ps) \ {idx} /\ packets'[i] = ps[i] BY <1>6
      <3> QED BY <2>1, <3>1, <3>2
    <2>3. /\ packets' \in [RelaySlots -> PacketSet \cup {Empty}]
          /\ \A i \in InUse(packets') : packets'[i].serial <= sent
          /\ \A i, j \in InUse(packets') : packets'[i].serial = packets'[j].serial => i = j
      BY <1>6 DEF Table
    <2>4. sent' = sent BY <1>1
    <2> QED BY <2>2, <2>3, <2>4 DEF Table
  <1>12. Quotas(packets)' BY <1>6 DEF Quotas
  <1> QED BY <1>7, <1>9, <1>10, <1>11, <1>12 DEF RelayInv

\* Every call of the store keeps its count, quotas and packets.
LEMMA RelayStepKeeps == RelayInv /\ [RelayNext]_relayVars => RelayInv'
  <1> SUFFICES ASSUME RelayInv, [RelayNext]_relayVars PROVE RelayInv'
    OBVIOUS
  <1>1. CASE UNCHANGED relayVars
    BY <1>1 DEF relayVars, RelayInv, Table, Quotas
  <1>2. ASSUME packets' = packets, count' = count, sent' = sent, got' = got, clock' \in Nat,
               out' = NoPacket
        PROVE  RelayInv'
    BY <1>2 DEF RelayInv, Table, Quotas
  <1>3. ASSUME packets' = Purged.ps, count' = Purged.n,
               out' = NoPacket, clock' = clock, sent' = sent, got' = got
        PROVE  RelayInv'
    <2>1. Table(packets') /\ Quotas(packets') /\ count' = Cardinality(InUse(packets'))
      BY <1>3, PurgeKeeps
    <2>2. Table(packets)' /\ Quotas(packets)'
      BY <1>3, <2>1 DEF Table, Quotas
    <2> QED BY <1>3, <2>1, <2>2 DEF RelayInv
  <1>4. ASSUME NEW r \in Recipients, NEW len \in Lengths, StoreRefused(r, len) PROVE RelayInv'
    <2>1. CASE len > MAX_BODY
      BY <1>2, <1>4, <2>1 DEF StoreRefused, RelayInv
    <2>2. CASE ~(len > MAX_BODY)
      BY <1>3, <1>4, <2>2 DEF StoreRefused
    <2> QED BY <2>1, <2>2
  <1>5. CASE PurgeExpired
    BY <1>3, <1>5 DEF PurgeExpired
  <1>6. CASE Reset
    <2>1. /\ packets' = [i \in RelaySlots |-> Empty] /\ count' = 0
          /\ out' = NoPacket /\ clock' = clock /\ sent' = sent /\ got' = got
      BY <1>6 DEF Reset
    <2>2. InUse(packets') = {} BY <2>1 DEF InUse, Empty
    <2>3. Table(packets)' BY <2>1, <2>2 DEF Table
    <2>4. Quotas(packets)'
      <3>1. \A r : OwnedBy(packets', r) = {} BY <2>2 DEF OwnedBy
      <3>2. \A r : BytesOf(packets', r) = 0
        BY <3>1, SumEmpty DEF BytesOf, SumFunction
      <3> QED BY <3>1, <3>2, FS_EmptySet, RelayAssumption DEF Quotas
    <2> QED BY <2>1, <2>2, <2>3, <2>4, FS_EmptySet DEF RelayInv
  <1>7. ASSUME NEW t \in 0 .. MaxClock, SetClock(t) PROVE RelayInv'
    BY <1>2, <1>7, RelayAssumption DEF SetClock
  <1> QED BY <1>1, <1>4, <1>5, <1>6, <1>7, StoreRelayKeeps, DrainKeeps DEF RelayNext

\* For every number of slots, quota and TTL: the packets in the table are those that
\* were stored and neither drained nor purged, each in one slot.
THEOREM RelayInvariant == RelaySpec => []RelayInv
  <1>1. RelayInit => RelayInv
    <2> SUFFICES ASSUME RelayInit PROVE RelayInv
      OBVIOUS
    <2>1. /\ packets = [i \in RelaySlots |-> Empty] /\ count = 0
          /\ clock = 0 /\ sent = 0 /\ out = NoPacket /\ got = {}
      BY DEF RelayInit
    <2>2. InUse(packets) = {} BY <2>1 DEF InUse, Empty
    <2>3. Table(packets) BY <2>1, <2>2 DEF Table
    <2>4. Quotas(packets)
      <3>1. \A r : OwnedBy(packets, r) = {} BY <2>2 DEF OwnedBy
      <3>2. \A r : BytesOf(packets, r) = 0
        BY <3>1, SumEmpty DEF BytesOf, SumFunction
      <3> QED BY <3>1, <3>2, FS_EmptySet, RelayAssumption DEF Quotas
    <2> QED BY <2>1, <2>2, <2>3, <2>4, FS_EmptySet DEF RelayInv
  <1> QED BY <1>1, RelayStepKeeps, PTL DEF RelaySpec

\* BE-MESH-02/03 for every limit: count of RelayStore is the number of its slots in
\* use, no recipient is above its quotas, and drain_next hands out a packet once, to
\* its recipient and within its TTL, whatever the clock does.
THEOREM RelayStoreExact == RelaySpec => []RelayExact
  <1>1. RelayInv => RelayExact
    BY DEF RelayInv, RelayExact, Quotas
  <1> QED BY <1>1, RelayInvariant, PTL

-----------------------------------------------------------------------------
\* A row of the table, and the rows of a table that has one row per address.
Registration == [addr : Addrs, client : Clients, expiry : Expiries]
Registrations(s) ==
    /\ s \in Seq(Registration)
    /\ \A j, k \in 1 .. Len(s) : s[j].addr = s[k].addr => j = k

\* k gives what is kept of the first rows of s at time t.
Keeps(s, t, f) ==
    f = [k \in 0 .. Len(s) |->
            IF k = 0 THEN <<>> ELSE IF s[k].expiry > t THEN Append(f[k - 1], s[k]) ELSE f[k - 1]]

\* The recursion of Retain has a solution, for as many rows as there are.
LEMMA KeepsExist ==
  ASSUME NEW s \in Seq(Registration), NEW t
  PROVE  \E f : Keeps(s, t, f)
  <1> DEFINE Up(n, f) ==
               f = [k \in 0 .. n |->
                      IF k = 0 THEN <<>>
                      ELSE IF s[k].expiry > t THEN Append(f[k - 1], s[k]) ELSE f[k - 1]]
             T == {n \in Nat : ~ \E f : Up(n, f)}
  <1>1. Len(s) \in Nat
    OBVIOUS
  <1>2. SUFFICES ASSUME T # {} PROVE FALSE
    <2>1. T = {} => \E f : Up(Len(s), f)
      BY <1>1
    <2> QED BY <2>1 DEF Keeps
  <1>3. PICK n \in T : \A m \in T : n <= m
    BY <1>2, LeastNatural
  <1>4. CASE n = 0
    <2> DEFINE f == [k \in 0 .. 0 |-> <<>>]
    <2>1. Up(0, f)
      OBVIOUS
    <2> QED BY <1>4, <2>1
  <1>5. CASE n # 0
    <2>0. n \in Nat
      OBVIOUS
    <2>1. n - 1 \in Nat /\ n - 1 \notin T /\ n \in Nat
      <3> HIDE DEF T
      <3> QED BY <1>3, <1>5, <2>0
    <2>2. PICK g : Up(n - 1, g)
      BY <2>1
    <2> DEFINE h == [k \in 0 .. n |->
                       IF k = n THEN IF s[n].expiry > t THEN Append(g[n - 1], s[n]) ELSE g[n - 1]
                       ELSE g[k]]
    <2>3. \A k \in 0 .. n - 1 : h[k] = g[k]
      BY <2>1
    <2>4. h[n] = IF s[n].expiry > t THEN Append(h[n - 1], s[n]) ELSE h[n - 1]
      BY <2>1, <2>3
    <2>5. \A k \in 0 .. n - 1 :
             g[k] = IF k = 0 THEN <<>>
                    ELSE IF s[k].expiry > t THEN Append(g[k - 1], s[k]) ELSE g[k - 1]
      BY <2>2, Zenon
    <2>6. ASSUME NEW k \in 0 .. n
          PROVE  h[k] = IF k = 0 THEN <<>>
                        ELSE IF s[k].expiry > t THEN Append(h[k - 1], s[k]) ELSE h[k - 1]
      <3>1. CASE k = n
        BY <1>5, <2>4, <3>1
      <3>2. CASE k # n
        <4>1. k \in 0 .. n - 1 /\ (k # 0 => k - 1 \in 0 .. n - 1)
          BY <2>1, <3>2
        <4>2. h[k] = g[k] /\ (k # 0 => h[k - 1] = g[k - 1])
          BY <2>3, <4>1
        <4> QED BY <2>5, <4>1, <4>2
      <3> QED BY <3>1, <3>2
    <2>7. h = [k \in 0 .. n |-> h[k]]
      OBVIOUS
    <2> HIDE DEF h
    <2>8. Up(n, h)
      BY <2>6, <2>7, Zenon
    <2> QED BY <1>3, <2>8
  <1> QED BY <1>4, <1>5

\* prune keeps exactly the rows that are not expired, one per address, and adds none.
LEMMA RetainRows ==
  ASSUME NEW s, Registrations(s), NEW t
  PROVE  /\ Registrations(Retain(s, t)) /\ Len(Retain(s, t)) <= Len(s)
         /\ ToSet(Retain(s, t)) = {s[k] : k \in {k \in 1 .. Len(s) : s[k].expiry > t}}
  <1>0. s \in Seq(Registration) /\ Len(s) \in Nat /\ DOMAIN s = 1 .. Len(s)
    BY DEF Registrations
  <1> DEFINE f == CHOOSE f : Keeps(s, t, f)
             Left(n) == {s[k] : k \in {k \in 1 .. n : s[k].expiry > t}}
             Good(n) == /\ Registrations(f[n]) /\ Len(f[n]) <= n /\ ToSet(f[n]) = Left(n)
             T == {n \in 0 .. Len(s) : ~Good(n)}
  <1>1. Keeps(s, t, f)
    BY <1>0, KeepsExist
  <1>2. Retain(s, t) = f[Len(s)]
    BY DEF Retain, Keeps
  <1> HIDE DEF f
  <1>3. /\ f[0] = <<>>
        /\ \A n \in 1 .. Len(s) : f[n] = IF s[n].expiry > t THEN Append(f[n - 1], s[n]) ELSE f[n - 1]
    <2>1. \A n \in 0 .. Len(s) :
            f[n] = IF n = 0 THEN <<>> ELSE IF s[n].expiry > t THEN Append(f[n - 1], s[n]) ELSE f[n - 1]
      BY <1>1, Zenon DEF Keeps
    <2> QED BY <1>0, <2>1
  <1>4. Good(0)
    BY <1>3 DEF Registrations, ToSet
  <1>5. ASSUME NEW n \in 1 .. Len(s), Good(n - 1) PROVE Good(n)
    <2>1. s[n] \in Registration /\ n \in Nat /\ n - 1 \in Nat
      BY <1>0
    <2>2. CASE ~(s[n].expiry > t)
      <3>1. f[n] = f[n - 1]
        BY <1>3, <2>2
      <3>2. Left(n) = Left(n - 1)
        BY <2>1, <2>2
      <3> QED BY <1>5, <2>1, <3>1, <3>2 DEF Registrations
    <2>3. CASE s[n].expiry > t
      <3> DEFINE g == f[n - 1]
                 h == Append(g, s[n])
      <3>1. f[n] = h /\ Registrations(g) /\ Len(g) <= n - 1 /\ ToSet(g) = Left(n - 1)
        BY <1>3, <1>5, <2>3
      <3> HIDE DEF g
      <3>2. g \in Seq(Registration) /\ Len(g) \in Nat /\ DOMAIN g = 1 .. Len(g)
        BY <3>1 DEF Registrations
      <3>3. /\ h \in Seq(Registration) /\ Len(h) = Len(g) + 1 /\ DOMAIN h = 1 .. Len(g) + 1
            /\ h[Len(g) + 1] = s[n] /\ \A k \in 1 .. Len(g) : h[k] = g[k]
        BY <2>1, <3>2
      <3> HIDE DEF h
      <3>4. ToSet(h) = ToSet(g) \cup {s[n]}
        <4>1. \A x \in ToSet(h) : x \in ToSet(g) \cup {s[n]}
          BY <3>2, <3>3 DEF ToSet
        <4>2. s[n] \in ToSet(h)
          <5>1. Len(g) + 1 \in DOMAIN h
            BY <3>2, <3>3
          <5> QED BY <3>3, <5>1 DEF ToSet
        <4>3. \A x \in ToSet(g) : x \in ToSet(h)
          BY <3>2, <3>3 DEF ToSet
        <4> QED BY <4>1, <4>2, <4>3
      <3>5. Left(n) = Left(n - 1) \cup {s[n]}
        BY <2>1, <2>3
      <3>6. ASSUME NEW k \in 1 .. Len(g) PROVE g[k].addr # s[n].addr
        <4>1. g[k] \in Left(n - 1)
          BY <3>1, <3>2 DEF ToSet
        <4>2. PICK j \in 1 .. n - 1 : g[k] = s[j]
          BY <4>1
        <4>3. j \in 1 .. Len(s) /\ n \in 1 .. Len(s) /\ j # n
          BY <2>1, <1>0, <4>2
        <4> QED BY <4>2, <4>3 DEF Registrations
      <3>7. ASSUME NEW j \in 1 .. Len(h), NEW k \in 1 .. Len(h), h[j].addr = h[k].addr PROVE j = k
        <4>1. CASE j <= Len(g) /\ k <= Len(g)
          BY <3>1, <3>2, <3>3, <3>7, <4>1 DEF Registrations
        <4>2. CASE j = Len(g) + 1 /\ k <= Len(g)
          BY <3>2, <3>3, <3>6, <3>7, <4>2
        <4>3. CASE k = Len(g) + 1 /\ j <= Len(g)
          BY <3>2, <3>3, <3>6, <3>7, <4>3
        <4> QED BY <3>2, <3>3, <4>1, <4>2, <4>3
      <3>8. Registrations(h) /\ Len(h) <= n
        BY <2>1, <3>1, <3>2, <3>3, <3>7 DEF Registrations
      <3> QED BY <3>1, <3>4, <3>5, <3>8
    <2> QED BY <2>2, <2>3
  <1>6. T = {}
    <2>1. SUFFICES ASSUME T # {} PROVE FALSE
      OBVIOUS
    <2>2. PICK n \in T : \A m \in T : n <= m
      <3>1. T \in SUBSET Nat
        BY <1>0
      <3> HIDE DEF T
      <3> QED BY <2>1, <3>1, LeastNatural
    <2>3. n # 0 /\ n \in 0 .. Len(s) /\ ~Good(n)
      BY <1>4, <2>2
    <2> HIDE DEF Good
    <2>4. n \in 1 .. Len(s) /\ n - 1 \notin T
      BY <1>0, <2>2, <2>3
    <2>5. n - 1 \in 0 .. Len(s)
      BY <1>0, <2>4
    <2> QED BY <1>5, <2>3, <2>4, <2>5
  <1>7. Good(Len(s))
    <2> HIDE DEF Good
    <2> QED BY <1>0, <1>6
  <1> QED BY <1>2, <1>7

\* The addresses that hold a registration.
Held == {a \in Addrs : promised[a] # NoEntry}

\* The table is what was promised, row by row.
TableInv ==
    /\ Registrations(entries) /\ Len(entries) <= MAX_RELAY_TABLE /\ moment \in Nat
    /\ promised \in [Addrs -> Registration \cup {NoEntry}]
    /\ \A k \in 1 .. Len(entries) : promised[entries[k].addr] = entries[k]
    /\ \A a \in Held : \E k \in 1 .. Len(entries) : entries[k] = promised[a] /\ entries[k].addr = a
    /\ route # NoEntry /\ route.answer # "StaleRoute" =>
           (route.answer = "Packet" <=> \E a \in Held : promised[a].client = route.to)

\* The endpoints are those of the sockets, each once.
PortsInv ==
    /\ owned \in Seq(Ports) /\ Len(owned) <= MAX_ENDPOINTS
    /\ \A j, k \in 1 .. Len(owned) : owned[j] = owned[k] => j = k
    /\ sockets \in [Ports -> {"none", "claimed", "bound"}]
    /\ ToSet(owned) = {p \in Ports : sockets[p] # "none"}

MeshInv == TableInv /\ PortsInv

\* A row is no missing one.
LEMMA RowIsNone == \A e \in Registration : e # NoEntry /\ e.expiry \in Nat
  <1> SUFFICES ASSUME NEW e \in Registration PROVE e # NoEntry /\ e.expiry \in Nat
    OBVIOUS
  <1>1. e.expiry \in Nat
    BY MeshAssumption DEF Registration
  <1>2. NoEntry.expiry = -1
    BY DEF NoEntry
  <1> QED BY <1>1, <1>2

\* lookup finds the one row of the address, or none.
LEMMA LookupRow ==
  ASSUME Registrations(entries)
  PROVE  /\ \A k \in 1 .. Len(entries) : Lookup(entries[k].addr) = entries[k]
         /\ \A a : (\A k \in 1 .. Len(entries) : entries[k].addr # a) => Lookup(a) = NoEntry
  <1>0. entries \in Seq(Registration) /\ DOMAIN entries = 1 .. Len(entries) /\ Len(entries) \in Nat
    BY DEF Registrations
  <1>1. ASSUME NEW k \in 1 .. Len(entries) PROVE Lookup(entries[k].addr) = entries[k]
    <2> DEFINE found == {j \in DOMAIN entries : entries[j].addr = entries[k].addr}
               i == CHOOSE i \in found : \A j \in found : i <= j
    <2>1. found = {k}
      BY <1>0 DEF Registrations
    <2>2. k \in found /\ \A j \in found : k <= j
      BY <1>0, <2>1
    <2>3. i \in found
      BY <2>2
    <2>4. i = k
      BY <2>1, <2>3
    <2>5. found # {}
      BY <2>1
    <2> QED BY <2>4, <2>5 DEF Lookup
  <1>2. ASSUME NEW a, \A k \in 1 .. Len(entries) : entries[k].addr # a
        PROVE  Lookup(a) = NoEntry
    BY <1>0, <1>2 DEF Lookup
  <1> QED BY <1>1, <1>2

\* What the rows say is what MeshExact says.
LEMMA MeshFollows == MeshInv => MeshExact
  <1> SUFFICES ASSUME MeshInv PROVE MeshExact
    OBVIOUS
  <1>0. /\ Registrations(entries) /\ entries \in Seq(Registration) /\ Len(entries) \in Nat
        /\ owned \in Seq(Ports) /\ Len(owned) \in Nat
    BY DEF MeshInv, TableInv, PortsInv, Registrations
  <1>1. ASSUME NEW a \in Addrs PROVE Lookup(a) = promised[a]
    <2>1. CASE promised[a] # NoEntry
      <3>1. PICK k \in 1 .. Len(entries) : entries[k] = promised[a] /\ entries[k].addr = a
        BY <2>1 DEF MeshInv, TableInv, Held
      <3> QED BY <1>0, <3>1, LookupRow
    <2>2. CASE promised[a] = NoEntry
      <3>1. ASSUME NEW k \in 1 .. Len(entries), entries[k].addr = a PROVE FALSE
        <4>1. entries[k] \in Registration /\ promised[a] = entries[k]
          BY <1>0, <3>1 DEF MeshInv, TableInv
        <4> QED BY <2>2, <4>1, RowIsNone
      <3> QED BY <1>0, <2>2, <3>1, LookupRow
    <2> QED BY <2>1, <2>2
  <1>2. Cardinality(Held) = Len(entries)
    <2> DEFINE g == [k \in 1 .. Len(entries) |-> entries[k].addr]
    <2>1. \A j, k \in 1 .. Len(entries) : g[j] = g[k] => j = k
      BY DEF MeshInv, TableInv, Registrations
    <2>2. DOMAIN g = 1 .. Len(entries) /\ Range(g) = Held
      <3>1. ASSUME NEW k \in 1 .. Len(entries) PROVE g[k] \in Held
        <4>1. entries[k] \in Registration /\ promised[entries[k].addr] = entries[k]
          BY <1>0 DEF MeshInv, TableInv
        <4>2. entries[k].addr \in Addrs
          BY <4>1 DEF Registration
        <4> QED BY <4>1, <4>2, RowIsNone DEF Held
      <3>2. ASSUME NEW a \in Held PROVE \E k \in 1 .. Len(entries) : g[k] = a
        BY DEF MeshInv, TableInv
      <3> QED BY <3>1, <3>2 DEF Range
    <2> HIDE DEF g
    <2>3. Cardinality(Range(g)) = Len(entries)
      BY <1>0, <2>1, <2>2, CountDistinct, Zenon
    <2> QED BY <2>2, <2>3
  <1>3. Len(owned) = Cardinality(ToSet(owned))
    <2>1. DOMAIN owned = 1 .. Len(owned) /\ Range(owned) = ToSet(owned)
      BY <1>0 DEF ToSet, Range
    <2>2. \A j, k \in 1 .. Len(owned) : owned[j] = owned[k] => j = k
      BY DEF MeshInv, PortsInv
    <2>3. Cardinality(Range(owned)) = Len(owned)
      BY <1>0, <2>1, <2>2, CountDistinct, Zenon
    <2> QED BY <2>1, <2>3
  <1> QED BY <1>1, <1>2, <1>3 DEF MeshInv, TableInv, PortsInv, MeshExact, Held

\* A registration of a known address takes the place of the old row, of a new one the
\* next.
LEMMA RegisterKeeps ==
  ASSUME MeshInv, NEW a \in Addrs, NEW c \in Clients, NEW x \in Expiries, Register(a, c, x)
  PROVE  MeshInv'
  <1> DEFINE e == [addr |-> a, client |-> c, expiry |-> x]
             n == Len(entries)
  <1>0. /\ Registrations(entries) /\ entries \in Seq(Registration) /\ n \in Nat /\ DOMAIN entries = 1 .. n
        /\ n <= MAX_RELAY_TABLE /\ promised \in [Addrs -> Registration \cup {NoEntry}]
        /\ MAX_RELAY_TABLE \in Nat
    BY MeshAssumption DEF MeshInv, TableInv, Registrations
  <1>1. e \in Registration /\ e.addr = a
    BY DEF Registration
  <1>2. /\ entries' = Insert(e) /\ promised' = [promised EXCEPT ![a] = e] /\ route' = NoEntry
        /\ Lookup(a) # NoEntry \/ n < MAX_RELAY_TABLE
        /\ moment' = moment /\ owned' = owned /\ sockets' = sockets
    BY DEF Register, portVars
  <1> HIDE DEF e
  <1>3. /\ promised' \in [Addrs -> Registration \cup {NoEntry}] /\ promised'[a] = e
        /\ \A b \in Addrs : b # a => promised'[b] = promised[b]
    BY <1>0, <1>1, <1>2
  <1> DEFINE Placed(i) ==
               /\ entries' \in Seq(Registration) /\ Len(entries') \in {n, n + 1} /\ i <= Len(entries')
               /\ entries'[i] = e /\ Len(entries') <= MAX_RELAY_TABLE
               /\ \A k \in 1 .. Len(entries') : k # i => k <= n /\ entries'[k] = entries[k]
               /\ \A k \in 1 .. n : (k # i <=> entries[k].addr # a) /\ k <= Len(entries')
  <1>4. PICK i \in 1 .. n + 1 : Placed(i)
    <2>1. CASE \E i \in 1 .. n : entries[i].addr = a
      <3>1. PICK i \in 1 .. n : entries[i].addr = a
        BY <2>1
      <3>2. Lookup(a) = entries[i] /\ entries[i] \in Registration
        BY <1>0, <3>1, LookupRow
      <3>3. entries' = [k \in 1 .. n |-> IF entries[k] = entries[i] THEN e ELSE entries[k]]
        BY <1>0, <1>1, <1>2, <3>2, RowIsNone DEF Insert
      <3>4. \A k \in 1 .. n : k # i => entries[k].addr # a /\ entries[k] # entries[i]
        BY <3>1, <1>0 DEF Registrations
      <3>5. entries' \in Seq(Registration) /\ Len(entries') = n
        BY <1>0, <1>1, <3>3
      <3>6. /\ entries'[i] = e /\ i <= n /\ i \in 1 .. n + 1
            /\ \A k \in 1 .. n : k # i => k <= n /\ entries'[k] = entries[k]
            /\ \A k \in 1 .. n : (k # i <=> entries[k].addr # a) /\ k <= n
        BY <1>0, <3>1, <3>3, <3>4
      <3>7. Placed(i)
        BY <1>0, <3>5, <3>6
      <3> HIDE DEF Placed
      <3> QED BY <3>6, <3>7
    <2>2. CASE ~ \E i \in 1 .. n : entries[i].addr = a
      <3>1. Lookup(a) = NoEntry
        BY <1>0, <2>2, LookupRow
      <3>2. entries' = Append(entries, e)
        <4>1. n < MAX_RELAY_TABLE /\ ~(n >= MAX_RELAY_TABLE)
          BY <1>0, <1>2, <3>1
        <4> QED BY <1>1, <1>2, <3>1, <4>1 DEF Insert
      <3>3. /\ entries' \in Seq(Registration) /\ Len(entries') = n + 1 /\ entries'[n + 1] = e
            /\ \A k \in 1 .. n : entries'[k] = entries[k]
        BY <1>0, <1>1, <3>2
      <3>4. n + 1 <= MAX_RELAY_TABLE /\ n + 1 \in 1 .. n + 1
        BY <1>0, <1>2, <3>1
      <3>5. \A k \in 1 .. n + 1 : k # n + 1 => k <= n /\ entries'[k] = entries[k]
        BY <1>0, <3>3
      <3>6. \A k \in 1 .. n : (k # n + 1 <=> entries[k].addr # a) /\ k <= n + 1
        BY <1>0, <2>2
      <3>7. Placed(n + 1)
        BY <1>0, <3>3, <3>4, <3>5, <3>6
      <3> HIDE DEF Placed
      <3> QED BY <3>4, <3>7
    <2> QED BY <2>1, <2>2
  <1>5. ASSUME NEW k \in 1 .. Len(entries'), k # i
        PROVE  /\ k \in 1 .. n /\ entries'[k] = entries[k]
               /\ entries'[k].addr # a /\ entries'[k].addr \in Addrs
    <2>1. k \in 1 .. n /\ entries'[k] = entries[k]
      BY <1>0, <1>4, <1>5
    <2>2. entries[k] \in Registration
      BY <1>0, <2>1
    <2> QED BY <1>4, <1>5, <2>1, <2>2 DEF Registration
  <1>6. Registrations(entries')
    BY <1>0, <1>1, <1>4, <1>5 DEF Registrations
  <1>7. \A k \in 1 .. Len(entries') : promised'[entries'[k].addr] = entries'[k]
    BY <1>1, <1>3, <1>4, <1>5 DEF MeshInv, TableInv
  <1>8. ASSUME NEW b \in Held'
        PROVE  \E k \in 1 .. Len(entries') : entries'[k] = promised'[b] /\ entries'[k].addr = b
    <2>1. CASE b = a
      <3>1. i \in 1 .. Len(entries')
        BY <1>0, <1>4
      <3> QED BY <1>1, <1>3, <1>4, <2>1, <3>1
    <2>2. CASE b # a
      <3>1. b \in Held /\ promised'[b] = promised[b]
        BY <1>3, <2>2 DEF Held
      <3>2. PICK k \in 1 .. n : entries[k] = promised[b] /\ entries[k].addr = b
        BY <3>1 DEF MeshInv, TableInv
      <3>3. k # i
        BY <1>4, <2>2, <3>2
      <3>4. k \in 1 .. Len(entries') /\ entries'[k] = entries[k]
        BY <1>0, <1>4, <3>3
      <3> QED BY <3>1, <3>2, <3>4
    <2> QED BY <2>1, <2>2
  <1>9. TableInv'
    BY <1>2, <1>3, <1>4, <1>6, <1>7, <1>8 DEF MeshInv, TableInv
  <1> QED BY <1>2, <1>9 DEF MeshInv, PortsInv

\* A prune leaves the registrations that are not expired, in the table and in the promise.
LEMMA PruneKeeps == ASSUME MeshInv, Prune PROVE MeshInv'
  <1>0. /\ Registrations(entries) /\ entries \in Seq(Registration) /\ Len(entries) \in Nat
        /\ Len(entries) <= MAX_RELAY_TABLE /\ MAX_RELAY_TABLE \in Nat /\ moment \in Nat
        /\ promised \in [Addrs -> Registration \cup {NoEntry}]
    BY MeshAssumption DEF MeshInv, TableInv, Registrations
  <1>1. /\ entries' = Retain(entries, moment) /\ route' = NoEntry
        /\ promised' = [a \in Addrs |-> IF promised[a].expiry > moment THEN promised[a] ELSE NoEntry]
        /\ moment' = moment /\ owned' = owned /\ sockets' = sockets
    BY DEF Prune, portVars
  <1>2. /\ Registrations(entries') /\ Len(entries') <= Len(entries) /\ Len(entries') \in Nat
        /\ ToSet(entries') = {entries[k] : k \in {k \in 1 .. Len(entries) : entries[k].expiry > moment}}
        /\ DOMAIN entries' = 1 .. Len(entries')
    <2>1. /\ Registrations(entries') /\ Len(entries') <= Len(entries)
          /\ ToSet(entries') = {entries[k] : k \in {k \in 1 .. Len(entries) : entries[k].expiry > moment}}
      BY <1>0, <1>1, RetainRows
    <2>2. entries' \in Seq(Registration)
      BY <2>1 DEF Registrations
    <2> QED BY <2>1, <2>2
  <1>3. promised' \in [Addrs -> Registration \cup {NoEntry}]
    BY <1>0, <1>1
  <1>4. ASSUME NEW j \in 1 .. Len(entries') PROVE promised'[entries'[j].addr] = entries'[j]
    <2>1. entries'[j] \in ToSet(entries')
      BY <1>2 DEF ToSet
    <2>2. PICK k \in 1 .. Len(entries) : entries'[j] = entries[k] /\ entries[k].expiry > moment
      BY <1>2, <2>1
    <2>3. promised[entries[k].addr] = entries[k] /\ entries[k] \in Registration
      BY <1>0 DEF MeshInv, TableInv
    <2>4. entries[k].addr \in Addrs
      BY <2>3 DEF Registration
    <2> QED BY <1>1, <2>2, <2>3, <2>4
  <1>5. ASSUME NEW a \in Held'
        PROVE  \E j \in 1 .. Len(entries') : entries'[j] = promised'[a] /\ entries'[j].addr = a
    <2>1. a \in Held /\ promised'[a] = promised[a] /\ promised[a].expiry > moment
      BY <1>1 DEF Held
    <2>2. PICK k \in 1 .. Len(entries) : entries[k] = promised[a] /\ entries[k].addr = a
      BY <2>1 DEF MeshInv, TableInv
    <2>3. entries[k] \in ToSet(entries')
      BY <1>2, <2>1, <2>2
    <2>4. PICK j \in 1 .. Len(entries') : entries'[j] = entries[k]
      BY <1>2, <2>3 DEF ToSet
    <2> QED BY <2>1, <2>2, <2>4
  <1>6. TableInv'
    BY <1>0, <1>1, <1>2, <1>3, <1>4, <1>5 DEF TableInv
  <1> QED BY <1>1, <1>6 DEF MeshInv, PortsInv

\* A packet is forwarded when some row has its recipient: some address holds it.
LEMMA ForwardKeeps ==
  ASSUME MeshInv, NEW c \in Clients, NEW timestamp, Forward(c, timestamp)
  PROVE  MeshInv'
  <1>0. /\ entries \in Seq(Registration) /\ Len(entries) \in Nat /\ DOMAIN entries = 1 .. Len(entries)
    BY DEF MeshInv, TableInv, Registrations
  <1>1. /\ route' = [to |-> c, answer |-> ForwardPacket(c, timestamp)]
        /\ entries' = entries /\ moment' = moment /\ promised' = promised
        /\ owned' = owned /\ sockets' = sockets
    BY DEF Forward, portVars
  <1>2. (\E k \in DOMAIN entries : entries[k].client = c) <=> \E a \in Held : promised[a].client = c
    <2>1. ASSUME NEW k \in 1 .. Len(entries), entries[k].client = c
          PROVE  \E a \in Held : promised[a].client = c
      <3>1. entries[k] \in Registration /\ promised[entries[k].addr] = entries[k]
        BY <1>0 DEF MeshInv, TableInv
      <3>2. entries[k].addr \in Held
        <4>1. entries[k].addr \in Addrs
          BY <3>1 DEF Registration
        <4> QED BY <3>1, <4>1, RowIsNone DEF Held
      <3> QED BY <2>1, <3>1, <3>2
    <2>2. ASSUME NEW a \in Held, promised[a].client = c
          PROVE  \E k \in 1 .. Len(entries) : entries[k].client = c
      BY <2>2 DEF MeshInv, TableInv
    <2> QED BY <1>0, <2>1, <2>2
  <1>3. route'.answer # "StaleRoute" =>
          (route'.answer = "Packet" <=> \E a \in Held : promised[a].client = route'.to)
    BY <1>1, <1>2 DEF ForwardPacket
  <1>4. TableInv'
    BY <1>1, <1>3 DEF MeshInv, TableInv, Held
  <1> QED BY <1>1, <1>4 DEF MeshInv, PortsInv

\* claim appends an endpoint nobody owns.
LEMMA ClaimKeeps ==
  ASSUME MeshInv, NEW p \in Ports, Claim(p) PROVE MeshInv'
  <1> DEFINE n == Len(owned)
  <1>0. /\ owned \in Seq(Ports) /\ n \in Nat /\ DOMAIN owned = 1 .. n /\ MAX_ENDPOINTS \in Nat
        /\ sockets \in [Ports -> {"none", "claimed", "bound"}]
        /\ ToSet(owned) = {q \in Ports : sockets[q] # "none"}
    BY MeshAssumption DEF MeshInv, PortsInv
  <1>1. /\ p \notin ToSet(owned) /\ n < MAX_ENDPOINTS /\ owned' = Append(owned, p)
        /\ sockets' = [sockets EXCEPT ![p] = "claimed"]
        /\ UNCHANGED tableVars
    BY DEF Claim, Owns
  <1>2. /\ owned' \in Seq(Ports) /\ Len(owned') = n + 1 /\ DOMAIN owned' = 1 .. n + 1
        /\ owned'[n + 1] = p /\ \A k \in 1 .. n : owned'[k] = owned[k]
    BY <1>0, <1>1
  <1>3. \A k \in 1 .. n : owned[k] # p
    BY <1>0, <1>1 DEF ToSet
  <1>4. \A j, k \in 1 .. n + 1 : owned'[j] = owned'[k] => j = k
    <2>1. \A k \in 1 .. n + 1 : k = n + 1 \/ k \in 1 .. n
      BY <1>0
    <2> QED BY <1>2, <1>3, <2>1 DEF MeshInv, PortsInv
  <1>5. ToSet(owned') = ToSet(owned) \cup {p}
    <2>1. \A x \in ToSet(owned') : x \in ToSet(owned) \cup {p}
      BY <1>0, <1>2 DEF ToSet
    <2>2. p \in ToSet(owned')
      <3>1. n + 1 \in DOMAIN owned'
        BY <1>0, <1>2
      <3> QED BY <1>2, <3>1 DEF ToSet
    <2>3. \A x \in ToSet(owned) : x \in ToSet(owned')
      BY <1>0, <1>2 DEF ToSet
    <2> QED BY <2>1, <2>2, <2>3
  <1>6. ToSet(owned') = {q \in Ports : sockets'[q] # "none"}
    BY <1>0, <1>1, <1>5
  <1>7. sockets' \in [Ports -> {"none", "claimed", "bound"}]
    BY <1>0, <1>1
  <1>8. PortsInv'
    <2>1. Len(owned') <= MAX_ENDPOINTS
      BY <1>0, <1>1, <1>2
    <2> QED BY <1>2, <1>4, <1>6, <1>7, <2>1 DEF PortsInv
  <1> QED BY <1>1, <1>8 DEF MeshInv, TableInv, Held, tableVars

\* release moves the last endpoint to the free place.
LEMMA ReleaseKeeps ==
  ASSUME MeshInv, NEW p \in Ports, Release(p) PROVE MeshInv'
  <1> DEFINE n == Len(owned)
             i == CHOOSE i \in DOMAIN owned : owned[i] = p
             s == [owned EXCEPT ![i] = Last(owned)]
  <1>0. /\ owned \in Seq(Ports) /\ n \in Nat /\ DOMAIN owned = 1 .. n /\ n <= MAX_ENDPOINTS
        /\ MAX_ENDPOINTS \in Nat
        /\ sockets \in [Ports -> {"none", "claimed", "bound"}]
        /\ ToSet(owned) = {q \in Ports : sockets[q] # "none"}
        /\ \A j, k \in 1 .. n : owned[j] = owned[k] => j = k
    BY MeshAssumption DEF MeshInv, PortsInv
  <1>1. /\ sockets[p] # "none" /\ owned' = Front(s)
        /\ sockets' = [sockets EXCEPT ![p] = "none"]
        /\ UNCHANGED tableVars
    BY DEF Release, Released
  <1>2. i \in 1 .. n /\ owned[i] = p
    <2>1. p \in ToSet(owned)
      BY <1>0, <1>1
    <2>2. \E k \in DOMAIN owned : owned[k] = p
      BY <2>1 DEF ToSet
    <2> QED BY <1>0, <2>2
  <1> HIDE DEF i
  <1>3. n \in 1 .. n /\ n - 1 \in Nat
    BY <1>0, <1>2
  <1>4. /\ s \in Seq(Ports) /\ Len(s) = n
        /\ \A k \in 1 .. n : s[k] = IF k = i THEN owned[n] ELSE owned[k]
    BY <1>0, <1>2, <1>3 DEF Last
  <1> HIDE DEF s
  <1>5. /\ owned' \in Seq(Ports) /\ Len(owned') = n - 1 /\ DOMAIN owned' = 1 .. n - 1
        /\ \A k \in 1 .. n - 1 : owned'[k] = IF k = i THEN owned[n] ELSE owned[k]
    BY <1>1, <1>3, <1>4 DEF Front
  <1>6. /\ \A k \in 1 .. n - 1 : k \in 1 .. n /\ k # n
        /\ \A k \in 1 .. n : k # n => k \in 1 .. n - 1
    <2>1. \A m \in Nat : /\ \A k \in 1 .. m - 1 : k \in 1 .. m /\ k # m
                         /\ \A k \in 1 .. m : k # m => k \in 1 .. m - 1
      OBVIOUS
    <2>2. n \in Nat
      BY <1>0
    <2> HIDE DEF n
    <2> QED BY <2>1, <2>2
  <1>7. \A j, k \in 1 .. n - 1 : owned'[j] = owned'[k] => j = k
    BY <1>0, <1>2, <1>3, <1>5, <1>6
  <1>8. ToSet(owned') = ToSet(owned) \ {p}
    <2>1. ASSUME NEW k \in 1 .. n - 1 PROVE owned'[k] \in ToSet(owned) \ {p}
      <3>1. owned'[k] \in ToSet(owned)
        BY <1>0, <1>3, <1>5, <1>6 DEF ToSet
      <3>2. owned'[k] # p
        BY <1>0, <1>2, <1>3, <1>5, <1>6
      <3> QED BY <3>1, <3>2
    <2>2. ASSUME NEW k \in 1 .. n, owned[k] # p PROVE \E j \in 1 .. n - 1 : owned'[j] = owned[k]
      <3>1. CASE k # n
        <4>1. k \in 1 .. n - 1 /\ k # i
          BY <1>2, <1>6, <2>2, <3>1
        <4> QED BY <1>5, <4>1
      <3>2. CASE k = n
        <4>1. i \in 1 .. n - 1
          BY <1>2, <1>6, <2>2, <3>2
        <4> QED BY <1>5, <3>2, <4>1
      <3> QED BY <3>1, <3>2
    <2>3. ToSet(owned) = {owned[k] : k \in 1 .. n}
      BY <1>0 DEF ToSet
    <2>4. ToSet(owned') = {owned'[k] : k \in 1 .. n - 1}
      BY <1>5 DEF ToSet
    <2>5. \A x \in ToSet(owned') : x \in ToSet(owned) \ {p}
      BY <2>1, <2>4
    <2>6. \A x \in ToSet(owned) \ {p} : x \in ToSet(owned')
      BY <2>2, <2>3, <2>4
    <2> QED BY <2>5, <2>6
  <1>9. ToSet(owned') = {q \in Ports : sockets'[q] # "none"}
    BY <1>0, <1>1, <1>8
  <1>10. sockets' \in [Ports -> {"none", "claimed", "bound"}]
    BY <1>0, <1>1
  <1>11. PortsInv'
    <2>1. Len(owned') <= MAX_ENDPOINTS
      BY <1>0, <1>5
    <2> QED BY <1>5, <1>7, <1>9, <1>10, <2>1 DEF PortsInv
  <1> QED BY <1>1, <1>11 DEF MeshInv, TableInv, Held, tableVars

\* Every step of the relay's table and of the registry keeps them exact.
LEMMA MeshStepKeeps == MeshInv /\ [MeshNext]_meshVars => MeshInv'
  <1> SUFFICES ASSUME MeshInv, [MeshNext]_meshVars PROVE MeshInv'
    OBVIOUS
  <1>1. CASE UNCHANGED meshVars
    BY <1>1 DEF meshVars, MeshInv, TableInv, PortsInv, Held
  <1>2. ASSUME NEW a \in Addrs, NEW x \in Expiries, NEW c \in Clients, Register(a, c, x)
        PROVE  MeshInv'
    BY <1>2, RegisterKeeps
  <1>3. ASSUME NEW a, NEW frame, RegisterRefused(a, frame) PROVE MeshInv'
    BY <1>1, <1>3 DEF RegisterRefused
  <1>4. CASE Prune
    BY <1>4, PruneKeeps
  <1>5. ASSUME NEW c \in Clients, NEW timestamp, Forward(c, timestamp) PROVE MeshInv'
    BY <1>5, ForwardKeeps
  <1>6. CASE MeshTick
    <2>1. moment' = moment + 1 /\ route' = NoEntry /\ UNCHANGED <<entries, promised, owned, sockets>>
      BY <1>6 DEF MeshTick, portVars
    <2> QED BY <2>1 DEF MeshInv, TableInv, PortsInv, Held
  <1>7. ASSUME NEW p \in Ports, Claim(p) PROVE MeshInv'
    BY <1>7, ClaimKeeps
  <1>8. ASSUME NEW p, ClaimRefused(p) PROVE MeshInv'
    BY <1>1, <1>8 DEF ClaimRefused
  <1>9. ASSUME NEW p \in Ports, Bind(p) PROVE MeshInv'
    <2>1. /\ sockets[p] = "claimed" /\ sockets' = [sockets EXCEPT ![p] = "bound"] /\ owned' = owned
          /\ UNCHANGED tableVars
      BY <1>9 DEF Bind, tableVars
    <2>2. PortsInv'
      BY <2>1 DEF MeshInv, PortsInv
    <2> QED BY <2>1, <2>2 DEF MeshInv, TableInv, Held, tableVars
  <1>10. ASSUME NEW p \in Ports, Release(p) PROVE MeshInv'
    BY <1>10, ReleaseKeeps
  <1>11. CASE TableNext
    BY <1>11, <1>2, <1>3, <1>4, <1>5, <1>6 DEF TableNext
  <1>12. CASE PortNext
    BY <1>12, <1>7, <1>8, <1>9, <1>10 DEF PortNext
  <1> QED BY <1>1, <1>11, <1>12 DEF MeshNext

\* However many registrations, refreshes, prunes, claims and releases: one row per
\* address, and one place per endpoint.
THEOREM MeshInvariant == MeshSpec => []MeshInv
  <1>1. MeshInit => MeshInv
    <2> SUFFICES ASSUME MeshInit PROVE MeshInv
      OBVIOUS
    <2>1. /\ entries = <<>> /\ moment = 0 /\ promised = [a \in Addrs |-> NoEntry] /\ route = NoEntry
          /\ owned = <<>> /\ sockets = [p \in Ports |-> "none"]
      BY DEF MeshInit, TableInit, PortInit
    <2>2. Registrations(entries) /\ Held = {} /\ Len(entries) = 0
      BY <2>1 DEF Registrations, Held
    <2>3. ToSet(owned) = {} /\ {p \in Ports : sockets[p] # "none"} = {} /\ Len(owned) = 0
      BY <2>1 DEF ToSet
    <2>4. TableInv
      BY <2>1, <2>2, MeshAssumption DEF TableInv
    <2>5. PortsInv
      BY <2>1, <2>3, MeshAssumption DEF PortsInv
    <2> QED BY <2>4, <2>5 DEF MeshInv
  <1> QED BY <1>1, MeshStepKeeps, PTL DEF MeshSpec

\* BE-MESH-02 and BE-EXEC-02, for every set of addresses, clients and ports and every
\* limit: the routes are those of the accepted registrations, and the endpoints those of
\* the open sockets.
THEOREM RelayMeshExact == MeshSpec => []MeshExact
  BY MeshInvariant, MeshFollows, PTL

-----------------------------------------------------------------------------
(* The parsers and the encoders.                                           *)

\* The bytes of w behind place p, up to place q.
Slice(w, p, q) == SubSeq(w, p + 1, q)

\* A slice is a sequence.
LEMMA SliceIs ==
  ASSUME NEW w \in Seq(Nat), NEW p \in 0 .. Len(w), NEW q \in 0 .. Len(w), p <= q
  PROVE  /\ Slice(w, p, q) \in Seq(Nat) /\ Len(Slice(w, p, q)) = q - p
         /\ \A i \in 1 .. q - p : Slice(w, p, q)[i] = w[p + i]
  BY DEF Slice

\* Two sequences with the same length and elements are the same.
LEMMA SameSeq ==
  ASSUME NEW s \in Seq(Nat), NEW t \in Seq(Nat), Len(s) = Len(t), \A i \in 1 .. Len(s) : s[i] = t[i]
  PROVE  s = t
  OBVIOUS

\* Slices that meet are one slice.
LEMMA SlicesJoin ==
  ASSUME NEW w \in Seq(Nat), NEW a \in 0 .. Len(w), NEW b \in 0 .. Len(w), NEW c \in 0 .. Len(w),
         a <= b, b <= c
  PROVE  Slice(w, a, b) \o Slice(w, b, c) = Slice(w, a, c)
  <1>1. a + 1 \in 1 .. Len(w) + 1 /\ b \in (a + 1) - 1 .. Len(w) /\ c \in b .. Len(w) OBVIOUS
  <1> QED BY <1>1, ConcatAdjacentSubSeq DEF Slice

\* The first byte of a slice, and the rest.
LEMMA SliceHead ==
  ASSUME NEW w \in Seq(Nat), NEW p \in 0 .. Len(w), NEW q \in 0 .. Len(w), p < q
  PROVE  Slice(w, p, q) = <<w[p + 1]>> \o Slice(w, p + 1, q)
  <1>1. p + 1 \in 0 .. Len(w) /\ p <= p + 1 /\ p + 1 <= q OBVIOUS
  <1>2. Slice(w, p, p + 1) = <<w[p + 1]>>
    <2>1. PICK s : s = Slice(w, p, p + 1) OBVIOUS
    <2>2. s \in Seq(Nat) /\ Len(s) = 1 /\ s[1] = w[p + 1]
      <3>1. PICK x \in 0 .. Len(w) : x = p + 1 /\ p <= x BY <1>1
      <3>2. s \in Seq(Nat) /\ Len(s) = x - p /\ \A i \in 1 .. x - p : s[i] = w[p + i]
        BY <2>1, <3>1, SliceIs
      <3> QED BY <3>1, <3>2
    <2>3. s = <<s[1]>> BY <2>2
    <2> QED BY <2>1, <2>2, <2>3
  <1>3. Slice(w, p, p + 1) \o Slice(w, p + 1, q) = Slice(w, p, q) BY <1>1, SlicesJoin
  <1> QED BY <1>2, <1>3

\* A whole sequence is a slice of itself.
LEMMA SliceWhole ==
  ASSUME NEW w \in Seq(Nat) PROVE Slice(w, 0, Len(w)) = w /\ Len(w) \in Nat
  <1>1. PICK s : s = Slice(w, 0, Len(w)) OBVIOUS
  <1>2. 0 \in 0 .. Len(w) /\ Len(w) \in 0 .. Len(w) /\ 0 <= Len(w) OBVIOUS
  <1>3. s \in Seq(Nat) /\ Len(s) = Len(w) - 0 /\ \A i \in 1 .. Len(w) - 0 : s[i] = w[0 + i]
    BY <1>1, <1>2, SliceIs
  <1>4. Len(s) = Len(w) /\ \A i \in 1 .. Len(s) : s[i] = w[i] BY <1>3
  <1>5. s = w BY <1>3, <1>4, SameSeq
  <1> QED BY <1>1, <1>5

\* Slices end to end.
LEMMA FlattenSlices ==
  ASSUME NEW w \in Seq(Nat), NEW N \in Nat \ {0}, NEW cut, cut[0] = 0,
         \A i \in 0 .. N : cut[i] \in 0 .. Len(w), \A i \in 1 .. N : cut[i - 1] <= cut[i],
         NEW bs, Len(bs) = N, \A i \in 1 .. N : bs[i] = Slice(w, cut[i - 1], cut[i])
  PROVE  FlattenSeq(bs) = Slice(w, 0, cut[N])
  <1>1. PICK l : FlattenSeq(bs) = l[N] /\ LaysOut(bs, N, l) BY FlattenIsLaid
  <1> DEFINE T == {n \in 1 .. N : l[n] # Slice(w, 0, cut[n])}
  <1>2. T = {}
    <2> SUFFICES ASSUME T # {} PROVE FALSE OBVIOUS
    <2>1. PICK n \in T : \A k \in T : n <= k
      <3>1. T \in SUBSET Nat OBVIOUS
      <3> QED BY <3>1, LeastNatural
    <2>2. CASE n = 1
      <3>1. l[1] = bs[1] BY <1>1 DEF LaysOut
      <3>2. 1 \in 1 .. N /\ 1 - 1 = 0 OBVIOUS
      <3> QED BY <2>1, <2>2, <3>1, <3>2
    <2>3. CASE n # 1
      <3>1. n \in 2 .. N /\ n - 1 \in 1 .. N /\ ~(n <= n - 1) /\ n \in 1 .. N BY <2>1, <2>3
      <3>2. l[n] = l[n - 1] \o bs[n] BY <1>1, <3>1 DEF LaysOut
      <3>3. l[n - 1] = Slice(w, 0, cut[n - 1]) BY <2>1, <3>1
      <3>4. cut[n - 1] \in 0 .. Len(w) /\ cut[n] \in 0 .. Len(w) /\ cut[n - 1] <= cut[n] BY <3>1
      <3>5. 0 \in 0 .. Len(w) /\ 0 <= cut[n - 1] BY <3>4
      <3>6. Slice(w, 0, cut[n - 1]) \o Slice(w, cut[n - 1], cut[n]) = Slice(w, 0, cut[n])
        BY <3>4, <3>5, SlicesJoin
      <3>7. bs[n] = Slice(w, cut[n - 1], cut[n]) BY <3>1
      <3>8. l[n] = Slice(w, 0, cut[n]) BY <3>2, <3>3, <3>6, <3>7, Zenon
      <3> QED BY <2>1, <3>8
    <2> QED BY <2>2, <2>3
  <1>3. N \in 1 .. N OBVIOUS
  <1> QED BY <1>1, <1>2, <1>3

\* A cursor.
Cur(p, fs, es, e) == [pos |-> p, fields |-> fs, ends |-> es, err |-> e]

\* Its parts.
LEMMA CurParts ==
  ASSUME NEW p, NEW fs, NEW es, NEW e, NEW c, c = Cur(p, fs, es, e)
  PROVE  c.pos = p /\ c.fields = fs /\ c.ends = es /\ c.err = e
  BY DEF Cur

\* A failure leaves the rest as it is.
LEMMA FailCur ==
  ASSUME NEW p, NEW fs, NEW es, NEW e, NEW x
  PROVE  Fail(Cur(p, fs, es, e), x) = Cur(p, fs, es, x)
  BY DEF Cur, Fail

\* The read of n bytes.
LEMMA TakeCur ==
  ASSUME NEW w, NEW p, NEW fs, NEW es, NEW n
  PROVE  Take(w, Cur(p, fs, es, "ok"), n) =
            IF p + n > Len(w) THEN Cur(p, fs, es, "Truncated")
            ELSE Cur(p + n, Append(fs, Slice(w, p, p + n)), Append(es, p + n), "ok")
  <1>1. PICK c : c = Cur(p, fs, es, "ok") OBVIOUS
  <1>2. c.pos = p /\ c.fields = fs /\ c.ends = es /\ c.err = "ok" BY <1>1, CurParts
  <1>3. CASE p + n > Len(w)
    <2>1. Take(w, c, n) = Fail(c, "Truncated") BY <1>2, <1>3 DEF Take
    <2> QED BY <1>1, <1>3, <2>1, FailCur
  <1>4. CASE ~(p + n > Len(w))
    <2>1. Take(w, c, n) = [c EXCEPT !.pos = @ + n, !.ends = Append(@, c.pos + n),
                   !.fields = Append(@, SubSeq(w, c.pos + 1, c.pos + n))]
      BY <1>2, <1>4 DEF Take
    <2>2. PICK y : y = SubSeq(w, p + 1, p + n) OBVIOUS
    <2>3. Take(w, c, n) = Cur(p + n, Append(fs, y), Append(es, p + n), "ok")
      BY <1>1, <1>2, <2>1, <2>2 DEF Cur
    <2> QED BY <1>1, <1>4, <2>2, <2>3 DEF Slice
  <1> QED BY <1>3, <1>4

\* The read of one number.
LEMMA NumberCur ==
  ASSUME NEW w, NEW p, NEW fs, NEW es
  PROVE  Number(w, Cur(p, fs, es, "ok")) =
            IF p < Len(w) THEN Cur(p + 1, fs, es, "ok") ELSE Cur(p, fs, es, "Truncated")
  <1>1. CASE p < Len(w) BY <1>1 DEF Number, Cur
  <1>2. CASE ~(p < Len(w)) BY <1>2, FailCur DEF Number, Cur
  <1> QED BY <1>1, <1>2

\* The elements of the layouts.
Elements == {Fixed, Field, Counted, CaSigs}

\* Where a field el that begins at p may end, and what is left there.
EndsOf(w, p, el) == {x \in p + 1 .. Len(w) : IsWire(el, Slice(w, p, x))}
Rest(w, p) == Slice(w, p, Len(w))

\* A cursor d that has read a field el at p: it ends in one place and is encoded
\* as the bytes up to there, or there is none and d names the reason.
Reads(w, p, el, fs, es, d) ==
    \E q \in p + 1 .. Len(w), v \in Seq(Nat) :
        /\ d = Cur(q, Append(fs, v), Append(es, q), "ok") /\ EndsOf(w, p, el) = {q}
        /\ EncodeField(el, v) = Slice(w, p, q) /\ ~Begins(el, Rest(w, p))
Fails(w, p, el, d) ==
    /\ d.err \notin {"ok", "TrailingBytes"} /\ EndsOf(w, p, el) = {}
    /\ d.err = "Truncated" <=> Begins(el, Rest(w, p))

\* The rest is a sequence.
LEMMA RestIs ==
  ASSUME NEW w \in Seq(Nat), NEW p \in 0 .. Len(w)
  PROVE  /\ Rest(w, p) \in Seq(Nat) /\ Len(Rest(w, p)) = Len(w) - p
         /\ p < Len(w) => Rest(w, p)[1] = w[p + 1]
         /\ Rest(w, p) = <<>> <=> p = Len(w)
  <1>1. PICK s : s = Rest(w, p) OBVIOUS
  <1>2. Len(w) \in 0 .. Len(w) /\ p <= Len(w) OBVIOUS
  <1>3. s \in Seq(Nat) /\ Len(s) = Len(w) - p /\ \A i \in 1 .. Len(w) - p : s[i] = w[p + i]
    BY <1>1, <1>2, SliceIs DEF Rest
  <1>4. s = <<>> <=> p = Len(w) BY <1>2, <1>3
  <1>5. p < Len(w) => 1 \in 1 .. Len(w) - p OBVIOUS
  <1> QED BY <1>1, <1>3, <1>4, <1>5

\* A run of fixed fields.
LEMMA ReadFixed ==
  ASSUME NEW w \in Seq(Nat), NEW p \in 0 .. Len(w), NEW fs, NEW es, NEW d,
         d = Read(w, Cur(p, fs, es, "ok"), Fixed)
  PROVE  Reads(w, p, Fixed, fs, es, d) \/ Fails(w, p, Fixed, d)
  <1>1. d = IF p + 1 > Len(w) THEN Cur(p, fs, es, "Truncated")
            ELSE Cur(p + 1, Append(fs, Slice(w, p, p + 1)), Append(es, p + 1), "ok")
    <2>1. PICK c : c = Cur(p, fs, es, "ok") OBVIOUS
    <2>2. c.err = "ok" BY <2>1, CurParts
    <2>3. d = Take(w, c, 1) BY <2>1, <2>2 DEF Read, Fixed
    <2> QED BY <2>1, <2>3, TakeCur
  <1>2. \A x \in p + 1 .. Len(w) : IsWire(Fixed, Slice(w, p, x)) <=> x = p + 1
    <2> SUFFICES ASSUME NEW x \in p + 1 .. Len(w)
                 PROVE  IsWire(Fixed, Slice(w, p, x)) <=> x = p + 1
      OBVIOUS
    <2>1. x \in 0 .. Len(w) /\ p <= x OBVIOUS
    <2>2. Len(Slice(w, p, x)) = x - p BY <2>1, SliceIs
    <2> QED BY <2>2 DEF IsWire, Fixed
  <1>3. Begins(Fixed, Rest(w, p)) <=> p = Len(w) BY RestIs DEF Begins, Fixed
  <1>4. CASE p = Len(w)
    <2>1. d.err = "Truncated" BY <1>1, <1>4, CurParts
    <2>2. EndsOf(w, p, Fixed) = {} BY <1>4 DEF EndsOf
    <2> QED BY <1>3, <1>4, <2>1, <2>2 DEF Fails
  <1>5. CASE p # Len(w)
    <2>1. PICK q \in p + 1 .. Len(w) : q = p + 1 BY <1>5
    <2>2. q \in 0 .. Len(w) /\ p <= q /\ ~(p + 1 > Len(w)) BY <2>1
    <2>3. PICK v \in Seq(Nat) : v = Slice(w, p, q) BY <2>2, SliceIs
    <2>4. d = Cur(q, Append(fs, v), Append(es, q), "ok") BY <1>1, <2>1, <2>2, <2>3
    <2>5. EndsOf(w, p, Fixed) = {q} BY <1>2, <2>1 DEF EndsOf
    <2>6. EncodeField(Fixed, v) = Slice(w, p, q) BY <2>3 DEF EncodeField, Fixed
    <2> QED BY <1>3, <1>5, <2>4, <2>5, <2>6 DEF Reads
  <1> QED BY <1>4, <1>5

\* A product is divided by its factor.
LEMMA DivTimes == \A n \in Nat, u \in Nat \ {0} : n * u \in Nat /\ (n * u) \div u = n
  <1> SUFFICES ASSUME NEW n \in Nat, NEW u \in Nat \ {0} PROVE n * u \in Nat /\ (n * u) \div u = n
    OBVIOUS
  <1>1. n * u \in Nat OBVIOUS
  <1> QED BY <1>1, SMTT(30)

\* A counted field.
LEMMA ReadField ==
  ASSUME NEW w \in Seq(Nat), NEW p \in 0 .. Len(w), NEW fs, NEW es, NEW d,
         NEW m \in Nat, NEW u \in Nat \ {0}, NEW el, el = [op |-> "field", max |-> m, unit |-> u],
         d = Read(w, Cur(p, fs, es, "ok"), el)
  PROVE  Reads(w, p, el, fs, es, d) \/ Fails(w, p, el, d)
  <1>0. el.op = "field" /\ el.max = m /\ el.unit = u OBVIOUS
  <1>1. PICK c : c = Cur(p, fs, es, "ok") OBVIOUS
  <1>2. d = TakeField(w, c, el)
    <2>1. c.err = "ok" BY <1>1, CurParts
    <2> QED BY <1>0, <1>1, <2>1 DEF Read
  <1>3. PICK b : b = Number(w, c) OBVIOUS
  <1>4. d = IF b.err # "ok" THEN b ELSE IF w[b.pos] > m THEN Fail(b, "Oversize")
            ELSE Take(w, b, w[b.pos] * u)
    BY <1>0, <1>2, <1>3, Zenon DEF TakeField
  <1>5. CASE p = Len(w)
    <2>1. ~(p < Len(w)) BY <1>5
    <2>2. b = Cur(p, fs, es, "Truncated") BY <1>1, <1>3, <2>1, NumberCur
    <2>3. b.err = "Truncated" BY <2>2, CurParts
    <2>4. d.err = "Truncated" BY <1>4, <2>3
    <2>5. EndsOf(w, p, el) = {} BY <1>5 DEF EndsOf
    <2>6. Begins(el, Rest(w, p)) BY <1>5, RestIs DEF Begins
    <2> QED BY <2>4, <2>5, <2>6 DEF Fails
  <1>6. CASE p # Len(w)
    <2>1. p < Len(w) /\ p + 1 \in 0 .. Len(w) /\ p + 1 \in 1 .. Len(w) BY <1>6
    <2>2. PICK n \in Nat : n = w[p + 1] BY <2>1
    <2>3. PICK z \in Nat : z = n * u BY DivTimes
    <2>4. b = Cur(p + 1, fs, es, "ok") BY <1>1, <1>3, <2>1, NumberCur
    <2>5. b.err = "ok" /\ b.pos = p + 1 BY <2>4, CurParts
    <2>6. d = IF n > m THEN Fail(b, "Oversize") ELSE Take(w, b, z)
      BY <1>4, <2>2, <2>3, <2>5
    <2>7. \A x \in p + 1 .. Len(w) : IsWire(el, Slice(w, p, x)) <=> n <= m /\ x - p = 1 + z
      <3> SUFFICES ASSUME NEW x \in p + 1 .. Len(w)
                   PROVE  IsWire(el, Slice(w, p, x)) <=> n <= m /\ x - p = 1 + z
        OBVIOUS
      <3>1. x \in 0 .. Len(w) /\ p <= x /\ 1 \in 1 .. x - p OBVIOUS
      <3>2. PICK s : s = Slice(w, p, x) OBVIOUS
      <3>3. s \in Seq(Nat) /\ Len(s) = x - p /\ s[1] = w[p + 1] BY <3>1, <3>2, SliceIs
      <3>4. s # <<>> BY <3>1, <3>3
      <3>5. Room(el, s) <=> n <= m BY <1>0, <2>2, <3>3 DEF Room
      <3>6. Size(el, s) = 1 + z BY <1>0, <2>2, <2>3, <3>3 DEF Size
      <3> QED BY <1>0, <3>2, <3>3, <3>4, <3>5, <3>6 DEF IsWire
    <2>8. Begins(el, Rest(w, p)) <=> n <= m /\ Len(w) - p < 1 + z
      <3>1. PICK s : s = Rest(w, p) OBVIOUS
      <3>2. s \in Seq(Nat) /\ Len(s) = Len(w) - p /\ s[1] = w[p + 1] /\ s # <<>>
        BY <1>6, <2>1, <3>1, RestIs
      <3>3. Room(el, s) <=> n <= m BY <1>0, <2>2, <3>2 DEF Room
      <3>4. Size(el, s) = 1 + z BY <1>0, <2>2, <2>3, <3>2 DEF Size
      <3> QED BY <1>0, <3>1, <3>2, <3>3, <3>4 DEF Begins
    <2>9. CASE n > m
      <3>1. d = Cur(p + 1, fs, es, "Oversize") BY <2>4, <2>6, <2>9, FailCur
      <3>2. d.err = "Oversize" BY <3>1, CurParts
      <3>3. ~(n <= m) BY <2>9
      <3>4. EndsOf(w, p, el) = {} BY <2>7, <3>3 DEF EndsOf
      <3> QED BY <2>8, <3>2, <3>3, <3>4 DEF Fails
    <2>10. CASE n <= m /\ p + 1 + z > Len(w)
      <3>1. ~(n > m) BY <2>10
      <3>2. d = Cur(p + 1, fs, es, "Truncated") BY <2>4, <2>6, <2>10, <3>1, TakeCur
      <3>3. d.err = "Truncated" BY <3>2, CurParts
      <3>4. EndsOf(w, p, el) = {}
        <4>1. \A x \in p + 1 .. Len(w) : ~(x - p = 1 + z) BY <2>10
        <4> QED BY <2>7, <4>1 DEF EndsOf
      <3>5. Len(w) - p < 1 + z BY <2>10
      <3> QED BY <2>8, <2>10, <3>3, <3>4, <3>5 DEF Fails
    <2>11. CASE n <= m /\ ~(p + 1 + z > Len(w))
      <3>1. PICK q \in p + 1 .. Len(w) : q = p + 1 + z BY <2>11
      <3>2. q \in 0 .. Len(w) /\ p + 1 <= q /\ p < q BY <3>1
      <3>3. PICK v : v = Slice(w, p + 1, q) OBVIOUS
      <3>4. v \in Seq(Nat) /\ Len(v) = q - (p + 1) BY <2>1, <3>2, <3>3, SliceIs
      <3>5. Len(v) = z BY <3>1, <3>4
      <3>6. ~(n > m) BY <2>11
      <3>7. d = Cur(q, Append(fs, v), Append(es, q), "ok")
        BY <2>4, <2>6, <2>11, <3>1, <3>3, <3>6, TakeCur
      <3>8. EndsOf(w, p, el) = {q}
        <4>1. \A x \in p + 1 .. Len(w) : x - p = 1 + z <=> x = q BY <3>1
        <4> QED BY <2>7, <2>11, <4>1 DEF EndsOf
      <3>9. EncodeField(el, v) = Slice(w, p, q)
        <4>1. z \div u = n BY <2>3, DivTimes
        <4>2. EncodeField(el, v) = <<n>> \o v BY <1>0, <3>5, <4>1 DEF EncodeField
        <4> QED BY <2>2, <3>2, <3>3, <4>2, SliceHead
      <3>10. ~(Len(w) - p < 1 + z) BY <2>11
      <3> QED BY <2>8, <3>4, <3>7, <3>8, <3>9, <3>10 DEF Reads
    <2> QED BY <2>9, <2>10, <2>11
  <1> QED BY <1>5, <1>6

\* The keys of the pairs behind place p, up to place x, ascend.
Up(w, p, x) ==
    \A a, b \in Nat \ {0} : a < b /\ p + 2 * b <= x => w[p + 2 * a] < w[p + 2 * b]

\* Halves.
LEMMA Halves == \A n \in Nat, i \in Nat : n \div 2 \in Nat /\ (i <= n \div 2 <=> 2 * i <= n)
  OBVIOUS

\* Keys ascend in a slice where they do.
LEMMA AscendingUp ==
  ASSUME NEW w \in Seq(Nat), NEW p \in 0 .. Len(w), NEW x \in 0 .. Len(w), p <= x
  PROVE  Ascending(Slice(w, p, x)) <=> Up(w, p, x)
  <1>1. PICK s : s = Slice(w, p, x) OBVIOUS
  <1>2. Len(s) = x - p /\ \A i \in 1 .. x - p : s[i] = w[p + i] BY <1>1, SliceIs
  <1>3. PICK L \in Nat : L = x - p OBVIOUS
  <1>4. \A i : i \in 1 .. L \div 2 <=> i \in Nat \ {0} /\ p + 2 * i <= x
    <2>1. L \div 2 \in Nat /\ \A i \in Nat : i <= L \div 2 <=> 2 * i <= L BY Halves
    <2> QED BY <1>3, <2>1
  <1>5. \A i \in Nat \ {0} : p + 2 * i <= x => s[2 * i] = w[p + 2 * i]
    <2> SUFFICES ASSUME NEW i \in Nat \ {0}, p + 2 * i <= x PROVE s[2 * i] = w[p + 2 * i] OBVIOUS
    <2>1. 2 * i \in 1 .. x - p OBVIOUS
    <2> QED BY <1>2, <2>1
  <1>6. Ascending(s) <=> \A i, j \in 1 .. L \div 2 : i < j => s[2 * i] < s[2 * j]
    BY <1>2, <1>3 DEF Ascending
  <1>7. ASSUME Ascending(s) PROVE Up(w, p, x)
    <2> SUFFICES ASSUME NEW a \in Nat \ {0}, NEW b \in Nat \ {0}, a < b, p + 2 * b <= x
                 PROVE  w[p + 2 * a] < w[p + 2 * b]
      BY DEF Up
    <2>1. p + 2 * a <= x OBVIOUS
    <2>2. a \in 1 .. L \div 2 /\ b \in 1 .. L \div 2 BY <1>4, <2>1
    <2>3. s[2 * a] < s[2 * b] BY <1>6, <1>7, <2>2
    <2> QED BY <1>5, <2>1, <2>3
  <1>8. ASSUME Up(w, p, x) PROVE Ascending(s)
    <2> SUFFICES ASSUME NEW a \in 1 .. L \div 2, NEW b \in 1 .. L \div 2, a < b
                 PROVE  s[2 * a] < s[2 * b]
      BY <1>6
    <2>1. a \in Nat \ {0} /\ b \in Nat \ {0} /\ p + 2 * a <= x /\ p + 2 * b <= x BY <1>4
    <2>2. w[p + 2 * a] < w[p + 2 * b] BY <1>8, <2>1 DEF Up
    <2> QED BY <1>5, <2>1, <2>2
  <1> QED BY <1>1, <1>7, <1>8

\* A part of what ascends does.
LEMMA UpLess ==
  ASSUME NEW w, NEW p \in Nat, NEW x \in Nat, NEW y \in Nat, x <= y, Up(w, p, y)
  PROVE  Up(w, p, x)
  BY DEF Up

\* One more key, above the last.
LEMMA UpNext ==
  ASSUME NEW w \in Seq(Nat), NEW p \in 0 .. Len(w), NEW i \in Nat \ {0}, NEW y \in Nat, y = p + 2 * i - 1,
         Up(w, p, y), p + 2 * i <= Len(w), i > 1 => w[p + 2 * i - 2] < w[p + 2 * i],
         NEW x \in Nat, x <= p + 2 * i + 1
  PROVE  Up(w, p, x)
  <1> SUFFICES ASSUME NEW a \in Nat \ {0}, NEW b \in Nat \ {0}, a < b, p + 2 * b <= x
               PROVE  w[p + 2 * a] < w[p + 2 * b]
    BY DEF Up
  <1>1. CASE b < i
    <2>1. p + 2 * b <= y BY <1>1
    <2> QED BY <2>1 DEF Up
  <1>2. CASE b = i /\ a = i - 1
    <2>1. p + 2 * a = p + 2 * i - 2 /\ i > 1 BY <1>2
    <2> QED BY <1>2, <2>1
  <1>3. CASE b = i /\ a # i - 1
    <2>1. PICK c \in Nat \ {0} : c = i - 1 BY <1>3
    <2>2. a < c /\ p + 2 * c <= y /\ i > 1 /\ p + 2 * c = p + 2 * i - 2 BY <1>3, <2>1
    <2>3. w[p + 2 * a] < w[p + 2 * c] BY <2>2 DEF Up
    <2>4. w[p + 2 * c] < w[p + 2 * b] BY <1>3, <2>2
    <2>5. p + 2 * b <= Len(w) /\ p + 2 * c <= p + 2 * b /\ p + 2 * a <= p + 2 * b BY <1>3, <2>2
    <2>6. \A k \in Nat \ {0} : p + 2 * k <= Len(w) => w[p + 2 * k] \in Nat
      <3> SUFFICES ASSUME NEW k \in Nat \ {0}, p + 2 * k <= Len(w) PROVE w[p + 2 * k] \in Nat OBVIOUS
      <3>1. p + 2 * k \in 1 .. Len(w) OBVIOUS
      <3> QED BY <3>1
    <2>7. p + 2 * a <= Len(w) /\ p + 2 * c <= Len(w) BY <2>5
    <2>8. PICK x1 \in Nat : x1 = w[p + 2 * a] BY <2>6, <2>7
    <2>9. PICK x2 \in Nat : x2 = w[p + 2 * b] BY <2>5, <2>6
    <2>10. PICK x3 \in Nat : x3 = w[p + 2 * c] BY <2>6, <2>7
    <2>11. x1 < x3 /\ x3 < x2 BY <2>3, <2>4, <2>8, <2>9, <2>10
    <2>12. x1 < x2 BY <2>11
    <2> QED BY <2>8, <2>9, <2>12
  <1>4. b <= i OBVIOUS
  <1> QED BY <1>1, <1>2, <1>3, <1>4

\* The cursor e after i pairs.
Turned(w, p, fs, es, i, e) ==
    \/ e = Cur(p + 2 * i + 1, fs, es, "ok") /\ p + 2 * i + 1 <= Len(w) /\ Up(w, p, p + 2 * i + 1)
    \/ e.err = "Truncated" /\ Len(w) <= p + 2 * i /\ Up(w, p, Len(w))
    \/ e.err = "Malformed" /\ \E x \in 0 .. Len(w) : x <= p + 2 * i /\ ~Up(w, p, x)

\* One turn of the loop.
LEMMA TurnNext ==
  ASSUME NEW w \in Seq(Nat), NEW p \in 0 .. Len(w), NEW fs, NEW es, NEW i \in Nat \ {0},
         NEW e, Turned(w, p, fs, es, i - 1, e)
  PROVE  Turned(w, p, fs, es, i, TakeCaSig(w, e, i))
  <1>1. PICK h : h = TakeCaSig(w, e, i) OBVIOUS
  <1>2. CASE e.err = "Truncated" /\ Len(w) <= p + 2 * (i - 1) /\ Up(w, p, Len(w))
    <2>1. h = e BY <1>1, <1>2 DEF TakeCaSig
    <2>2. Len(w) <= p + 2 * i BY <1>2
    <2> QED BY <1>1, <1>2, <2>1, <2>2 DEF Turned
  <1>3. CASE e.err = "Malformed" /\ \E x \in 0 .. Len(w) : x <= p + 2 * (i - 1) /\ ~Up(w, p, x)
    <2>1. h = e BY <1>1, <1>3 DEF TakeCaSig
    <2>2. \E x \in 0 .. Len(w) : x <= p + 2 * i /\ ~Up(w, p, x) BY <1>3
    <2> QED BY <1>1, <1>3, <2>1, <2>2 DEF Turned
  <1>4. CASE /\ e = Cur(p + 2 * (i - 1) + 1, fs, es, "ok") /\ p + 2 * (i - 1) + 1 <= Len(w)
             /\ Up(w, p, p + 2 * (i - 1) + 1)
    <2>1. PICK y \in 0 .. Len(w) : y = p + 2 * i - 1 /\ y = p + 2 * (i - 1) + 1 BY <1>4
    <2>2. e = Cur(y, fs, es, "ok") /\ Up(w, p, y) BY <1>4, <2>1
    <2>3. e.err = "ok" /\ e.pos = y BY <2>2, CurParts
    <2>4. y + 1 = p + 2 * i /\ y - 1 = p + 2 * i - 2 /\ y + 2 = p + 2 * i + 1 BY <2>1
    <2>5. h = IF p + 2 * i > Len(w) THEN Fail(e, "Truncated")
              ELSE IF i > 1 /\ w[p + 2 * i] <= w[p + 2 * i - 2] THEN Fail(e, "Malformed")
              ELSE IF p + 2 * i + 1 > Len(w) THEN Fail(e, "Truncated")
              ELSE [e EXCEPT !.pos = @ + 2]
      BY <1>1, <2>3, <2>4 DEF TakeCaSig
    <2>6. CASE p + 2 * i > Len(w)
      <3>1. h = Cur(y, fs, es, "Truncated") BY <2>2, <2>5, <2>6, FailCur
      <3>2. h.err = "Truncated" BY <3>1, CurParts
      <3>3. Len(w) = y BY <2>1, <2>6
      <3> QED BY <1>1, <2>2, <2>6, <3>2, <3>3 DEF Turned
    <2>7. CASE ~(p + 2 * i > Len(w)) /\ i > 1 /\ w[p + 2 * i] <= w[p + 2 * i - 2]
      <3>1. h = Cur(y, fs, es, "Malformed") BY <2>2, <2>5, <2>7, FailCur
      <3>2. h.err = "Malformed" BY <3>1, CurParts
      <3>3. PICK x \in 0 .. Len(w) : x = p + 2 * i BY <2>7
      <3>4. PICK a \in Nat \ {0} : a = i - 1 BY <2>7
      <3>5. p + 2 * a = p + 2 * i - 2 /\ a < i /\ p + 2 * i <= x BY <3>3, <3>4
      <3>6. w[p + 2 * i] \in Nat /\ w[p + 2 * i - 2] \in Nat
        <4>1. p + 2 * i \in 1 .. Len(w) /\ p + 2 * i - 2 \in 1 .. Len(w) BY <2>7
        <4> QED BY <4>1
      <3>7. ~(w[p + 2 * a] < w[p + 2 * i])
        <4>1. PICK u \in Nat : u = w[p + 2 * i] BY <3>6
        <4>2. PICK v \in Nat : v = w[p + 2 * i - 2] BY <3>6
        <4>3. ~(v < u) BY <2>7, <4>1, <4>2
        <4>4. w[p + 2 * a] = v BY <3>5, <4>2
        <4> QED BY <4>1, <4>3, <4>4
      <3>8. ~Up(w, p, x) BY <3>5, <3>7 DEF Up
      <3>9. x <= p + 2 * i BY <3>3
      <3> QED BY <1>1, <3>2, <3>8, <3>9 DEF Turned
    <2>8. CASE ~(p + 2 * i > Len(w)) /\ ~(i > 1 /\ w[p + 2 * i] <= w[p + 2 * i - 2])
      <3>1. p + 2 * i <= Len(w) BY <2>8
      <3>2. i > 1 => w[p + 2 * i - 2] < w[p + 2 * i]
        <4> SUFFICES ASSUME i > 1 PROVE w[p + 2 * i - 2] < w[p + 2 * i] OBVIOUS
        <4>1. p + 2 * i \in 1 .. Len(w) /\ p + 2 * i - 2 \in 1 .. Len(w) BY <2>8
        <4>2. w[p + 2 * i] \in Nat /\ w[p + 2 * i - 2] \in Nat BY <4>1
        <4> QED BY <2>8, <4>2
      <3>3. \A x \in Nat : x <= p + 2 * i + 1 => Up(w, p, x)
        <4>1. y \in Nat BY <2>1
        <4> QED BY <2>1, <2>2, <3>1, <3>2, <4>1, UpNext
      <3>4. CASE p + 2 * i + 1 > Len(w)
        <4>1. h = Cur(y, fs, es, "Truncated") BY <2>2, <2>5, <2>8, <3>4, FailCur
        <4>2. h.err = "Truncated" BY <4>1, CurParts
        <4>3. Len(w) <= p + 2 * i BY <3>4
        <4>4. Up(w, p, Len(w)) BY <3>3, <4>3
        <4> QED BY <1>1, <4>2, <4>3, <4>4 DEF Turned
      <3>5. CASE ~(p + 2 * i + 1 > Len(w))
        <4>1. h = [e EXCEPT !.pos = @ + 2] BY <2>5, <2>8, <3>5
        <4>2. h = Cur(y + 2, fs, es, "ok") BY <2>2, <4>1 DEF Cur
        <4>3. h = Cur(p + 2 * i + 1, fs, es, "ok") BY <2>4, <4>2
        <4>4. p + 2 * i + 1 <= Len(w) /\ p + 2 * i + 1 \in Nat BY <3>5
        <4>5. Up(w, p, p + 2 * i + 1) BY <3>3, <4>4
        <4> QED BY <1>1, <4>3, <4>4, <4>5 DEF Turned
      <3> QED BY <3>4, <3>5
    <2> QED BY <2>6, <2>7, <2>8
  <1> QED BY <1>2, <1>3, <1>4 DEF Turned

\* The cursors of the loop, from d on.
Turns(w, d, n, after) ==
    after = [i \in 0 .. n |-> IF i = 0 THEN d ELSE TakeCaSig(w, after[i - 1], i)]

\* There are such cursors.
LEMMA TurnsExist ==
  ASSUME NEW w, NEW d, NEW N \in Nat PROVE \E after : Turns(w, d, N, after)
  <1> DEFINE T == {n \in Nat : ~ \E r : Turns(w, d, n, r)}
  <1> SUFFICES ASSUME T # {} PROVE FALSE OBVIOUS
  <1>1. PICK m \in T : \A k \in T : m <= k
    <2>1. T \in SUBSET Nat OBVIOUS
    <2> QED BY <2>1, LeastNatural
  <1>2. CASE m = 0
    <2> DEFINE r == [n \in 0 .. 0 |-> d]
    <2>1. \A n \in 0 .. 0 : n = 0 OBVIOUS
    <2>2. r = [n \in 0 .. 0 |-> IF n = 0 THEN d ELSE TakeCaSig(w, r[n - 1], n)] BY <2>1
    <2>3. Turns(w, d, 0, r) BY <2>2, Zenon DEF Turns
    <2> QED BY <1>1, <1>2, <2>3
  <1>3. CASE m # 0
    <2>1. m - 1 \in Nat /\ m \in Nat /\ ~(m <= m - 1) BY <1>1, <1>3
    <2>2. PICK q : Turns(w, d, m - 1, q) BY <1>1, <2>1
    <2> DEFINE v(f, n) == IF n = 0 THEN d ELSE TakeCaSig(w, f[n - 1], n)
               r == [n \in 0 .. m |-> v(q, n)]
    <2>3. \A n \in 0 .. m - 1 : n \in 0 .. m /\ r[n] = q[n]
      <3> SUFFICES ASSUME NEW n \in 0 .. m - 1 PROVE n \in 0 .. m /\ r[n] = q[n] OBVIOUS
      <3>1. n \in 0 .. m BY <2>1
      <3> QED BY <2>2, <3>1, Zenon DEF Turns
    <2>4. \A n \in 0 .. m : n # 0 => n - 1 \in 0 .. m - 1 BY <2>1
    <2>5. \A n \in 0 .. m : r[n] = v(r, n)
      <3> SUFFICES ASSUME NEW n \in 0 .. m PROVE r[n] = v(r, n) OBVIOUS
      <3>1. r[n] = v(q, n) BY Zenon
      <3> HIDE DEF r
      <3>2. CASE n = 0 BY <3>1, <3>2
      <3>3. CASE n # 0
        <4>1. r[n - 1] = q[n - 1] BY <2>3, <2>4, <3>3
        <4> QED BY <3>1, <4>1
      <3> QED BY <3>2, <3>3
    <2>6. r = [n \in 0 .. m |-> r[n]] OBVIOUS
    <2> HIDE DEF r
    <2>7. Turns(w, d, m, r) BY <2>5, <2>6, Zenon DEF Turns
    <2> QED BY <1>1, <2>7
  <1> QED BY <1>2, <1>3

\* The whole loop.
LEMMA LoopTurned ==
  ASSUME NEW w \in Seq(Nat), NEW p \in 0 .. Len(w), p < Len(w), NEW fs, NEW es, NEW n \in Nat,
         NEW after, Turns(w, Cur(p + 1, fs, es, "ok"), n, after)
  PROVE  Turned(w, p, fs, es, n, after[n])
  <1> DEFINE T == {i \in 0 .. n : ~Turned(w, p, fs, es, i, after[i])}
  <1>1. T = {}
    <2> SUFFICES ASSUME T # {} PROVE FALSE OBVIOUS
    <2>1. PICK i \in T : \A k \in T : i <= k
      <3>1. T \in SUBSET Nat OBVIOUS
      <3> QED BY <3>1, LeastNatural
    <2>2. CASE i = 0
      <3>1. after[0] = Cur(p + 1, fs, es, "ok")
        <4>1. 0 \in 0 .. n OBVIOUS
        <4> QED BY <4>1, Zenon DEF Turns
      <3>2. p + 2 * 0 + 1 = p + 1 /\ p + 1 <= Len(w) OBVIOUS
      <3>3. Up(w, p, p + 1)
        <4>1. \A b \in Nat \ {0} : ~(p + 2 * b <= p + 1) OBVIOUS
        <4> QED BY <4>1 DEF Up
      <3>4. Turned(w, p, fs, es, 0, after[0]) BY <3>1, <3>2, <3>3 DEF Turned
      <3> QED BY <2>1, <2>2, <3>4
    <2>3. CASE i # 0
      <3>1. i \in 0 .. n /\ i - 1 \in 0 .. n /\ ~(i <= i - 1) /\ i \in Nat \ {0} BY <2>1, <2>3
      <3>2. Turned(w, p, fs, es, i - 1, after[i - 1]) BY <2>1, <3>1
      <3>3. after[i] = TakeCaSig(w, after[i - 1], i) BY <2>3, <3>1, Zenon DEF Turns
      <3>4. PICK e : e = after[i - 1] OBVIOUS
      <3>5. Turned(w, p, fs, es, i, TakeCaSig(w, e, i)) BY <3>1, <3>2, <3>4, TurnNext
      <3> QED BY <2>1, <3>3, <3>4, <3>5
    <2> QED BY <2>2, <2>3
  <1>2. n \in 0 .. n OBVIOUS
  <1> QED BY <1>1, <1>2

\* What is made of a loop over n pairs that ends with e.
SigsRead(w, b, n, e) ==
    IF b.err # "ok" THEN b
    ELSE IF n = 0 THEN Fail(b, "Malformed")
    ELSE IF n > MAX_CA_SIGS THEN Fail(b, "Oversize")
    ELSE IF e.err # "ok" THEN e
    ELSE [e EXCEPT !.ends = Append(@, e.pos), !.fields = Append(@, SubSeq(w, b.pos + 1, e.pos))]

\* The tail of parse_cert is its loop.
LEMMA CaSigsLoop ==
  ASSUME NEW w, NEW c, NEW b, b = Number(w, c), NEW n, n = w[b.pos],
         NEW after, after = CHOOSE r : Turns(w, b, n, r)
  PROVE  TakeCaSigs(w, c) = SigsRead(w, b, n, after[n])
  <1>1. TakeCaSigs(w, c) = SigsRead(w, Number(w, c), w[Number(w, c).pos],
           (CHOOSE r : Turns(w, Number(w, c), w[Number(w, c).pos], r))[w[Number(w, c).pos]])
    BY Zenon DEF TakeCaSigs, SigsRead, Turns
  <1> QED BY <1>1, Zenon

\* The signatures of a certificate.
LEMMA ReadCaSigs ==
  ASSUME NEW w \in Seq(Nat), NEW p \in 0 .. Len(w), NEW fs, NEW es, NEW d,
         d = Read(w, Cur(p, fs, es, "ok"), CaSigs)
  PROVE  Reads(w, p, CaSigs, fs, es, d) \/ Fails(w, p, CaSigs, d)
  <1>0. CaSigs.op = "casigs" /\ MAX_CA_SIGS \in Nat BY CodecAssumption DEF CaSigs
  <1>1. PICK c : c = Cur(p, fs, es, "ok") OBVIOUS
  <1>2. d = TakeCaSigs(w, c)
    <2>1. c.err = "ok" BY <1>1, CurParts
    <2> QED BY <1>0, <1>1, <2>1 DEF Read
  <1>3. PICK b : b = Number(w, c) OBVIOUS
  <1>4. PICK n : n = w[b.pos] OBVIOUS
  <1>5. PICK after : after = CHOOSE r : Turns(w, b, n, r) OBVIOUS
  <1>6. PICK e : e = after[n] OBVIOUS
  <1>7. d = IF b.err # "ok" THEN b
        ELSE IF n = 0 THEN Fail(b, "Malformed")
        ELSE IF n > MAX_CA_SIGS THEN Fail(b, "Oversize")
        ELSE IF e.err # "ok" THEN e
        ELSE [e EXCEPT !.ends = Append(@, e.pos), !.fields = Append(@, SubSeq(w, b.pos + 1, e.pos))]
    <2>1. d = SigsRead(w, b, n, e)
      BY <1>2, <1>3, <1>4, <1>5, <1>6, CaSigsLoop
    <2> QED BY <2>1, Zenon DEF SigsRead
  <1>8. CASE p = Len(w)
    <2>1. ~(p < Len(w)) BY <1>8
    <2>2. b = Cur(p, fs, es, "Truncated") BY <1>1, <1>3, <2>1, NumberCur
    <2>3. b.err = "Truncated" BY <2>2, CurParts
    <2>4. d.err = "Truncated" BY <1>7, <2>3
    <2>5. EndsOf(w, p, CaSigs) = {} BY <1>8 DEF EndsOf
    <2>6. Begins(CaSigs, Rest(w, p)) BY <1>8, RestIs DEF Begins
    <2> QED BY <2>4, <2>5, <2>6 DEF Fails
  <1>9. CASE p # Len(w)
    <2>1. p < Len(w) /\ p + 1 \in 0 .. Len(w) /\ p + 1 \in 1 .. Len(w) BY <1>9
    <2>2. b = Cur(p + 1, fs, es, "ok") BY <1>1, <1>3, <2>1, NumberCur
    <2>3. b.err = "ok" /\ b.pos = p + 1 BY <2>2, CurParts
    <2>4. n \in Nat /\ n = w[p + 1] BY <1>4, <2>1, <2>3
    <2>a. n \in Nat BY <2>4
    <2>5. Turns(w, b, n, after) BY <1>5, <2>4, TurnsExist
    <2>6. Turned(w, p, fs, es, n, e) BY <1>6, <2>1, <2>2, <2>4, <2>5, LoopTurned
    <2>7. \A x \in p + 1 .. Len(w) : IsWire(CaSigs, Slice(w, p, x)) <=>
             n \in 1 .. MAX_CA_SIGS /\ x - p = 1 + n * 2 /\ Up(w, p, x)
      <3> SUFFICES ASSUME NEW x \in p + 1 .. Len(w)
                   PROVE  IsWire(CaSigs, Slice(w, p, x)) <=>
                             n \in 1 .. MAX_CA_SIGS /\ x - p = 1 + n * 2 /\ Up(w, p, x)
        OBVIOUS
      <3>1. x \in 0 .. Len(w) /\ p <= x /\ 1 \in 1 .. x - p OBVIOUS
      <3>2. PICK s : s = Slice(w, p, x) OBVIOUS
      <3>3. s \in Seq(Nat) /\ Len(s) = x - p /\ s[1] = w[p + 1] BY <3>1, <3>2, SliceIs
      <3>4. s # <<>> BY <3>1, <3>3
      <3>5. Room(CaSigs, s) <=> n \in 1 .. MAX_CA_SIGS BY <1>0, <2>4, <3>3 DEF Room
      <3>6. Size(CaSigs, s) = 1 + n * 2 BY <1>0, <2>4, <3>3 DEF Size
      <3>7. Ascending(s) <=> Up(w, p, x) BY <3>1, <3>2, AscendingUp
      <3> QED BY <1>0, <3>2, <3>3, <3>4, <3>5, <3>6, <3>7 DEF IsWire
    <2>8. Begins(CaSigs, Rest(w, p)) <=>
             n \in 1 .. MAX_CA_SIGS /\ Len(w) - p < 1 + n * 2 /\ Up(w, p, Len(w))
      <3>1. PICK s : s = Rest(w, p) OBVIOUS
      <3>2. s \in Seq(Nat) /\ Len(s) = Len(w) - p /\ s[1] = w[p + 1] /\ s # <<>>
        BY <1>9, <2>1, <3>1, RestIs
      <3>3. Room(CaSigs, s) <=> n \in 1 .. MAX_CA_SIGS BY <1>0, <2>4, <3>2 DEF Room
      <3>4. Size(CaSigs, s) = 1 + n * 2 BY <1>0, <2>4, <3>2 DEF Size
      <3>5. Ascending(s) <=> Up(w, p, Len(w))
        <4>1. Len(w) \in 0 .. Len(w) /\ p <= Len(w) BY <2>1
        <4> QED BY <3>1, <4>1, AscendingUp DEF Rest
      <3> QED BY <1>0, <3>1, <3>2, <3>3, <3>4, <3>5 DEF Begins
    <2>9. CASE n \notin 1 .. MAX_CA_SIGS
      <3>1. d.err \in {"Malformed", "Oversize"}
        <4>1. n = 0 \/ n > MAX_CA_SIGS BY <1>0, <2>4, <2>9
        <4>2. d = Fail(b, "Malformed") \/ d = Fail(b, "Oversize") BY <1>7, <2>3, <4>1
        <4>3. d = Cur(p + 1, fs, es, "Malformed") \/ d = Cur(p + 1, fs, es, "Oversize")
          BY <2>2, <4>2, FailCur
        <4> QED BY <4>3, CurParts
      <3>2. EndsOf(w, p, CaSigs) = {} BY <2>7, <2>9 DEF EndsOf
      <3> QED BY <2>8, <2>9, <3>1, <3>2 DEF Fails
    <2>10. CASE n \in 1 .. MAX_CA_SIGS
      <3>0. ~(n = 0) /\ ~(n > MAX_CA_SIGS) BY <1>0, <2>10
      <3>1. CASE e.err = "Truncated" /\ Len(w) <= p + 2 * n /\ Up(w, p, Len(w))
        <4>1. d = e BY <1>7, <2>3, <3>0, <3>1
        <4>2. Len(w) - p < 1 + n * 2 /\ \A x \in p + 1 .. Len(w) : ~(x - p = 1 + n * 2)
          BY <2>4, <3>1
        <4>3. EndsOf(w, p, CaSigs) = {} BY <2>7, <4>2 DEF EndsOf
        <4> QED BY <2>8, <2>10, <3>1, <4>1, <4>2, <4>3 DEF Fails
      <3>2. CASE e.err = "Malformed" /\ \E x \in 0 .. Len(w) : x <= p + 2 * n /\ ~Up(w, p, x)
        <4>1. d = e BY <1>7, <2>3, <3>0, <3>2
        <4>2. PICK x \in 0 .. Len(w) : x <= p + 2 * n /\ ~Up(w, p, x) BY <3>2
        <4>3. \A y \in Nat : x <= y => ~Up(w, p, y) BY <4>2, UpLess
        <4>4. ~Up(w, p, Len(w)) BY <4>2, <4>3
        <4>5. \A y \in p + 1 .. Len(w) : y - p = 1 + n * 2 => y \in Nat /\ x <= y BY <2>a, <4>2
        <4>6. EndsOf(w, p, CaSigs) = {} BY <2>7, <4>3, <4>5 DEF EndsOf
        <4> QED BY <2>8, <3>2, <4>1, <4>4, <4>6 DEF Fails
      <3>3. CASE /\ e = Cur(p + 2 * n + 1, fs, es, "ok") /\ p + 2 * n + 1 <= Len(w)
                 /\ Up(w, p, p + 2 * n + 1)
        <4>1. PICK q \in p + 1 .. Len(w) : q = p + 2 * n + 1 BY <2>4, <3>3
        <4>2. e = Cur(q, fs, es, "ok") BY <3>3, <4>1
        <4>3. e.err = "ok" /\ e.pos = q BY <4>2, CurParts
        <4>4. PICK v : v = Slice(w, p + 1, q) OBVIOUS
        <4>5. q \in 0 .. Len(w) /\ p + 1 <= q /\ p < q BY <4>1
        <4>6. v \in Seq(Nat) /\ Len(v) = q - (p + 1) BY <2>1, <4>4, <4>5, SliceIs
        <4>7. d = [e EXCEPT !.ends = Append(@, e.pos), !.fields = Append(@, SubSeq(w, b.pos + 1, e.pos))]
          BY <1>7, <2>3, <3>0, <4>3
        <4>8. v = SubSeq(w, b.pos + 1, e.pos) BY <2>3, <4>3, <4>4 DEF Slice
        <4>9. d = Cur(q, Append(fs, v), Append(es, q), "ok")
          <5>1. d = [e EXCEPT !.ends = Append(@, q), !.fields = Append(@, v)]
            BY <4>3, <4>7, <4>8
          <5> QED BY <4>2, <5>1 DEF Cur
        <4>10. EndsOf(w, p, CaSigs) = {q}
          <5>1. \A x \in p + 1 .. Len(w) : x - p = 1 + n * 2 <=> x = q BY <2>a, <4>1
          <5>2. Up(w, p, q) BY <3>3, <4>1
          <5> QED BY <2>7, <2>10, <5>1, <5>2 DEF EndsOf
        <4>11. EncodeField(CaSigs, v) = Slice(w, p, q)
          <5>1. Len(v) = n * 2 BY <2>a, <4>1, <4>6
          <5>2. Len(v) \div 2 = n BY <2>4, <5>1, DivTimes
          <5>3. EncodeField(CaSigs, v) = <<n>> \o v BY <1>0, <5>2 DEF EncodeField
          <5> QED BY <2>4, <4>4, <4>5, <5>3, SliceHead
        <4>12. ~(Len(w) - p < 1 + n * 2) BY <2>4, <4>1
        <4> QED BY <2>8, <4>6, <4>9, <4>10, <4>11, <4>12 DEF Reads
      <3> QED BY <2>6, <3>1, <3>2, <3>3 DEF Turned
    <2> QED BY <2>9, <2>10
  <1> QED BY <1>8, <1>9

\* Every field of every layout.
LEMMA ReadStep ==
  ASSUME NEW w \in Seq(Nat), NEW p \in 0 .. Len(w), NEW fs, NEW es, NEW el \in Elements, NEW d,
         d = Read(w, Cur(p, fs, es, "ok"), el)
  PROVE  Reads(w, p, el, fs, es, d) \/ Fails(w, p, el, d)
  <1>1. CASE el = Fixed BY <1>1, ReadFixed
  <1>2. CASE el = Field
    <2>1. MAX_FIELD \in Nat /\ 1 \in Nat \ {0} BY CodecAssumption
    <2>2. el = [op |-> "field", max |-> MAX_FIELD, unit |-> 1] BY <1>2 DEF Field
    <2> QED BY <2>1, <2>2, ReadField
  <1>3. CASE el = Counted
    <2>1. MAX_COUNT \in Nat /\ UNIT \in Nat \ {0} BY CodecAssumption
    <2>2. el = [op |-> "field", max |-> MAX_COUNT, unit |-> UNIT] BY <1>3 DEF Counted
    <2> QED BY <2>1, <2>2, ReadField
  <1>4. CASE el = CaSigs BY <1>4, ReadCaSigs
  <1> QED BY <1>1, <1>2, <1>3, <1>4 DEF Elements

\* The layouts are made of them, and what is signed is all but the last.
LEMMA LayoutTyped ==
  ASSUME NEW f \in DOMAIN Layout
  PROVE  /\ Layout[f] \in Seq(Elements) /\ Len(Layout[f]) \in Nat /\ Len(Layout[f]) > 1
         /\ f \in DOMAIN Signed => Signed[f] = Len(Layout[f]) - 1
  <1>1. {Fixed, Field, Counted, CaSigs} \subseteq Elements BY DEF Elements
  <1>2. CASE f = "envelope"
    <2>1. Layout[f] = <<Fixed, Counted, Fixed, Field, Fixed>> BY <1>2 DEF Layout, EnvelopeLayout
    <2> QED BY <1>1, <1>2, <2>1 DEF Signed
  <1>3. CASE f = "intent"
    <2>1. Layout[f] = <<Fixed, Field, Field, Field>> BY <1>3 DEF Layout, IntentLayout
    <2> QED BY <1>1, <1>3, <2>1 DEF Signed
  <1>4. CASE f = "grant"
    <2>1. Layout[f] = <<Fixed, Field, Fixed, Fixed>> BY <1>4 DEF Layout, GrantLayout
    <2> QED BY <1>1, <1>4, <2>1 DEF Signed
  <1>5. CASE f = "refusal"
    <2>1. Layout[f] = <<Fixed, Field, Fixed>> BY <1>5 DEF Layout, RefusalLayout
    <2> QED BY <1>1, <1>5, <2>1 DEF Signed
  <1>6. CASE f = "span"
    <2>1. Layout[f] = <<Fixed, Field, Fixed, Fixed>> BY <1>6 DEF Layout, SpanLayout
    <2> QED BY <1>1, <1>6, <2>1 DEF Signed
  <1>7. CASE f = "cert"
    <2>1. Layout[f] = <<Fixed, Field, Counted, CaSigs>> BY <1>7 DEF Layout, CertLayout
    <2> QED BY <1>1, <1>7, <2>1 DEF Signed
  <1>8. f \in {"envelope", "intent", "grant", "refusal", "span", "cert"} BY DEF Layout
  <1> QED BY <1>2, <1>3, <1>4, <1>5, <1>6, <1>7, <1>8

\* The places where the fields F may end, and the cursors of the parser.
Ended(w, F, n, after) ==
    after = [k \in 0 .. n |-> IF k = 0 THEN {0}
               ELSE UNION {{q \in p + 1 .. Len(w) : IsWire(F[k], SubSeq(w, p + 1, q))} :
                              p \in after[k - 1]}]
Parsed(w, F, n, after) ==
    after = [k \in 0 .. n |-> IF k = 0 THEN Start ELSE Read(w, after[k - 1], F[k])]

\* There are such places.
LEMMA EndedExists ==
  ASSUME NEW w, NEW F, NEW N \in Nat PROVE \E after : Ended(w, F, N, after)
  <1> DEFINE T == {n \in Nat : ~ \E r : Ended(w, F, n, r)}
  <1> SUFFICES ASSUME T # {} PROVE FALSE OBVIOUS
  <1>1. PICK m \in T : \A k \in T : m <= k
    <2>1. T \in SUBSET Nat OBVIOUS
    <2> QED BY <2>1, LeastNatural
  <1>2. CASE m = 0
    <2> DEFINE r == [n \in 0 .. 0 |-> {0}]
    <2>1. \A n \in 0 .. 0 : n = 0 OBVIOUS
    <2>2. r = [n \in 0 .. 0 |-> IF n = 0 THEN {0} ELSE UNION {{x \in p + 1 .. Len(w) : IsWire(F[n], SubSeq(w, p + 1, x))} : p \in r[n - 1]}] BY <2>1
    <2>3. Ended(w, F, 0, r) BY <2>2, Zenon DEF Ended
    <2> QED BY <1>1, <1>2, <2>3
  <1>3. CASE m # 0
    <2>1. m - 1 \in Nat /\ m \in Nat /\ ~(m <= m - 1) BY <1>1, <1>3
    <2>2. PICK q : Ended(w, F, m - 1, q) BY <1>1, <2>1
    <2> DEFINE v(g, n) == IF n = 0 THEN {0} ELSE UNION {{x \in p + 1 .. Len(w) : IsWire(F[n], SubSeq(w, p + 1, x))} : p \in g[n - 1]}
               r == [n \in 0 .. m |-> v(q, n)]
    <2>3. \A n \in 0 .. m - 1 : n \in 0 .. m /\ r[n] = q[n]
      <3> SUFFICES ASSUME NEW n \in 0 .. m - 1 PROVE n \in 0 .. m /\ r[n] = q[n] OBVIOUS
      <3>1. n \in 0 .. m BY <2>1
      <3> QED BY <2>2, <3>1, Zenon DEF Ended
    <2>4. \A n \in 0 .. m : n # 0 => n - 1 \in 0 .. m - 1 BY <2>1
    <2>5. \A n \in 0 .. m : r[n] = v(r, n)
      <3> SUFFICES ASSUME NEW n \in 0 .. m PROVE r[n] = v(r, n) OBVIOUS
      <3>1. r[n] = v(q, n) BY Zenon
      <3> HIDE DEF r
      <3>2. CASE n = 0 BY <3>1, <3>2
      <3>3. CASE n # 0
        <4>1. r[n - 1] = q[n - 1] BY <2>3, <2>4, <3>3
        <4> QED BY <3>1, <4>1
      <3> QED BY <3>2, <3>3
    <2>6. r = [n \in 0 .. m |-> r[n]] OBVIOUS
    <2> HIDE DEF r
    <2>7. Ended(w, F, m, r) BY <2>5, <2>6, Zenon DEF Ended
    <2> QED BY <1>1, <2>7
  <1> QED BY <1>2, <1>3

\* There are such cursors.
LEMMA ParsedExists ==
  ASSUME NEW w, NEW F, NEW N \in Nat PROVE \E after : Parsed(w, F, N, after)
  <1> DEFINE T == {n \in Nat : ~ \E r : Parsed(w, F, n, r)}
  <1> SUFFICES ASSUME T # {} PROVE FALSE OBVIOUS
  <1>1. PICK m \in T : \A k \in T : m <= k
    <2>1. T \in SUBSET Nat OBVIOUS
    <2> QED BY <2>1, LeastNatural
  <1>2. CASE m = 0
    <2> DEFINE r == [n \in 0 .. 0 |-> Start]
    <2>1. \A n \in 0 .. 0 : n = 0 OBVIOUS
    <2>2. r = [n \in 0 .. 0 |-> IF n = 0 THEN Start ELSE Read(w, r[n - 1], F[n])] BY <2>1
    <2>3. Parsed(w, F, 0, r) BY <2>2, Zenon DEF Parsed
    <2> QED BY <1>1, <1>2, <2>3
  <1>3. CASE m # 0
    <2>1. m - 1 \in Nat /\ m \in Nat /\ ~(m <= m - 1) BY <1>1, <1>3
    <2>2. PICK q : Parsed(w, F, m - 1, q) BY <1>1, <2>1
    <2> DEFINE v(g, n) == IF n = 0 THEN Start ELSE Read(w, g[n - 1], F[n])
               r == [n \in 0 .. m |-> v(q, n)]
    <2>3. \A n \in 0 .. m - 1 : n \in 0 .. m /\ r[n] = q[n]
      <3> SUFFICES ASSUME NEW n \in 0 .. m - 1 PROVE n \in 0 .. m /\ r[n] = q[n] OBVIOUS
      <3>1. n \in 0 .. m BY <2>1
      <3> QED BY <2>2, <3>1, Zenon DEF Parsed
    <2>4. \A n \in 0 .. m : n # 0 => n - 1 \in 0 .. m - 1 BY <2>1
    <2>5. \A n \in 0 .. m : r[n] = v(r, n)
      <3> SUFFICES ASSUME NEW n \in 0 .. m PROVE r[n] = v(r, n) OBVIOUS
      <3>1. r[n] = v(q, n) BY Zenon
      <3> HIDE DEF r
      <3>2. CASE n = 0 BY <3>1, <3>2
      <3>3. CASE n # 0
        <4>1. r[n - 1] = q[n - 1] BY <2>3, <2>4, <3>3
        <4> QED BY <3>1, <4>1
      <3> QED BY <3>2, <3>3
    <2>6. r = [n \in 0 .. m |-> r[n]] OBVIOUS
    <2> HIDE DEF r
    <2>7. Parsed(w, F, m, r) BY <2>5, <2>6, Zenon DEF Parsed
    <2> QED BY <1>1, <2>7
  <1> QED BY <1>2, <1>3

\* The place where field i begins.
Cut(es, i) == IF i = 0 THEN 0 ELSE es[i]

\* The fields fs, which end at es, are the first k of F, and are encoded as the first bytes of w.
FieldsAre(w, F, k, fs, es) ==
    /\ fs \in Seq(Seq(Nat)) /\ es \in Seq(Nat) /\ Len(fs) = k /\ Len(es) = k
    /\ \A i \in 1 .. k :
          /\ es[i] \in 0 .. Len(w) /\ Cut(es, i - 1) <= es[i]
          /\ EncodeField(F[i], fs[i]) = Slice(w, Cut(es, i - 1), es[i])

\* One of the first k fields is cut off by the end of w.
Broken(w, F, k, E) == \E j \in 1 .. k : \E p \in E[j - 1] : Begins(F[j], Rest(w, p))

\* The cursor c after k fields.
Along(w, F, k, E, c) ==
    \/ \E q, fs, es :
          /\ q \in 0 .. Len(w) /\ c = Cur(q, fs, es, "ok") /\ E[k] = {q} /\ Cut(es, k) = q
          /\ FieldsAre(w, F, k, fs, es) /\ ~Broken(w, F, k, E)
    \/ /\ c.err \notin {"ok", "TrailingBytes"} /\ E[k] = {}
       /\ c.err = "Truncated" <=> Broken(w, F, k, E)

\* One more field.
LEMMA AlongNext ==
  ASSUME NEW w \in Seq(Nat), NEW F \in Seq(Elements), NEW k \in 1 .. Len(F), NEW E,
         E[k] = UNION {EndsOf(w, p, F[k]) : p \in E[k - 1]},
         NEW c, Along(w, F, k - 1, E, c)
  PROVE  Along(w, F, k, E, Read(w, c, F[k]))
  <1>1. PICK d : d = Read(w, c, F[k]) OBVIOUS
  <1>2. Broken(w, F, k, E) <=>
           Broken(w, F, k - 1, E) \/ \E p \in E[k - 1] : Begins(F[k], Rest(w, p))
    <2>1. \A j : j \in 1 .. k <=> j \in 1 .. k - 1 \/ j = k OBVIOUS
    <2> QED BY <2>1 DEF Broken
  <1>3. CASE /\ c.err \notin {"ok", "TrailingBytes"} /\ E[k - 1] = {}
             /\ c.err = "Truncated" <=> Broken(w, F, k - 1, E)
    <2>1. d = c BY <1>1, <1>3 DEF Read
    <2>2. E[k] = {} BY <1>3
    <2>3. Broken(w, F, k, E) <=> Broken(w, F, k - 1, E) BY <1>2, <1>3
    <2> QED BY <1>1, <1>3, <2>1, <2>2, <2>3 DEF Along
  <1>4. CASE \E q, fs, es :
                /\ q \in 0 .. Len(w) /\ c = Cur(q, fs, es, "ok") /\ E[k - 1] = {q} /\ Cut(es, k - 1) = q
                /\ FieldsAre(w, F, k - 1, fs, es) /\ ~Broken(w, F, k - 1, E)
    <2>1. PICK q, fs, es :
                /\ q \in 0 .. Len(w) /\ c = Cur(q, fs, es, "ok") /\ E[k - 1] = {q} /\ Cut(es, k - 1) = q
                /\ FieldsAre(w, F, k - 1, fs, es) /\ ~Broken(w, F, k - 1, E)
      BY <1>4
    <2>2. PICK el \in Elements : el = F[k] OBVIOUS
    <2>3. E[k] = EndsOf(w, q, el) BY <2>1, <2>2
    <2>4. Broken(w, F, k, E) <=> Begins(el, Rest(w, q)) BY <1>2, <2>1, <2>2
    <2>5. Reads(w, q, el, fs, es, d) \/ Fails(w, q, el, d) BY <1>1, <2>1, <2>2, ReadStep
    <2>6. CASE Fails(w, q, el, d)
      BY <1>1, <2>3, <2>4, <2>6 DEF Fails, Along
    <2>7. CASE Reads(w, q, el, fs, es, d)
      <3>1. PICK x \in q + 1 .. Len(w), v \in Seq(Nat) :
              /\ d = Cur(x, Append(fs, v), Append(es, x), "ok") /\ EndsOf(w, q, el) = {x}
              /\ EncodeField(el, v) = Slice(w, q, x) /\ ~Begins(el, Rest(w, q))
        BY <2>7 DEF Reads
      <3>2. PICK gs : gs = Append(fs, v) OBVIOUS
      <3>3. PICK ds : ds = Append(es, x) OBVIOUS
      <3>4. /\ fs \in Seq(Seq(Nat)) /\ es \in Seq(Nat) /\ Len(fs) = k - 1 /\ Len(es) = k - 1
        BY <2>1 DEF FieldsAre
      <3>5. /\ gs \in Seq(Seq(Nat)) /\ Len(gs) = k /\ gs[k] = v
            /\ \A i \in 1 .. k - 1 : gs[i] = fs[i]
        BY <3>2, <3>4
      <3>6. /\ ds \in Seq(Nat) /\ Len(ds) = k /\ ds[k] = x
            /\ \A i \in 1 .. k - 1 : ds[i] = es[i]
        BY <2>1, <3>3, <3>4
      <3>7. \A i \in 0 .. k - 1 : Cut(ds, i) = Cut(es, i) BY <3>6 DEF Cut
      <3>8. x \in 0 .. Len(w) /\ Cut(ds, k) = x BY <3>6 DEF Cut
      <3>9. ASSUME NEW i \in 1 .. k
            PROVE  /\ ds[i] \in 0 .. Len(w) /\ Cut(ds, i - 1) <= ds[i]
                   /\ EncodeField(F[i], gs[i]) = Slice(w, Cut(ds, i - 1), ds[i])
        <4>1. CASE i = k
          <5>1. Cut(ds, k - 1) = q
            <6>1. k - 1 \in 0 .. k - 1 OBVIOUS
            <6> QED BY <2>1, <3>7, <6>1
          <5>2. q <= x BY <2>1, <3>1
          <5> QED BY <2>2, <3>1, <3>5, <3>6, <3>8, <4>1, <5>1, <5>2
        <4>2. CASE i # k
          <5>1. i \in 1 .. k - 1 /\ i - 1 \in 0 .. k - 1 BY <4>2
          <5>2. /\ es[i] \in 0 .. Len(w) /\ Cut(es, i - 1) <= es[i]
                /\ EncodeField(F[i], fs[i]) = Slice(w, Cut(es, i - 1), es[i])
            BY <2>1, <5>1 DEF FieldsAre
          <5>3. gs[i] = fs[i] /\ ds[i] = es[i] /\ Cut(ds, i - 1) = Cut(es, i - 1)
            BY <3>5, <3>6, <3>7, <5>1
          <5> QED BY <5>2, <5>3
        <4> QED BY <4>1, <4>2
      <3>10. FieldsAre(w, F, k, gs, ds) BY <3>5, <3>6, <3>9 DEF FieldsAre
      <3>11. d = Cur(x, gs, ds, "ok") /\ E[k] = {x} /\ ~Broken(w, F, k, E)
        BY <2>3, <2>4, <3>1, <3>2, <3>3
      <3> QED BY <1>1, <3>8, <3>10, <3>11 DEF Along
    <2> QED BY <2>5, <2>6, <2>7
  <1> QED BY <1>3, <1>4 DEF Along

\* All of them.
LEMMA AlongAll ==
  ASSUME NEW w \in Seq(Nat), NEW F \in Seq(Elements), NEW N \in Nat, N = Len(F),
         NEW E, Ended(w, F, N, E), NEW A, Parsed(w, F, N, A)
  PROVE  Along(w, F, N, E, A[N])
  <1>1. E[0] = {0} /\ A[0] = Start
    <2>1. 0 \in 0 .. N OBVIOUS
    <2> QED BY <2>1, Zenon DEF Ended, Parsed
  <1> DEFINE T == {k \in 0 .. N : ~Along(w, F, k, E, A[k])}
  <1>2. T = {}
    <2> SUFFICES ASSUME T # {} PROVE FALSE OBVIOUS
    <2>1. PICK k \in T : \A j \in T : k <= j
      <3>1. T \in SUBSET Nat OBVIOUS
      <3> QED BY <3>1, LeastNatural
    <2>2. CASE k = 0
      <3>1. A[0] = Cur(0, <<>>, <<>>, "ok") BY <1>1 DEF Start, Cur
      <3>2. FieldsAre(w, F, 0, <<>>, <<>>) BY DEF FieldsAre
      <3>3. ~Broken(w, F, 0, E) BY DEF Broken
      <3>4. Cut(<<>>, 0) = 0 /\ 0 \in 0 .. Len(w) BY DEF Cut
      <3>5. Along(w, F, 0, E, A[0]) BY <1>1, <3>1, <3>2, <3>3, <3>4, Zenon DEF Along
      <3> QED BY <2>1, <2>2, <3>5
    <2>3. CASE k # 0
      <3>1. k \in 0 .. N /\ k \in 1 .. Len(F) /\ k - 1 \in 0 .. N /\ ~(k <= k - 1) BY <2>1, <2>3
      <3>2. Along(w, F, k - 1, E, A[k - 1]) BY <2>1, <3>1
      <3>3. A[k] = Read(w, A[k - 1], F[k]) BY <2>3, <3>1, Zenon DEF Parsed
      <3>4. E[k] = UNION {EndsOf(w, p, F[k]) : p \in E[k - 1]}
        BY <2>3, <3>1, Zenon DEF Ended, EndsOf, Slice
      <3>5. PICK c : c = A[k - 1] OBVIOUS
      <3>6. Along(w, F, k, E, Read(w, c, F[k])) BY <3>1, <3>2, <3>4, <3>5, AlongNext
      <3> QED BY <2>1, <3>3, <3>5, <3>6
    <2> QED BY <2>2, <2>3
  <1>3. N \in 0 .. N OBVIOUS
  <1> QED BY <1>2, <1>3

\* w is what comes before its last field, and that field.
Finished(w, F, N, fs, es) == w = SubSeq(w, 1, es[N - 1]) \o EncodeField(Last(F), Last(fs))

\* The fields of a whole message are encoded as its bytes, and as those of all but the last.
LEMMA FieldsEncode ==
  ASSUME NEW w \in Seq(Nat), NEW F \in Seq(Elements), NEW N \in Nat, N = Len(F), N > 1,
         NEW fs, NEW es, FieldsAre(w, F, N, fs, es), Cut(es, N) = Len(w)
  PROVE  /\ FlattenSeq([i \in DOMAIN fs |-> EncodeField(F[i], fs[i])]) = w
         /\ Finished(w, F, N, fs, es)
         /\ SubSeq(w, 1, es[N - 1]) \in Seq(Nat)
  <1>1. PICK cut : cut = [i \in 0 .. N |-> Cut(es, i)] OBVIOUS
  <1>2. /\ fs \in Seq(Seq(Nat)) /\ es \in Seq(Nat) /\ Len(fs) = N /\ Len(es) = N
        /\ DOMAIN fs = 1 .. N
    BY DEF FieldsAre
  <1>3. \A i \in 0 .. N : cut[i] = Cut(es, i) BY <1>1
  <1>4. \A i \in 1 .. N : i \in 0 .. N /\ i - 1 \in 0 .. N /\ cut[i] = es[i]
    <2>1. \A i \in 1 .. N : i \in 0 .. N /\ i - 1 \in 0 .. N /\ i # 0 OBVIOUS
    <2> QED BY <1>3, <2>1 DEF Cut
  <1>5. cut[0] = 0 BY <1>3 DEF Cut
  <1>6. \A i \in 0 .. N : cut[i] \in 0 .. Len(w)
    <2> SUFFICES ASSUME NEW i \in 0 .. N PROVE cut[i] \in 0 .. Len(w) OBVIOUS
    <2>1. CASE i = 0 BY <1>5, <2>1
    <2>2. CASE i # 0
      <3>1. i \in 1 .. N BY <2>2
      <3> QED BY <1>4, <3>1 DEF FieldsAre
    <2> QED BY <2>1, <2>2
  <1>7. \A i \in 1 .. N : cut[i - 1] <= cut[i] BY <1>3, <1>4 DEF FieldsAre
  <1>8. PICK bs : bs = [i \in DOMAIN fs |-> EncodeField(F[i], fs[i])] OBVIOUS
  <1>9. \A i \in 1 .. N : bs[i] = EncodeField(F[i], fs[i]) BY <1>2, <1>8
  <1>10. \A i \in 1 .. N : bs[i] = Slice(w, cut[i - 1], cut[i])
    BY <1>3, <1>4, <1>9 DEF FieldsAre
  <1>11. Len(bs) = N
    <2>1. bs \in Seq({EncodeField(F[i], fs[i]) : i \in 1 .. N}) BY <1>2, <1>8
    <2> QED BY <1>2, <1>8, <2>1
  <1>12. cut[N] = Len(w) /\ N \in Nat \ {0} BY <1>3
  <1>13. FlattenSeq(bs) = Slice(w, 0, cut[N])
    BY <1>5, <1>6, <1>7, <1>10, <1>11, <1>12, FlattenSlices
  <1>14. FlattenSeq(bs) = w BY <1>12, <1>13, SliceWhole
  <1>15. PICK x \in 0 .. Len(w) : x = es[N - 1] /\ x = cut[N - 1]
    <2>1. N - 1 \in 1 .. N OBVIOUS
    <2> QED BY <1>4, <1>6, <2>1
  <1>16. EncodeField(F[N], fs[N]) = Slice(w, x, Len(w))
    <2>1. N \in 1 .. N OBVIOUS
    <2> QED BY <1>9, <1>10, <1>12, <1>15, <2>1
  <1>17. Last(F) = F[N] /\ Last(fs) = fs[N] BY <1>2 DEF Last
  <1>18. 0 \in 0 .. Len(w) /\ Len(w) \in 0 .. Len(w) /\ 0 <= x /\ x <= Len(w) OBVIOUS
  <1>19. Slice(w, 0, x) \o Slice(w, x, Len(w)) = w
    BY <1>18, SlicesJoin, SliceWhole
  <1>20. SubSeq(w, 1, x) = Slice(w, 0, x) /\ Slice(w, 0, x) \in Seq(Nat)
    <2>1. Slice(w, 0, x) \in Seq(Nat) BY <1>18, SliceIs
    <2> QED BY <2>1 DEF Slice
  <1>21. Finished(w, F, N, fs, es) BY <1>15, <1>16, <1>17, <1>19, <1>20 DEF Finished
  <1> QED BY <1>8, <1>14, <1>15, <1>20, <1>21

\* What a parser makes of w.
Right(f, w) ==
    LET c == ParseWire(f, w)
    IN  /\ c.err = "ok" <=> Whole(f, w)
        /\ c.err = "Truncated" <=> Unfinished(f, w)
        /\ c.err = "TrailingBytes" <=> Trailing(f, w)
        /\ c.err = "ok" => Encode(f, c.fields) = w
        /\ c.err = "ok" /\ f \in DOMAIN Signed =>
              w = Tail(SignedInput(f, w, c)) \o EncodeField(Last(Layout[f]), Last(c.fields))

\* The parser is its cursors, its end looked at.
LEMMA ParseIs ==
  ASSUME NEW f, NEW w, NEW N, N = Len(Layout[f]), NEW c,
         c = (CHOOSE r : Parsed(w, Layout[f], N, r))[N]
  PROVE  ParseWire(f, w) = IF c.err = "ok" /\ c.pos < Len(w) THEN Fail(c, "TrailingBytes") ELSE c
  <1>1. ParseWire(f, w) =
          IF (CHOOSE r : Parsed(w, Layout[f], Len(Layout[f]), r))[Len(Layout[f])].err = "ok" /\
             (CHOOSE r : Parsed(w, Layout[f], Len(Layout[f]), r))[Len(Layout[f])].pos < Len(w)
          THEN Fail((CHOOSE r : Parsed(w, Layout[f], Len(Layout[f]), r))[Len(Layout[f])], "TrailingBytes")
          ELSE (CHOOSE r : Parsed(w, Layout[f], Len(Layout[f]), r))[Len(Layout[f])]
    BY Zenon DEF ParseWire, Parsed
  <1> QED BY <1>1, Zenon

\* Each of them is right about every buffer.
LEMMA ParseRight ==
  ASSUME NEW f \in DOMAIN Layout, NEW w \in Seq(Nat) PROVE Right(f, w)
  <1>1. PICK F \in Seq(Elements) : F = Layout[f] BY LayoutTyped
  <1>2. PICK N \in Nat : N = Len(F) /\ N > 1 BY <1>1, LayoutTyped
  <1>3. PICK E : E = Ends(f, w) OBVIOUS
  <1>4. Ended(w, F, N, E)
    <2>1. Ends(f, w) = CHOOSE r : Ended(w, Layout[f], Len(Layout[f]), r)
      BY Zenon DEF Ends, Ended
    <2>2. E = CHOOSE r : Ended(w, F, N, r) BY <1>1, <1>2, <1>3, <2>1
    <2> QED BY <2>2, EndedExists
  <1>5. PICK A : A = CHOOSE r : Parsed(w, F, N, r) OBVIOUS
  <1>6. Parsed(w, F, N, A) BY <1>5, ParsedExists
  <1>7. PICK c : c = A[N] OBVIOUS
  <1>8. Along(w, F, N, E, c) BY <1>2, <1>4, <1>6, <1>7, AlongAll
  <1>9. PICK d : d = ParseWire(f, w) OBVIOUS
  <1>10. d = IF c.err = "ok" /\ c.pos < Len(w) THEN Fail(c, "TrailingBytes") ELSE c
    <2>1. N = Len(Layout[f]) BY <1>1, <1>2
    <2>2. c = (CHOOSE r : Parsed(w, Layout[f], N, r))[N] BY <1>1, <1>5, <1>7
    <2> QED BY <1>9, <2>1, <2>2, ParseIs
  <1>11. Whole(f, w) <=> Len(w) \in E[N] BY <1>1, <1>2, <1>3 DEF Whole
  <1>12. Trailing(f, w) <=> \E n \in 0 .. Len(w) - 1 : n \in E[N]
    BY <1>1, <1>2, <1>3 DEF Trailing
  <1>13. Unfinished(f, w) <=> Broken(w, F, N, E)
    BY <1>1, <1>2, <1>3 DEF Unfinished, Broken, Rest, Slice
  <1>14. CASE /\ c.err \notin {"ok", "TrailingBytes"} /\ E[N] = {}
              /\ c.err = "Truncated" <=> Broken(w, F, N, E)
    <2>1. d = c BY <1>10, <1>14
    <2>2. d.err \notin {"ok", "TrailingBytes"} BY <1>14, <2>1
    <2> QED BY <1>9, <1>11, <1>12, <1>13, <1>14, <2>1, <2>2 DEF Right
  <1>15. CASE \E q, fs, es :
                /\ q \in 0 .. Len(w) /\ c = Cur(q, fs, es, "ok") /\ E[N] = {q} /\ Cut(es, N) = q
                /\ FieldsAre(w, F, N, fs, es) /\ ~Broken(w, F, N, E)
    <2>1. PICK q, fs, es :
                /\ q \in 0 .. Len(w) /\ c = Cur(q, fs, es, "ok") /\ E[N] = {q} /\ Cut(es, N) = q
                /\ FieldsAre(w, F, N, fs, es) /\ ~Broken(w, F, N, E)
      BY <1>15
    <2>2. c.err = "ok" /\ c.pos = q BY <2>1, CurParts
    <2>3. CASE q < Len(w)
      <3>1. d = Cur(q, fs, es, "TrailingBytes") BY <1>10, <2>1, <2>2, <2>3, FailCur
      <3>2. d.err = "TrailingBytes" BY <3>1, CurParts
      <3>3. q \in 0 .. Len(w) - 1 /\ q # Len(w) BY <2>1, <2>3
      <3>4. Trailing(f, w) /\ ~Whole(f, w) BY <1>11, <1>12, <2>1, <3>3
      <3> QED BY <1>9, <1>13, <2>1, <3>2, <3>4 DEF Right
    <2>4. CASE ~(q < Len(w))
      <3>1. q = Len(w) BY <2>1, <2>4
      <3>2. d = Cur(q, fs, es, "ok") BY <1>10, <2>1, <2>2, <2>4
      <3>3. d.err = "ok" /\ d.fields = fs /\ d.ends = es BY <3>2, CurParts
      <3>4. Whole(f, w) /\ ~Trailing(f, w)
        <4>1. \A n \in 0 .. Len(w) - 1 : n # q BY <3>1
        <4> QED BY <1>11, <1>12, <2>1, <3>1, <4>1
      <3>5. /\ FlattenSeq([i \in DOMAIN fs |-> EncodeField(F[i], fs[i])]) = w
            /\ w = SubSeq(w, 1, es[N - 1]) \o EncodeField(Last(F), Last(fs))
            /\ SubSeq(w, 1, es[N - 1]) \in Seq(Nat)
        <4>1. Cut(es, N) = Len(w) /\ FieldsAre(w, F, N, fs, es) BY <2>1, <3>1
        <4>2. FlattenSeq([i \in DOMAIN fs |-> EncodeField(F[i], fs[i])]) = w
          BY <1>2, <4>1, FieldsEncode
        <4>3. Finished(w, F, N, fs, es)
          BY <1>2, <4>1, FieldsEncode
        <4>4. SubSeq(w, 1, es[N - 1]) \in Seq(Nat)
          BY <1>2, <4>1, FieldsEncode
        <4> QED BY <4>2, <4>3, <4>4 DEF Finished
      <3>6. Encode(f, fs) = w BY <1>1, <3>5 DEF Encode
      <3>7. ASSUME f \in DOMAIN Signed
            PROVE  w = Tail(SignedInput(f, w, d)) \o EncodeField(Last(Layout[f]), Last(fs))
        <4>1. Signed[f] = N - 1 BY <1>1, <1>2, <3>7, LayoutTyped
        <4>2. PICK y : y = Domain[f] OBVIOUS
        <4>3. PICK s \in Seq(Nat) : s = SubSeq(w, 1, es[N - 1]) BY <3>5
        <4>4. SignedInput(f, w, d) = <<y>> \o s BY <3>3, <4>1, <4>2, <4>3 DEF SignedInput
        <4>5. Tail(<<y>> \o s) = s BY <4>3
        <4> QED BY <1>1, <3>5, <4>3, <4>4, <4>5
      <3> QED BY <1>9, <1>13, <2>1, <3>3, <3>4, <3>6, <3>7 DEF Right
    <2> QED BY <2>3, <2>4
  <1> QED BY <1>8, <1>14, <1>15 DEF Along

\* A buffer holds numbers.
WireInv == wire \in Seq(Nat)

\* For any bytes and any buffer size: a buffer holds numbers.
THEOREM WireInvariant == WireSpec => []WireInv
  <1>1. WireInit => WireInv BY DEF WireInit, WireInv
  <1>2. WireInv /\ [WireNext]_wire => WireInv'
    <2> SUFFICES ASSUME WireInv, [WireNext]_wire PROVE WireInv' OBVIOUS
    <2>1. CASE UNCHANGED wire BY <2>1 DEF WireInv
    <2>2. ASSUME NEW b \in Bytes, Grow(b) PROVE WireInv'
      <3>1. b \in Nat BY CodecAssumption
      <3> QED BY <2>2, <3>1 DEF Grow, WireInv
    <2>3. CASE NewBuffer BY <2>3 DEF NewBuffer, WireInv
    <2> QED BY <2>1, <2>2, <2>3 DEF WireNext
  <1> QED BY <1>1, <1>2, PTL DEF WireSpec

\* For any limits and buffers of any length: each of the six parsers takes exactly the
\* wires of its format and names the right reason for every other buffer, what it
\* took encodes to the bytes it came from, and a signature covers what it should.
THEOREM WireCodecExact == WireSpec => []CodecExact
  <1>1. WireInv => CodecExact
    <2> SUFFICES ASSUME WireInv, NEW f \in DOMAIN Layout PROVE Right(f, wire)
      BY DEF CodecExact, Right
    <2> QED BY ParseRight DEF WireInv
  <1> QED BY <1>1, WireInvariant, PTL
=============================================================================
