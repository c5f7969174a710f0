------------------------------ MODULE RateTable ------------------------------
(***************************************************************************)
(* The request budgets of transport/sync.rs (BE-SYNC-04): per peer a ring  *)
(* of the times of the last BUDGET admissions, in a table that takes no    *)
(* new peer when it is full.  A stamp of 0 is an unused place.  The clock  *)
(* starts above 0 and is not set back.                                     *)
(***************************************************************************)
EXTENDS Integers, Sequences, FiniteSets

CONSTANTS
    Peers,
    BUDGET,               \* SERVE_BUDGET or ISSUE_BUDGET: 8 and 4 in the code
    RATE_WINDOW,          \* RATE_WINDOW_MS
    MAX_TRACKED_PEERS,    \* 64 in the code
    MaxTime               \* bound: the clock

ASSUME RateAssumption ==
    BUDGET \in Nat \ {0} /\ RATE_WINDOW \in Nat \ {0} /\ MAX_TRACKED_PEERS \in Nat \ {0}

VARIABLES
    rows,       \* peer -> [stamps, next], for the peers in the table
    time,       \* now_ms
    admitted    \* history: peer -> the times of its admissions

rateVars == <<rows, time, admitted>>

NewRow == [stamps |-> [i \in 0 .. BUDGET - 1 |-> 0], next |-> 0]

RateInit ==
    /\ rows = <<>> /\ time = 1
    /\ admitted = [p \in Peers |-> <<>>]

Row(p) == IF p \in DOMAIN rows THEN rows[p] ELSE NewRow

\* The recorded admissions that lie inside the window.
Inside(w) ==
    {i \in DOMAIN w.stamps : w.stamps[i] # 0 /\ time >= w.stamps[i] /\ time - w.stamps[i] < RATE_WINDOW}

\* RateTable::admit's answer: a known peer within its budget, or room for a new one.
Admissible(p) ==
    /\ p \in DOMAIN rows \/ Cardinality(DOMAIN rows) < MAX_TRACKED_PEERS
    /\ Cardinality(Inside(Row(p))) < BUDGET

\* Mutant: the ring does not move on.
StampedInPlace(w) == [w EXCEPT !.stamps[w.next] = time]

Stamped(w) == [stamps |-> [w.stamps EXCEPT ![w.next] = time], next |-> (w.next + 1) % BUDGET]

Admit(p) ==
    /\ Admissible(p)
    /\ rows' = [q \in DOMAIN rows \cup {p} |-> IF q = p THEN Stamped(Row(p)) ELSE rows[q]]
    /\ admitted' = [admitted EXCEPT ![p] = Append(@, time)]
    /\ UNCHANGED time

Refuse(p) == ~Admissible(p) /\ UNCHANGED rateVars

RateTick == time < MaxTime /\ time' = time + 1 /\ UNCHANGED <<rows, admitted>>

RateNext == (\E p \in Peers : Admit(p) \/ Refuse(p)) \/ RateTick

RateSpec == RateInit /\ [][RateNext]_rateVars

-----------------------------------------------------------------------------
\* The admissions of p in the last RATE_WINDOW ticks.
Recent(p) == {k \in DOMAIN admitted[p] : time - admitted[p][k] < RATE_WINDOW}

\* BE-SYNC-04: the ring of BUDGET stamps forgets no admission too early and none too late: a
\* peer in the table is served exactly when fewer than BUDGET of all its admissions
\* lie in the window, which therefore never holds more.
BudgetExact ==
    \A p \in Peers :
        /\ Cardinality(Recent(p)) <= BUDGET
        /\ p \in DOMAIN rows => (Admissible(p) <=> Cardinality(Recent(p)) < BUDGET)
=============================================================================
