---------------------------- MODULE IntentTable -----------------------------
(***************************************************************************)
(* The pending-intent pool of state/intent.rs under every order of its     *)
(* operations and of the passage of time.                                  *)
(***************************************************************************)
EXTENDS Intents

CONSTANT MaxTime         \* bound: the clock, in ms

VARIABLES
    entries,    \* Table.entries
    clock,      \* the caller's clock
    last        \* history: the operation that made the last step

tableVars == <<entries, clock, last>>

TableInit ==
    /\ entries = {}
    /\ clock = 0
    /\ last = "restart"

\* admit returns Ok.
AdmitOk(i, r) ==
    /\ AdmitResult(entries, i, r) = "Ok"
    /\ entries' = Admit(entries, i, r, clock)
    /\ last' = "admit"
    /\ UNCHANGED clock

\* admit refuses (DuplicateIntentId, ResourceHeld, TableFull): no change.
AdmitRefused(i, r) ==
    /\ AdmitResult(entries, i, r) # "Ok"
    /\ last' = "refused"
    /\ UNCHANGED <<entries, clock>>

\* begin_executing on the entry match_for_grant found.  On any other entry
\* it returns NotPending and changes nothing.
BeginExec(i) ==
    /\ \E e \in MatchForGrant(entries, i) : entries' = BeginExecuting(entries, e)
    /\ last' = "execute"
    /\ UNCHANGED clock

\* apply_refusal with a match; without one it returns NoMatch.
TakeRefusal(i) ==
    /\ \E e \in MatchForGrant(entries, i) : entries' = ApplyRefusal(entries, e)
    /\ last' = "refusal"
    /\ UNCHANGED clock

\* begin_executing or apply_refusal without a PENDING entry.
NoMatch(i) ==
    /\ MatchForGrant(entries, i) = {}
    /\ last' = "nomatch"
    /\ UNCHANGED <<entries, clock>>

\* expire_timeouts.
Sweep ==
    /\ entries' = ExpireTimeouts(entries, clock)
    /\ last' = "sweep"
    /\ UNCHANGED clock

\* A new process starts with Table::new().
TableRestart ==
    /\ entries' = {}
    /\ last' = "restart"
    /\ UNCHANGED clock

ClockTick ==
    /\ clock < MaxTime
    /\ clock' = clock + 1
    /\ last' = "tick"
    /\ UNCHANGED entries

TableNext ==
    \/ \E i \in IntentIds, r \in Resources : AdmitOk(i, r) \/ AdmitRefused(i, r)
    \/ \E i \in IntentIds : BeginExec(i) \/ TakeRefusal(i) \/ NoMatch(i)
    \/ Sweep
    \/ TableRestart
    \/ ClockTick

TableSpec == TableInit /\ [][TableNext]_tableVars

-----------------------------------------------------------------------------

\* The table holds entries of its type and the clock is a number of ms.
TypeOK ==
    /\ entries \subseteq Entry
    /\ clock \in Nat
    /\ last \in {"restart", "admit", "refused", "execute", "refusal", "nomatch",
                 "sweep", "tick"}

\* BE-GRANT-06: two live entries never name the same resource, through
\* every sequence of admissions, executions, refusals, sweeps and restarts.
ResourceExclusive ==
    \A e, f \in entries : Live(e) /\ Live(f) /\ e.resource = f.resource => e = f

\* BE-GRANT-06b: match_for_grant has at most one candidate, "THE one PENDING
\* entry for this id", although an id may be admitted again.
PendingUnique ==
    \A e, f \in entries :
        e.state = "Pending" /\ f.state = "Pending" /\ e.id = f.id => e = f

\* MD4: the table never exceeds its capacity and no dead entry uses any of
\* it, so TableFull means MAX_PENDING live intents.
CapacityIsLive ==
    /\ Cardinality(entries) <= MAX_PENDING
    /\ \A e \in entries : Live(e)

\* BE-GRANT-06a: a pending entry disappears only by a matched refusal, a
\* restart, or a sweep strictly after its deadline; and a sweep leaves no
\* overdue entry behind.
ExpiryExact ==
    [][/\ \A e \in entries :
            (e.state = "Pending" /\ e \notin entries'
                /\ [e EXCEPT !.state = "Executing"] \notin entries')
            => \/ last' \in {"refusal", "restart"}
               \/ last' = "sweep" /\ Overdue(e, clock)
       /\ last' = "sweep" => \A e \in entries' : ~Overdue(e, clock)]_tableVars

\* The table implements a lock per resource (ResourceLock).
Lock == INSTANCE ResourceLock WITH
    held <- {[resource |-> e.resource, id |-> e.id, phase |-> e.state] : e \in entries}

LockSpec == Lock!Spec

\* The inductive invariant.
Inv ==
    /\ TypeOK
    /\ ResourceExclusive
    /\ PendingUnique
    /\ CapacityIsLive
    /\ IsFiniteSet(entries)
=============================================================================
