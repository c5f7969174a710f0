------------------------------ MODULE Intents -------------------------------
(***************************************************************************)
(* The intent table of state/intent.rs as operators on its entries.        *)
(* IntentTable.tla drives one table; Authority.tla uses it behind the      *)
(* grant pipeline.                                                         *)
(*                                                                         *)
(* The Vec of entries is a set: every operation looks for "an entry with", *)
(* never for a position relative to another, and two entries are never     *)
(* equal (admit refuses a held resource, a dead entry does not outlive the *)
(* operation that kills it).                                               *)
(***************************************************************************)
EXTENDS Integers, FiniteSets

CONSTANTS
    IntentIds,       \* intent_id values
    Resources,       \* canonical resource names
    MAX_PENDING,     \* 256 in the code
    T_PENDING_MS     \* 900 000 in the code

ASSUME IntentsAssumption == MAX_PENDING \in Nat /\ T_PENDING_MS \in Nat

IntentStates == {"Pending", "Executing", "Expired", "Rejected"}

Entry == [id : IntentIds, resource : Resources, state : IntentStates, admitted : Nat]

Live(e) == e.state \in {"Pending", "Executing"}

\* compact: only live entries stay.
Compact(tab) == {e \in tab : Live(e)}

\* match_for_grant: the PENDING entries with this id.
MatchForGrant(tab, i) == {e \in tab : e.state = "Pending" /\ e.id = i}

\* Mutant: a resource that is EXECUTING does not count as held.
AdmitResultPendingOnly(tab, i, r) ==
    IF MatchForGrant(tab, i) # {} THEN "DuplicateIntentId"
    ELSE IF \E e \in tab : e.state = "Pending" /\ e.resource = r THEN "ResourceHeld"
    ELSE IF Cardinality(tab) >= MAX_PENDING THEN "TableFull"
    ELSE "Ok"

\* The verdict of admit, in the order of its tests.
AdmitResult(tab, i, r) ==
    IF MatchForGrant(tab, i) # {} THEN "DuplicateIntentId"
    ELSE IF \E e \in tab : Live(e) /\ e.resource = r THEN "ResourceHeld"
    ELSE IF Cardinality(tab) >= MAX_PENDING THEN "TableFull"
    ELSE "Ok"

\* The table after admit has returned Ok.
Admit(tab, i, r, now) ==
    tab \cup {[id |-> i, resource |-> r, state |-> "Pending", admitted |-> now]}

\* begin_executing on a PENDING entry.
BeginExecuting(tab, e) == (tab \ {e}) \cup {[e EXCEPT !.state = "Executing"]}

\* apply_refusal on the PENDING entry e: REJECTED, then compact.
ApplyRefusal(tab, e) == Compact((tab \ {e}) \cup {[e EXCEPT !.state = "Rejected"]})

Overdue(e, now) == e.state = "Pending" /\ now > e.admitted + T_PENDING_MS

\* Mutant: an entry expires at its deadline instead of after it.
ExpireTimeoutsEarly(tab, now) ==
    Compact({IF e.state = "Pending" /\ now >= e.admitted + T_PENDING_MS
             THEN [e EXCEPT !.state = "Expired"] ELSE e : e \in tab})

\* expire_timeouts: overdue PENDING entries become EXPIRED, then compact.
ExpireTimeouts(tab, now) ==
    Compact({IF Overdue(e, now) THEN [e EXCEPT !.state = "Expired"] ELSE e : e \in tab})
=============================================================================
