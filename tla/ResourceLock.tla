---------------------------- MODULE ResourceLock ----------------------------
(***************************************************************************)
(* What the intent table promises (BE-GRANT-03a, 04, 06, 06b, 09, 10): a   *)
(* lock per resource.  A resource is held by one intent from its admission *)
(* on; a holder that has started to execute keeps it until a restart; a    *)
(* pending holder may be released; an intent waits for at most one         *)
(* resource at a time.                                                     *)
(***************************************************************************)
CONSTANTS IntentIds, Resources

VARIABLE held        \* the holders: resource, intent, phase

Holder == [resource : Resources, id : IntentIds, phase : {"Pending", "Executing"}]

Init == held = {}

Acquire(i, r) ==
    /\ \A h \in held : h.resource # r
    /\ \A h \in held : ~(h.id = i /\ h.phase = "Pending")
    /\ held' = held \cup {[resource |-> r, id |-> i, phase |-> "Pending"]}

Start(h) ==
    /\ h \in held
    /\ h.phase = "Pending"
    /\ held' = (held \ {h}) \cup {[h EXCEPT !.phase = "Executing"]}

\* One refusal releases one holder, one sweep several.
Release ==
    /\ held' \subseteq held
    /\ \A h \in held \ held' : h.phase = "Pending"

\* BE-GRANT-04: nothing is held after a restart.
Restart == held' = {}

Next ==
    \/ \E i \in IntentIds, r \in Resources : Acquire(i, r)
    \/ \E h \in Holder : Start(h)
    \/ Release
    \/ Restart

Spec == Init /\ [][Next]_held
=============================================================================
