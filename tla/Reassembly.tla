----------------------------- MODULE Reassembly -----------------------------
(***************************************************************************)
(* Fragment accounting of one peer (transport/reassembly.rs): which        *)
(* fragments of which message have come, the bytes the peer holds, and the *)
(* sweep of messages that stay incomplete.  No payload is kept here.       *)
(*                                                                         *)
(* `seen` is a set of indices where the code has sixteen 64-bit words.     *)
(* Times are ages in ticks, cut off at INCOMPLETE_TIMEOUT.                 *)
(***************************************************************************)
EXTENDS Integers, FiniteSets, Functions

CONSTANTS
    MAX_CONTEXTS, MAX_FRAGMENTS,         \* the const generics of PeerReassembler
    MAX_MESSAGE, MEMORY_PER_PEER,        \* byte budgets
    INCOMPLETE_TIMEOUT,                  \* in ticks
    MsgIds,
    Sizes, Indices, Totals               \* what fragment headers may say

ASSUME ReassemblyAssumption ==
    /\ MAX_CONTEXTS \in Nat \ {0} /\ MAX_FRAGMENTS \in Nat
    /\ MAX_MESSAGE \in Nat /\ MEMORY_PER_PEER \in Nat /\ INCOMPLETE_TIMEOUT \in Nat \ {0}
    /\ Sizes \subseteq Nat /\ Indices \subseteq Nat /\ Totals \subseteq Nat

Slots == 1 .. MAX_CONTEXTS
Free == [in_use |-> FALSE]
None == [kind |-> "none", id |-> 0, total |-> 0, got |-> {}]

VARIABLES
    contexts,     \* slot -> Free or [in_use, msg_id, total, received, bytes, age, seen]
    active,       \* active
    bytes_used,   \* bytes_used
    event,        \* the last PeerEvent, with its message; None after a sweep or a tick
    arrived       \* history: the [id, index, size] accepted since its message last ended

vars == <<contexts, active, bytes_used, event, arrived>>

Init ==
    /\ contexts = [s \in Slots |-> Free]
    /\ active = 0 /\ bytes_used = 0
    /\ event = None /\ arrived = {}

-----------------------------------------------------------------------------
\* The context of a message, if it has one.
Context(id) == {s \in Slots : contexts[s].in_use /\ contexts[s].msg_id = id}

\* The slot ingest works on: the message's own, else the first free one.
Target(id) ==
    IF Context(id) # {} THEN Context(id)
    ELSE {s \in Slots : ~contexts[s].in_use /\ \A r \in 1 .. s - 1 : contexts[r].in_use}

Fresh(id, total) ==
    [in_use |-> TRUE, msg_id |-> id, total |-> total,
     received |-> 0, bytes |-> 0, age |-> 0, seen |-> {}]

\* Mutant: the bytes of a context that is freed stay on the peer's account.
FreeContextLeaks(s, c, n, used) ==
    /\ contexts' = [contexts EXCEPT ![s] = Free]
    /\ active' = n - 1
    /\ bytes_used' = used

\* free_context on slot s, which holds c: n and used are active and bytes_used
\* at that moment; the subtraction saturates.
FreeContext(s, c, n, used) ==
    /\ contexts' = [contexts EXCEPT ![s] = Free]
    /\ active' = n - 1
    /\ bytes_used' = IF used >= c.bytes THEN used - c.bytes ELSE 0

\* The contexts after c, which has taken a fragment, is back in slot s.
Stored(s, c) == [contexts EXCEPT ![s] = c]

\* What ingest answers about message id; `arrived` keeps open messages only.
Answer(kind, id, total, got) ==
    event' = [kind |-> kind, id |-> id, total |-> total, got |-> got]

GivenUp(id) == arrived' = {a \in arrived : a.id # id}

WellFormed(index, total) == total # 0 /\ index < total /\ total <= MAX_FRAGMENTS

-----------------------------------------------------------------------------
\* ingest, a malformed header, or a new message and no free context.
NotTaken(id, index, total) ==
    /\ ~WellFormed(index, total) \/ Target(id) = {}
    /\ Answer("MessageDropped", id, total, {})
    /\ UNCHANGED <<contexts, active, bytes_used, arrived>>

\* ingest, a fragment that disagrees on the total.
TotalDisagrees(id, index, total) ==
    /\ WellFormed(index, total)
    /\ \E s \in Context(id) :
        /\ contexts[s].total # total
        /\ FreeContext(s, contexts[s], active, bytes_used)
    /\ Answer("MessageDropped", id, total, {})
    /\ GivenUp(id)

\* Mutant: the seen bits are not looked at.
RepeatsNever(c, index) == FALSE

\* `c.seen[word] & bit`
Repeats(c, index) == index \in c.seen

\* ingest, an index that is there already: nothing changes, not even the age.
Duplicate(id, index, total) ==
    /\ WellFormed(index, total)
    /\ \E s \in Context(id) : contexts[s].total = total /\ Repeats(contexts[s], index)
    /\ Answer("Duplicate", id, total, {})
    /\ UNCHANGED <<contexts, active, bytes_used, arrived>>

\* Context c with one more fragment: its bit, the counters and the time.
Grown(c, index, size) ==
    [in_use |-> TRUE, msg_id |-> c.msg_id, total |-> c.total,
     received |-> c.received + 1, bytes |-> c.bytes + size, age |-> 0, seen |-> c.seen \cup {index}]

\* ingest, the rest: the message's context, or a new one, takes the fragment, is
\* completed by it, or is torn down because it breaks a byte budget.
Ingest(id, index, total, size) ==
    /\ WellFormed(index, total)
    /\ \E s \in Target(id) :
        LET creating == Context(id) = {}
            c    == IF creating THEN Fresh(id, total) ELSE contexts[s]
            n    == IF creating THEN active + 1 ELSE active
            grown == Grown(c, index, size)
            now  == arrived \cup {[id |-> id, index |-> index, size |-> size]}
        IN  /\ c.total = total /\ ~Repeats(c, index)
            /\ \/ /\ c.bytes + size > MAX_MESSAGE \/ bytes_used + size > MEMORY_PER_PEER
                  /\ FreeContext(s, c, n, bytes_used)
                  /\ Answer("MessageDropped", id, total, {})
                  /\ GivenUp(id)
               \/ /\ c.bytes + size <= MAX_MESSAGE /\ bytes_used + size <= MEMORY_PER_PEER
                  /\ grown.received >= total
                  /\ FreeContext(s, grown, n, bytes_used + size)
                  /\ Answer("Complete", id, total, {a.index : a \in {b \in now : b.id = id}})
                  /\ GivenUp(id)
               \/ /\ c.bytes + size <= MAX_MESSAGE /\ bytes_used + size <= MEMORY_PER_PEER
                  /\ grown.received < total
                  /\ contexts' = Stored(s, grown)
                  /\ active' = n /\ bytes_used' = bytes_used + size
                  /\ Answer("Partial", id, total, {})
                  /\ arrived' = now

\* The bytes on the contexts in S.
BytesIn(S) == SumFunction([s \in S |-> contexts[s].bytes])

\* The contexts evict_expired frees, each through free_context.
Expired == {s \in Slots : contexts[s].in_use /\ contexts[s].age >= INCOMPLETE_TIMEOUT}

EvictExpired ==
    /\ Expired # {}
    /\ contexts' = [s \in Slots |-> IF s \in Expired THEN Free ELSE contexts[s]]
    /\ active' = active - Cardinality(Expired)
    /\ bytes_used' = LET gone == BytesIn(Expired)
                     IN  IF bytes_used >= gone THEN bytes_used - gone ELSE 0
    /\ event' = None
    /\ arrived' = {a \in arrived : \A s \in Expired : a.id # contexts[s].msg_id}

Tick ==
    /\ \E s \in Slots : contexts[s].in_use /\ contexts[s].age < INCOMPLETE_TIMEOUT
    /\ contexts' = [s \in Slots |->
           IF contexts[s].in_use /\ contexts[s].age < INCOMPLETE_TIMEOUT
           THEN [contexts[s] EXCEPT !.age = @ + 1] ELSE contexts[s]]
    /\ event' = None
    /\ UNCHANGED <<active, bytes_used, arrived>>

Next ==
    \/ \E id \in MsgIds, index \in Indices, total \in Totals :
          \/ NotTaken(id, index, total)
          \/ TotalDisagrees(id, index, total)
          \/ Duplicate(id, index, total)
          \/ \E size \in Sizes : Ingest(id, index, total, size)
    \/ EvictExpired
    \/ Tick

Spec == Init /\ [][Next]_vars

-----------------------------------------------------------------------------
\* The peer's account is what it holds: `active` and `bytes_used` are the number
\* and the bytes of the open contexts, those are the fragments that came for
\* them, and the saturating subtraction never has to hide a difference.
AccountExact ==
    LET open == {s \in Slots : contexts[s].in_use}
    IN  /\ active = Cardinality(open)
        /\ bytes_used = BytesIn(open)
        /\ bytes_used = SumFunction([a \in arrived |-> a.size])
        /\ bytes_used <= MEMORY_PER_PEER

\* BE-TR-05: a message is complete when every fragment of it has come since its
\* context was opened, whatever was repeated, given up or sent for it before.
CompleteExact == event.kind = "Complete" => event.got = 0 .. event.total - 1
=============================================================================
