----------------------------- MODULE RelayStore -----------------------------
(***************************************************************************)
(* The relay's store-and-forward table (transport/relay_store.rs): a fixed *)
(* array of slots, shared by all recipients, with quotas per recipient and *)
(* expiry by the caller's clock.  store and drain_next purge first.  The   *)
(* clock is the caller's and may be set back.                              *)
(***************************************************************************)
EXTENDS Integers, FiniteSets, Functions

CONSTANTS
    Recipients,
    Lengths,                     \* lengths of bodies that are offered
    MAX_BODY, MAX_PER_RECIPIENT, MAX_BYTES_PER_RECIPIENT, TTL_MS, MAX_STORED,
    MaxClock, MaxSent            \* bounds: the clock, and packets stored

ASSUME RelayAssumption ==
    /\ \A n \in {MAX_PER_RECIPIENT, TTL_MS, MAX_STORED} : n \in Nat \ {0}
    /\ \A n \in {MAX_BODY, MAX_BYTES_PER_RECIPIENT, MaxClock, MaxSent} : n \in Nat
    /\ Lengths \subseteq Nat

VARIABLES
    packets,    \* slot -> Empty or [to, len, at, serial]
    count,      \* count
    clock,      \* now_ms of the next call
    sent,       \* history: packets stored so far
    out,        \* the last call's DrainedPacket, [to, for, again, age], or NoPacket
    got         \* history: the packets that were drained

relayVars == <<packets, count, clock, sent, out, got>>

Empty == [serial |-> 0]
NoPacket == [to |-> "none"]
RelaySlots == 1 .. MAX_STORED

InUse(ps) == {i \in RelaySlots : ps[i].serial # 0}
OwnedBy(ps, r) == {i \in InUse(ps) : ps[i].to = r}
BytesOf(ps, r) == SumFunction([i \in OwnedBy(ps, r) |-> ps[i].len])

RelayInit ==
    /\ packets = [i \in RelaySlots |-> Empty]
    /\ count = 0 /\ clock = 0 /\ sent = 0 /\ out = NoPacket /\ got = {}

\* What purge_expired takes: a stamp in the future is no reason.
Outdated == {i \in InUse(packets) : clock >= packets[i].at /\ clock - packets[i].at >= TTL_MS}

\* purge_expired.
Purged ==
    [ps |-> [i \in RelaySlots |-> IF i \in Outdated THEN Empty ELSE packets[i]],
     n  |-> count - Cardinality(Outdated)]

\* The error of store, after its purge has left t.
StoreResult(t, r, len) ==
    IF len > MAX_BODY THEN "BodyTooLarge"
    ELSE IF t.n >= MAX_STORED THEN "StoreFull"
    ELSE IF \/ Cardinality(OwnedBy(t.ps, r)) >= MAX_PER_RECIPIENT
            \/ BytesOf(t.ps, r) + len > MAX_BYTES_PER_RECIPIENT
    THEN "RecipientQuota"
    ELSE "Ok"

\* store into the first free slot.
Store(r, len) ==
    /\ sent < MaxSent
    /\ StoreResult(Purged, r, len) = "Ok"
    /\ \E i \in RelaySlots :
          /\ Purged.ps[i] = Empty /\ \A j \in 1 .. i - 1 : Purged.ps[j] # Empty
          /\ packets' = [Purged.ps EXCEPT
                ![i] = [to |-> r, len |-> len, at |-> clock, serial |-> sent + 1]]
    /\ count' = Purged.n + 1
    /\ sent' = sent + 1
    /\ out' = NoPacket /\ UNCHANGED <<clock, got>>

\* store refuses; an oversized body is refused before the purge.  refused_quota,
\* which only counts, is left out.
StoreRefused(r, len) ==
    /\ StoreResult(Purged, r, len) # "Ok"
    /\ packets' = IF len > MAX_BODY THEN packets ELSE Purged.ps
    /\ count' = IF len > MAX_BODY THEN count ELSE Purged.n
    /\ out' = NoPacket /\ UNCHANGED <<clock, sent, got>>

Packet(i, r) ==
    [to |-> packets[i].to, for |-> r, again |-> packets[i].serial \in got, age |-> clock - packets[i].at]

\* Mutant: the slot that was handed out stays in use.
DrainNextKeeps(r) ==
    /\ packets' = Purged.ps /\ count' = Purged.n
    /\ \E i \in OwnedBy(Purged.ps, r) :
          out' = Packet(i, r) /\ got' = got \cup {packets[i].serial}
    /\ UNCHANGED <<clock, sent>>

\* drain_next: the lowest stamp, and the lowest slot among equal ones.
DrainNext(r) ==
    /\ OwnedBy(Purged.ps, r) # {}
    /\ LET mine == OwnedBy(Purged.ps, r)
           idx  == CHOOSE i \in mine : \A j \in mine :
                      \/ packets[i].at < packets[j].at
                      \/ packets[i].at = packets[j].at /\ i <= j
       IN  /\ packets' = [Purged.ps EXCEPT ![idx] = Empty]
           /\ out' = Packet(idx, r) /\ got' = got \cup {packets[idx].serial}
    /\ count' = Purged.n - 1
    /\ UNCHANGED <<clock, sent>>

\* purge_expired by itself, or a drain_next that finds nothing.
PurgeExpired ==
    /\ packets' = Purged.ps /\ count' = Purged.n
    /\ out' = NoPacket /\ UNCHANGED <<clock, sent, got>>

\* reset.
Reset ==
    /\ packets' = [i \in RelaySlots |-> Empty] /\ count' = 0
    /\ out' = NoPacket /\ UNCHANGED <<clock, sent, got>>

SetClock(t) == clock' = t /\ out' = NoPacket /\ UNCHANGED <<packets, count, sent, got>>

RelayNext ==
    \/ \E r \in Recipients, len \in Lengths : Store(r, len) \/ StoreRefused(r, len)
    \/ \E r \in Recipients : DrainNext(r)
    \/ PurgeExpired
    \/ Reset
    \/ \E t \in 0 .. MaxClock : SetClock(t)

RelaySpec == RelayInit /\ [][RelayNext]_relayVars

-----------------------------------------------------------------------------
\* BE-MESH-02/03: the relay's count is the number of slots in use and no recipient is
\* above its quotas, through refusals, expiry, drains and clocks that are set back;
\* drain_next hands out a stored packet once, to its recipient and before its TTL has
\* passed.
RelayExact ==
    /\ count = Cardinality(InUse(packets))
    /\ \A r \in Recipients :
          /\ Cardinality(OwnedBy(packets, r)) <= MAX_PER_RECIPIENT
          /\ BytesOf(packets, r) <= MAX_BYTES_PER_RECIPIENT
    /\ out # NoPacket => out.to = out.for /\ ~out.again /\ out.age < TTL_MS
=============================================================================
