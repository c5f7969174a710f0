---------------------------- MODULE GrantLedger -----------------------------
(***************************************************************************)
(* The durable two-phase grant ledger of state/ledger.rs: one writer that  *)
(* opens the file, recovers, commits, publishes, revokes, prunes, fails    *)
(* and crashes at any point of any of these.                               *)
(*                                                                         *)
(* Each mutator is the set of its outcomes [res, disk, mem]: "Ok", the     *)
(* LedgerError it returns, or "crash" when the process dies inside it.     *)
(***************************************************************************)
EXTENDS LedgerLog, FiniteSets

CONSTANTS
    MAX_LIVE,        \* 1024 in the code
    Expiries,        \* expiry times that grants carry
    MaxTime,         \* bound: the clock
    MaxLog,          \* bound: length of the file, in bytes
    Faults,          \* environment: writes may be cut short, syncs and reopens fail
    RecoverAtOpen    \* caller: TRUE when recover() always follows open(), as in
                     \* the tests; the daemon (attach_ledger) never calls it

ASSUME LedgerAssumption ==
    /\ MAX_LIVE \in Nat \ {0}
    /\ Expiries \subseteq Nat
    /\ MaxTime \in Nat /\ MaxLog \in Nat
    /\ Faults \in BOOLEAN /\ RecoverAtOpen \in BOOLEAN

VARIABLES
    disk,       \* the file's bytes, whether a prune temp file exists, and a
                \* history: has a byte been written elsewhere than at the end
                \* of a whole log
    mem,        \* the GrantLedger value: phase, handle, file position, caches
    now,        \* wall clock of the caller
    acked,      \* history: what mutators have acknowledged with Ok; of
                \* mark_published, the calls
    life        \* history: the same since the caches were last rebuilt

vars == <<disk, mem, now, acked, life>>

Down == [phase |-> "down", handle |-> FALSE, pos |-> 0, c |-> NewCaches]

NoAcks == [commits |-> EmptyMap, published |-> {}, revoked |-> {}, receipts |-> EmptyMap,
           failed |-> FALSE, unsettled |-> {}]

Init ==
    /\ disk = [file |-> <<>>, temp |-> FALSE, spoiled |-> FALSE]
    /\ mem = Down
    /\ now = 0
    /\ acked = NoAcks
    /\ life = NoAcks

Outcome(res, d, m) == [res |-> res, disk |-> d, mem |-> m]

-----------------------------------------------------------------------------

\* append: write_all at the current position, then sync_all.  A failed or
\* interrupted write leaves any part of the record behind, a failed sync
\* all of it; the position moves with what was written.
AppendOutcomes(d, m, rec) ==
    LET bs == Bytes(rec)
        wrote(k) == [d EXCEPT !.file = WriteAt(@, m.pos, SubSeq(bs, 1, k)),
                              !.spoiled = @ \/ (k > 0 /\ (m.pos # Len(d.file) \/ Torn(d.file)))]
        cut == IF Faults THEN 0 .. Len(bs) ELSE {}
    IN IF ~m.handle THEN {Outcome("DiskError", d, m)}
       ELSE {Outcome("Ok", wrote(Len(bs)), [m EXCEPT !.pos = @ + Len(bs)])}
            \cup {Outcome("crash", wrote(k), Down) : k \in {0, Len(bs)} \cup cut}
            \cup {Outcome("DiskError", wrote(k), [m EXCEPT !.pos = @ + k]) : k \in cut}

\* One record for each entry of a map, and records laid out one after the other.
RecsOf(tag, map) == {Rec(tag, k, map[k]) : k \in DOMAIN map}
Image(recs) == FlattenSeq([j \in 1 .. Len(recs) |-> Bytes(recs[j])])

\* The images prune_expired may write: live commits, then revocations, then
\* receipts, each in the arbitrary order of a HashMap.
Images(c) ==
    {Image(x \o y \o z) : x \in SetToSeqs(RecsOf("COMMIT", c.consumed)),
                          y \in SetToSeqs(RecsOf("REVOKE", c.revoked)),
                          z \in SetToSeqs(RecsOf("FIRST_RECEIPT", c.receipts))}

\* Mutant: the comparison with the clock is the wrong way round.
ExpiredLive(c, t) == {g \in DOMAIN c.consumed : c.consumed[g] >= t}

Expired(c, t) == {g \in DOMAIN c.consumed : c.consumed[g] <= t}

\* The commit order without the grants that are no longer in the cache.
Retain(order, live) == SelectSeq(order, LAMBDA g : g \in live)

\* The caches once prune_expired has taken the expired commits out.
PruneCached(c, dead) ==
    [c EXCEPT !.consumed = Drop(@, dead), !.order = Retain(@, DOMAIN c.consumed \ dead)]

\* prune_expired has opened the new file, at its start, or was left without one.
Reopened(m) == [m EXCEPT !.handle = TRUE, !.pos = 0]
ShutOut(m) == [m EXCEPT !.handle = FALSE]

\* The rest of prune_expired, from the ledger value with its caches pruned: temp
\* file, rename, reopen and lock again.
RewriteOutcomes(d, pruned) ==
    LET temp == [d EXCEPT !.temp = TRUE]
        renamed(img) == [d EXCEPT !.file = img, !.temp = FALSE]
        failed == {Outcome("DiskError", d, pruned), Outcome("DiskError", temp, pruned)}
                  \cup {Outcome("DiskError", renamed(i), ShutOut(pruned)) : i \in Images(pruned.c)}
                  \cup {Outcome("Locked", renamed(i), ShutOut(pruned)) : i \in Images(pruned.c)}
    IN {Outcome("Ok", renamed(i), Reopened(pruned)) : i \in Images(pruned.c)}
       \cup {Outcome("crash", d, Down), Outcome("crash", temp, Down)}
       \cup {Outcome("crash", renamed(i), Down) : i \in Images(pruned.c)}
       \cup (IF Faults THEN failed ELSE {})

\* prune_expired: the caches first, then the file.
PruneOutcomes(d, m, t) ==
    LET dead == Expired(m.c, t)
    IN IF dead = {} THEN {Outcome("Ok", d, m)}
       ELSE RewriteOutcomes(d, [m EXCEPT !.c = PruneCached(m.c, dead)])

\* A mutator that appends rec and, once it is on disk, applies it.
AppendThen(d, m, rec, c) ==
    {IF o.res = "Ok" THEN [o EXCEPT !.mem.c = c] ELSE o : o \in AppendOutcomes(d, m, rec)}

\* The caches after commit_consumed has appended its record.
CommitCached(c, g, exp) ==
    [c EXCEPT !.order = Append(@, g), !.consumed = Put(@, g, exp)]

\* Mutant: the commit goes to the cache and not to the file.
CommitCacheOnly(d, m, g, exp, t) ==
    IF g \in DOMAIN m.c.consumed \cup m.c.published THEN {Outcome("Ok", d, m)}
    ELSE {Outcome("Ok", d, [m EXCEPT !.c = CommitCached(@, g, exp)])}

\* commit_consumed: a known grant is a no-op; a full cache is pruned first.
CommitOutcomes(d, m, g, exp, t) ==
    LET full(x) == Cardinality(DOMAIN x.c.consumed) >= MAX_LIVE
        write(d1, m1) == AppendThen(d1, m1, Rec("COMMIT", g, exp), CommitCached(m1.c, g, exp))
    IN IF g \in DOMAIN m.c.consumed \cup m.c.published THEN {Outcome("Ok", d, m)}
       ELSE IF ~full(m) THEN write(d, m)
       ELSE UNION {IF o.res # "Ok" THEN {o}
                   ELSE IF full(o.mem) THEN {[o EXCEPT !.res = "ResourceExhausted"]}
                   ELSE write(o.disk, o.mem) : o \in PruneOutcomes(d, m, t)}

\* mark_published: the tombstone.
PublishOutcomes(d, m, g) ==
    IF g \in m.c.published THEN {Outcome("Ok", d, m)}
    ELSE AppendThen(d, m, Rec("PUBLISHED", g, 0),
                    [m.c EXCEPT !.consumed = Drop(@, {g}), !.published = @ \cup {g}])

\* commit_revocation.
RevokeOutcomes(d, m, s, exp) ==
    IF s \in DOMAIN m.c.revoked THEN {Outcome("Ok", d, m)}
    ELSE IF Cardinality(DOMAIN m.c.revoked) >= MAX_LIVE
         THEN {Outcome("ResourceExhausted", d, m)}
    ELSE AppendThen(d, m, Rec("REVOKE", s, exp), [m.c EXCEPT !.revoked = Put(@, s, exp)])

\* Mutant: a later sighting overwrites the anchor.
ReceiptOutcomesLastWins(d, m, g, t) ==
    AppendThen(d, m, Rec("FIRST_RECEIPT", g, t), [m.c EXCEPT !.receipts = Put(@, g, t)])

\* record_first_receipt.
ReceiptOutcomes(d, m, g, t) ==
    IF g \in DOMAIN m.c.receipts THEN {Outcome("Ok", d, m)}
    ELSE AppendThen(d, m, Rec("FIRST_RECEIPT", g, t), [m.c EXCEPT !.receipts = Put(@, g, t)])

-----------------------------------------------------------------------------

\* Mutators run once the caller has what it needs.  A bound: nothing is
\* followed past the first misplaced write, after which the caches may be
\* rebuilt from anything.
Usable ==
    /\ mem.phase = "ready" \/ (mem.phase = "opened" /\ ~RecoverAtOpen)
    /\ ~disk.spoiled

HasRoom == Len(disk.file) <= MaxLog

\* A mutator ends with outcome o; ack(h) is what its Ok adds to a history, and
\* `ending` are the grants it was asked to publish, whatever came of it; they are
\* unsettled if it failed.
Ends(o, ending, ack(_)) ==
    /\ disk' = o.disk
    /\ mem' = o.mem
    /\ acked' = LET h == [acked EXCEPT !.published = @ \cup ending]
                IN  CASE o.res = "Ok" -> ack(h)
                      [] o.res = "crash" -> h
                      [] OTHER -> [h EXCEPT !.unsettled = @ \cup ending]
    /\ life' = CASE o.res = "Ok" -> ack(life)
                 [] o.res = "crash" -> NoAcks
                 [] OTHER -> [life EXCEPT !.failed = TRUE]
    /\ UNCHANGED now

\* open(): lock (LedgerLock.tla), remove a stale temp file, empty caches.
\* The file position is 0.
Open ==
    /\ mem.phase = "down"
    /\ mem' = [phase |-> "opened", handle |-> TRUE, pos |-> 0, c |-> NewCaches]
    /\ disk' = [disk EXCEPT !.temp = FALSE]
    /\ life' = NoAcks
    /\ UNCHANGED <<now, acked>>

\* recover(): the caches are what the log says, the position is its end.
\* On BadLog the caller gets an error and what was read stays cached.
Recover ==
    /\ mem.phase \in {"opened", "ready"}
    /\ mem.handle
    /\ mem' = [mem EXCEPT !.phase = IF Scan(disk.file).ok THEN "ready" ELSE "opened",
                          !.pos = Len(disk.file),
                          !.c = Replay(disk.file)]
    /\ life' = NoAcks
    /\ UNCHANGED <<disk, now, acked>>

CommitConsumed(g, exp) ==
    /\ Usable /\ HasRoom
    /\ \E o \in CommitOutcomes(disk, mem, g, exp, now) :
         Ends(o, {}, LAMBDA h : IF g \notin DOMAIN o.mem.c.consumed THEN h
                            ELSE [h EXCEPT !.commits = Put(@, g, o.mem.c.consumed[g])])

MarkPublished(g) ==
    /\ Usable /\ HasRoom
    /\ \E o \in PublishOutcomes(disk, mem, g) :
         Ends(o, {g}, LAMBDA h : [h EXCEPT !.published = @ \cup {g}])

CommitRevocation(s, exp) ==
    /\ Usable /\ HasRoom
    /\ \E o \in RevokeOutcomes(disk, mem, s, exp) :
         Ends(o, {}, LAMBDA h : [h EXCEPT !.revoked = @ \cup {s}])

RecordFirstReceipt(g) ==
    /\ Usable /\ HasRoom
    /\ \E o \in ReceiptOutcomes(disk, mem, g, now) :
         Ends(o, {}, LAMBDA h : [h EXCEPT !.receipts = IF g \in DOMAIN @ THEN @
                                                   ELSE Put(@, g, o.mem.c.receipts[g])])

PruneExpired ==
    /\ Usable
    /\ \E o \in PruneOutcomes(disk, mem, now) : Ends(o, {}, LAMBDA h : h)

\* The process stops between two operations, by close() or by a crash.
Stop ==
    /\ mem.phase # "down"
    /\ mem' = Down
    /\ life' = NoAcks
    /\ UNCHANGED <<disk, now, acked>>

Tick ==
    /\ now < MaxTime
    /\ now' = now + 1
    /\ UNCHANGED <<disk, mem, acked, life>>

Next ==
    \/ Open
    \/ Recover
    \/ \E g \in GrantIds, exp \in Expiries : CommitConsumed(g, exp)
    \/ \E g \in GrantIds : MarkPublished(g) \/ RecordFirstReceipt(g)
    \/ \E s \in Signers : CommitRevocation(s, MaxTime)
    \/ PruneExpired
    \/ Stop
    \/ Tick

Spec == Init /\ [][Next]_vars

-----------------------------------------------------------------------------
(* What a restart would find: recover() on the file as it is now.          *)

OnDisk == Replay(disk.file)

Spent(c) == DOMAIN c.consumed \cup c.published

\* T2, "Restart replays exact state" (specs/grant_ledger.md:53): as long as
\* no write was misplaced and none has failed since the last rebuild,
\* recover() would find the commits, revocations and receipts of the caches,
\* and no tombstone that they do not have.
RestartExact ==
    mem.phase = "ready" /\ ~disk.spoiled /\ ~life.failed =>
        /\ Scan(disk.file).ok
        /\ OnDisk.consumed = mem.c.consumed
        /\ OnDisk.revoked = mem.c.revoked
        /\ OnDisk.receipts = mem.c.receipts
        /\ OnDisk.published \subseteq mem.c.published

\* T1, T4 and T10/F4: what returned Ok is found by every later recover(), through
\* torn writes, crashes and prunes: a commit until it expires or is to be
\* published, a revocation for good, and a first receipt, never at a later time.
\* The only exception is a log into which a record was misplaced: after a
\* prune, after a torn tail, or by a caller that did not recover.
AckedDurable ==
    \/ disk.spoiled
    \/ /\ \A g \in DOMAIN acked.commits \ acked.published :
             acked.commits[g] > now => g \in DOMAIN OnDisk.consumed
       /\ acked.revoked \subseteq DOMAIN OnDisk.revoked
       /\ \A g \in DOMAIN acked.receipts :
             g \in DOMAIN OnDisk.receipts /\ OnDisk.receipts[g] <= acked.receipts[g]

\* T3: with the same exception, were the process to die now, recover() would
\* report no grant as an orphan that this process has published, and none twice.
\* A grant whose mark_published has once failed is not promised this: its tombstone
\* may be in the file all the same, behind it a second commit, and then recover()
\* takes the grant for published and for an orphan for good.
OrphansExact ==
    LET orphans == Orphans(OnDisk) IN
    disk.spoiled \/ ( /\ life.published \cap ToSet(orphans) \subseteq acked.unsettled
                      /\ IsInjective(orphans) )

\* BE-REV-02/T4: a revocation that returned Ok is found by every later
\* recover().
RevocationDurable == acked.revoked \subseteq DOMAIN OnDisk.revoked

\* Under every fault: between two rebuilds of the caches, no mutator and no
\* failed prune makes the ledger forget a grant it has acknowledged before the
\* time that grant expires, and none ever makes it forget a tombstone, a
\* revocation or the first receipt time it has acknowledged.
LifeFaithful ==
    /\ \A g \in DOMAIN life.commits \ Spent(mem.c) :
         \E t \in 0 .. now : life.commits[g] <= t
    /\ life.published \subseteq mem.c.published
    /\ life.revoked \subseteq DOMAIN mem.c.revoked
    /\ \A g \in DOMAIN life.receipts :
         g \in DOMAIN mem.c.receipts /\ mem.c.receipts[g] = life.receipts[g]
=============================================================================
