# A TLA+ development of bolina-rs

bolina-rs is a daemon that lets agents propose *intents* on resources and executes
them only when an approver has signed a *grant*. Everything arrives as signed
envelopes over an encrypted UDP transport. The models here are translated from the
Rust sources under `src/src/`; paths below are relative to it, and `PROJECT.json`
("map") gives the lines behind every definition.

Contents: [inventory](#1-the-system) · [modules](#2-modules) · [runs](#3-runs) ·
[fairness](#4-fairness) · [proofs](#5-proofs) · [disagreements](#6-where-the-code-and-its-texts-disagree) ·
[left out](#7-not-modelled) · [plan](#8-plan)

## 1. The system

One process, one thread: `Daemon::run_loop` (daemon.rs:182) handles the datagrams that are
there, up to DRAIN_K of them, releases stale slots and gives the control plane one pass. There are no locks and no
threads inside the process; what makes it hard is the order in which peers, the network,
the clock, the disk and other processes act between two passes.

| component | state | operations | what must hold |
|---|---|---|---|
| anti-replay filter (transport/replay.rs) | 1024-bit window in 16 words, `largest` | `check` | a counter passes once; none inside the window is lost |
| session channel (transport/session.rs) | per direction: key, counter; 64-bit window | `seal`, `open`, `rotate` | no nonce twice under a key; no packet opened twice |
| intent table (state/intent.rs) | entries PENDING / EXECUTING / terminal | `admit`, `begin_executing`, `apply_refusal`, `expire_timeouts` | one live intent per resource, capacity, exact expiry |
| grant ledger (state/ledger.rs) | append-only file, flock, caches | `open`, `recover`, `commit_consumed`, `mark_published`, `commit_revocation`, `record_first_receipt`, `prune_expired` | what was acknowledged survives crashes, one writer |
| envelope ledger (ledger_envelope.rs) | envelopes, sequence windows, anchors, revocations | `check_seq`, `insert_envelope`, `set_anchor`, `set_revocation` | one dispatch per (sender, channel, seq), parents first |
| authority pipeline (transport/dispatch.rs, verify.rs, resolver.rs) | sender table, intent table, ledger | `dispatch_intent`, `dispatch_grant`, `verify_grant_then`, `verify_refusal_then` | an effect once per grant, also after a restart, for the intent its sender proposed |
| sessions (transport/handshake.rs, session.rs, binding.rs, daemon.rs) | three arrays with one index space, bound certificates | handshake, binding, sweep | arrays agree; a bound session belongs to its peer; slots come back |
| reassembly (transport/reassembly.rs) | contexts, byte account | `ingest`, `evict_expired` | exact accounts, whole messages |
| relay store (transport/relay_store.rs) | slots, count | `store`, `drain_next`, `purge_expired`, `reset` | quotas, TTL, delivery once |
| relay routing and listeners (transport/relay.rs, listener.rs) | routes by overlay address; owned endpoints | `insert`, `prune`, `forward_packet`; `claim`, `release` | a registration holds until replaced or pruned; one owner per endpoint |
| sync (transport/sync.rs) | rate rings per peer; walk queue | `RateTable::admit`, `WalkQueue`, `build_response` | budget per window; walks and answers complete within their bounds |
| causal graph and audit (transport/dag.rs, historical.rs) | interned nodes, parent lists | `insert`, `is_ancestor`, `historical_validity` | no cycle, exact ancestry |
| evidence (transport/evidence.rs) | none; asks the ledger | `resolve_claim` | the verdict follows the evidence, whatever the order it arrives in |
| Noise handshake (transport/noise.rs, mac1.rs) | transcript, chaining key, nonce | `write_initiation`, `read_initiation`, `write_response`, `read_response`, `finalize` | one transcript and swapped keys at both ends |
| wire codec (codec.rs) | a cursor over a buffer | `parse_*`, `encode_*` | exactly the wires of the format, and back to the same bytes |
| control plane connections (control.rs, daemon.rs) | connections and their deadlines | `poll_tick`, `poll_readable`, `write_response` | one answer to a whole request, no place held for ever |
| control plane API (control_api.rs, http_parse.rs, daemon.rs) | counters, reject classes, event ring, token | `route_http`, `post_intent`, `publish`, `since` | the books agree with what happened; no event lost or told twice |
| start-up (keys.rs, transport/token.rs, main.rs) | key, certificate and token files | `load_or_generate`, `token::load`, `token::save` | an identity in use is never replaced |

How they meet. A datagram goes through the handshake and session tables
(`handle_transport`), the channel's window, reassembly of its fragments, then
`handle_envelope`: signature, dedupe in the envelope ledger, parents, sequence window,
insert, `dispatch_envelope`. That calls into the resolver and the intent table for
intents, and into `verify_grant_then` with the grant ledger's commit for grants. The
control plane shares the intent table (`post_intent`) and the loop. Callbacks are the
hooks of `DispatchContext`/`GrantContext` (certificate lookup, effect, commit).

What is hard here, by kind (`PROJECT.json` "hazards" has the lines): crash and torn
write between any two steps of the ledger; a prune that replaces the file under a handle
and under other processes; packets repeated, reordered and delayed past a rekey or past
the reuse of a slot; id reuse in the intent and sender tables; expiry instants against
pruning instants; tables at their limits; requests cut up at any byte; slots,
connections and pending intents that nobody gives back; messages of one handshake that
reach another; files half written at first start; counters that are kept in several places.

## 2. Modules

Each component is a module of its own; its variables are the fields of the struct, its
actions the methods or the exits of the handler. A variable marked "history" is there for
the properties only. Definitions whose comment begins with "Mutant:" are deliberately
wrong variants of the definition below them, which the properties are shown to detect.

| module | models | state ↔ code, and what is abstracted |
|---|---|---|
| `ReplayFilter`, `ReplayWindow` | replay.rs `check` | the bitmap is a set of offsets; any counter may come at any time |
| `WindowBits` | replay.rs, words and masks | extends `ReplayWindow` and puts every `check` to the array of words as well; `shift_left` is the in-place loop, as a recursive function |
| `SessionChannel` | session.rs, one direction | keys are numbers; a packet is (key, counter); the network may deliver any packet ever sealed, any number of times |
| `Intents`, `IntentTable` | intent.rs | `Intents` has the operators (also used by `Authority`), `IntentTable` the state machine |
| `ResourceLock` | abstract | what the table promises: a lock per resource |
| `LedgerLog`, `GrantLedger` | ledger.rs | the file is a sequence of bytes with short fields, records are parsed from it, so that a record over another is what it is in the code; mutators are sets of outcomes (Ok, error, crash) |
| `LedgerLock` | ledger.rs `open`/`prune_expired`, ffi.rs | inodes, descriptors and flock between processes |
| `EnvelopeLedger` | ledger_envelope.rs, `handle_envelope`, `verify_envelope_admission` | one action per exit; envelopes are a fixed set of records |
| `EvidenceTables` | anchors and revocations of the same struct | |
| `CausalDag` | dag.rs, historical.rs | interned indices and parent lists as stored, the search with its queue |
| `Authority` | dispatch.rs, verify.rs, resolver.rs, `post_intent` | names, certificates, grants as records; the ledger by the commits in its caches, which a restart leaves empty (`attach_ledger` does not recover) |
| `Sessions` | handshake.rs, session.rs table, binding.rs, daemon.rs slots | a handshake is a number that stands for its keys and hash |
| `Reassembly` | reassembly.rs `PeerReassembler` | sizes are small numbers, ages are counted from the last start of a context |
| `RelayStore` | relay_store.rs | the clock may be set back; a serial number tells packets apart |
| `RateTable` | sync.rs `RateWindow`, `RateTable` | rings as stored, admissions kept as history |
| `SyncWalk` | sync.rs `WalkQueue`, `build_response` | hashes are numbers, parents smaller ones; whatever order the caller pushes parents in |
| `RelayMesh` | relay.rs, listener.rs | a frame by its length, type, reserved bytes and fields; the callers' clock |
| `Evidence` | evidence.rs `resolve_claim` | a claim with up to `MaxSpans` spans and `MaxCites` citations; the ledger behind `ResolveContext` changes between two verdicts |
| `NoiseIK` | noise.rs, mac1.rs, `process_datagram` | keys, hashes and ciphertexts are terms: a ciphertext opens under the key, nonce and associated data it was made with. The network repeats, misdelivers and puts fields of one message into another |
| `Codec` | codec.rs | each format is a sequence of reads (`EnvelopeLayout` … `CertLayout`) that one parser and one encoder follow; every length field is one byte of a small alphabet, so that every buffer can be tried |
| `ControlPlane` | control.rs, `poll_control`, `route_http` | bytes are counted, not spelled: where the first line, the headers and the body end |
| `NodeApi` | daemon.rs handlers and routes, control_api.rs | every exit reduced to what it counts, publishes and answers, over the intent table both doors share; an error is the path of its variants |
| `EventFeed` | control_api.rs `EventRing`, `extract_since`, `parse_since` | a query by the number of characters before its digits |
| `NodeBoot` | keys.rs, token.rs, main.rs | a file is absent, torn or holds a key; reads and writes fail, the process ends anywhere |
| `MC*` | | constants for TLC, and the composition of parts that run in one configuration |

`MCGrantLedger`, `MCEnvelopeLedger`, `MCAuthority`, `MCSessions`,
`MCTransportTables` and `MCControlPlane` check several parts in one run. The parts share no variable, so interleaving them would only multiply the states:
a step of one is taken with the others in their initial states, and every behaviour of
every part is still covered. The `MC` modules extend the parts, so that runs and proofs speak
of the same definitions.
The modules with names ending in `Proofs` hold the theorems (section 5), `DataLemmas` the lemmas
about sequences, finite sets, sums and recursive functions that several of them need.

## 3. Runs

All bounds are CONSTANTS named in the modules. Limits of the code (1024, 4096, 64, 16 …)
are constants with small values: the code only compares with them, so that what happens
at the limit happens at a small one too.

| run | question | bounds, and why they are enough |
|---|---|---|
| `session_channel_zero` | *violation*: the packet with counter 0 | 1 key |
| `grant_ledger` | are acknowledged facts durable under torn writes, failed syncs, failed reopens, crashes and prunes; is each file written by one handle; does start-up keep keys and token | 2 grants, 1 revoked key, room for one live commit: the implicit prune of `commit_consumed` happens, with and without success; 3 processes and 4 inodes for the lock. Nothing is followed past the first misplaced write (`spoiled`). 5 draws of keys: a whole first start, a second one after a failure, and a new token |
| `grant_ledger_prune` | *violation*: revocations after a prune | no faults, callers that recover |
| `envelope_ledger` | one dispatch per sequence number, causal closure, window and store in step; revocations; ancestry; walks and answers of sync; verdicts on claims | 11 envelopes on 3 pairs with a fork, an equivocation, a parent nobody sends and gaps wider than the window (2); store of 5, 2 windows, so both limits are met. 5 hashes for 4 node places and 2 parents: all ways an insert can be refused. Walks over histories of 5 hashes with both walk bounds and both response budgets in reach, four walks one after the other. Claims with up to two spans, two citations and two origins |
| `authority` | once per grant in the life of a process, separation of duty, locks on resolved names, first use of an id; the table by itself: exact expiry, refinement of `ResourceLock` | 2 ids, 2 own resources with a clear and an ambiguous alias and a foreign one, 3 parties, ledger with one place, so that a commit needs a prune; the clock passes the expiry of a grant. The table: 3 ids, 3 resources, 2 places; timeout 1 of 3 ticks: before, at and after the deadline |
| `authority_stale` | *violation*: the sender of a reused intent id | the same |
| `authority_restart` | *violation*: a grant that took effect, after a restart | the same |
| `sessions` | three arrays in step, binding, recycling; agreement of the Noise handshake; does the replay filter accept each counter once and every unseen one inside the window, and do the words say the same; nonce uniqueness and an exact mask in the channel through independent rotations | 2 slots, 3 handshakes: a slot changes hands while a neighbour lives and old messages still arrive. 3 attempts of two initiators, one with an old key of the node, 2 table places, 3 answers, one message put together by the network. Filter: 3 words of 2 bits, counters 0..9: shifts inside a word, across one and two words and past the window. Channel: mask of 2, 5 messages per key, one rotation: every packet can be behind, inside and ahead of the mask, of the old key and the new |
| `transport_tables` | accounts and completeness of reassembly; quotas, TTL and delivery of the relay; sync budgets; every parser; routes and endpoints | budgets that one more fragment breaches, more ids than contexts, indices and totals out of range; 3 relay slots for 2 recipients; budget 2 in a window of 3 over 5 ticks, more peers than rows; all buffers up to 9 bytes over 3 values: zero, the largest field and one above it; 3 addresses for 2 rows and 3 endpoints for 2 places |
| `control_plane` | one answer per whole request, every connection ends; the counters reconcile; the feed is exact | 2 connections on a table of 1; every cut of requests with and without body, unreadable and too long. 3 handled datagrams or requests on a table of 1 place. 5 events in a ring of 2, clients with and without a readable query, restarts |
| `events_since` | *violation*: a documented query gets old events again | the documented form of the query |
| `pending_expiry` | *violation*: a PENDING intent outlives T_pending | 1 intent, 2 ticks |

Properties, by run: what each says is in the comment above its definition. The ones with
the longest way to a violation are `AckedDurable` and `OrphansExact` (what a restart would
find), `LifeFaithful` (caches under faults), `WindowsMatchStore` (numbers lost to a full
store only), `EffectOncePerGrant` (expiry against pruning, over refusals and intents proposed anew), `AliasExclusive`,
`JudgedByOwnCert`, `KeysAgree`, `CausalExact`, `WalkExact`, `EvidenceExact`, `BudgetExact`,
`CountersReconcile`, `BootStable` and the refinement `LockSpec`. Liveness: `SlotsRecycle`,
`ConnsEnd` and, violated, `PendingExpires`.

No run switches deadlock checking off: in every model something can always happen (a
message can be refused, the clock can be set, a sweep can find nothing).

## 4. Fairness

Only the liveness properties use it. `FairSessions` (MCSessions) has weak fairness of `Sweep`
and `Tick`, `FairControl` (MCControlPlane) of `PollControl` and `Tick`, each while the other
parts of the run wait in their initial states. `run_loop` calls
`release_stale_slots` and `poll_control` in every pass; its socket does not block and a pass
drains at most DRAIN_K datagrams, so that a next pass always comes (daemon.rs:182-225). Time
passes by itself. Peers, the network and
failures have no fairness. `ConnsEnd` also holds when the loop has ended (`~up`).
`FairSpec` of `NodeApi` has weak fairness of `Tick` only: no handler sweeps the intent table, so
there is no step whose fairness could help `PendingExpires`.

## 5. Proofs

Checked by TLAPS for every value of the constants, under the named assumptions: widths,
limits and times are natural numbers, positive where the code divides by them or has at
least one place; headers, requests and grants have the fields and ranges the parsers give
them (`AuthorityAssumption`, `ControlAssumption`, `ReassemblyAssumption`, …); envelope
hashes tell envelopes apart. Sets of ids, parties, names and keys are arbitrary, except that
`EnvelopesAssumption` has finitely many envelopes. TLC evaluates every assumption.

Each invariant theorem is `Init => Inv`, one step per action for `Inv /\ [Next]_vars => Inv'`,
and `Inv => property`. What the invariants add, since none of the properties is inductive:

| module | theorems | the inductive invariant, and why it is needed |
|---|---|---|
| `ReplayProofs`, filter | `ReplayTypeOK`, `ReplayAtMostOnce`, `ReplayWindowExact` | every accepted counter is at most `largest` and inside the window the bits are exactly the accepted ones: a counter that fell out of the window must be known to be refused |
| `ReplayProofs`, words | `WordsBitsExact` | the array of words holds exactly the offsets of the window. `shift_left` runs in place from the top word down; `LoopWords` shows that every word it reads is still the old one |
| `ReplayProofs`, channel | `ChannelNonceUnique`, `ChannelNonzeroAtMostOnce`, `ChannelNonzeroExact` | which packets exist at all: under the sender's key only counters below its own, under later keys none; the receiver has opened nothing above `highest` and nothing under later keys |
| `AuthorityProofs`, table | `TableResourceExclusive`, `TablePendingUnique`, `TableCapacity`, `TableExpiryExact`, `TableImplementsLock` | the table is finite and holds live entries only, which is why compaction belongs to the actions; each action maps to an action or a stutter of `ResourceLock`, whose holders are the live entries |
| `EnvelopeLedgerProofs`, store | `LedgerOneDispatchPerSeq`, `LedgerParentsClosed`, `LedgerWindowsMatchStore` | dispatch follows the store; a stored number is marked or behind its window; an unused window has no bit set, for the first number it records would mark others with it |
| `EnvelopeLedgerProofs`, causal graph | `DagCausalExact` | the parent lists are a graph on the hashes interned so far, and it has no cycle. What the queue of `is_ancestor` visits and what `Before` relates are both the hashes in every set that holds d's parents and is closed under parents |
| `EnvelopeLedgerProofs`, walk | `SyncWalkExact` | the hashes seen are those handed out and then the queue, each once; they lie in every set that holds the root and the parents of its members; every parent the ledger knows is seen or about to be pushed, unless a push was refused. `Filled` says what a response holds after each envelope |
| `EnvelopeLedgerProofs`, revocations | `TablesKeepsLatest` | what was stored is held, or the table is full and at most one record expires sooner. `swap_remove` moves records, so that places cannot carry the argument |
| `EnvelopeLedgerProofs`, claims | `ClaimEvidenceExact` (an action property) | after n cited ids the accumulator of `resolve_claim` holds the strongest ceiling among the spans found for them that still count, and whether one of their origins is missing (`LoopTops`); the spans found for all ids are those the claim cites, each with the first span of its id (`FoundIsProper`). A backfill then only adds to a set (`BackfillAdds`) |
| `SessionsProofs` | `SessionsMirrorExact`, `SessionsBoundToPeer`, `SessionsJudgedByOwnCert` | the number in a slot names the handshake of the peer in it; a bound certificate pairs a signer with a static key of its own |
| `SessionsProofs`, Noise | `NoiseKeysAgree` | the keys, hashes and ciphertexts of either end in closed form, in terms of the ephemeral and static keys and of what was read; every field on the network was written by one of the attempts, wherever it is put; an attempt's ephemeral key is fresh, so two sessions with one key have one transcript |
| `AuthorityProofs`, pipeline | `AuthorityEffectOncePerGrant`, `AuthoritySeparationOfDuty`, `AuthorityAliasExclusive`, `AuthorityFirstUseBound` | a grant that took effect since the start is in the ledger's caches or past its `not_after`, which is what a prune at `exp <= now` preserves; the sender records of an id since the start are none, or the one of its first admission |
| `DiskProofs`, lock | `LockWritersDisjoint` | a handle that may append, or is in the middle of a prune, holds the lock of the inode it is open on, and no inode is locked twice |
| `DiskProofs`, start-up | `BootIsStable` (an action property) | a file in use that nobody removed holds what the node used; memory is what is on disk for the files main has been through; the public key belongs to the secret in memory and on disk; a file being written was missing or short |
| `DiskProofs`, log | `DurInvariant`, `LedgerRestartExact`, `LedgerAckedDurable`, `LedgerOrphansExact` | see below |
| `DiskProofs`, caches | `LedgerLifeFaithful` | for each commit acknowledged in this life the cache has that very expiry, or its tombstone, or it expired at some instant up to now. Each outcome of each mutator, errors half-way included, keeps the caches in this sense (`Keeps`, which is transitive: a commit may run a prune first) |
| `TransportProofs`, budgets | `RateBudgetExact` | the ring holds the last BUDGET admissions, the oldest at its next place, and any BUDGET + 1 successive admissions take a window: only then is the number of stamps inside the window what the decision needs |
| `TransportProofs`, fragments | `ReassemblyCompleteExact`, `ReassemblyAccountExact` | a context's counter is the number of its seen bits, those are the indices that came for its message since it was opened, its bytes are their sizes, one context per message |
| `TransportProofs`, relay | `RelayStoreExact` | packets in use have serial numbers of their own that were stored and not drained |
| `TransportProofs`, routes | `RelayMeshExact` | the rows are the registrations last accepted, one for each address that has one; the endpoints are those of the open sockets, each once |
| `TransportProofs`, codec | `WireCodecExact` | no state to speak of: every buffer is parsed right. From a place in the buffer each kind of field either ends in exactly one place, which the cursor goes to, or in none, and then the cursor fails, with Truncated exactly when the rest begins such a field (`ReadFixed`, `ReadField`, `ReadCaSigs`, the last by the turns of its loop); then by the place in the layout (`AlongNext`). The ends cut the buffer into the encodings of the fields (`FlattenSlices`) |
| `ControlProofs`, feed | `FeedRepliesExact`, `FeedByForm` | the ring holds the latest events under their numbers, and no client was told of an event that is still to come |
| `ControlProofs`, API | `CountersAlwaysReconcile` | counters, reject classes, published events and the table of intents move in step, each exit with its own |
| `ControlProofs`, connections | `ControlOneWholeReply` | a connection that is being written or closing has its whole request in the buffer, and one that was answered is closing or closed |

The durable ledger. `recover()` reads bytes, so the argument starts there. `Scan` is one walk
over the bytes of a file; `ScanBehind` and `LogAppend` show that a log which is read to its
end, with a whole record behind it, is read to the end of that record and applies it last, and
with part of a record behind it ends quietly where it ended before (T6). `ImageReads` shows
that the image a prune writes, in whatever order its maps are iterated, reads back to exactly
the live commits, revocations and receipts. On that rests the invariant `DurInv`: unless a
record was misplaced,

- the file reads without an error (`FileOk`) and holds what was acknowledged (`DiskHolds`);
- the caches, if they were rebuilt, are in step with it (`Synced`): the log may know more
  than the caches, by records whose mutator reported an error after the write, and may have
  lost only what a prune dropped;
- and they are exactly what it says (`Exact`) until a mutator fails.

`Fits` says what one record does to the three, `Settles` what a whole mutator does with all of
its outcomes, torn, failed and crashed ones included; one `…Fits` and one `…Settles` lemma for
each mutator, and `CommitSettles` for the commit that prunes first. The proof found a case the
run's bounds leave out. Let the record of `commit_consumed` for a grant be written and its sync
fail, then the same for its `mark_published`, and let the commit then be tried again: the log
has a commit, a tombstone and a commit. After a restart the grant is both published and
consumed, `mark_published` is a no-op that answers Ok, and every later `recover` reports the
grant as an orphan. `OrphansExact` therefore excepts grants whose `mark_published` has once
failed (history `unsettled`); with `MaxLog = 9` TLC finds the case without the exception and no
other with it, and the theorem holds for every bound.

Induction. The provers have no induction over data; where an argument needs it, a lemma takes
the least counterexample instead (`LeastNatural` in `DataLemmas`, from the well-foundedness of
the natural numbers). `IterationExists` is the general form: a function defined by steps on
`0 .. N` exists, and with it the closed forms of what the code's loops compute: the words of
`shift_left` (`LoopWords`), the reader of the log (`PassExists`, `PassRests`), the images of a
prune, the response of a sync, the digits of a query, the accumulator of a claim, the cursors of
a parser. `GrowthCloses` says that a search that
adds the neighbours of what it has found ends with a closed set. The sums: `DataLemmas` shows
that the library's sum over a finite set, a fold that picks elements in an order of its own,
takes any element off (`SumTakeAway`), splits along a part (`SumSplit`), and adds up over
disjoint classes (`SumClasses`). The byte account of reassembly needs them twice: what the peer
holds is the sum over its contexts of the sum over their fragments, and a sweep takes several
contexts off at once.

Two properties are stated so that they mean the same for every value of the constants.
`AliasExclusive` says that live intents hold different resources of the executor's catalogue;
in terms of the names intents use it would be false for aliases that lead to several
resources. `LifeFaithful` says that a forgotten commit expired at some instant up to `now`.

Only model-checked:

- liveness (`SlotsRecycle`, `ConnsEnd`, `PendingExpires`): fairness and ENABLED are outside
  the proof system's reach.

Every other property of a passing run is stated by a theorem.

`ReplayTypeOK`, `ChannelNonzeroAtMostOnce`, `TableResourceExclusive`, `TablePendingUnique`
and `TableCapacity` are proved and not listed in a run: the run checks the stronger
`NonzeroExact` and `LockSpec`.

## 6. Where the code and its texts disagree

Six runs show a disagreement (`PROJECT.json` "findings"):

1. `session_channel_zero`: `check()` (session.rs:56) reads `highest == 0` as "nothing yet",
   so counter 0 is fresh again until a later counter comes. The documented contract is
   "true iff the counter is fresh".
2. `grant_ledger_prune`: `prune_expired` (ledger.rs:334) reopens the new file at position 0
   without append mode; the next record overwrites what the prune kept. The text says
   revocations are never pruned.
3. `authority_stale`: `SenderTable::lookup` (verify.rs:153) returns the oldest record of an
   id; after the id is used again the subject is compared with the earlier sender.
4. `authority_restart`: `attach_ledger` (daemon.rs:119) opens the ledger and nothing calls
   `recover`, so that the daemon starts with empty caches on a full log. A grant that took
   effect before the restart runs again once its intent is proposed anew, although its commit
   is in the file; specs/dispatch.md:62 says a reused id is refused also then. The shipped
   hook refuses every effect (D-089), so that this waits for an effect backend.
5. `events_since`: `extract_since` (daemon.rs:710) leaves out one byte too many of the query,
   so that the documented `?since=N` is unreadable and counts as 0: the client is told the
   events in the ring again. Only a query with exactly one character before its digits works.
6. `pending_expiry`: nothing in the loop calls `expire_timeouts` (daemon.rs:216); a PENDING
   intent nobody decides holds its resource until the process ends. BE-GRANT-06a says it
   expires.

Seen while modelling, and part of the models (the passing properties are stated so that
they hold with it), without a run of its own:

- ledger.rs:302: the rewritten file has no tombstones, so a published grant is unknown
  after prune and restart (ledger.rs:187 calls re-committing a spent id a no-op).
- ledger.rs:357: a torn tail stays in the file; the next append makes it the middle of the
  log, which then does not read (specs/grant_ledger.md:62).
- ledger.rs:79: an opener that opened before a prune's rename and locks after it becomes
  a second writer of the path (of another file: `WritersDisjoint` holds).
- verify.rs:690: an envelope refused for a full store has used its sequence number
  (daemon.rs:465 says no consumption on failure).
- ledger_envelope.rs:268: a full table evicts a revocation without expiry too
  (verify.rs:547).
- control_api.rs:505: `post_intent` records no sender (its comment at :477 says it does),
  so no grant for such an intent passes; it also cuts the id to 16 bytes.
- dispatch.rs:176: one certificate is passed for approver and subject; with certificates
  that passed the role rule, `dispatch_grant` refuses every grant. `MCAuthority` has a
  certificate with both roles, as an embedder's hook may supply, so that the path is
  explored.
- dispatch.rs:182: the present is passed as the first receipt, so T_recv never bites on
  that path, and `record_first_receipt` has no caller. What the ledger keeps of first
  receipts is in `GrantLedger` (`RestartExact`, `LifeFaithful`).
- daemon.rs:540: `already_consumed` asks `is_consumed`, which is false again once
  `mark_published` has moved a grant to the tombstones, and `commit_consumed` takes such an
  id as a no-op. No caller in the repository publishes; an effect hook that did would let an
  unexpired grant run twice.
- dispatch.rs:187: nothing calls `begin_executing`; two grants for one intent both run
  (specs/intent.md:24).
- ledger.rs:287: a grant id issued again with a later expiry after its commit was pruned
  runs again (specs/dispatch.md:62). `EffectOncePerGrant` speaks of one signed grant, in one
  life of the process.
- handshake.rs:110: the sweep goes by the time of the handshake, so sessions in use are
  released too (daemon.rs:158 says "silent").
- verify.rs:406: a refusal is judged by the certificate stored at binding time, also after
  its expiry (the comment at :405 says "valid NOW").
- control.rs:77: a body that arrives after its headers is never answered (control.rs:6).
- daemon.rs:218: a failed write of an answer ends `run_loop` (specs/control.md:9).
- relay_store.rs:133: with equal stamps the drain order is the order of slots, which is not
  the order of storage once slots were reused (specs/relay_store.md).
- sync.rs:208: the "depth" of a walk counts the hashes handed out, not levels; at the total
  limit a hash that was seen before is refused like a new one; in a response an envelope that
  does not fit holds back the ones behind it.
- control_api.rs:26: "sum of classes == rejected_total" is off by `handshake_full`, which has
  a class and is not in the total; `CountersReconcile` says so.
- control_api.rs: a POST with a known PENDING id is answered 202 also when it names another
  resource; "rejected" and "expired" are states a client never sees, since the table compacts
  (404); `IntentExpired` is never published, `RefusalApplied` also when nothing matched; the
  metrics route passes zeros for three of the control counters.
- daemon.rs:608: with a token, `/healthz` needs it too, although the comment and the specs
  call that route open.
- control_api.rs:334: sequence numbers start again at 1 with the process while a client's
  cursor does not, so that a client is told nothing until the numbers have caught up.
- main.rs:96: a token file that is there and cannot be read is replaced (specs/token.md, "No
  silent rotation"); `BootStable` excuses exactly this case.
- keys.rs:88: a crash in the first start can leave a torn key file, which needs an operator;
  neither keys.rs nor token.rs syncs.
- noise.rs:322: a response that fails behind mac1 has moved the transcript already, so that
  the attempt is lost also for the right answer; the index fields are outside the transcript;
  `InitiationInfo` leaves the age of an initiation to the session layer, and
  `process_datagram` does not look at it.
- relay.rs: type bytes 5 and 6, in relay_serve.rs 0x10 and 0x11 (specs/relay.md:6), so that
  the classifier drops the frames `encode` writes; `forward_packet` looks at no expiry until
  a prune; `parse` bounds an expiry as a duration and `prune` compares it with the clock.
- listener.rs: an endpoint is given back by the caller, not by dropping the listener.

## 7. Not modelled

- Cryptographic primitives (X25519, ChaCha20-Poly1305, BLAKE2s, Ed25519): a ciphertext opens
  under what it was made with, a signature is by its signer. The cookie layer of mac1.rs
  (mac2): it is answered with zeros and `CookieSecret` has no caller.
- Text: the grammar of http_parse.rs and of the JSON bodies beyond well-formed or not, metrics
  and SSE output, render.rs. The width of length fields in codec.rs is one byte in `Codec`;
  that the code's larger ones fit a `usize` is arithmetic the types ensure.
- `verify_control*`, `require_member`, `verify_served_cert_then` (verify.rs): stateless checks
  without a caller. relay_serve.rs: its service loop is not ported, and its endpoint map is
  the first-match table of `RelayMesh`. `NodeCapacity` (reassembly.rs): four counters nothing
  feeds. grant_trace.rs: a diagnostic ring. ca.rs, crypto.rs, lib.rs: a command-line tool and
  wrappers. tools/integration-client: a client of the daemon, used for its own tests.
- What a power failure leaves of the key and token files, which are not synced.
- Clocks are monotone except in `RelayStore`. `Authority` has the caches of a ledger that
  was opened and not recovered, over an intact log; faults of the disk are in `GrantLedger`.
  The first receipt of a direct caller is any time up to the present.
- The daemon never publishes a grant and its own effect hook always refuses; `Authority`
  models a hook that executes, as the interface allows.
- Pending intents do not expire in the daemon (nothing calls `expire_timeouts`): `Authority`
  and `NodeApi` have no such action, `IntentTable` does.
- A single state machine of the whole daemon: its parts meet through parsed messages only
  (section 1), and each handler is modelled whole in the module that has its state.

## 8. Plan

Done, the model: replay and channel, intent table, ledger, envelope admission, authority,
sessions and the handshake before them, transport tables, codec, relay routing, sync, evidence,
control plane with its API and feed, start-up. Done, the proofs: section 5.

Worth modelling later: a publishing effect hook in `Authority`; a clock that steps back for the
modules that subtract times; sessions, envelope admission and authority over one loop.
