------------------------------ MODULE Sessions ------------------------------
(***************************************************************************)
(* How a peer gets a session in the daemon and loses it: the responder's   *)
(* handshake table (handshake.rs), the transport session table             *)
(* (session.rs), peer_static and the certificate list of daemon.rs, which  *)
(* share one index space, and the session binding (binding.rs).            *)
(*                                                                         *)
(* A handshake is known by its number, which stands for the keys and the   *)
(* handshake hash it produced: a packet opens under the keys that sealed   *)
(* it and no others, a binding signature covers one hash (both external:   *)
(* Noise, AEAD and Ed25519).  Packets of every handshake so far may arrive *)
(* at any time, also long after its slot went to another peer.  Ages are   *)
(* counted in ticks and cut off above T_HS_IDLE, where no test tells them  *)
(* apart.  Packet counters are the business of SessionChannel.tla.         *)
(***************************************************************************)
EXTENDS Integers, Sequences, SequencesExt, FiniteSets

CONSTANTS
    MAX_SESSIONS,     \* slots of the handshake table; 16 in the code
    T_HS_IDLE,        \* T_HS_IDLE_MS
    Statics,          \* X25519 static keys of peers
    Certs,            \* certificates peers present: [sig, kex, roles]
    OwnerOf,          \* static key -> the signing key of the peer that has it
    MaxHandshakes     \* bound: handshakes that are committed

ASSUME SessionsAssumption ==
    MAX_SESSIONS \in Nat \ {0} /\ T_HS_IDLE \in Nat /\ MaxHandshakes \in Nat

Slots == 0 .. MAX_SESSIONS - 1
Free == [used |-> FALSE]

VARIABLES
    hs,          \* hs.slots: slot -> Free or [used, num, peer, age]
    sess,        \* sessions: slot -> Free or [used, num, bound]
    peerStatic,  \* peer_static: slot -> the set of the peer's static key, or {}
    certs,       \* certs: the certificates bound so far, in order
    expired,     \* the certificates whose not_after has passed
    peers,       \* history: the static key behind each handshake number
    released     \* handshake_released_total

vars == <<hs, sess, peerStatic, certs, expired, peers, released>>

Init ==
    /\ hs = [i \in Slots |-> Free]
    /\ sess = [i \in Slots |-> Free]
    /\ peerStatic = [i \in Slots |-> {}]
    /\ certs = <<>> /\ expired = {} /\ peers = <<>>
    /\ released = 0

-----------------------------------------------------------------------------
\* The slot write_response announces and commit takes: the first free one.
FirstFree(i) == ~hs[i].used /\ \A j \in 0 .. i - 1 : hs[j].used

\* process_datagram on a valid initiation whose answer could be sent: the one
\* commit.  Initiations that are malformed, refused, find no slot or cannot be
\* answered change nothing.
Commit(i, x) ==
    /\ FirstFree(i)
    /\ hs' = [hs EXCEPT ![i] = [used |-> TRUE, num |-> Len(peers) + 1, peer |-> x, age |-> 0]]

\* SessionTable::admit, and the mirror of the peer's key if it returned Ok.
AdmitSession(i, x) ==
    IF sess[i].used THEN UNCHANGED <<sess, peerStatic>>
    ELSE /\ sess' = [sess EXCEPT ![i] = [used |-> TRUE, num |-> Len(peers) + 1, bound |-> FALSE]]
         /\ peerStatic' = [peerStatic EXCEPT ![i] = {x}]

\* handle_handshake.
Handshake(x) ==
    /\ Len(peers) < MaxHandshakes
    /\ \E i \in Slots :
        /\ Commit(i, x)
        /\ AdmitSession(i, x)
    /\ peers' = Append(peers, x)
    /\ UNCHANGED <<certs, expired, released>>

\* handle_transport: a packet of handshake n for slot i opens.
Opens(i, n) == sess[i].used /\ sess[i].num = n

\* check_role_constraints: no two of these roles in one certificate.
RoleRule(c) == Cardinality(c.roles \cap {"agent", "approver", "executor"}) <= 1

\* Mutant: F1 is missing, any valid certificate of the signer will do.
BindsAnyKex(i, c, h) ==
    /\ RoleRule(c) /\ c \notin expired
    /\ peerStatic[i] # {} /\ h = sess[i].num

\* Mutant: the signature is not tied to this session's handshake.
BindsAnyHash(i, c, h) == RoleRule(c) /\ c \notin expired /\ peerStatic[i] = {c.kex}

\* bind_session: role rule, validity, F1, then the signature over the hash.
Binds(i, c, h) ==
    /\ RoleRule(c) /\ c \notin expired
    /\ peerStatic[i] = {c.kex}
    /\ h = sess[i].num

\* handle_binding on an unbound session.  The message carries certificate c and
\* c's owner's signature over the hash of handshake h, one that owner was part of.
Bind(i, n, c, h) ==
    /\ Opens(i, n) /\ ~sess[i].bound
    /\ OwnerOf[peers[h]] = c.sig
    /\ IF Binds(i, c, h)
       THEN sess' = [sess EXCEPT ![i].bound = TRUE] /\ certs' = Append(certs, c)
       ELSE UNCHANGED <<sess, certs>>
    /\ UNCHANGED <<hs, peerStatic, expired, peers, released>>

\* cert_for_sender: the first certificate bound for this signing key, which is
\* what a refusal signed by s is judged by (dispatch_refusal), on whatever bound
\* session it arrives and however long ago that was.
CertFor(s) ==
    LET hits == {k \in DOMAIN certs : certs[k].sig = s}
    IN  {certs[k] : k \in {k \in hits : \A j \in hits : k <= j}}

\* Mutant: the sweep compares the wrong way round and finds nobody.
StaleNever == {i \in Slots : hs[i].used /\ hs[i].age < 0}

\* release_stale: the slots committed more than T_HS_IDLE ago.
Stale == {i \in Slots : hs[i].used /\ hs[i].age > T_HS_IDLE}

\* Mutant: release_stale frees its slots, the daemon does not mirror it.
ReleaseHsOnly(freed) ==
    /\ hs' = [i \in Slots |-> IF i \in freed THEN Free ELSE hs[i]]
    /\ UNCHANGED <<sess, peerStatic>>

\* release_hs_slot for every freed index: all three structures.
Release(freed) ==
    /\ hs' = [i \in Slots |-> IF i \in freed THEN Free ELSE hs[i]]
    /\ sess' = [i \in Slots |-> IF i \in freed THEN Free ELSE sess[i]]
    /\ peerStatic' = [i \in Slots |-> IF i \in freed THEN {} ELSE peerStatic[i]]

\* release_stale_slots, once in every pass of run_loop.
Sweep ==
    /\ Stale # {}
    /\ Release(Stale)
    /\ released' = released + Cardinality(Stale)
    /\ UNCHANGED <<certs, expired, peers>>

Older(n) == IF n > T_HS_IDLE THEN n ELSE n + 1

Tick ==
    /\ hs' = [i \in Slots |-> IF hs[i].used THEN [hs[i] EXCEPT !.age = Older(@)] ELSE hs[i]]
    /\ UNCHANGED <<sess, peerStatic, certs, expired, peers, released>>

\* The not_after of a certificate passes.
Expire(c) ==
    /\ c \notin expired
    /\ expired' = expired \cup {c}
    /\ UNCHANGED <<hs, sess, peerStatic, certs, peers, released>>

Next ==
    \/ \E x \in Statics : Handshake(x)
    \/ \E i \in Slots, n \in DOMAIN peers :
          \E c \in Certs, h \in DOMAIN peers : Bind(i, n, c, h)
    \/ Sweep
    \/ Tick
    \/ \E c \in Certs : Expire(c)

Spec == Init /\ [][Next]_vars

-----------------------------------------------------------------------------
\* docs/handshake-slot-release-design.md §5: the three structures that share the
\* index space agree at all times, slot by slot, on who is there, and occupancy,
\* commits and handshake_released_total tell one story.
MirrorExact ==
    /\ \A i \in Slots :
        /\ hs[i].used <=> sess[i].used
        /\ hs[i].used => hs[i].num = sess[i].num /\ peerStatic[i] = {hs[i].peer}
        /\ ~hs[i].used => peerStatic[i] = {}
    /\ Len(peers) = released + Cardinality({i \in Slots : hs[i].used})

\* BE-TR-01 and F1: a bound session's peer has proved a certificate for the very
\* static key its handshake used, also when the slot has changed hands before.
BoundToPeer ==
    \A i \in Slots : sess[i].used /\ sess[i].bound =>
        \E c \in ToSet(certs) : c.kex = peers[sess[i].num] /\ RoleRule(c)

\* The certificate a signer is judged by names a static key of that very signer,
\* never one of somebody whose handshake or binding message the signer has used.
JudgedByOwnCert ==
    \A s \in {c.sig : c \in Certs} : \A c \in CertFor(s) : OwnerOf[c.kex] = s

\* The 16-slot wall is not terminal: every slot taken is given back.
SlotsRecycle == \A i \in Slots : hs[i].used ~> ~hs[i].used
=============================================================================
