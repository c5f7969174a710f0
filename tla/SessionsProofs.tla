--------------------------- MODULE SessionsProofs ---------------------------
(***************************************************************************)
(* Proofs about Sessions: the three slot tables agree, and a binding       *)
(* speaks for the peer that made it, for every number of slots, every idle *)
(* time, every set of keys and certificates and every number of handshakes.*)
(* And about NoiseIK, the handshake before it: the two ends agree on their *)
(* keys.  The proof writes every hash, chaining key and ciphertext out as  *)
(* what was mixed into it, and shows that whatever is on the network is    *)
(* made of fields of that form.                                            *)
(***************************************************************************)
EXTENDS Sessions, NoiseIK, FiniteSetTheorems, TLAPS

HsSlot == [used : {TRUE}, num : Nat, peer : Statics, age : Nat]
SessSlot == [used : {TRUE}, num : Nat, bound : BOOLEAN]

Used == {i \in Slots : hs[i].used}

SessionsTypeOK ==
    /\ hs \in [Slots -> HsSlot \cup {Free}]
    /\ sess \in [Slots -> SessSlot \cup {Free}]
    /\ peerStatic \in [Slots -> SUBSET Statics]
    /\ certs \in Seq(Certs) /\ peers \in Seq(Statics)
    /\ released \in Nat

\* A slot's number names the handshake of the peer that is in it.
NumbersName == \A i \in Slots :
    hs[i].used => hs[i].num \in DOMAIN peers /\ peers[hs[i].num] = hs[i].peer

\* Every bound certificate pairs a signing key with a static key of its owner.
CertsOwn == \A k \in DOMAIN certs : OwnerOf[certs[k].kex] = certs[k].sig

SessionsInv == SessionsTypeOK /\ MirrorExact /\ NumbersName /\ BoundToPeer /\ CertsOwn

-----------------------------------------------------------------------------
\* A used slot is a record, a free one is Free.
LEMMA SlotCases ==
    ASSUME SessionsTypeOK, NEW i \in Slots
    PROVE  /\ hs[i].used => hs[i] \in HsSlot
           /\ ~hs[i].used => hs[i] = Free
           /\ sess[i].used => sess[i] \in SessSlot
           /\ ~sess[i].used => sess[i] = Free
           /\ Free.used = FALSE
<1>1. hs[i] \in HsSlot \/ hs[i] = Free
    BY DEF SessionsTypeOK
<1>2. sess[i] \in SessSlot \/ sess[i] = Free
    BY DEF SessionsTypeOK
<1>3. Free.used = FALSE
    BY DEF Free
<1>4. (hs[i] \in HsSlot => hs[i].used) /\ (sess[i] \in SessSlot => sess[i].used)
    BY DEF HsSlot, SessSlot
<1> QED BY <1>1, <1>2, <1>3, <1>4

\* The slot table is finite.
LEMMA UsedFinite == IsFiniteSet(Used) /\ Cardinality(Used) \in Nat
<1>1. IsFiniteSet(Slots)
    BY SessionsAssumption, FS_Interval DEF Slots
<1>2. IsFiniteSet(Used)
    BY <1>1, FS_Subset DEF Used
<1> QED BY <1>2, FS_CardinalityType

\* Three empty tables agree.
LEMMA SessionsInit == Init => SessionsInv
<1> SUFFICES ASSUME Init PROVE SessionsInv  OBVIOUS
<1>1. \A i \in Slots : hs[i] = Free /\ sess[i] = Free /\ peerStatic[i] = {} /\ ~Free.used
    BY DEF Init, Free
<1>2. SessionsTypeOK
    BY DEF Init, SessionsTypeOK
<1>3. Used = {}
    BY <1>1 DEF Used
<1>4. MirrorExact
    <2>1. Len(peers) = released + Cardinality(Used)
        BY <1>3, FS_EmptySet DEF Init
    <2> QED BY <1>1, <2>1 DEF MirrorExact, Used
<1>5. NumbersName /\ BoundToPeer /\ CertsOwn
    BY <1>1 DEF NumbersName, BoundToPeer, CertsOwn, Init
<1> QED BY <1>2, <1>4, <1>5 DEF SessionsInv

\* handle_handshake commits, admits and mirrors one and the same slot.
LEMMA HandshakeInv ==
    ASSUME SessionsInv, NEW x \in Statics, Handshake(x)
    PROVE  SessionsInv'
<1> DEFINE n == Len(peers) + 1
<1>1. PICK i \in Slots : Commit(i, x) /\ AdmitSession(i, x)
    BY DEF Handshake
<1>2. SessionsTypeOK /\ n \in Nat \ {0} /\ peers \in Seq(Statics)
    BY DEF SessionsInv, SessionsTypeOK
<1>3. ~hs[i].used /\ ~sess[i].used
    BY <1>1 DEF Commit, FirstFree, SessionsInv, MirrorExact
<1>4. /\ hs' = [hs EXCEPT ![i] = [used |-> TRUE, num |-> n, peer |-> x, age |-> 0]]
      /\ sess' = [sess EXCEPT ![i] = [used |-> TRUE, num |-> n, bound |-> FALSE]]
      /\ peerStatic' = [peerStatic EXCEPT ![i] = {x}]
    BY <1>1, <1>3 DEF Commit, AdmitSession
<1>5. peers' = Append(peers, x) /\ UNCHANGED <<certs, expired, released>>
    BY DEF Handshake
<1>6. /\ Len(peers') = n /\ DOMAIN peers' = 1 .. n /\ peers'[n] = x
      /\ DOMAIN peers = 1 .. n - 1 /\ \A k \in 1 .. n - 1 : peers'[k] = peers[k]
      /\ peers' \in Seq(Statics)
    BY <1>2, <1>5
<1> HIDE DEF n
<1>7. SessionsTypeOK'
    <2>1. [used |-> TRUE, num |-> n, peer |-> x, age |-> 0] \in HsSlot
        BY <1>2 DEF HsSlot
    <2>2. [used |-> TRUE, num |-> n, bound |-> FALSE] \in SessSlot
        BY <1>2 DEF SessSlot
    <2> QED BY <1>2, <1>4, <1>5, <1>6, <2>1, <2>2 DEF SessionsTypeOK
<1>8. \A j \in Slots \ {i} : hs'[j] = hs[j] /\ sess'[j] = sess[j] /\ peerStatic'[j] = peerStatic[j]
    BY <1>2, <1>4 DEF SessionsTypeOK
<1>9. /\ hs'[i].used /\ hs'[i].num = n /\ hs'[i].peer = x
      /\ sess'[i].used /\ sess'[i].num = n /\ sess'[i].bound = FALSE /\ peerStatic'[i] = {x}
    BY <1>2, <1>4 DEF SessionsTypeOK
<1>10. MirrorExact'
    <2>1. Used' = Used \cup {i} /\ i \notin Used
        BY <1>3, <1>8, <1>9 DEF Used
    <2>2. Cardinality(Used') = Cardinality(Used) + 1
        BY <2>1, UsedFinite, FS_AddElement
    <2>3. Len(peers') = released' + Cardinality(Used')
        <3>1. Len(peers) = released + Cardinality(Used)
            BY DEF SessionsInv, MirrorExact, Used
        <3> QED BY <3>1, <2>2, <1>2, <1>5, <1>6, UsedFinite DEF n, SessionsTypeOK
    <2>4. ASSUME NEW j \in Slots
          PROVE  /\ hs'[j].used <=> sess'[j].used
                 /\ hs'[j].used => hs'[j].num = sess'[j].num /\ peerStatic'[j] = {hs'[j].peer}
                 /\ ~hs'[j].used => peerStatic'[j] = {}
        <3>1. CASE j = i  BY <3>1, <1>9
        <3>2. CASE j # i  BY <3>2, <1>8 DEF SessionsInv, MirrorExact
        <3> QED BY <3>1, <3>2
    <2> QED BY <2>3, <2>4 DEF MirrorExact, Used
<1>11. NumbersName'
    <2> SUFFICES ASSUME NEW j \in Slots, hs'[j].used
                 PROVE  hs'[j].num \in DOMAIN peers' /\ peers'[hs'[j].num] = hs'[j].peer
        BY DEF NumbersName
    <2>1. CASE j = i  BY <2>1, <1>2, <1>6, <1>9
    <2>2. CASE j # i
        <3>1. hs[j].num \in 1 .. n - 1 /\ peers[hs[j].num] = hs[j].peer
            BY <2>2, <1>6, <1>8 DEF SessionsInv, NumbersName
        <3> QED BY <3>1, <2>2, <1>2, <1>6, <1>8
    <2> QED BY <2>1, <2>2
<1>12. BoundToPeer'
    <2> SUFFICES ASSUME NEW j \in Slots, sess'[j].used, sess'[j].bound
                 PROVE  \E c \in ToSet(certs') : c.kex = peers'[sess'[j].num] /\ RoleRule(c)
        BY DEF BoundToPeer
    <2>1. j # i  BY <1>9
    <2>2. sess[j].used /\ sess[j].bound /\ sess'[j] = sess[j]
        BY <2>1, <1>8
    <2>3. sess[j].num \in 1 .. n - 1
        BY <2>2, <1>6 DEF SessionsInv, MirrorExact, NumbersName
    <2> QED BY <2>2, <2>3, <1>5, <1>6 DEF SessionsInv, BoundToPeer
<1>13. CertsOwn'
    BY <1>5 DEF SessionsInv, CertsOwn
<1> QED BY <1>7, <1>10, <1>11, <1>12, <1>13 DEF SessionsInv
\* handle_binding: only the peer whose static key the slot holds can bind it, with a
\* certificate for that key and a signature over this handshake's hash.
LEMMA BindInv ==
    ASSUME SessionsInv, NEW i \in Slots, NEW n \in DOMAIN peers,
           NEW c \in Certs, NEW h \in DOMAIN peers, Bind(i, n, c, h)
    PROVE  SessionsInv'
<1>1. /\ sess[i].used /\ sess[i].num = n /\ OwnerOf[peers[h]] = c.sig
      /\ UNCHANGED <<hs, peerStatic, expired, peers, released>>
    BY DEF Bind, Opens
<1>2. CASE Binds(i, c, h)
    <2>1. sess' = [sess EXCEPT ![i].bound = TRUE] /\ certs' = Append(certs, c)
        BY <1>2 DEF Bind
    <2>2. RoleRule(c) /\ peerStatic[i] = {c.kex} /\ h = sess[i].num
        BY <1>2 DEF Binds
    <2>3. c.kex = peers[h]
        BY <1>1, <2>2 DEF SessionsInv, MirrorExact, NumbersName
    <2>4. SessionsTypeOK /\ certs \in Seq(Certs) /\ sess[i] \in SessSlot
        BY <1>1, SlotCases DEF SessionsInv, SessionsTypeOK
    <2>5. /\ DOMAIN certs' = 1 .. Len(certs) + 1 /\ certs'[Len(certs) + 1] = c
          /\ \A k \in 1 .. Len(certs) : certs'[k] = certs[k]
          /\ DOMAIN certs = 1 .. Len(certs) /\ certs' \in Seq(Certs)
        BY <2>1, <2>4
    <2>6. /\ \A j \in Slots \ {i} : sess'[j] = sess[j]
          /\ sess'[i].used /\ sess'[i].num = sess[i].num
          /\ sess'[i] \in SessSlot
        <3>1. sess'[i] = [sess[i] EXCEPT !.bound = TRUE]
            BY <2>1, <2>4 DEF SessionsTypeOK
        <3>2. /\ [sess[i] EXCEPT !.bound = TRUE] \in SessSlot
              /\ [sess[i] EXCEPT !.bound = TRUE].used = sess[i].used
              /\ [sess[i] EXCEPT !.bound = TRUE].num = sess[i].num
            BY <2>4 DEF SessSlot
        <3> QED BY <3>1, <3>2, <2>1, <2>4, <1>1 DEF SessionsTypeOK
    <2>7. SessionsTypeOK'
        <3>1. sess' \in [Slots -> SessSlot \cup {Free}]
            BY <2>1, <2>4, <2>6 DEF SessionsTypeOK
        <3> QED BY <3>1, <2>4, <2>5, <1>1 DEF SessionsTypeOK
    <2>8. MirrorExact'
        BY <1>1, <2>6 DEF SessionsInv, MirrorExact
    <2>9. NumbersName'
        BY <1>1 DEF SessionsInv, NumbersName
    <2>10. ToSet(certs) \subseteq ToSet(certs') /\ c \in ToSet(certs')
        BY <2>4, <2>5 DEF ToSet
    <2>11. BoundToPeer'
        <3> SUFFICES ASSUME NEW j \in Slots, sess'[j].used, sess'[j].bound
                     PROVE  \E d \in ToSet(certs') : d.kex = peers'[sess'[j].num] /\ RoleRule(d)
            BY DEF BoundToPeer
        <3>1. CASE j = i
            BY <3>1, <1>1, <2>2, <2>3, <2>6, <2>10
        <3>2. CASE j # i
            BY <3>2, <1>1, <2>6, <2>10 DEF SessionsInv, BoundToPeer
        <3> QED BY <3>1, <3>2
    <2>12. CertsOwn'
        <3> SUFFICES ASSUME NEW k \in 1 .. Len(certs) + 1
                     PROVE  OwnerOf[certs'[k].kex] = certs'[k].sig
            BY <2>5 DEF CertsOwn
        <3>1. CASE k \in 1 .. Len(certs)
            BY <3>1, <2>5 DEF SessionsInv, CertsOwn
        <3>2. CASE k = Len(certs) + 1
            BY <3>2, <2>5, <2>3, <1>1
        <3> QED BY <3>1, <3>2, <2>4
    <2> QED BY <2>7, <2>8, <2>9, <2>11, <2>12 DEF SessionsInv
<1>3. CASE ~Binds(i, c, h)
    <2>1. UNCHANGED <<sess, certs>>
        BY <1>3 DEF Bind
    <2> QED BY <1>1, <2>1
        DEF SessionsInv, SessionsTypeOK, MirrorExact, NumbersName, BoundToPeer, CertsOwn
<1> QED BY <1>2, <1>3

\* release_stale_slots frees the same slots in all three tables and counts them.
LEMMA SweepInv ==
    ASSUME SessionsInv, Sweep
    PROVE  SessionsInv'
<1>1. /\ hs' = [i \in Slots |-> IF i \in Stale THEN Free ELSE hs[i]]
      /\ sess' = [i \in Slots |-> IF i \in Stale THEN Free ELSE sess[i]]
      /\ peerStatic' = [i \in Slots |-> IF i \in Stale THEN {} ELSE peerStatic[i]]
      /\ released' = released + Cardinality(Stale)
      /\ UNCHANGED <<certs, expired, peers>>
    BY DEF Sweep, Release
<1>2. SessionsTypeOK /\ Free.used = FALSE /\ Stale \subseteq Used
    BY DEF SessionsInv, Free, Stale, Used
<1>3. IsFiniteSet(Stale) /\ Cardinality(Stale) \in Nat
    BY <1>2, UsedFinite, FS_Subset, FS_CardinalityType
<1>4. SessionsTypeOK'
    BY <1>1, <1>2, <1>3 DEF SessionsTypeOK
<1>5. MirrorExact'
    <2>1. Used' = Used \ Stale
        BY <1>1, <1>2 DEF Used
    <2>2. Cardinality(Used') = Cardinality(Used) - Cardinality(Stale)
        <3>1. Used \cap Stale = Stale  BY <1>2
        <3>2. IsFiniteSet(Used)  BY UsedFinite
        <3>3. Cardinality(Used \ Stale) = Cardinality(Used) - Cardinality(Used \cap Stale)
            BY <3>2, FS_Difference
        <3> QED BY <2>1, <3>1, <3>3
    <2>3. Len(peers') = released' + Cardinality(Used')
        <3>1. Len(peers) = released + Cardinality(Used)
            BY DEF SessionsInv, MirrorExact, Used
        <3> QED BY <3>1, <2>2, <1>1, <1>2, <1>3, UsedFinite DEF SessionsTypeOK
    <2>4. ASSUME NEW j \in Slots
          PROVE  /\ hs'[j].used <=> sess'[j].used
                 /\ hs'[j].used => hs'[j].num = sess'[j].num /\ peerStatic'[j] = {hs'[j].peer}
                 /\ ~hs'[j].used => peerStatic'[j] = {}
        BY <1>1, <1>2 DEF SessionsInv, MirrorExact
    <2> QED BY <2>3, <2>4 DEF MirrorExact, Used
<1>6. NumbersName' /\ BoundToPeer' /\ CertsOwn'
    BY <1>1, <1>2 DEF SessionsInv, NumbersName, BoundToPeer, CertsOwn
<1> QED BY <1>4, <1>5, <1>6 DEF SessionsInv

\* The clock only changes ages.
LEMMA TickInv ==
    ASSUME SessionsInv, Tick
    PROVE  SessionsInv'
<1>1. /\ hs' = [i \in Slots |-> IF hs[i].used THEN [hs[i] EXCEPT !.age = Older(@)] ELSE hs[i]]
      /\ UNCHANGED <<sess, peerStatic, certs, expired, peers, released>>
    BY DEF Tick
<1>2. SessionsTypeOK  BY DEF SessionsInv
<1>3. ASSUME NEW i \in Slots
      PROVE  /\ hs'[i] \in HsSlot \cup {Free} /\ (hs'[i].used <=> hs[i].used)
             /\ hs[i].used => hs'[i].num = hs[i].num /\ hs'[i].peer = hs[i].peer
    <2>1. CASE hs[i].used
        <3>1. hs[i] \in HsSlot
            BY <1>2, <2>1, SlotCases
        <3>2. Older(hs[i].age) \in Nat
            <4>1. hs[i].age \in Nat  BY <3>1 DEF HsSlot
            <4> QED BY <4>1, SessionsAssumption DEF Older
        <3>3. hs'[i] = [hs[i] EXCEPT !.age = Older(hs[i].age)]
            BY <1>1, <2>1
        <3> QED BY <3>1, <3>2, <3>3 DEF HsSlot
    <2>2. CASE ~hs[i].used
        <3>1. hs'[i] = hs[i]
            BY <1>1, <2>2
        <3> QED BY <3>1, <2>2, <1>2, SlotCases
    <2> QED BY <2>1, <2>2
<1>4. SessionsTypeOK'
    BY <1>1, <1>2, <1>3 DEF SessionsTypeOK
<1>5. MirrorExact'
    <2>1. Used' = Used
        BY <1>3 DEF Used
    <2> QED BY <2>1, <1>1, <1>3 DEF SessionsInv, MirrorExact, Used
<1>6. NumbersName'
    BY <1>1, <1>3 DEF SessionsInv, NumbersName
<1>7. BoundToPeer' /\ CertsOwn'
    BY <1>1 DEF SessionsInv, BoundToPeer, CertsOwn
<1> QED BY <1>4, <1>5, <1>6, <1>7 DEF SessionsInv

\* The invariant is inductive.
LEMMA SessionsNext == SessionsInv /\ [Next]_vars => SessionsInv'
<1> SUFFICES ASSUME SessionsInv, [Next]_vars PROVE SessionsInv'  OBVIOUS
<1>1. ASSUME NEW x \in Statics, Handshake(x) PROVE SessionsInv'
    BY <1>1, HandshakeInv
<1>2. ASSUME NEW i \in Slots, NEW n \in DOMAIN peers, NEW c \in Certs, NEW h \in DOMAIN peers,
             Bind(i, n, c, h)
      PROVE  SessionsInv'
    BY <1>2, BindInv
<1>3. CASE Sweep
    BY <1>3, SweepInv
<1>4. CASE Tick
    BY <1>4, TickInv
<1>5. ASSUME UNCHANGED <<hs, sess, peerStatic, certs, peers, released>> PROVE SessionsInv'
    BY <1>5 DEF SessionsInv, SessionsTypeOK, MirrorExact, NumbersName, BoundToPeer, CertsOwn
<1>6. ASSUME NEW c \in Certs, Expire(c) PROVE SessionsInv'
    BY <1>5, <1>6 DEF Expire
<1>7. CASE UNCHANGED vars
    BY <1>5, <1>7 DEF vars
<1> QED BY <1>1, <1>2, <1>3, <1>4, <1>6, <1>7 DEF Next

\* Every reachable state of the session tables satisfies the inductive invariant.
THEOREM SessionsInvariant == Spec => []SessionsInv
    BY SessionsInit, SessionsNext, PTL DEF Spec

\* docs/handshake-slot-release-design.md 5: handle_handshake and release_stale_slots
\* keep the handshake table, the session table and peer_static in agreement, and the
\* counters with them, for every number of slots.
THEOREM SessionsMirrorExact == Spec => []MirrorExact
<1>1. SessionsInv => MirrorExact  BY DEF SessionsInv
<1> QED BY <1>1, SessionsInvariant, PTL

\* F1: a session handle_binding has marked as bound is that of a peer certified for
\* the static key of its handshake, however often its slot has changed hands.
THEOREM SessionsBoundToPeer == Spec => []BoundToPeer
<1>1. SessionsInv => BoundToPeer  BY DEF SessionsInv
<1> QED BY <1>1, SessionsInvariant, PTL

\* cert_for_sender never judges a signer by a certificate for somebody else's key.
THEOREM SessionsJudgedByOwnCert == Spec => []JudgedByOwnCert
<1>1. SessionsInv => JudgedByOwnCert
    BY DEF SessionsInv, CertsOwn, JudgedByOwnCert, CertFor
<1> QED BY <1>1, SessionsInvariant, PTL

-----------------------------------------------------------------------------
\* A sequence of anything.
IsSeq(s) == s \in Seq(Range(s))

\* A sequence grows at its end and keeps what it had.
LEMMA Appended ==
  ASSUME NEW s, IsSeq(s), NEW x
  PROVE  LET t == Append(s, x)
         IN  /\ IsSeq(t) /\ Len(s) \in Nat /\ Len(t) = Len(s) + 1 /\ t # <<>>
             /\ t[Len(s) + 1] = x /\ \A k \in 1 .. Len(s) : t[k] = s[k]
  <1> DEFINE S == Range(s) \cup {x}
             t == Append(s, x)
  <1>1. s \in Seq(S)
    BY DEF IsSeq
  <1> HIDE DEF S
  <1>2. x \in S
    BY DEF S
  <1>3. /\ t \in Seq(S) /\ Len(s) \in Nat /\ Len(t) = Len(s) + 1 /\ DOMAIN t = 1 .. Len(t)
        /\ t[Len(s) + 1] = x /\ \A k \in 1 .. Len(s) : t[k] = s[k]
    BY <1>1, <1>2
  <1> HIDE DEF t
  <1>4. t \in Seq(Range(t))
    <2>1. \A k \in 1 .. Len(t) : t[k] \in Range(t)
      BY <1>3 DEF Range
    <2> QED BY <1>3, <2>1
  <1>5. t # <<>>
    BY <1>3
  <1> QED BY <1>3, <1>4, <1>5 DEF IsSeq, t

\* A sequence that is one longer and agrees so far is the other with its last element.
LEMMA AppendIs ==
  ASSUME NEW S, NEW s \in Seq(S), NEW t \in Seq(S), Len(t) = Len(s) + 1,
         \A k \in 1 .. Len(s) : t[k] = s[k]
  PROVE  Append(s, t[Len(t)]) = t
  <1> DEFINE a == Append(s, t[Len(t)])
  <1>1. Len(s) \in Nat /\ Len(t) \in 1 .. Len(t) /\ t[Len(t)] \in S
    OBVIOUS
  <1>2. a \in Seq(S) /\ Len(a) = Len(t)
    BY <1>1
  <1>3. \A k \in 1 .. Len(t) : a[k] = t[k]
    BY <1>1
  <1> HIDE DEF a
  <1>4. a = t
    BY <1>2, <1>3
  <1> QED BY <1>4 DEF a

\* Append on tuples, one length after the other.
LEMMA Appended1 ==
  ASSUME NEW a
  PROVE  Append(<<>>, a) = <<a>>
  OBVIOUS

\* The same for one element.
LEMMA Appended2 ==
  ASSUME NEW a, NEW b
  PROVE  Append(<<a>>, b) = <<a, b>>
  <1> DEFINE S == {a, b}
             s == <<a>>
             t == <<a, b>>
  <1>1. s \in Seq(S) /\ t \in Seq(S) /\ Len(s) = 1 /\ Len(t) = 2 /\ b \in S
    OBVIOUS
  <1>2. \A k \in 1 .. 1 : s[k] = t[k]
    OBVIOUS
  <1>3. t[2] = b
    OBVIOUS
  <1> HIDE DEF S, s, t
  <1>4. /\ Len(t) = Len(s) + 1 /\ t[Len(t)] = b
        /\ \A k \in 1 .. Len(s) : t[k] = s[k]
    BY <1>1, <1>2, <1>3
  <1>5. Append(s, t[Len(t)]) = t
    BY <1>1, <1>4, AppendIs, Zenon
  <1> QED BY <1>4, <1>5 DEF s, t

\* The same for two.
LEMMA Appended3 ==
  ASSUME NEW a, NEW b, NEW c
  PROVE  Append(<<a, b>>, c) = <<a, b, c>>
  <1> DEFINE S == {a, b, c}
             s == <<a, b>>
             t == <<a, b, c>>
  <1>1. s \in Seq(S) /\ t \in Seq(S) /\ Len(s) = 2 /\ Len(t) = 3 /\ c \in S
    OBVIOUS
  <1>2. \A k \in 1 .. 2 : s[k] = t[k]
    OBVIOUS
  <1>3. t[3] = c
    OBVIOUS
  <1> HIDE DEF S, s, t
  <1>4. /\ Len(t) = Len(s) + 1 /\ t[Len(t)] = c
        /\ \A k \in 1 .. Len(s) : t[k] = s[k]
    BY <1>1, <1>2, <1>3
  <1>5. Append(s, t[Len(t)]) = t
    BY <1>1, <1>4, AppendIs, Zenon
  <1> QED BY <1>4, <1>5 DEF s, t

\* The same for three.
LEMMA Appended4 ==
  ASSUME NEW a, NEW b, NEW c, NEW d
  PROVE  Append(<<a, b, c>>, d) = <<a, b, c, d>>
  <1> DEFINE S == {a, b, c, d}
             s == <<a, b, c>>
             t == <<a, b, c, d>>
  <1>1. s \in Seq(S) /\ t \in Seq(S) /\ Len(s) = 3 /\ Len(t) = 4 /\ d \in S
    OBVIOUS
  <1>2. \A k \in 1 .. 3 : s[k] = t[k]
    OBVIOUS
  <1>3. t[4] = d
    OBVIOUS
  <1> HIDE DEF S, s, t
  <1>4. /\ Len(t) = Len(s) + 1 /\ t[Len(t)] = d
        /\ \A k \in 1 .. Len(s) : t[k] = s[k]
    BY <1>1, <1>2, <1>3
  <1>5. Append(s, t[Len(t)]) = t
    BY <1>1, <1>4, AppendIs, Zenon
  <1> QED BY <1>4, <1>5 DEF s, t

\* The same for four.
LEMMA Appended5 ==
  ASSUME NEW a, NEW b, NEW c, NEW d, NEW e
  PROVE  Append(<<a, b, c, d>>, e) = <<a, b, c, d, e>>
  <1> DEFINE S == {a, b, c, d, e}
             s == <<a, b, c, d>>
             t == <<a, b, c, d, e>>
  <1>1. s \in Seq(S) /\ t \in Seq(S) /\ Len(s) = 4 /\ Len(t) = 5 /\ e \in S
    OBVIOUS
  <1>2. \A k \in 1 .. 4 : s[k] = t[k]
    OBVIOUS
  <1>3. t[5] = e
    OBVIOUS
  <1> HIDE DEF S, s, t
  <1>4. /\ Len(t) = Len(s) + 1 /\ t[Len(t)] = e
        /\ \A k \in 1 .. Len(s) : t[k] = s[k]
    BY <1>1, <1>2, <1>3
  <1>5. Append(s, t[Len(t)]) = t
    BY <1>1, <1>4, AppendIs, Zenon
  <1> QED BY <1>4, <1>5 DEF s, t

\* A tuple of one, two or four is not empty.
LEMMA Nonempty ==
  ASSUME NEW a, NEW b, NEW c, NEW d
  PROVE  <<a>> # <<>> /\ <<a, b>> # <<>> /\ <<a, b, c, d>> # <<>>
  OBVIOUS

\* A symmetric state.
Sym(h, ck, n) == [h |-> h, ck |-> ck, n |-> n]

\* mix_hash on a symmetric state.
LEMMA MixHashSym ==
  ASSUME NEW h, NEW ck, NEW n, NEW x
  PROVE  MixHash(Sym(h, ck, n), x) = Sym(Append(h, x), ck, n)
  BY DEF Sym, MixHash

\* mix_key on a symmetric state.
LEMMA MixKeySym ==
  ASSUME NEW h, NEW ck, NEW n, NEW x
  PROVE  MixKey(Sym(h, ck, n), x) = Sym(h, Append(ck, x), 0)
  <1> DEFINE S == Sym(h, ck, n)
             c == Append(ck, x)
  <1> HIDE DEF c
  <1>1. [S EXCEPT !.ck = c] = Sym(h, c, n)
    BY DEF Sym
  <1>2. [Sym(h, c, n) EXCEPT !.n = 0] = Sym(h, c, 0)
    BY DEF Sym
  <1>3. S.ck = ck
    BY DEF Sym
  <1>4. MixKey(S, x) = [[S EXCEPT !.ck = c] EXCEPT !.n = 0]
    BY <1>3, Zenon DEF MixKey, c
  <1> QED BY <1>1, <1>2, <1>4, Zenon DEF c

\* What encrypt_and_hash writes once a key is there.
LEMMA SealedSym ==
  ASSUME NEW h, NEW ck, NEW n, NEW x, ck # <<>>
  PROVE  Sealed(Sym(h, ck, n), x) = <<"ct", ck, n, h, x>>
  <1>1. Sym(h, ck, n).ck = ck /\ Sym(h, ck, n).n = n /\ Sym(h, ck, n).h = h
    BY DEF Sym
  <1>2. HasKey(Sym(h, ck, n))
    BY <1>1 DEF HasKey
  <1> QED BY <1>1, <1>2, Zenon DEF Sealed

\* And the state it leaves.
LEMMA AfterCipherSym ==
  ASSUME NEW h, NEW ck, NEW n, NEW x, ck # <<>>
  PROVE  AfterCipher(Sym(h, ck, n), x) = Sym(Append(h, x), ck, n + 1)
  <1>1. Sym(h, ck, n).ck = ck /\ Sym(h, ck, n).n = n
    BY DEF Sym
  <1>2. HasKey(Sym(h, ck, n))
    BY <1>1 DEF HasKey
  <1>3. [Sym(h, ck, n) EXCEPT !.n = n + 1] = Sym(h, ck, n + 1)
    BY DEF Sym
  <1>4. AfterCipher(Sym(h, ck, n), x) = MixHash([Sym(h, ck, n) EXCEPT !.n = n + 1], x)
    BY <1>1, <1>2, Zenon DEF AfterCipher
  <1>5. MixHash(Sym(h, ck, n + 1), x) = Sym(Append(h, x), ck, n + 1)
    BY DEF Sym, MixHash
  <1> QED BY <1>3, <1>4, <1>5, Zenon

\* The first two steps of the pattern, seen from either end: a is the node's static key,
\* p the ephemeral one, d1 and d2 the DH results, x and y what is sent sealed.
LEMMA KeyedOnce ==
  ASSUME NEW a, NEW p, NEW d1
  PROVE  MixKey(MixHash(MixHash(Symmetric, a), p), d1) = Sym(<<a, p>>, <<d1>>, 0)
  <1>1. Symmetric = Sym(<<>>, <<>>, 0)
    BY DEF Symmetric, Sym
  <1>2. MixHash(Symmetric, a) = Sym(<<a>>, <<>>, 0)
    <2>1. MixHash(Sym(<<>>, <<>>, 0), a) = Sym(Append(<<>>, a), <<>>, 0)
      BY MixHashSym, Zenon
    <2> QED BY <1>1, <2>1, Appended1, Zenon
  <1>3. MixHash(MixHash(Symmetric, a), p) = Sym(<<a, p>>, <<>>, 0)
    <2>1. MixHash(Sym(<<a>>, <<>>, 0), p) = Sym(Append(<<a>>, p), <<>>, 0)
      BY MixHashSym, Zenon
    <2> QED BY <1>2, <2>1, Appended2, Zenon
  <1>4. MixKey(Sym(<<a, p>>, <<>>, 0), d1) = Sym(<<a, p>>, Append(<<>>, d1), 0)
    BY MixKeySym, Zenon
  <1> QED BY <1>3, <1>4, Appended1, Zenon

\* What the first DH result seals, and the state after it.
LEMMA SealedOnce ==
  ASSUME NEW a, NEW p, NEW d1, NEW x
  PROVE  /\ Sealed(Sym(<<a, p>>, <<d1>>, 0), x) = <<"ct", <<d1>>, 0, <<a, p>>, x>>
         /\ AfterCipher(Sym(<<a, p>>, <<d1>>, 0), x) = Sym(<<a, p, x>>, <<d1>>, 1)
  <1>1. <<d1>> # <<>>
    OBVIOUS
  <1>2. Sealed(Sym(<<a, p>>, <<d1>>, 0), x) = <<"ct", <<d1>>, 0, <<a, p>>, x>>
    BY <1>1, SealedSym, Zenon
  <1>3. AfterCipher(Sym(<<a, p>>, <<d1>>, 0), x) = Sym(Append(<<a, p>>, x), <<d1>>, 0 + 1)
    BY <1>1, AfterCipherSym, Zenon
  <1>4. 0 + 1 = 1
    OBVIOUS
  <1> QED BY <1>2, <1>3, <1>4, Appended3, Zenon

\* The second DH result is mixed in.
LEMMA KeyedTwice ==
  ASSUME NEW a, NEW p, NEW x, NEW d1, NEW d2
  PROVE  MixKey(Sym(<<a, p, x>>, <<d1>>, 1), d2) = Sym(<<a, p, x>>, <<d1, d2>>, 0)
  <1>1. MixKey(Sym(<<a, p, x>>, <<d1>>, 1), d2) = Sym(<<a, p, x>>, Append(<<d1>>, d2), 0)
    BY MixKeySym, Zenon
  <1> QED BY <1>1, Appended2, Zenon

\* A pair is not empty.
LEMMA PairFull ==
  ASSUME NEW a, NEW b
  PROVE  <<a, b>> # <<>>
  OBVIOUS

\* What an initiator sends, piece by piece.
Pub(k) == <<"pub", k>>
Eph(i) == <<"e", i>>
InitKeys(i) == <<Dh(Eph(i), TargetOf[i]), Dh(StaticOf[i], TargetOf[i])>>
EncStatic(i) ==
    <<"ct", <<Dh(Eph(i), TargetOf[i])>>, 0, <<Pub(TargetOf[i]), Pub(Eph(i))>>, StaticOf[i]>>
EncTime(i) ==
    <<"ct", InitKeys(i), 0, <<Pub(TargetOf[i]), Pub(Eph(i)), EncStatic(i)>>, <<"time">> >>
SentSym(i) ==
    Sym(<<Pub(TargetOf[i]), Pub(Eph(i)), EncStatic(i), EncTime(i)>>, InitKeys(i), 1)
SentBody(i) ==
    [type |-> 1, sender |-> i, e |-> Eph(i), encStatic |-> EncStatic(i), encTime |-> EncTime(i)]

\* write_initiation sends these.
LEMMA InitiationForm ==
  ASSUME NEW i
  PROVE  Initiation(i) = [eph |-> Eph(i), sym |-> SentSym(i), msg |-> Framed(SentBody(i))]
  <1> DEFINE T == TargetOf[i]
             a == Pub(T)
             p == Pub(Eph(i))
             d1 == Dh(Eph(i), T)
             d2 == Dh(StaticOf[i], T)
             x == EncStatic(i)
             y == EncTime(i)
             r == StaticOf[i]
             s1 == MixKey(MixHash(InitiatorSym(T), p), d1)
             s2 == MixKey(AfterCipher(s1, Sealed(s1, r)), d2)
             tm == <<"time">>
  <1>1. InitiatorSym(T) = MixHash(Symmetric, a)
    BY DEF InitiatorSym, Pub
  <1>2. Initiation(i) =
          [eph |-> Eph(i), sym |-> AfterCipher(s2, Sealed(s2, tm)),
           msg |-> Framed([type |-> 1, sender |-> i, e |-> Eph(i), encStatic |-> Sealed(s1, r),
                           encTime |-> Sealed(s2, tm)])]
    BY Zenon DEF Initiation, Eph, Pub
  <1>3. /\ x = <<"ct", <<d1>>, 0, <<a, p>>, r>> /\ y = <<"ct", <<d1, d2>>, 0, <<a, p, x>>, tm>>
        /\ SentSym(i) = Sym(<<a, p, x, y>>, <<d1, d2>>, 1)
    BY Zenon DEF EncStatic, EncTime, SentSym, InitKeys
  <1>4. SentBody(i) = [type |-> 1, sender |-> i, e |-> Eph(i), encStatic |-> x, encTime |-> y]
    BY Zenon DEF SentBody
  <1> HIDE DEF a, p, d1, d2, x, y, r, tm
  <1>5. s1 = Sym(<<a, p>>, <<d1>>, 0)
    BY <1>1, KeyedOnce, Zenon
  <1>6. Sealed(s1, r) = x
    <2>1. Sealed(Sym(<<a, p>>, <<d1>>, 0), r) = <<"ct", <<d1>>, 0, <<a, p>>, r>>
      BY SealedOnce, Zenon
    <2> QED BY <1>3, <1>5, <2>1, Zenon
  <1> HIDE DEF s1
  <1>7. AfterCipher(s1, x) = Sym(<<a, p, x>>, <<d1>>, 1)
    BY <1>5, SealedOnce, Zenon
  <1>8. s2 = Sym(<<a, p, x>>, <<d1, d2>>, 0)
    BY <1>6, <1>7, KeyedTwice, Zenon
  <1> HIDE DEF s2
  <1>9. Sealed(s2, tm) = y
    <2>1. Sealed(Sym(<<a, p, x>>, <<d1, d2>>, 0), tm) = <<"ct", <<d1, d2>>, 0, <<a, p, x>>, tm>>
      BY PairFull, SealedSym, Zenon
    <2> QED BY <1>3, <1>8, <2>1, Zenon
  <1>10. AfterCipher(s2, y) = SentSym(i)
    <2>1. AfterCipher(Sym(<<a, p, x>>, <<d1, d2>>, 0), y) = Sym(Append(<<a, p, x>>, y), <<d1, d2>>, 0 + 1)
      BY PairFull, AfterCipherSym, Zenon
    <2>2. 0 + 1 = 1
      OBVIOUS
    <2> QED BY <1>3, <1>8, <2>1, <2>2, Appended4, Zenon
  <1> QED BY <1>2, <1>4, <1>6, <1>9, <1>10, Zenon

\* What the node has read: the transcript so far, which the sender has too.
ReadSym(b) ==
    Sym(<<Pub(OwnStatic), Pub(b.e), b.encStatic, b.encTime>>,
        <<Dh(OwnStatic, b.e), Dh(OwnStatic, Plain(b.encStatic))>>, 1)
ReadInfo(b) == [sender |-> b.sender, re |-> b.e, rs |-> Plain(b.encStatic), sym |-> ReadSym(b)]

\* What read_initiation accepts.
Readable(m) ==
    LET b == m.body
    IN  /\ Mac1Ok(OwnSig, m) /\ b.e # Zero /\ Plain(b.encStatic) # Zero
        /\ b.encStatic = <<"ct", <<Dh(OwnStatic, b.e)>>, 0, <<Pub(OwnStatic), Pub(b.e)>>, Plain(b.encStatic)>>
        /\ b.encTime = <<"ct", <<Dh(OwnStatic, b.e), Dh(OwnStatic, Plain(b.encStatic))>>, 0,
                         <<Pub(OwnStatic), Pub(b.e), b.encStatic>>, Plain(b.encTime)>>

\* read_initiation accepts these and nothing else, and knows this of them.
LEMMA ReadForm ==
  ASSUME NEW m
  PROVE  ReadInitiation(m) = IF Readable(m) THEN {ReadInfo(m.body)} ELSE {}
  <1> DEFINE b  == m.body
             a  == Pub(OwnStatic)
             p  == Pub(b.e)
             d1 == Dh(OwnStatic, b.e)
             x  == b.encStatic
             rs == Plain(x)
             y  == b.encTime
             z  == Plain(y)
             d2 == Dh(OwnStatic, rs)
             s1 == MixKey(MixHash(ResponderSym, p), d1)
             s2 == MixKey(AfterCipher(s1, x), d2)
             ok == /\ Mac1Ok(OwnSig, m)
                   /\ ~DhFails(b.e) /\ Decrypts(s1, x)
                   /\ ~DhFails(rs) /\ Decrypts(s2, y)
  <1>1. ResponderSym = MixHash(Symmetric, a)
    BY DEF ResponderSym, Pub
  <1>2. ReadInitiation(m) = IF ok THEN {[sender |-> b.sender, re |-> b.e, rs |-> rs, sym |-> AfterCipher(s2, y)]}
                            ELSE {}
    BY Zenon DEF ReadInitiation, Pub
  <1>3. Readable(m) <=> /\ Mac1Ok(OwnSig, m) /\ b.e # Zero /\ rs # Zero
                        /\ x = <<"ct", <<d1>>, 0, <<a, p>>, rs>>
                        /\ y = <<"ct", <<d1, d2>>, 0, <<a, p, x>>, z>>
    BY Zenon DEF Readable
  <1>4. ReadSym(b) = Sym(<<a, p, x, y>>, <<d1, d2>>, 1)
    BY Zenon DEF ReadSym
  <1>5. ok <=> /\ Mac1Ok(OwnSig, m) /\ b.e # Zero /\ rs # Zero
               /\ x = Sealed(s1, rs) /\ y = Sealed(s2, z)
    BY Zenon DEF DhFails, Decrypts
  <1>6. ReadInfo(b) = [sender |-> b.sender, re |-> b.e, rs |-> rs, sym |-> ReadSym(b)]
    BY Zenon DEF ReadInfo
  <1> HIDE DEF b, a, p, d1, d2, x, y, z, rs, ok
  <1>7. s1 = Sym(<<a, p>>, <<d1>>, 0)
    BY <1>1, KeyedOnce, Zenon
  <1> HIDE DEF s1
  <1>8. Sealed(s1, rs) = <<"ct", <<d1>>, 0, <<a, p>>, rs>>
    <2>1. Sealed(Sym(<<a, p>>, <<d1>>, 0), rs) = <<"ct", <<d1>>, 0, <<a, p>>, rs>>
      BY SealedOnce, Zenon
    <2> QED BY <1>7, <2>1, Zenon
  <1>9. AfterCipher(s1, x) = Sym(<<a, p, x>>, <<d1>>, 1)
    BY <1>7, SealedOnce, Zenon
  <1>10. s2 = Sym(<<a, p, x>>, <<d1, d2>>, 0)
    BY <1>9, KeyedTwice, Zenon
  <1> HIDE DEF s2
  <1>11. Sealed(s2, z) = <<"ct", <<d1, d2>>, 0, <<a, p, x>>, z>>
    <2>1. Sealed(Sym(<<a, p, x>>, <<d1, d2>>, 0), z) = <<"ct", <<d1, d2>>, 0, <<a, p, x>>, z>>
      BY PairFull, SealedSym, Zenon
    <2> QED BY <1>10, <2>1, Zenon
  <1>12. AfterCipher(s2, y) = Sym(<<a, p, x, y>>, <<d1, d2>>, 1)
    <2>1. AfterCipher(Sym(<<a, p, x>>, <<d1, d2>>, 0), y) = Sym(Append(<<a, p, x>>, y), <<d1, d2>>, 0 + 1)
      BY PairFull, AfterCipherSym, Zenon
    <2>2. 0 + 1 = 1
      OBVIOUS
    <2> QED BY <1>10, <2>1, <2>2, Appended4, Zenon
  <1>13. ok <=> Readable(m)
    BY <1>3, <1>5, <1>8, <1>11, Zenon
  <1>14. [sender |-> b.sender, re |-> b.e, rs |-> rs, sym |-> AfterCipher(s2, y)] = ReadInfo(b)
    BY <1>4, <1>6, <1>12, Zenon
  <1> QED BY <1>2, <1>13, <1>14, Zenon DEF b

\* The node's answer to what it read.
AnswerHash(b, e) == <<Pub(OwnStatic), Pub(b.e), b.encStatic, b.encTime, Pub(e)>>
AnswerKeys(b, e) ==
    <<Dh(OwnStatic, b.e), Dh(OwnStatic, Plain(b.encStatic)), Dh(e, b.e), Dh(e, Plain(b.encStatic))>>
AnswerEnc(b, e) == <<"ct", AnswerKeys(b, e), 0, AnswerHash(b, e), <<>> >>
AnswerBody(b, slot, e) ==
    [type |-> 2, sender |-> slot, receiver |-> b.sender, e |-> e, enc |-> AnswerEnc(b, e)]

\* write_response sends this and keeps that.
LEMMA ResponseForm ==
  ASSUME NEW b, NEW slot, NEW e
  PROVE  Response(ReadInfo(b), slot, e) =
           [sym |-> Sym(Append(AnswerHash(b, e), AnswerEnc(b, e)), AnswerKeys(b, e), 1),
            msg |-> Framed(AnswerBody(b, slot, e))]
  <1> DEFINE info == ReadInfo(b)
             a == Pub(OwnStatic)
             p == Pub(b.e)
             q == Pub(e)
             x == b.encStatic
             y == b.encTime
             rs == Plain(x)
             c1 == Dh(OwnStatic, b.e)
             c2 == Dh(OwnStatic, rs)
             d3 == Dh(e, b.e)
             d4 == Dh(e, rs)
             nil == <<>>
             enc == AnswerEnc(b, e)
             s == MixKey(MixKey(MixHash(ReadSym(b), q), d3), d4)
  <1>1. info.sym = ReadSym(b) /\ info.re = b.e /\ info.rs = rs /\ info.sender = b.sender
    BY DEF ReadInfo
  <1>2. Response(info, slot, e) =
          [sym |-> AfterCipher(s, Sealed(s, nil)),
           msg |-> Framed([type |-> 2, sender |-> slot, receiver |-> b.sender, e |-> e, enc |-> Sealed(s, nil)])]
    BY <1>1, Zenon DEF Response, Pub
  <1>3. ReadSym(b) = Sym(<<a, p, x, y>>, <<c1, c2>>, 1)
    BY Zenon DEF ReadSym
  <1>4. /\ AnswerHash(b, e) = <<a, p, x, y, q>> /\ AnswerKeys(b, e) = <<c1, c2, d3, d4>>
        /\ enc = <<"ct", AnswerKeys(b, e), 0, AnswerHash(b, e), nil>>
    BY Zenon DEF AnswerHash, AnswerKeys, AnswerEnc
  <1>5. AnswerBody(b, slot, e) = [type |-> 2, sender |-> slot, receiver |-> b.sender, e |-> e, enc |-> enc]
    BY Zenon DEF AnswerBody
  <1> HIDE DEF info, a, p, q, x, y, rs, c1, c2, d3, d4, nil, enc
  <1> DEFINE h == <<a, p, x, y>>
             ck == <<c1, c2>>
  <1>6. Append(Append(ck, d3), d4) = AnswerKeys(b, e) /\ Append(h, q) = AnswerHash(b, e)
    <2>1. Append(ck, d3) = <<c1, c2, d3>>
      BY Appended3, Zenon
    <2>2. Append(<<c1, c2, d3>>, d4) = <<c1, c2, d3, d4>>
      BY Appended4, Zenon
    <2>3. Append(h, q) = <<a, p, x, y, q>>
      BY Appended5, Zenon
    <2> QED BY <1>4, <2>1, <2>2, <2>3, Zenon
  <1> DEFINE K == AnswerKeys(b, e)
             H == AnswerHash(b, e)
  <1>7. K # <<>>
    BY <1>4, Nonempty, Zenon
  <1>8. s = MixKey(MixKey(MixHash(Sym(h, ck, 1), q), d3), d4)
    BY <1>3, Zenon
  <1> HIDE DEF s, h, ck
  <1>9. s = Sym(H, K, 0)
    <2>1. MixKey(MixKey(MixHash(Sym(h, ck, 1), q), d3), d4) = Sym(Append(h, q), Append(Append(ck, d3), d4), 0)
      <3>1. MixHash(Sym(h, ck, 1), q) = Sym(Append(h, q), ck, 1)
        BY MixHashSym, Zenon
      <3>2. MixKey(Sym(Append(h, q), ck, 1), d3) = Sym(Append(h, q), Append(ck, d3), 0)
        BY MixKeySym, Zenon
      <3>3. MixKey(Sym(Append(h, q), Append(ck, d3), 0), d4) = Sym(Append(h, q), Append(Append(ck, d3), d4), 0)
        BY MixKeySym, Zenon
      <3> QED BY <3>1, <3>2, <3>3, Zenon
    <2> QED BY <1>6, <1>8, <2>1, Zenon
  <1> HIDE DEF K, H
  <1>10. Sealed(s, nil) = enc
    <2>1. Sealed(Sym(H, K, 0), nil) = <<"ct", K, 0, H, nil>>
      BY <1>7, SealedSym, Zenon
    <2> QED BY <1>4, <1>9, <2>1, Zenon DEF K, H
  <1>11. AfterCipher(s, enc) = Sym(Append(H, enc), K, 1)
    <2>1. AfterCipher(Sym(H, K, 0), enc) = Sym(Append(H, enc), K, 0 + 1)
      BY <1>7, AfterCipherSym, Zenon
    <2>2. 0 + 1 = 1
      OBVIOUS
    <2> QED BY <1>9, <2>1, <2>2, Zenon
  <1>12. Response(info, slot, e) =
           [sym |-> Sym(Append(H, enc), K, 1), msg |-> Framed(AnswerBody(b, slot, e))]
    BY <1>2, <1>5, <1>10, <1>11, Zenon
  <1> QED BY <1>12, Zenon DEF info, enc, H, K

-----------------------------------------------------------------------------
\* An initiator: what it has mixed so far starts with what it sent.
IniInv(i) ==
    LET a == ini[i]
    IN  /\ a = [st |-> a.st, sym |-> a.sym, eph |-> a.eph, res |-> a.res]
        /\ a.st \in {"new", "sent", "done"}
        /\ a.st # "done" => a.res = {}
        /\ a.st # "new" =>
            /\ a.eph = Eph(i) /\ a.sym = Sym(a.sym.h, a.sym.ck, a.sym.n)
            /\ IsSeq(a.sym.h) /\ IsSeq(a.sym.ck)
            /\ Len(a.sym.h) >= 4 /\ a.sym.h[1] = Pub(TargetOf[i]) /\ a.sym.h[3] = EncStatic(i)
        /\ a.st = "sent" /\ Len(a.sym.h) = 4 => a.sym = SentSym(i)

\* What an initiator finished with is the other half of a session of the node.
ResInv(i) == \A r \in ini[i].res :
    /\ TargetOf[i] = OwnStatic
    /\ \E k \in DOMAIN table :
        /\ table[k].keys = [send |-> r.recv, recv |-> r.send, hash |-> r.hash]
        /\ table[k].peer = StaticOf[i] /\ r.send # r.recv

\* An initiation: the sealed static key is one an initiator has sealed.
InitiationInv(b) ==
    /\ b = [type |-> 1, sender |-> b.sender, e |-> b.e, encStatic |-> b.encStatic, encTime |-> b.encTime]
    /\ b.e = Zero \/ \E j \in Attempts : b.e = Eph(j)
    /\ \E j \in Attempts : ini[j].st # "new" /\ b.encStatic = EncStatic(j)

\* The session a sealed answer belongs to.
AnswerOf(s, enc) ==
    /\ enc = <<"ct", enc[2], 0, enc[4], <<>> >>
    /\ s.keys = [send |-> <<"c2", enc[2]>>, recv |-> <<"c1", enc[2]>>, hash |-> Append(enc[4], enc)]
    /\ enc[4][1] = Pub(OwnStatic) /\ Plain(enc[4][3]) = s.peer

\* A response: what it seals is the answer of one session.
ResponseInv(b) ==
    /\ b = [type |-> 2, sender |-> b.sender, receiver |-> b.receiver, e |-> b.e, enc |-> b.enc]
    /\ \E k \in DOMAIN table : AnswerOf(table[k], b.enc)

\* A whole message to or from an attempt.
OwnInv(p) == p.of \in Attempts =>
    IF p.msg.body.type = 1 THEN p.msg = Framed(SentBody(p.of))
    ELSE /\ p.msg.body.e # Zero
         /\ p.msg = Framed(AnswerBody(SentBody(p.of), p.msg.body.sender, p.msg.body.e))

NetInv(p) ==
    /\ p.msg = [body |-> p.msg.body, mac1 |-> p.msg.mac1, mac2 |-> p.msg.mac2]
    /\ IF p.msg.body.type = 1 THEN InitiationInv(p.msg.body) ELSE ResponseInv(p.msg.body)
    /\ OwnInv(p)

\* A session of the node: its peer has started a handshake, and a fresh key of the node's
\* is part of its keys.
TableInv(s) ==
    /\ \E i \in Attempts : ini[i].st # "new" /\ StaticOf[i] = s.peer /\ TargetOf[i] = OwnStatic
    /\ \E f \in 0 .. fresh, j \in Attempts :
        f < fresh /\ s.keys.send[2][3] = Dh(<<"r", f>>, Eph(j))

NoiseInv ==
    /\ fresh \in Nat /\ DOMAIN ini = Attempts /\ IsSeq(table)
    /\ \A i \in Attempts : IniInv(i) /\ ResInv(i)
    /\ \A p \in net : NetInv(p)
    /\ \A k \in DOMAIN table : TableInv(table[k])
    /\ \A k, l \in DOMAIN table : k # l => table[k].keys.send # table[l].keys.send

\* A sequence of two or four.
LEMMA OwnSeq ==
  ASSUME NEW S, NEW s \in Seq(S) PROVE IsSeq(s)
  <1>1. DOMAIN s = 1 .. Len(s) /\ Len(s) \in Nat
    OBVIOUS
  <1>2. \A k \in 1 .. Len(s) : s[k] \in Range(s)
    BY <1>1 DEF Range
  <1> QED BY <1>1, <1>2 DEF IsSeq

\* Two and four make a sequence of their own.
LEMMA TupleSeqs ==
  ASSUME NEW a, NEW b, NEW c, NEW d
  PROVE  /\ IsSeq(<<a, b>>) /\ IsSeq(<<a, b, c, d>>) /\ Len(<<a, b, c, d>>) = 4
         /\ <<a, b, c, d>>[1] = a /\ <<a, b, c, d>>[3] = c
  <1>1. <<a, b>> \in Seq({a, b}) /\ <<a, b, c, d>> \in Seq({a, b, c, d})
    OBVIOUS
  <1>2. IsSeq(<<a, b>>)
    BY <1>1, OwnSeq, Zenon
  <1>3. IsSeq(<<a, b, c, d>>)
    BY <1>1, OwnSeq, Zenon
  <1>4. Len(<<a, b, c, d>>) = 4 /\ <<a, b, c, d>>[1] = a /\ <<a, b, c, d>>[3] = c
    OBVIOUS
  <1> QED BY <1>2, <1>3, <1>4, Zenon

\* What is sent is the start of a transcript.
LEMMA SentStart ==
  ASSUME NEW i
  PROVE  LET s == SentSym(i)
         IN  /\ s = Sym(s.h, s.ck, s.n) /\ IsSeq(s.h) /\ IsSeq(s.ck) /\ Len(s.h) = 4
             /\ s.h[1] = Pub(TargetOf[i]) /\ s.h[3] = EncStatic(i)
  <1> DEFINE a == Pub(TargetOf[i])
             p == Pub(Eph(i))
             x == EncStatic(i)
             y == EncTime(i)
             d1 == Dh(Eph(i), TargetOf[i])
             d2 == Dh(StaticOf[i], TargetOf[i])
             s == SentSym(i)
  <1>1. s = Sym(<<a, p, x, y>>, <<d1, d2>>, 1)
    BY Zenon DEF SentSym, InitKeys
  <1> HIDE DEF a, p, x, y, d1, d2, s
  <1>2. s.h = <<a, p, x, y>> /\ s.ck = <<d1, d2>> /\ s.n = 1
    <2> DEFINE hh == <<a, p, x, y>>
               cc == <<d1, d2>>
    <2> HIDE DEF hh, cc
    <2>1. s = Sym(hh, cc, 1)
      BY <1>1, Zenon DEF hh, cc
    <2>2. s.h = hh /\ s.ck = cc /\ s.n = 1
      BY <2>1 DEF Sym
    <2> QED BY <2>2, Zenon DEF hh, cc
  <1>3. /\ IsSeq(<<a, p, x, y>>) /\ IsSeq(<<d1, d2>>) /\ Len(<<a, p, x, y>>) = 4
        /\ <<a, p, x, y>>[1] = a /\ <<a, p, x, y>>[3] = x
    BY TupleSeqs, Zenon
  <1>4. s = Sym(s.h, s.ck, s.n) /\ IsSeq(s.h) /\ IsSeq(s.ck) /\ Len(s.h) = 4 /\ s.h[1] = a /\ s.h[3] = x
    BY <1>1, <1>2, <1>3, Zenon
  <1> QED BY <1>4, Zenon DEF s, a, x

\* A framed body passes the mac1 gate.
LEMMA FramedOk ==
  ASSUME NEW b PROVE Mac1Ok(OwnSig, Framed(b)) /\ Framed(b).body = b
  BY DEF Mac1Ok, Framed

\* Both ends compute one shared secret.
LEMMA DhSwaps ==
  ASSUME NEW a, NEW b PROVE Dh(a, b) = Dh(b, a)
  <1>1. {a, b} = {b, a}
    OBVIOUS
  <1> QED BY <1>1, Zenon DEF Dh

\* Two fresh keys of the node never meet in one shared secret.
LEMMA FreshApart ==
  ASSUME NEW f, NEW g, NEW i, NEW j, Dh(<<"r", f>>, Eph(i)) = Dh(<<"r", g>>, Eph(j))
  PROVE  f = g
  <1> DEFINE x == <<"r", f>>
             y == <<"r", g>>
             u == Eph(i)
             v == Eph(j)
  <1>1. x # v
    BY DEF Eph
  <1>2. {x, u} = {y, v}
    BY DEF Dh
  <1> HIDE DEF x, y, u, v
  <1>3. x = y
    BY <1>1, <1>2
  <1> QED BY <1>3 DEF x, y

-----------------------------------------------------------------------------
\* read_response, from any state of the initiator.
LEMMA TakenForm ==
  ASSUME NEW i, NEW m, NEW h, NEW ck, NEW n,
         ini[i].sym = Sym(h, ck, n), IsSeq(h), IsSeq(ck)
  PROVE  LET b == m.body
             r == ReadResponse(i, m)
             H == Append(h, Pub(b.e))
             K == Append(Append(ck, Dh(ini[i].eph, b.e)), Dh(StaticOf[i], b.e))
         IN  /\ r.ok \in BOOLEAN
             /\ r.ok <=> Mac1Ok(OwnSig, m) /\ b.e # Zero /\ b.enc = <<"ct", K, 0, H, Plain(b.enc)>>
             /\ r.ok => r.sym = Sym(Append(H, b.enc), K, 1)
             /\ ~r.ok => r.sym \in {ini[i].sym, Sym(H, ck, n), Sym(H, K, 0)}
  <1> DEFINE b == m.body
             r == ReadResponse(i, m)
             p == Pub(b.e)
             d3 == Dh(ini[i].eph, b.e)
             d4 == Dh(StaticOf[i], b.e)
             H == Append(h, p)
             K == Append(Append(ck, d3), d4)
             z == Plain(b.enc)
             c == b.enc
             S == ini[i].sym
             s0 == MixHash(S, p)
             s1 == MixKey(MixKey(s0, d3), d4)
             mac == Mac1Ok(OwnSig, m)
  <1>1. r = IF ~mac THEN [ok |-> FALSE, sym |-> S]
            ELSE IF b.e = Zero THEN [ok |-> FALSE, sym |-> s0]
            ELSE IF c # Sealed(s1, z) THEN [ok |-> FALSE, sym |-> s1]
            ELSE [ok |-> TRUE, sym |-> AfterCipher(s1, c)]
    BY Zenon DEF ReadResponse, DhFails, Decrypts, Pub
  <1> HIDE DEF p, d3, d4, z, c, mac
  <1>2. K # <<>>
    <2> DEFINE k1 == Append(ck, d3)
    <2>1. IsSeq(k1)
      BY Appended, Zenon
    <2> HIDE DEF k1
    <2>2. Append(k1, d4) # <<>>
      BY <2>1, Appended, Zenon
    <2> QED BY <2>2 DEF k1
  <1> HIDE DEF r
  <1>3. s0 = Sym(H, ck, n)
    <2>1. MixHash(Sym(h, ck, n), p) = Sym(H, ck, n)
      BY MixHashSym, Zenon
    <2> QED BY <2>1, Zenon
  <1>4. s1 = Sym(H, K, 0)
    <2>1. MixKey(Sym(H, ck, n), d3) = Sym(H, Append(ck, d3), 0)
      BY MixKeySym, Zenon
    <2>2. MixKey(Sym(H, Append(ck, d3), 0), d4) = Sym(H, Append(Append(ck, d3), d4), 0)
      BY MixKeySym, Zenon
    <2> QED BY <1>3, <2>1, <2>2, Zenon
  <1> HIDE DEF H, K, s0, s1, S
  <1>5. Sealed(s1, z) = <<"ct", K, 0, H, z>>
    <2>1. Sealed(Sym(H, K, 0), z) = <<"ct", K, 0, H, z>>
      BY <1>2, SealedSym, Zenon
    <2> QED BY <1>4, <2>1, Zenon
  <1>6. AfterCipher(s1, c) = Sym(Append(H, c), K, 1)
    <2>1. AfterCipher(Sym(H, K, 0), c) = Sym(Append(H, c), K, 0 + 1)
      BY <1>2, AfterCipherSym, Zenon
    <2>2. 0 + 1 = 1
      OBVIOUS
    <2> QED BY <1>4, <2>1, <2>2, Zenon
  <1> DEFINE good == c = <<"ct", K, 0, H, z>>
             T1 == Sym(Append(H, c), K, 1)
             T2 == Sym(H, ck, n)
             T3 == Sym(H, K, 0)
             zero == b.e = Zero
  <1>7. r = IF ~mac THEN [ok |-> FALSE, sym |-> S]
            ELSE IF zero THEN [ok |-> FALSE, sym |-> T2]
            ELSE IF ~good THEN [ok |-> FALSE, sym |-> T3]
            ELSE [ok |-> TRUE, sym |-> T1]
    BY <1>1, <1>3, <1>4, <1>5, <1>6, Zenon
  <1> HIDE DEF good, T1, T2, T3, zero
  <1>8. /\ r.ok \in BOOLEAN /\ (r.ok <=> mac /\ ~zero /\ good)
        /\ (r.ok => r.sym = T1) /\ (~r.ok => r.sym \in {S, T2, T3})
    <2>1. CASE ~mac
      <3>1. r = [ok |-> FALSE, sym |-> S]
        BY <1>7, <2>1, Zenon
      <3>2. r.ok = FALSE /\ r.sym = S
        BY <3>1
      <3> QED BY <2>1, <3>2
    <2>2. CASE mac /\ zero
      <3>1. r = [ok |-> FALSE, sym |-> T2]
        BY <1>7, <2>2, Zenon
      <3>2. r.ok = FALSE /\ r.sym = T2
        BY <3>1
      <3> QED BY <2>2, <3>2
    <2>3. CASE mac /\ ~zero /\ ~good
      <3>1. r = [ok |-> FALSE, sym |-> T3]
        BY <1>7, <2>3, Zenon
      <3>2. r.ok = FALSE /\ r.sym = T3
        BY <3>1
      <3> QED BY <2>3, <3>2
    <2>4. CASE mac /\ ~zero /\ good
      <3>1. r = [ok |-> TRUE, sym |-> T1]
        BY <1>7, <2>4, Zenon
      <3>2. r.ok = TRUE /\ r.sym = T1
        BY <3>1
      <3> QED BY <2>4, <3>2
    <2> QED BY <2>1, <2>2, <2>3, <2>4
  <1> QED BY <1>8, Zenon DEF good, T1, T2, T3, zero, S, H, K, p, d3, d4, z, c, mac, r

\* What a step leaves behind it: a handshake that has begun stays begun, a session stays,
\* and fresh keys are counted up.
Onwards ==
    /\ \A j \in Attempts : ini[j].st # "new" => ini'[j].st # "new"
    /\ DOMAIN table \subseteq DOMAIN table' /\ \A k \in DOMAIN table : table'[k] = table[k]
    /\ fresh \in Nat /\ fresh' \in Nat /\ fresh <= fresh'

\* What is known of a message stays true of it.
LEMMA NetKeeps ==
  ASSUME Onwards, NEW p, NetInv(p) PROVE NetInv(p)'
  <1> DEFINE b == p.msg.body
  <1>1. ASSUME InitiationInv(b) PROVE InitiationInv(b)'
    <2>1. PICK j \in Attempts : ini[j].st # "new" /\ b.encStatic = EncStatic(j)
      BY <1>1, Zenon DEF InitiationInv
    <2>2. ini'[j].st # "new"
      BY <2>1, Zenon DEF Onwards
    <2> HIDE DEF b
    <2>3. /\ b = [type |-> 1, sender |-> b.sender, e |-> b.e, encStatic |-> b.encStatic, encTime |-> b.encTime]
          /\ b.e = Zero \/ \E l \in Attempts : b.e = Eph(l)
      BY <1>1, Zenon DEF InitiationInv
    <2> QED BY <2>1, <2>2, <2>3, Zenon DEF InitiationInv
  <1>2. ASSUME ResponseInv(b) PROVE ResponseInv(b)'
    <2> HIDE DEF b
    <2>1. PICK k \in DOMAIN table : AnswerOf(table[k], b.enc)
      BY <1>2, Zenon DEF ResponseInv
    <2>2. k \in DOMAIN table' /\ table'[k] = table[k]
      BY <2>1 DEF Onwards
    <2>3. AnswerOf(table'[k], b.enc)
      BY <2>1, <2>2, Zenon
    <2>4. b = [type |-> 2, sender |-> b.sender, receiver |-> b.receiver, e |-> b.e, enc |-> b.enc]
      BY <1>2, Zenon DEF ResponseInv
    <2> QED BY <2>2, <2>3, <2>4, Zenon DEF ResponseInv, AnswerOf
  <1>3. /\ p.msg = [body |-> b, mac1 |-> p.msg.mac1, mac2 |-> p.msg.mac2]
        /\ IF b.type = 1 THEN InitiationInv(b) ELSE ResponseInv(b)
        /\ OwnInv(p)
    BY Zenon DEF NetInv
  <1>4. OwnInv(p)'
    BY <1>3, Zenon DEF OwnInv
  <1>5. IF b.type = 1 THEN InitiationInv(b)' ELSE ResponseInv(b)'
    BY <1>1, <1>2, <1>3, Zenon
  <1> QED BY <1>3, <1>4, <1>5, Zenon DEF NetInv

\* What is known of a session stays true of it.
LEMMA TableKeeps ==
  ASSUME Onwards, NEW k \in DOMAIN table, TableInv(table[k])
  PROVE  k \in DOMAIN table' /\ TableInv(table[k])'
  <1>1. k \in DOMAIN table' /\ table'[k] = table[k]
    BY DEF Onwards
  <1>2. \E i \in Attempts : ini'[i].st # "new" /\ StaticOf[i] = table[k].peer /\ TargetOf[i] = OwnStatic
    BY Zenon DEF TableInv, Onwards
  <1>3. PICK f \in 0 .. fresh, j \in Attempts :
          f < fresh /\ table[k].keys.send[2][3] = Dh(<<"r", f>>, Eph(j))
    BY Zenon DEF TableInv
  <1>4. f \in 0 .. fresh' /\ f < fresh'
    BY <1>3 DEF Onwards
  <1> QED BY <1>1, <1>2, <1>3, <1>4, Zenon DEF TableInv

\* What is known of a finished handshake stays true of it.
LEMMA ResKeeps ==
  ASSUME Onwards, NEW i \in Attempts, ResInv(i), ini'[i].res = ini[i].res PROVE ResInv(i)'
  <1> SUFFICES ASSUME NEW r \in ini[i].res
               PROVE  /\ TargetOf[i] = OwnStatic
                      /\ \E k \in DOMAIN table' :
                          /\ table'[k].keys = [send |-> r.recv, recv |-> r.send, hash |-> r.hash]
                          /\ table'[k].peer = StaticOf[i] /\ r.send # r.recv
    BY Zenon DEF ResInv
  <1>1. TargetOf[i] = OwnStatic
    BY Zenon DEF ResInv
  <1>2. PICK k \in DOMAIN table :
          /\ table[k].keys = [send |-> r.recv, recv |-> r.send, hash |-> r.hash]
          /\ table[k].peer = StaticOf[i] /\ r.send # r.recv
    BY Zenon DEF ResInv
  <1>3. k \in DOMAIN table' /\ table'[k] = table[k]
    BY <1>2 DEF Onwards
  <1> QED BY <1>1, <1>2, <1>3, Zenon

\* An initiator that takes no step keeps its state.
LEMMA IniKeeps ==
  ASSUME NEW i \in Attempts, IniInv(i), ini'[i] = ini[i] PROVE IniInv(i)'
  BY Zenon DEF IniInv

-----------------------------------------------------------------------------
\* The invariant holds at the start.
LEMMA NoiseInitHolds ==
  NoiseInit => NoiseInv
  <1> SUFFICES ASSUME NoiseInit PROVE NoiseInv
    OBVIOUS
  <1>1. fresh \in Nat /\ DOMAIN ini = Attempts /\ net = {} /\ table = <<>>
    BY DEF NoiseInit
  <1>2. ASSUME NEW i \in Attempts PROVE IniInv(i) /\ ResInv(i)
    <2> DEFINE S == InitiatorSym(TargetOf[i])
    <2>1. ini[i] = [st |-> "new", sym |-> S, eph |-> Zero, res |-> {}]
      BY <1>2, Zenon DEF NoiseInit
    <2> HIDE DEF S
    <2>2. ini[i].st = "new" /\ ini[i].sym = S /\ ini[i].eph = Zero /\ ini[i].res = {}
      BY <2>1
    <2>3. IniInv(i)
      <3>1. ini[i].st # "sent" /\ ini[i].st \in {"new", "sent", "done"}
        BY <2>2
      <3> QED BY <2>1, <2>2, <3>1, Zenon DEF IniInv
    <2>4. ResInv(i)
      BY <2>2 DEF ResInv
    <2> QED BY <2>3, <2>4
  <1>3. IsSeq(table) /\ DOMAIN table = {}
    BY <1>1 DEF IsSeq
  <1> QED BY <1>1, <1>2, <1>3 DEF NoiseInv

-----------------------------------------------------------------------------
\* An initiator that sends its initiation keeps the invariant.
LEMMA InitiateKeeps ==
  ASSUME NoiseInv, NEW i \in Attempts, Initiate(i) PROVE NoiseInv'
  <1> DEFINE a == ini[i]
             q == [of |-> i, msg |-> Framed(SentBody(i))]
             S == SentSym(i)
  <1>1. Initiation(i).eph = Eph(i) /\ Initiation(i).sym = S /\ Initiation(i).msg = Framed(SentBody(i))
    <2> DEFINE M == Framed(SentBody(i))
               E == Eph(i)
    <2>1. Initiation(i) = [eph |-> E, sym |-> S, msg |-> M]
      BY InitiationForm, Zenon
    <2> HIDE DEF S, M, E
    <2> QED BY <2>1 DEF M, E
  <1>2. /\ a.st = "new" /\ net' = net \cup {q} /\ table' = table /\ fresh' = fresh
        /\ ini' = [ini EXCEPT ![i].st = "sent", ![i].eph = Eph(i), ![i].sym = S]
    BY <1>1, Zenon DEF Initiate
  <1>3. /\ a = [st |-> a.st, sym |-> a.sym, eph |-> a.eph, res |-> a.res] /\ a.res = {}
        /\ DOMAIN ini = Attempts /\ fresh \in Nat /\ IsSeq(table)
    BY <1>2 DEF NoiseInv, IniInv
  <1> HIDE DEF S
  <1>4. /\ DOMAIN ini' = Attempts /\ \A j \in Attempts \ {i} : ini'[j] = ini[j]
        /\ ini'[i] = [st |-> "sent", sym |-> S, eph |-> Eph(i), res |-> {}]
    <2> DEFINE E == Eph(i)
    <2> HIDE DEF E
    <2>1. ini' = [ini EXCEPT ![i].st = "sent", ![i].eph = E, ![i].sym = S]
      BY <1>2, Zenon DEF E
    <2>2. DOMAIN ini' = Attempts /\ \A j \in Attempts \ {i} : ini'[j] = ini[j]
      BY <1>3, <2>1
    <2>3. ini'[i] = [[[a EXCEPT !.st = "sent"] EXCEPT !.eph = E] EXCEPT !.sym = S]
      BY <1>3, <2>1
    <2> DEFINE x1 == a.st
               x2 == a.sym
               x3 == a.eph
    <2>4. a = [st |-> x1, sym |-> x2, eph |-> x3, res |-> {}]
      BY <1>3
    <2> HIDE DEF x1, x2, x3, a
    <2>5. [[[a EXCEPT !.st = "sent"] EXCEPT !.eph = E] EXCEPT !.sym = S] = [st |-> "sent", sym |-> S, eph |-> E, res |-> {}]
      <3>1. [a EXCEPT !.st = "sent"] = [st |-> "sent", sym |-> x2, eph |-> x3, res |-> {}]
        BY <2>4
      <3>2. [[st |-> "sent", sym |-> x2, eph |-> x3, res |-> {}] EXCEPT !.eph = E]
              = [st |-> "sent", sym |-> x2, eph |-> E, res |-> {}]
        OBVIOUS
      <3>3. [[st |-> "sent", sym |-> x2, eph |-> E, res |-> {}] EXCEPT !.sym = S]
              = [st |-> "sent", sym |-> S, eph |-> E, res |-> {}]
        OBVIOUS
      <3> QED BY <3>1, <3>2, <3>3, Zenon
    <2> QED BY <2>2, <2>3, <2>5, Zenon DEF E, a
  <1>5. ini'[i].st = "sent" /\ ini'[i].sym = S /\ ini'[i].eph = Eph(i) /\ ini'[i].res = {}
    BY <1>4
  <1>6. Onwards
    <2>1. \A j \in Attempts : ini[j].st # "new" => ini'[j].st # "new"
      BY <1>4, <1>5
    <2> QED BY <1>2, <1>3, <2>1 DEF Onwards
  <1>7. IniInv(i)'
    <2>1. /\ S = Sym(S.h, S.ck, S.n) /\ IsSeq(S.h) /\ IsSeq(S.ck) /\ Len(S.h) = 4
          /\ S.h[1] = Pub(TargetOf[i]) /\ S.h[3] = EncStatic(i)
      BY SentStart, Zenon DEF S
    <2>2. Len(S.h) >= 4 /\ "sent" \in {"new", "sent", "done"}
      BY <2>1
    <2>3. ini'[i] = [st |-> ini'[i].st, sym |-> ini'[i].sym, eph |-> ini'[i].eph, res |-> ini'[i].res]
      BY <1>4, <1>5
    <2> QED BY <1>5, <2>1, <2>2, <2>3, Zenon DEF IniInv, S
  <1>8. ResInv(i)'
    BY <1>5, Zenon DEF ResInv
  <1>9. \A j \in Attempts : IniInv(j)' /\ ResInv(j)'
    <2> TAKE j \in Attempts
    <2>1. CASE j = i
      BY <1>7, <1>8, <2>1, Zenon
    <2>2. CASE j # i
      <3>1. ini'[j] = ini[j] /\ IniInv(j) /\ ResInv(j)
        BY <1>4, <2>2 DEF NoiseInv
      <3> QED BY <1>6, <3>1, IniKeeps, ResKeeps, Zenon
    <2> QED BY <2>1, <2>2, Zenon
  <1>10. NetInv(q)'
    <2> DEFINE b == SentBody(i)
    <2>1. q.of = i /\ q.msg = Framed(b) /\ q.msg.body = b
      BY FramedOk
    <2>2. /\ b = [type |-> 1, sender |-> b.sender, e |-> b.e, encStatic |-> b.encStatic, encTime |-> b.encTime]
          /\ b.type = 1 /\ b.e = Eph(i) /\ b.encStatic = EncStatic(i)
      <3> DEFINE E == Eph(i)
                 X == EncStatic(i)
                 Y == EncTime(i)
      <3>1. b = [type |-> 1, sender |-> i, e |-> E, encStatic |-> X, encTime |-> Y]
        BY Zenon DEF SentBody
      <3> HIDE DEF b, E, X, Y
      <3>2. /\ b = [type |-> 1, sender |-> b.sender, e |-> b.e, encStatic |-> b.encStatic, encTime |-> b.encTime]
            /\ b.type = 1 /\ b.e = E /\ b.encStatic = X
        BY <3>1
      <3> QED BY <3>2, Zenon DEF E, X
    <2> HIDE DEF b
    <2>3. ini'[i].st # "new"
      BY <1>5
    <2>4. InitiationInv(b)'
      BY <2>2, <2>3, Zenon DEF InitiationInv, b
    <2>5. OwnInv(q)'
      BY <2>1, <2>2, Zenon DEF OwnInv, b
    <2>6. q.msg = [body |-> q.msg.body, mac1 |-> q.msg.mac1, mac2 |-> q.msg.mac2]
      BY <2>1 DEF Framed
    <2> HIDE DEF q
    <2> QED BY <2>1, <2>2, <2>4, <2>5, <2>6, Zenon DEF NetInv
  <1>11. \A p \in net' : NetInv(p)'
    <2> TAKE p \in net'
    <2>1. p \in net \/ p = q
      BY <1>2
    <2>2. CASE p \in net
      BY <1>6, <2>2, NetKeeps, Zenon DEF NoiseInv
    <2> QED BY <1>10, <2>1, <2>2, Zenon
  <1>12. \A k \in DOMAIN table' : TableInv(table[k])'
    BY <1>2, <1>6, TableKeeps, Zenon DEF NoiseInv
  <1>13. \A k, l \in DOMAIN table' : k # l => table'[k].keys.send # table'[l].keys.send
    BY <1>2, Zenon DEF NoiseInv
  <1>14. fresh' \in Nat /\ IsSeq(table')
    BY <1>2, <1>3, Zenon
  <1> QED BY <1>4, <1>9, <1>11, <1>12, <1>13, <1>14, Zenon DEF NoiseInv

\* The parts of the invariant that a step has to show anew.
LEMMA StepCloses ==
  ASSUME NoiseInv, Onwards, DOMAIN ini' = Attempts, IsSeq(table'),
         \A i \in Attempts : IniInv(i)' /\ ResInv(i)',
         \A p \in net' \ net : NetInv(p)',
         \A k \in DOMAIN table' \ DOMAIN table : TableInv(table[k])',
         \A k, l \in DOMAIN table' : k # l => table'[k].keys.send # table'[l].keys.send
  PROVE  NoiseInv'
  <1>1. \A p \in net' : NetInv(p)'
    BY NetKeeps, Zenon DEF NoiseInv
  <1>2. \A k \in DOMAIN table' : TableInv(table[k])'
    BY TableKeeps, Zenon DEF NoiseInv
  <1>3. fresh' \in Nat
    BY DEF Onwards
  <1> QED BY <1>1, <1>2, <1>3, Zenon DEF NoiseInv

\* Nothing happens to the initiators.
LEMMA IniUnchanged ==
  ASSUME NoiseInv, Onwards, ini' = ini
  PROVE  DOMAIN ini' = Attempts /\ \A i \in Attempts : IniInv(i)' /\ ResInv(i)'
  <1>1. ASSUME NEW i \in Attempts PROVE IniInv(i)' /\ ResInv(i)'
    <2>1. IniInv(i) /\ ResInv(i) /\ ini'[i] = ini[i]
      BY <1>1, Zenon DEF NoiseInv
    <2> QED BY <2>1, IniKeeps, ResKeeps, Zenon
  <1>2. DOMAIN ini' = Attempts
    BY Zenon DEF NoiseInv
  <1> QED BY <1>1, <1>2, Zenon

\* A readable initiation of the network names an initiator that knows the node.
LEMMA ReadableFrom ==
  ASSUME NoiseInv, NEW p \in net, p.msg.body.type = 1, Readable(p.msg)
  PROVE  LET b == p.msg.body
         IN  /\ \E j \in Attempts : b.e = Eph(j)
             /\ \E i \in Attempts : ini[i].st # "new" /\ StaticOf[i] = Plain(b.encStatic) /\ TargetOf[i] = OwnStatic
  <1> DEFINE b == p.msg.body
  <1>1. InitiationInv(b)
    BY Zenon DEF NoiseInv, NetInv
  <1>2. \E j \in Attempts : b.e = Eph(j)
    BY <1>1, Zenon DEF InitiationInv, Readable
  <1>3. PICK i \in Attempts : ini[i].st # "new" /\ b.encStatic = EncStatic(i)
    BY <1>1, Zenon DEF InitiationInv
  <1> DEFINE x == b.encStatic
             rs == Plain(x)
             d == Dh(OwnStatic, b.e)
             pe == Pub(b.e)
             T == TargetOf[i]
             S == StaticOf[i]
             dd == Dh(Eph(i), T)
             pp == Pub(Eph(i))
  <1>4. x = <<"ct", <<d>>, 0, <<Pub(OwnStatic), pe>>, rs>>
    BY Zenon DEF Readable
  <1>5. x = <<"ct", <<dd>>, 0, <<Pub(T), pp>>, S>>
    BY <1>3, Zenon DEF EncStatic
  <1>6. rs = S
    <2> DEFINE u1 == <<dd>>
               u2 == <<Pub(T), pp>>
    <2> HIDE DEF u1, u2, S, x
    <2>1. x = <<"ct", u1, 0, u2, S>>
      BY <1>5, Zenon DEF u1, u2
    <2> QED BY <2>1 DEF Plain
  <1>7. Pub(OwnStatic) = Pub(T)
    <2> DEFINE v1 == <<d>>
               v2 == <<Pub(OwnStatic), pe>>
               u1 == <<dd>>
               u2 == <<Pub(T), pp>>
    <2>1. v2[1] = Pub(OwnStatic) /\ u2[1] = Pub(T)
      OBVIOUS
    <2> HIDE DEF v1, v2, u1, u2, S, x, rs
    <2>2. x = <<"ct", v1, 0, v2, rs>>
      BY <1>4, Zenon DEF v1, v2
    <2>3. x = <<"ct", u1, 0, u2, S>>
      BY <1>5, Zenon DEF u1, u2
    <2>4. x[4] = v2 /\ x[4] = u2
      BY <2>2, <2>3
    <2> QED BY <2>1, <2>4, Zenon
  <1> HIDE DEF x, d, pe, S, dd, pp
  <1>8. T = OwnStatic
    BY <1>7 DEF Pub
  <1> QED BY <1>2, <1>3, <1>6, <1>8, Zenon DEF S, x

\* What finalize keeps of the node's side.
LEMMA FinalForm ==
  ASSUME NEW h, NEW ck, NEW n
  PROVE  /\ FinalizeResponder(Sym(h, ck, n)) = [send |-> <<"c2", ck>>, recv |-> <<"c1", ck>>, hash |-> h]
         /\ FinalizeInitiator(Sym(h, ck, n)) = [send |-> <<"c1", ck>>, recv |-> <<"c2", ck>>, hash |-> h]
  <1> DEFINE s == Sym(h, ck, n)
  <1>1. s.h = h /\ s.ck = ck
    BY DEF Sym
  <1> HIDE DEF s
  <1>2. Split(s)[1] = <<"c1", ck>> /\ Split(s)[2] = <<"c2", ck>>
    BY <1>1 DEF Split
  <1> QED BY <1>1, <1>2, Zenon DEF FinalizeResponder, FinalizeInitiator, s

\* The session and the answer that a readable initiation with body b gives.
NewSession(b, e) ==
    [keys |-> [send |-> <<"c2", AnswerKeys(b, e)>>, recv |-> <<"c1", AnswerKeys(b, e)>>,
               hash |-> Append(AnswerHash(b, e), AnswerEnc(b, e))],
     peer |-> Plain(b.encStatic)]

\* write_response and finalize make just these.
LEMMA AnswerMade ==
  ASSUME NEW b, NEW slot, NEW e
  PROVE  LET w == Response(ReadInfo(b), slot, e)
         IN  /\ w.msg = Framed(AnswerBody(b, slot, e))
             /\ [keys |-> FinalizeResponder(w.sym), peer |-> ReadInfo(b).rs] = NewSession(b, e)
             /\ AnswerOf(NewSession(b, e), AnswerEnc(b, e))
             /\ NewSession(b, e).keys.send[2][3] = Dh(e, b.e)
  <1> DEFINE w == Response(ReadInfo(b), slot, e)
             K == AnswerKeys(b, e)
             H == AnswerHash(b, e)
             C == AnswerEnc(b, e)
             HC == Append(H, C)
             M == Framed(AnswerBody(b, slot, e))
             rs == Plain(b.encStatic)
             nil == <<>>
             s == NewSession(b, e)
  <1>1. w = [sym |-> Sym(HC, K, 1), msg |-> M]
    BY ResponseForm, Zenon
  <1>2. C = <<"ct", K, 0, H, nil>>
    BY Zenon DEF AnswerEnc
  <1>3. K[3] = Dh(e, b.e) /\ H[1] = Pub(OwnStatic) /\ H[3] = b.encStatic
    <2> DEFINE c1 == Dh(OwnStatic, b.e)
               c2 == Dh(OwnStatic, rs)
               c3 == Dh(e, b.e)
               c4 == Dh(e, rs)
               h1 == Pub(OwnStatic)
               h2 == Pub(b.e)
               h3 == b.encStatic
               h4 == b.encTime
               h5 == Pub(e)
    <2>1. K = <<c1, c2, c3, c4>> /\ H = <<h1, h2, h3, h4, h5>>
      BY Zenon DEF AnswerKeys, AnswerHash
    <2> HIDE DEF K, H, c1, c2, c3, c4, h1, h2, h3, h4, h5
    <2>2. K[3] = c3 /\ H[1] = h1 /\ H[3] = h3
      BY <2>1
    <2> QED BY <2>2, Zenon DEF c3, h1, h3
  <1>4. s = [keys |-> [send |-> <<"c2", K>>, recv |-> <<"c1", K>>, hash |-> HC], peer |-> rs]
    BY Zenon DEF NewSession
  <1>5. ReadInfo(b).rs = rs
    BY DEF ReadInfo
  <1> HIDE DEF w, K, H, C, M, rs, nil, s
  <1>6. w.msg = M /\ w.sym = Sym(HC, K, 1)
    <2> DEFINE A == Sym(HC, K, 1)
    <2>1. w = [sym |-> A, msg |-> M]
      BY <1>1, Zenon
    <2> HIDE DEF A
    <2>2. w.msg = M /\ w.sym = A
      BY <2>1
    <2> QED BY <2>2, Zenon DEF A
  <1>7. [keys |-> FinalizeResponder(w.sym), peer |-> ReadInfo(b).rs] = s
    <2>1. FinalizeResponder(Sym(HC, K, 1)) = [send |-> <<"c2", K>>, recv |-> <<"c1", K>>, hash |-> HC]
      BY FinalForm, Zenon
    <2> QED BY <1>4, <1>5, <1>6, <2>1, Zenon
  <1>8. C[2] = K /\ C[4] = H
    BY <1>2
  <1> DEFINE ks == [send |-> <<"c2", K>>, recv |-> <<"c1", K>>, hash |-> HC]
  <1>9. s.keys = ks /\ s.peer = rs
    <2> HIDE DEF ks
    <2>1. s = [keys |-> ks, peer |-> rs]
      BY <1>4, Zenon DEF ks
    <2> QED BY <2>1
  <1>10. AnswerOf(s, C)
    <2>1. C = <<"ct", C[2], 0, C[4], <<>> >>
      BY <1>2, <1>8, Zenon DEF nil
    <2>2. s.keys = [send |-> <<"c2", C[2]>>, recv |-> <<"c1", C[2]>>, hash |-> Append(C[4], C)]
      BY <1>8, <1>9, Zenon
    <2>3. C[4][1] = Pub(OwnStatic) /\ Plain(C[4][3]) = s.peer
      BY <1>3, <1>8, <1>9, Zenon DEF rs
    <2> QED BY <2>1, <2>2, <2>3, Zenon DEF AnswerOf
  <1>11. s.keys.send[2][3] = Dh(e, b.e)
    <2> DEFINE sd == <<"c2", K>>
               rv == <<"c1", K>>
    <2>1. sd[2] = K
      OBVIOUS
    <2> HIDE DEF sd, rv, HC
    <2>2. [send |-> sd, recv |-> rv, hash |-> HC].send = sd
      OBVIOUS
    <2>3. s.keys = [send |-> sd, recv |-> rv, hash |-> HC]
      BY <1>9, Zenon DEF sd, rv
    <2>4. s.keys.send[2] = K
      BY <2>1, <2>2, <2>3, Zenon
    <2> QED BY <1>3, <2>4, Zenon
  <1> QED BY <1>6, <1>7, <1>10, <1>11, Zenon DEF w, s, C, M

\* The node that reads an initiation, and answers or fails to, keeps the invariant.
LEMMA DatagramKeeps ==
  ASSUME NoiseInv, NEW p \in net, NEW sent \in BOOLEAN, ProcessDatagram(p, sent) PROVE NoiseInv'
  <1>0. PICK n, drawn : n = Len(table) /\ drawn = fresh
    OBVIOUS
  <1> DEFINE b == p.msg.body
             e == <<"r", drawn>>
             w == Response(ReadInfo(b), n, e)
             q == [of |-> p.of, msg |-> Framed(AnswerBody(b, n, e))]
             s == NewSession(b, e)
             t == Append(table, s)
  <1>1. b.type = 1 /\ ini' = ini /\ fresh' = fresh + 1 /\ fresh \in Nat /\ IsSeq(table)
    BY Zenon DEF ProcessDatagram, NoiseInv
  <1>2. /\ Readable(p.msg)
        /\ \/ net' = net /\ table' = table
           \/ net' = net \cup {q} /\ table' = t
    <2>1. PICK info \in ReadInitiation(p.msg) :
            LET v == Response(info, n, e)
            IN  IF sent
                THEN /\ net' = net \cup {[of |-> p.of, msg |-> v.msg]}
                     /\ table' = Append(table, [keys |-> FinalizeResponder(v.sym), peer |-> info.rs])
                ELSE UNCHANGED <<net, table>>
      BY <1>0, Zenon DEF ProcessDatagram
    <2>2. ReadInitiation(p.msg) = IF Readable(p.msg) THEN {ReadInfo(b)} ELSE {}
      BY ReadForm, Zenon
    <2>3. Readable(p.msg) /\ info = ReadInfo(b)
      <3> DEFINE I == ReadInfo(b)
                 R == Readable(p.msg)
                 A == ReadInitiation(p.msg)
      <3> HIDE DEF I, R, A
      <3>1. A = (IF R THEN {I} ELSE {}) /\ info \in A
        BY <2>1, <2>2, Zenon DEF I, R, A
      <3>2. R /\ info = I
        BY <3>1
      <3> QED BY <3>2, Zenon DEF I, R
    <2>4. w.msg = Framed(AnswerBody(b, n, e)) /\ [keys |-> FinalizeResponder(w.sym), peer |-> ReadInfo(b).rs] = s
      BY AnswerMade, Zenon
    <2>5. CASE sent
      <3>1. net' = net \cup {[of |-> p.of, msg |-> w.msg]}
        BY <2>1, <2>3, <2>5, Zenon
      <3>2. table' = Append(table, [keys |-> FinalizeResponder(w.sym), peer |-> ReadInfo(b).rs])
        BY <2>1, <2>3, <2>5, Zenon
      <3> QED BY <2>3, <2>4, <3>1, <3>2, Zenon
    <2>6. CASE ~sent
      <3>1. net' = net /\ table' = table
        BY <2>1, <2>6, Zenon
      <3> QED BY <2>3, <3>1, Zenon
    <2> QED BY <2>5, <2>6, Zenon
  <1>3. CASE net' = net /\ table' = table
    <2>1. Onwards
      BY <1>1, <1>3 DEF Onwards
    <2>2. \A k, l \in DOMAIN table' : k # l => table'[k].keys.send # table'[l].keys.send
      BY <1>3, Zenon DEF NoiseInv
    <2>3. net' \ net = {} /\ DOMAIN table' \ DOMAIN table = {}
      BY <1>3
    <2>4. IsSeq(table')
      BY <1>1, <1>3, Zenon
    <2> QED BY <1>1, <2>1, <2>2, <2>3, <2>4, IniUnchanged, StepCloses, Zenon
  <1>4. CASE net' = net \cup {q} /\ table' = t
    <2>1. /\ IsSeq(t) /\ n \in Nat /\ Len(t) = n + 1 /\ t[n + 1] = s /\ \A k \in 1 .. n : t[k] = table[k]
          /\ DOMAIN t = 1 .. n + 1 /\ DOMAIN table = 1 .. n
      <3> HIDE DEF s
      <3>1. /\ IsSeq(t) /\ n \in Nat /\ Len(t) = n + 1 /\ t[n + 1] = s /\ \A k \in 1 .. n : t[k] = table[k]
        BY <1>0, <1>1, Appended, Zenon
      <3>2. t \in Seq(Range(t)) /\ table \in Seq(Range(table))
        BY <1>1, <3>1, Zenon DEF IsSeq
      <3> HIDE DEF t
      <3>3. DOMAIN t = 1 .. Len(t)
        BY <3>2
      <3>4. DOMAIN table = 1 .. Len(table)
        BY <3>2
      <3> QED BY <1>0, <3>1, <3>3, <3>4
    <2>2. /\ DOMAIN table' \ DOMAIN table = {n + 1} /\ DOMAIN table' = DOMAIN table \cup {n + 1}
          /\ n + 1 \notin DOMAIN table /\ \A k \in DOMAIN table : table'[k] = table[k]
      <3> HIDE DEF t, s
      <3> QED BY <1>4, <2>1
    <2>3. table'[n + 1] = s
      BY <1>4, <2>1
    <2>4. Onwards
      <3>1. fresh' \in Nat /\ fresh <= fresh'
        BY <1>1
      <3> QED BY <1>1, <2>2, <3>1 DEF Onwards
    <2>5. AnswerOf(s, AnswerEnc(b, e)) /\ s.keys.send[2][3] = Dh(e, b.e)
      BY AnswerMade, Zenon
    <2>6. /\ \E j \in Attempts : b.e = Eph(j)
          /\ \E i \in Attempts : ini[i].st # "new" /\ StaticOf[i] = Plain(b.encStatic) /\ TargetOf[i] = OwnStatic
      BY <1>1, <1>2, ReadableFrom, Zenon
    <2>7. s.peer = Plain(b.encStatic)
      <3> DEFINE ks == [send |-> <<"c2", AnswerKeys(b, e)>>, recv |-> <<"c1", AnswerKeys(b, e)>>,
                        hash |-> Append(AnswerHash(b, e), AnswerEnc(b, e))]
                 rs == Plain(b.encStatic)
      <3>1. s = [keys |-> ks, peer |-> rs]
        BY Zenon DEF NewSession
      <3> HIDE DEF ks, rs, s
      <3>2. s.peer = rs
        BY <3>1
      <3> QED BY <3>2, Zenon DEF rs
    <2> HIDE DEF s
    <2>8. TableInv(table[n + 1])'
      <3>1. \E i \in Attempts : ini'[i].st # "new" /\ StaticOf[i] = s.peer /\ TargetOf[i] = OwnStatic
        BY <2>6, <2>7, <1>1, Zenon
      <3>2. PICK j \in Attempts : b.e = Eph(j)
        BY <2>6, Zenon
      <3>3. drawn \in 0 .. fresh' /\ drawn < fresh'
        BY <1>0, <1>1
      <3>4. s.keys.send[2][3] = Dh(<<"r", drawn>>, Eph(j))
        BY <2>5, <3>2, Zenon
      <3> QED BY <2>3, <3>1, <3>3, <3>4, Zenon DEF TableInv
    <2>9. \A k, l \in DOMAIN table' : k # l => table'[k].keys.send # table'[l].keys.send
      <3>1. ASSUME NEW k \in DOMAIN table PROVE table[k].keys.send # s.keys.send
        <4>1. SUFFICES ASSUME table[k].keys.send = s.keys.send PROVE FALSE
          BY Zenon
        <4>2. TableInv(table[k])
          BY <3>1, Zenon DEF NoiseInv
        <4>3. PICK f \in 0 .. fresh, j \in Attempts :
                f < fresh /\ table[k].keys.send[2][3] = Dh(<<"r", f>>, Eph(j))
          BY <4>2, Zenon DEF TableInv
        <4>4. PICK l \in Attempts : b.e = Eph(l)
          BY <2>6, Zenon
        <4>5. Dh(<<"r", f>>, Eph(j)) = Dh(<<"r", drawn>>, Eph(l))
          BY <2>5, <4>1, <4>3, <4>4, Zenon
        <4>6. f = drawn
          BY <4>5, FreshApart, Zenon
        <4> QED BY <1>0, <1>1, <4>3, <4>6
      <3>2. TAKE k, l \in DOMAIN table'
      <3>3. HAVE k # l
      <3>4. CASE k = n + 1
        <4>1. l \in DOMAIN table
          BY <2>2, <3>3, <3>4, Zenon
        <4> QED BY <2>2, <2>3, <3>1, <3>4, <4>1, Zenon
      <3>5. CASE l = n + 1
        <4>1. k \in DOMAIN table
          BY <2>2, <3>3, <3>5, Zenon
        <4> QED BY <2>2, <2>3, <3>1, <3>5, <4>1, Zenon
      <3>6. CASE k # n + 1 /\ l # n + 1
        <4>1. k \in DOMAIN table /\ l \in DOMAIN table
          BY <2>2, <3>6, Zenon
        <4> QED BY <2>2, <3>3, <4>1, Zenon DEF NoiseInv
      <3> QED BY <3>4, <3>5, <3>6, Zenon
    <2>10. NetInv(q)'
      <3> DEFINE c == AnswerBody(b, n, e)
                 E == AnswerEnc(b, e)
      <3>1. q.of = p.of /\ q.msg = Framed(c) /\ q.msg.body = c
        BY FramedOk
      <3>2. /\ c = [type |-> 2, sender |-> c.sender, receiver |-> c.receiver, e |-> c.e, enc |-> c.enc]
            /\ c.type = 2 /\ c.sender = n /\ c.e = e /\ c.enc = E
        <4> DEFINE sd == b.sender
        <4>1. c = [type |-> 2, sender |-> n, receiver |-> sd, e |-> e, enc |-> E]
          BY Zenon DEF AnswerBody
        <4> HIDE DEF c, e, E, sd
        <4> QED BY <4>1
      <3>3. q.msg = [body |-> q.msg.body, mac1 |-> q.msg.mac1, mac2 |-> q.msg.mac2]
        BY <3>1 DEF Framed
      <3>4. e # Zero
        BY DEF Zero
      <3>5. p.of \in Attempts => b = SentBody(p.of)
        <4>1. OwnInv(p)
          BY Zenon DEF NoiseInv, NetInv
        <4>2. p.of \in Attempts => p.msg = Framed(SentBody(p.of))
          BY <1>1, <4>1, Zenon DEF OwnInv
        <4> QED BY <4>2, FramedOk, Zenon
      <3>6. c.type # 1
        BY <3>2
      <3>7. OwnInv(q)'
        <4>1. p.of \in Attempts => q.msg = Framed(AnswerBody(SentBody(p.of), c.sender, c.e))
          BY <3>1, <3>2, <3>5, Zenon
        <4>2. q.msg.body.sender = c.sender /\ q.msg.body.e = c.e /\ q.msg.body.type # 1
          BY <3>1, <3>6, Zenon
        <4> HIDE DEF q, c, e
        <4> QED BY <3>1, <3>2, <3>4, <4>1, <4>2, Zenon DEF OwnInv
      <3> HIDE DEF c, E, e
      <3>8. ResponseInv(c)'
        <4>1. n + 1 \in DOMAIN table'
          BY <2>2
        <4>2. AnswerOf(table'[n + 1], c.enc)
          BY <2>3, <2>5, <3>2, Zenon DEF E
        <4> QED BY <3>2, <4>1, <4>2, Zenon DEF ResponseInv, AnswerOf
      <3> HIDE DEF q
      <3> QED BY <3>1, <3>3, <3>6, <3>7, <3>8, Zenon DEF NetInv
    <2>11. \A r \in net' \ net : NetInv(r)'
      <3> TAKE r \in net' \ net
      <3> HIDE DEF q
      <3>1. r = q
        BY <1>4
      <3> QED BY <2>10, <3>1, Zenon
    <2>12. \A k \in DOMAIN table' \ DOMAIN table : TableInv(table[k])'
      <3> TAKE k \in DOMAIN table' \ DOMAIN table
      <3>1. k = n + 1
        BY <2>2
      <3> QED BY <2>8, <3>1, Zenon
    <2>13. IsSeq(table')
      BY <1>4, <2>1, Zenon
    <2> QED BY <1>1, <2>4, <2>9, <2>11, <2>12, <2>13, IniUnchanged, StepCloses, Zenon
  <1> QED BY <1>2, <1>3, <1>4, Zenon

\* A longer transcript starts as the shorter one did.
LEMMA Longer ==
  ASSUME NEW h, IsSeq(h), Len(h) >= 4, NEW x
  PROVE  /\ IsSeq(Append(h, x)) /\ Len(Append(h, x)) >= 4 /\ Len(Append(h, x)) # 4
         /\ Append(h, x)[1] = h[1] /\ Append(h, x)[3] = h[3]
  <1> DEFINE t == Append(h, x)
  <1>1. /\ IsSeq(t) /\ Len(h) \in Nat /\ Len(t) = Len(h) + 1 /\ t # <<>>
        /\ t[Len(h) + 1] = x /\ \A k \in 1 .. Len(h) : t[k] = h[k]
    BY Appended, Zenon
  <1> HIDE DEF t
  <1>2. IsSeq(t) /\ Len(t) >= 4 /\ Len(t) # 4 /\ t[1] = h[1] /\ t[3] = h[3]
    BY <1>1
  <1> QED BY <1>2, Zenon DEF t

\* A sequence with two more elements is a sequence.
LEMMA TwoMore ==
  ASSUME NEW s, IsSeq(s), NEW x, NEW y
  PROVE  IsSeq(Append(Append(s, x), y))
  <1> DEFINE t == Append(s, x)
  <1>1. IsSeq(t)
    BY Appended, Zenon
  <1> HIDE DEF t
  <1>2. IsSeq(Append(t, y))
    BY <1>1, Appended, Zenon
  <1> QED BY <1>2, Zenon DEF t

\* Where an initiator's sealed static key is the third entry of the transcript.
LEMMA PlainStatic ==
  ASSUME NEW i PROVE Plain(EncStatic(i)) = StaticOf[i]
  <1> DEFINE u1 == <<Dh(Eph(i), TargetOf[i])>>
             u2 == <<Pub(TargetOf[i]), Pub(Eph(i))>>
             x  == EncStatic(i)
             S  == StaticOf[i]
  <1>1. x = <<"ct", u1, 0, u2, S>>
    BY Zenon DEF EncStatic
  <1> HIDE DEF u1, u2, x, S
  <1>2. Plain(x) = S
    BY <1>1 DEF Plain
  <1> QED BY <1>2, Zenon DEF x, S

\* What a state looks like after the initiator has read on.
Grown(i, s) ==
    /\ s = Sym(s.h, s.ck, s.n) /\ IsSeq(s.h) /\ IsSeq(s.ck)
    /\ Len(s.h) >= 4 /\ s.h[1] = Pub(TargetOf[i]) /\ s.h[3] = EncStatic(i)

\* A transcript that starts as it should is one that has grown.
LEMMA SymGrown ==
  ASSUME NEW i, NEW h, NEW ck, NEW n, IsSeq(h), IsSeq(ck), Len(h) >= 4, Len(h) # 4,
         h[1] = Pub(TargetOf[i]), h[3] = EncStatic(i)
  PROVE  Grown(i, Sym(h, ck, n)) /\ Len(Sym(h, ck, n).h) # 4
  <1> DEFINE s == Sym(h, ck, n)
  <1>1. s.h = h /\ s.ck = ck /\ s.n = n
    BY DEF Sym
  <1> HIDE DEF s
  <1>2. s = Sym(s.h, s.ck, s.n)
    BY <1>1, Zenon DEF s
  <1>3. Grown(i, s) /\ Len(s.h) # 4
    BY <1>1, <1>2, Zenon DEF Grown
  <1> QED BY <1>3, Zenon DEF s

\* An initiator that reads a response, and fails or finishes, keeps the invariant.
LEMMA TakeKeeps ==
  ASSUME NoiseInv, NEW i \in Attempts, NEW p \in net, TakeResponse(i, p) PROVE NoiseInv'
  <1> DEFINE a == ini[i]
             b == p.msg.body
             r == ReadResponse(i, p.msg)
             h == a.sym.h
             ck == a.sym.ck
             n == a.sym.n
             d3 == Dh(a.eph, b.e)
             d4 == Dh(StaticOf[i], b.e)
             H == Append(h, Pub(b.e))
             K == Append(Append(ck, d3), d4)
             G == Append(H, b.enc)
             fin == FinalizeInitiator(r.sym)
  <1>1. /\ a.st = "sent" /\ b.type = 2 /\ table' = table /\ net' = net /\ fresh' = fresh
        /\ ini' = [ini EXCEPT ![i].sym = r.sym,
                              ![i].st = IF r.ok THEN "done" ELSE @,
                              ![i].res = IF r.ok THEN {FinalizeInitiator(r.sym)} ELSE @]
    BY Zenon DEF TakeResponse
  <1>2. /\ a = [st |-> a.st, sym |-> a.sym, eph |-> a.eph, res |-> a.res] /\ a.res = {}
        /\ a.eph = Eph(i) /\ a.sym = Sym(h, ck, n) /\ IsSeq(h) /\ IsSeq(ck)
        /\ Len(h) >= 4 /\ h[1] = Pub(TargetOf[i]) /\ h[3] = EncStatic(i)
        /\ Len(h) = 4 => a.sym = SentSym(i)
    <2>1. IniInv(i) /\ a.st # "new" /\ a.st # "done"
      BY <1>1 DEF NoiseInv
    <2> QED BY <1>1, <2>1, Zenon DEF IniInv
  <1>3. DOMAIN ini = Attempts /\ fresh \in Nat /\ IsSeq(table)
    BY Zenon DEF NoiseInv
  <1>4. /\ r.ok \in BOOLEAN
        /\ r.ok <=> Mac1Ok(OwnSig, p.msg) /\ b.e # Zero /\ b.enc = <<"ct", K, 0, H, Plain(b.enc)>>
        /\ r.ok => r.sym = Sym(G, K, 1)
        /\ ~r.ok => r.sym \in {a.sym, Sym(H, ck, n), Sym(H, K, 0)}
    BY <1>2, TakenForm, Zenon
  <1> HIDE DEF r
  <1>5. /\ DOMAIN ini' = Attempts /\ \A j \in Attempts \ {i} : ini'[j] = ini[j]
        /\ ini'[i] = [st |-> IF r.ok THEN "done" ELSE "sent", sym |-> r.sym, eph |-> Eph(i),
                      res |-> IF r.ok THEN {fin} ELSE {}]
    <2> DEFINE R == r.sym
               O == r.ok
               F == {fin}
               E == Eph(i)
    <2> HIDE DEF R, O, F, E, a
    <2>1. ini' = [ini EXCEPT ![i].sym = R, ![i].st = IF O THEN "done" ELSE @, ![i].res = IF O THEN F ELSE @]
      BY <1>1, Zenon DEF R, O, F
    <2>2. DOMAIN ini' = Attempts /\ \A j \in Attempts \ {i} : ini'[j] = ini[j]
      BY <1>3, <2>1
    <2> DEFINE x2 == a.sym
    <2>3. a = [st |-> "sent", sym |-> x2, eph |-> E, res |-> {}]
      BY <1>1, <1>2, Zenon DEF E
    <2> HIDE DEF x2
    <2> DEFINE y == IF O THEN "done" ELSE "sent"
               z == IF O THEN F ELSE {}
    <2>4. ini'[i] = [[[a EXCEPT !.sym = R] EXCEPT !.st = IF O THEN "done" ELSE a.st]
                        EXCEPT !.res = IF O THEN F ELSE a.res]
      BY <1>2, <1>3, <2>1 DEF a
    <2>5. a.st = "sent" /\ a.res = {}
      BY <1>1, <1>2, Zenon DEF a
    <2>6. ini'[i] = [[[a EXCEPT !.sym = R] EXCEPT !.st = y] EXCEPT !.res = z]
      BY <2>4, <2>5, Zenon
    <2> HIDE DEF y, z
    <2>7. [[[a EXCEPT !.sym = R] EXCEPT !.st = y] EXCEPT !.res = z] = [st |-> y, sym |-> R, eph |-> E, res |-> z]
      <3>1. [a EXCEPT !.sym = R] = [st |-> "sent", sym |-> R, eph |-> E, res |-> {}]
        BY <2>3
      <3>2. [[st |-> "sent", sym |-> R, eph |-> E, res |-> {}] EXCEPT !.st = y]
              = [st |-> y, sym |-> R, eph |-> E, res |-> {}]
        OBVIOUS
      <3>3. [[st |-> y, sym |-> R, eph |-> E, res |-> {}] EXCEPT !.res = z]
              = [st |-> y, sym |-> R, eph |-> E, res |-> z]
        OBVIOUS
      <3> QED BY <3>1, <3>2, <3>3, Zenon
    <2>8. ini'[i] = [st |-> y, sym |-> R, eph |-> E, res |-> z]
      BY <2>6, <2>7, Zenon
    <2> QED BY <2>2, <2>8, Zenon DEF R, O, F, E, y, z
  <1>6. /\ ini'[i].st = (IF r.ok THEN "done" ELSE "sent") /\ ini'[i].sym = r.sym
        /\ ini'[i].eph = Eph(i) /\ ini'[i].res = IF r.ok THEN {fin} ELSE {}
    <2> DEFINE R == r.sym
               O == r.ok
               F == {fin}
               E == Eph(i)
    <2> HIDE DEF R, O, F, E
    <2>1. ini'[i] = [st |-> IF O THEN "done" ELSE "sent", sym |-> R, eph |-> E, res |-> IF O THEN F ELSE {}]
      BY <1>5, Zenon DEF R, O, F, E
    <2>2. /\ ini'[i].st = (IF O THEN "done" ELSE "sent") /\ ini'[i].sym = R
          /\ ini'[i].eph = E /\ ini'[i].res = IF O THEN F ELSE {}
      BY <2>1
    <2> QED BY <2>2, Zenon DEF R, O, F, E
  <1>7. Onwards
    <2>1. ini'[i].st # "new"
      BY <1>6
    <2>2. \A j \in Attempts : ini[j].st # "new" => ini'[j].st # "new"
      BY <1>5, <2>1
    <2> QED BY <1>1, <1>3, <2>2 DEF Onwards
  <1>8. /\ IsSeq(H) /\ Len(H) >= 4 /\ Len(H) # 4 /\ H[1] = h[1] /\ H[3] = h[3]
    <2> DEFINE x == Pub(b.e)
    <2> HIDE DEF x, h
    <2> QED BY <1>2, Longer, Zenon
  <1>9. /\ IsSeq(G) /\ Len(G) >= 4 /\ Len(G) # 4 /\ G[1] = h[1] /\ G[3] = h[3]
    <2> HIDE DEF H
    <2> QED BY <1>8, Longer, Zenon
  <1>10. IsSeq(K)
    <2> HIDE DEF ck, d3, d4
    <2> QED BY <1>2, TwoMore, Zenon
  <1> HIDE DEF H, K, G
  <1>11. Grown(i, r.sym) /\ (Len(r.sym.h) = 4 => ~r.ok /\ r.sym = SentSym(i))
    <2>1. CASE r.ok
      <3>1. Grown(i, Sym(G, K, 1)) /\ Len(Sym(G, K, 1).h) # 4
        BY <1>2, <1>9, <1>10, SymGrown, Zenon
      <3> QED BY <1>4, <2>1, <3>1, Zenon
    <2>2. CASE ~r.ok /\ r.sym = a.sym
      <3>1. Grown(i, a.sym)
        BY <1>2, Zenon DEF Grown
      <3> QED BY <1>2, <2>2, <3>1, Zenon
    <2>3. CASE ~r.ok /\ r.sym = Sym(H, ck, n)
      <3> HIDE DEF ck, n
      <3>1. Grown(i, Sym(H, ck, n)) /\ Len(Sym(H, ck, n).h) # 4
        BY <1>2, <1>8, SymGrown, Zenon
      <3> QED BY <2>3, <3>1, Zenon
    <2>4. CASE ~r.ok /\ r.sym = Sym(H, K, 0)
      <3>1. Grown(i, Sym(H, K, 0)) /\ Len(Sym(H, K, 0).h) # 4
        BY <1>2, <1>8, <1>10, SymGrown, Zenon
      <3> QED BY <2>4, <3>1, Zenon
    <2>5. ~r.ok => r.sym = a.sym \/ r.sym = Sym(H, ck, n) \/ r.sym = Sym(H, K, 0)
      BY <1>4, Zenon
    <2> QED BY <2>1, <2>2, <2>3, <2>4, <2>5, Zenon
  <1>12. IniInv(i)'
    <2> DEFINE y == ini'[i]
    <2>1. y = [st |-> y.st, sym |-> y.sym, eph |-> y.eph, res |-> y.res]
      BY <1>5, <1>6, Zenon
    <2>2. y.st \in {"new", "sent", "done"} /\ (y.st # "done" => ~r.ok) /\ (y.st = "sent" => ~r.ok)
      BY <1>4, <1>6
    <2>3. y.st # "done" => y.res = {}
      BY <1>6, <2>2, Zenon
    <2>4. Grown(i, y.sym) /\ (y.st = "sent" /\ Len(y.sym.h) = 4 => y.sym = SentSym(i))
      BY <1>6, <1>11, Zenon
    <2> QED BY <1>6, <2>1, <2>2, <2>3, <2>4, Zenon DEF IniInv, Grown
  <1>13. ResInv(i)'
    <2>1. CASE ~r.ok
      <3>1. ini'[i].res = {}
        BY <1>6, <2>1, Zenon
      <3> QED BY <3>1, Zenon DEF ResInv
    <2>2. CASE r.ok
      <3>1. ini'[i].res = {fin}
        BY <1>6, <2>2, Zenon
      <3>2. fin = [send |-> <<"c1", K>>, recv |-> <<"c2", K>>, hash |-> G]
        <4>1. FinalizeInitiator(Sym(G, K, 1)) = [send |-> <<"c1", K>>, recv |-> <<"c2", K>>, hash |-> G]
          BY FinalForm, Zenon
        <4> QED BY <1>4, <2>2, <4>1, Zenon
      <3>3. ResponseInv(b)
        <4>1. NetInv(p) /\ b.type # 1
          BY <1>1 DEF NoiseInv
        <4> QED BY <4>1, Zenon DEF NetInv
      <3>4. PICK k \in DOMAIN table : AnswerOf(table[k], b.enc)
        BY <3>3, Zenon DEF ResponseInv
      <3> DEFINE c == b.enc
                 z == Plain(c)
                 s == table[k]
      <3>5. c[2] = K /\ c[4] = H
        <4>1. c = <<"ct", K, 0, H, z>>
          BY <1>4, <2>2, Zenon
        <4> HIDE DEF c, z
        <4> QED BY <4>1
      <3>6. /\ s.keys = [send |-> <<"c2", K>>, recv |-> <<"c1", K>>, hash |-> G]
            /\ H[1] = Pub(OwnStatic) /\ Plain(H[3]) = s.peer
        BY <3>4, <3>5, Zenon DEF AnswerOf, G
      <3>7. s.peer = StaticOf[i]
        BY <1>2, <1>8, <3>6, PlainStatic, Zenon
      <3>8. TargetOf[i] = OwnStatic
        <4>1. Pub(TargetOf[i]) = Pub(OwnStatic)
          BY <1>2, <1>8, <3>6, Zenon
        <4> QED BY <4>1 DEF Pub
      <3> HIDE DEF fin, s
      <3>9. /\ s.keys = [send |-> fin.recv, recv |-> fin.send, hash |-> fin.hash] /\ fin.send # fin.recv
        <4> DEFINE u == <<"c1", K>>
                   v == <<"c2", K>>
        <4>1. u # v
          OBVIOUS
        <4> HIDE DEF u, v
        <4>2. fin = [send |-> u, recv |-> v, hash |-> G]
          BY <3>2, Zenon DEF u, v
        <4>3. fin.send = u /\ fin.recv = v /\ fin.hash = G
          BY <4>2
        <4>4. s.keys = [send |-> v, recv |-> u, hash |-> G]
          BY <3>6, Zenon DEF u, v
        <4> QED BY <4>1, <4>3, <4>4, Zenon
      <3>10. \A x \in ini'[i].res : x = fin
        BY <3>1
      <3>11. k \in DOMAIN table' /\ table'[k] = s
        BY <1>1 DEF s
      <3> QED BY <3>7, <3>8, <3>9, <3>10, <3>11, Zenon DEF ResInv
    <2> QED BY <1>4, <2>1, <2>2, Zenon
  <1>14. \A j \in Attempts : IniInv(j)' /\ ResInv(j)'
    <2> TAKE j \in Attempts
    <2>1. CASE j = i
      BY <1>12, <1>13, <2>1, Zenon
    <2>2. CASE j # i
      <3>1. ini'[j] = ini[j] /\ IniInv(j) /\ ResInv(j)
        BY <1>5, <2>2 DEF NoiseInv
      <3> QED BY <1>7, <3>1, IniKeeps, ResKeeps, Zenon
    <2> QED BY <2>1, <2>2, Zenon
  <1>15. \A k, l \in DOMAIN table' : k # l => table'[k].keys.send # table'[l].keys.send
    BY <1>1, Zenon DEF NoiseInv
  <1>16. net' \ net = {} /\ DOMAIN table' \ DOMAIN table = {} /\ IsSeq(table')
    BY <1>1, <1>3
  <1> QED BY <1>5, <1>7, <1>14, <1>15, <1>16, StepCloses, Zenon

\* The fields of the two bodies.
LEMMA InitiationFields ==
  ASSUME NEW s, NEW e, NEW x, NEW z, NEW y,
         y = [type |-> 1, sender |-> s, e |-> e, encStatic |-> x, encTime |-> z]
  PROVE  /\ y = [type |-> 1, sender |-> y.sender, e |-> y.e, encStatic |-> y.encStatic, encTime |-> y.encTime]
         /\ y.type = 1 /\ y.e = e /\ y.encStatic = x
  OBVIOUS

\* And those of a response.
LEMMA ResponseFields ==
  ASSUME NEW s, NEW g, NEW e, NEW x, NEW y,
         y = [type |-> 2, sender |-> s, receiver |-> g, e |-> e, enc |-> x]
  PROVE  /\ y = [type |-> 2, sender |-> y.sender, receiver |-> y.receiver, e |-> y.e, enc |-> y.enc]
         /\ y.type = 2 /\ y.enc = x /\ y.type # 1
  OBVIOUS

\* A message the network puts together keeps the invariant.
LEMMA MixKeeps ==
  ASSUME NoiseAssumption, NoiseInv, NEW p \in net, NEW q \in net, Mix(p, q) PROVE NoiseInv'
  <1> DEFINE b == p.msg.body
             c == q.msg.body
  <1>1. b.type = c.type /\ ini' = ini /\ table' = table /\ fresh' = fresh
    BY Zenon DEF Mix
  <1>2. PICK f \in Fields(p), again \in BOOLEAN :
          \E v \in {c[f]} \cup (IF f = "e" THEN {Zero} ELSE {}) :
            net' = net \cup {[of |-> 0, msg |-> IF again THEN Framed([b EXCEPT ![f] = v])
                                                ELSE [p.msg EXCEPT !.body = [b EXCEPT ![f] = v]]]}
    BY Zenon DEF Mix
  <1>3. PICK v \in {c[f]} \cup (IF f = "e" THEN {Zero} ELSE {}) :
            net' = net \cup {[of |-> 0, msg |-> IF again THEN Framed([b EXCEPT ![f] = v])
                                                ELSE [p.msg EXCEPT !.body = [b EXCEPT ![f] = v]]]}
    BY <1>2, Zenon
  <1> DEFINE y == [b EXCEPT ![f] = v]
             m == IF again THEN Framed(y) ELSE [p.msg EXCEPT !.body = y]
             x == [of |-> 0, msg |-> m]
  <1>4. NetInv(p) /\ NetInv(q) /\ fresh \in Nat /\ IsSeq(table)
    BY Zenon DEF NoiseInv
  <1>5. IF y.type = 1 THEN InitiationInv(y) ELSE ResponseInv(y)
    <2>1. CASE b.type = 1
      <3>1. InitiationInv(b) /\ InitiationInv(c)
        BY <1>1, <1>4, <2>1, Zenon DEF NetInv
      <3>2. f \in {"e", "encStatic", "encTime"}
        BY <1>2, <2>1, Zenon DEF Fields
      <3> DEFINE x1 == b.sender
                 x2 == b.e
                 x3 == b.encStatic
                 x4 == b.encTime
                 FromE(e) == e = Zero \/ \E j \in Attempts : e = Eph(j)
                 FromS(s) == \E j \in Attempts : ini[j].st # "new" /\ s = EncStatic(j)
      <3>3. /\ b = [type |-> 1, sender |-> x1, e |-> x2, encStatic |-> x3, encTime |-> x4]
            /\ FromE(x2) /\ FromS(x3) /\ FromE(c.e) /\ FromS(c.encStatic) /\ FromE(Zero)
        BY <3>1, Zenon DEF InitiationInv
      <3> HIDE DEF b, x1, x2, x3, x4, FromE, FromS
      <3>4. PICK e, s, z : /\ y = [type |-> 1, sender |-> x1, e |-> e, encStatic |-> s, encTime |-> z]
                           /\ FromE(e) /\ FromS(s)
        <4>1. CASE f = "e"
          <5>1. y = [type |-> 1, sender |-> x1, e |-> v, encStatic |-> x3, encTime |-> x4]
            BY <3>3, <4>1
          <5>2. v = c.e \/ v = Zero
            BY <4>1
          <5>3. FromE(v)
            BY <3>3, <5>2, Zenon
          <5> QED BY <3>3, <5>1, <5>3, Zenon
        <4>2. CASE f = "encStatic"
          <5>1. y = [type |-> 1, sender |-> x1, e |-> x2, encStatic |-> v, encTime |-> x4]
            BY <3>3, <4>2
          <5>2. v = c.encStatic
            BY <4>2
          <5> QED BY <3>3, <5>1, <5>2, Zenon
        <4>3. CASE f = "encTime"
          <5>1. y = [type |-> 1, sender |-> x1, e |-> x2, encStatic |-> x3, encTime |-> v]
            BY <3>3, <4>3
          <5> QED BY <3>3, <5>1, Zenon
        <4> QED BY <3>2, <4>1, <4>2, <4>3
      <3> HIDE DEF y
      <3>5. /\ y = [type |-> 1, sender |-> y.sender, e |-> y.e, encStatic |-> y.encStatic, encTime |-> y.encTime]
            /\ y.type = 1 /\ y.e = e /\ y.encStatic = s
        BY <3>4, InitiationFields, Zenon
      <3>6. FromE(y.e) /\ FromS(y.encStatic)
        BY <3>4, <3>5, Zenon
      <3> QED BY <3>5, <3>6, Zenon DEF InitiationInv, FromE, FromS
    <2>2. CASE b.type # 1
      <3>1. ResponseInv(b) /\ ResponseInv(c)
        BY <1>1, <1>4, <2>2, Zenon DEF NetInv
      <3>2. f \in {"e", "enc"}
        BY <1>2, <2>2, Zenon DEF Fields
      <3> DEFINE x1 == b.sender
                 x2 == b.receiver
                 x3 == b.e
                 x4 == b.enc
                 Known(u) == \E k \in DOMAIN table : AnswerOf(table[k], u)
      <3>3. /\ b = [type |-> 2, sender |-> x1, receiver |-> x2, e |-> x3, enc |-> x4]
            /\ Known(x4) /\ Known(c.enc)
        BY <3>1, Zenon DEF ResponseInv
      <3> HIDE DEF b, x1, x2, x3, x4, Known
      <3>4. PICK e, u : y = [type |-> 2, sender |-> x1, receiver |-> x2, e |-> e, enc |-> u] /\ Known(u)
        <4>1. CASE f = "e"
          <5>1. y = [type |-> 2, sender |-> x1, receiver |-> x2, e |-> v, enc |-> x4]
            BY <3>3, <4>1
          <5> QED BY <3>3, <5>1, Zenon
        <4>2. CASE f = "enc"
          <5>1. y = [type |-> 2, sender |-> x1, receiver |-> x2, e |-> x3, enc |-> v]
            BY <3>3, <4>2
          <5>2. v = c.enc
            BY <4>2
          <5> QED BY <3>3, <5>1, <5>2, Zenon
        <4> QED BY <3>2, <4>1, <4>2
      <3> HIDE DEF y
      <3>5. /\ y = [type |-> 2, sender |-> y.sender, receiver |-> y.receiver, e |-> y.e, enc |-> y.enc]
            /\ y.type = 2 /\ y.enc = u /\ y.type # 1
        BY <3>4, ResponseFields, Zenon
      <3> QED BY <3>4, <3>5, Zenon DEF ResponseInv, Known
    <2> QED BY <2>1, <2>2, Zenon
  <1>6. m = [body |-> m.body, mac1 |-> m.mac1, mac2 |-> m.mac2] /\ m.body = y
    <2> DEFINE u == p.msg.mac1
               w == p.msg.mac2
    <2>1. p.msg = [body |-> b, mac1 |-> u, mac2 |-> w]
      BY <1>4, Zenon DEF NetInv
    <2> HIDE DEF u, w, y, b
    <2>2. [p.msg EXCEPT !.body = y] = [body |-> y, mac1 |-> u, mac2 |-> w]
      BY <2>1
    <2>3. CASE again
      <3>1. m = [body |-> y, mac1 |-> Mac1(OwnSig, y), mac2 |-> NoCookie]
        BY <2>3, Zenon DEF Framed
      <3> DEFINE g1 == Mac1(OwnSig, y)
                 g2 == NoCookie
      <3> HIDE DEF g1, g2, m
      <3>2. m = [body |-> y, mac1 |-> g1, mac2 |-> g2]
        BY <3>1, Zenon DEF g1, g2
      <3> QED BY <3>2
    <2>4. CASE ~again
      <3>1. m = [body |-> y, mac1 |-> u, mac2 |-> w]
        BY <2>2, <2>4, Zenon
      <3> HIDE DEF m
      <3> QED BY <3>1
    <2> QED BY <2>3, <2>4, Zenon
  <1>7. x.of = 0 /\ x.msg = m
    <2> HIDE DEF m
    <2> QED OBVIOUS
  <1>8. Onwards
    BY <1>1, <1>4 DEF Onwards
  <1> HIDE DEF y, m, x
  <1>9. NetInv(x)'
    <2>1. OwnInv(x)
      BY <1>7, Zenon DEF OwnInv, NoiseAssumption
    <2>2. NetInv(x)
      BY <1>5, <1>6, <1>7, <2>1, Zenon DEF NetInv
    <2> QED BY <1>8, <2>2, NetKeeps, Zenon
  <1>10. \A r \in net' \ net : NetInv(r)'
    <2> TAKE r \in net' \ net
    <2>1. r = x
      <3>1. net' = net \cup {x}
        BY <1>3, Zenon DEF x, m, y
      <3> QED BY <3>1
    <2> QED BY <1>9, <2>1, Zenon
  <1>11. \A k, l \in DOMAIN table' : k # l => table'[k].keys.send # table'[l].keys.send
    BY <1>1, Zenon DEF NoiseInv
  <1>12. DOMAIN table' \ DOMAIN table = {} /\ IsSeq(table')
    BY <1>1, <1>4
  <1> QED BY <1>1, <1>8, <1>10, <1>11, <1>12, IniUnchanged, StepCloses, Zenon

\* The invariant of the handshake.
THEOREM NoiseInvariant == NoiseSpec => []NoiseInv
  <1>1. NoiseInv /\ [NoiseNext]_noiseVars => NoiseInv'
    <2> SUFFICES ASSUME NoiseInv, [NoiseNext]_noiseVars PROVE NoiseInv'
      OBVIOUS
    <2>1. CASE UNCHANGED noiseVars
      <3>1. ini' = ini /\ table' = table /\ net' = net /\ fresh' = fresh
        BY <2>1 DEF noiseVars
      <3>2. Onwards /\ net' \ net = {} /\ DOMAIN table' \ DOMAIN table = {} /\ IsSeq(table')
        BY <3>1 DEF Onwards, NoiseInv
      <3>3. \A k, l \in DOMAIN table' : k # l => table'[k].keys.send # table'[l].keys.send
        BY <3>1, Zenon DEF NoiseInv
      <3> QED BY <3>1, <3>2, <3>3, IniUnchanged, StepCloses, Zenon
    <2>2. CASE \E p \in net : DatagramRefused(p)
      BY <2>1, <2>2, Zenon DEF DatagramRefused
    <2>3. CASE \E i \in Attempts : Initiate(i)
      BY <2>3, InitiateKeeps, Zenon
    <2>4. CASE \E p \in net, sent \in BOOLEAN : ProcessDatagram(p, sent)
      BY <2>4, DatagramKeeps, Zenon
    <2>5. CASE \E i \in Attempts, p \in net : TakeResponse(i, p)
      BY <2>5, TakeKeeps, Zenon
    <2>6. CASE \E p, q \in net : Mix(p, q)
      BY <2>6, MixKeeps, NoiseAssumption, Zenon
    <2> QED BY <2>1, <2>2, <2>3, <2>4, <2>5, <2>6, Zenon DEF NoiseNext
  <1> QED BY <1>1, NoiseInitHolds, PTL DEF NoiseSpec

-----------------------------------------------------------------------------
\* The node reads a whole initiation that is meant for it.
LEMMA OwnReadable ==
  ASSUME NoiseAssumption, NEW i \in Attempts, TargetOf[i] = OwnStatic
  PROVE  Readable(Framed(SentBody(i)))
  <1> DEFINE b == SentBody(i)
             m == Framed(b)
             E == Eph(i)
             X == EncStatic(i)
             Y == EncTime(i)
             d1 == Dh(OwnStatic, E)
             d2 == Dh(OwnStatic, StaticOf[i])
  <1>1. Mac1Ok(OwnSig, m) /\ m.body = b
    BY FramedOk, Zenon
  <1>2. b.e = E /\ b.encStatic = X /\ b.encTime = Y
    <2>1. b = [type |-> 1, sender |-> i, e |-> E, encStatic |-> X, encTime |-> Y]
      BY Zenon DEF SentBody
    <2> HIDE DEF b, E, X, Y
    <2> QED BY <2>1
  <1>3. Dh(E, OwnStatic) = d1 /\ Dh(StaticOf[i], OwnStatic) = d2
    BY DhSwaps, Zenon
  <1>4. X = <<"ct", <<d1>>, 0, <<Pub(OwnStatic), Pub(E)>>, StaticOf[i]>>
    BY <1>3, Zenon DEF EncStatic
  <1>5. Y = <<"ct", <<d1, d2>>, 0, <<Pub(OwnStatic), Pub(E), X>>, <<"time">> >>
    BY <1>3, Zenon DEF EncTime, InitKeys
  <1>6. Plain(X) = StaticOf[i]
    BY PlainStatic, Zenon
  <1>7. Plain(Y) = <<"time">>
    <2> DEFINE v1 == <<d1, d2>>
               v2 == <<Pub(OwnStatic), Pub(E), X>>
               tm == <<"time">>
    <2> HIDE DEF v1, v2, tm, Y
    <2>1. Y = <<"ct", v1, 0, v2, tm>>
      BY <1>5, Zenon DEF v1, v2, tm
    <2>2. Plain(Y) = tm
      BY <2>1 DEF Plain
    <2> QED BY <2>2, Zenon DEF tm
  <1>8. E # Zero
    BY DEF Eph, Zero
  <1>9. StaticOf[i] # Zero
    BY Zenon DEF NoiseAssumption
  <1> HIDE DEF b, m, E, X, Y
  <1>10. Readable(m)
    BY <1>1, <1>2, <1>4, <1>5, <1>6, <1>7, <1>8, <1>9, Zenon DEF Readable
  <1> QED BY <1>10, Zenon DEF m, b

\* And an initiator that has read nothing else reads the whole answer.
LEMMA OwnAnswer ==
  ASSUME NoiseInv, NEW i \in Attempts, TargetOf[i] = OwnStatic,
         ini[i].st = "sent", Len(ini[i].sym.h) = 4,
         NEW m, Mac1Ok(OwnSig, m), m.body.e # Zero, m.body.enc = AnswerEnc(SentBody(i), m.body.e)
  PROVE  ReadResponse(i, m).ok
  <1> DEFINE b == m.body
             s == SentBody(i)
             e == b.e
             E == Eph(i)
             X == EncStatic(i)
             Y == EncTime(i)
             T == TargetOf[i]
             S == StaticOf[i]
             h == <<Pub(T), Pub(E), X, Y>>
             c1 == Dh(E, T)
             c2 == Dh(S, T)
             c3 == Dh(E, e)
             c4 == Dh(S, e)
             H == Append(h, Pub(e))
             K == Append(Append(<<c1, c2>>, c3), c4)
  <1>2. IniInv(i)
    BY Zenon DEF NoiseInv
  <1>3. ini[i].sym = SentSym(i) /\ ini[i].eph = E
    <2>1. ini[i].st # "new"
      OBVIOUS
    <2> QED BY <1>2, <2>1, Zenon DEF IniInv
  <1>4. ini[i].sym = Sym(h, <<c1, c2>>, 1)
    BY <1>3, Zenon DEF SentSym, InitKeys
  <1>5. IsSeq(h) /\ IsSeq(<<c1, c2>>)
    BY TupleSeqs, Zenon
  <1>8. s.e = E /\ s.encStatic = X /\ s.encTime = Y
    <2>1. s = [type |-> 1, sender |-> i, e |-> E, encStatic |-> X, encTime |-> Y]
      BY Zenon DEF SentBody
    <2> HIDE DEF s, E, X, Y
    <2> QED BY <2>1
  <1>9. Plain(X) = S
    BY PlainStatic, Zenon
  <1>10. AnswerHash(s, e) = H
    <2>1. H = <<Pub(T), Pub(E), X, Y, Pub(e)>>
      <3> DEFINE a1 == Pub(T)
                 a2 == Pub(E)
                 a3 == Pub(e)
      <3> HIDE DEF a1, a2, a3, X, Y
      <3>1. Append(<<a1, a2, X, Y>>, a3) = <<a1, a2, X, Y, a3>>
        BY Appended5, Zenon
      <3> QED BY <3>1, Zenon DEF a1, a2, a3
    <2> HIDE DEF s, E, X, Y, e
    <2> QED BY <1>8, <2>1, Zenon DEF AnswerHash
  <1>11. AnswerKeys(s, e) = K
    <2>1. Append(<<c1, c2>>, c3) = <<c1, c2, c3>>
      <3> HIDE DEF c1, c2, c3
      <3> QED BY Appended3, Zenon
    <2>2. Append(<<c1, c2, c3>>, c4) = <<c1, c2, c3, c4>>
      <3> HIDE DEF c1, c2, c3, c4
      <3> QED BY Appended4, Zenon
    <2>3. /\ Dh(OwnStatic, E) = c1 /\ Dh(OwnStatic, S) = c2 /\ Dh(e, E) = c3 /\ Dh(e, S) = c4
      <3>1. Dh(OwnStatic, E) = Dh(E, OwnStatic) /\ Dh(OwnStatic, S) = Dh(S, OwnStatic)
        BY DhSwaps, Zenon
      <3>2. Dh(e, E) = Dh(E, e) /\ Dh(e, S) = Dh(S, e)
        BY DhSwaps, Zenon
      <3> QED BY <3>1, <3>2, Zenon
    <2> HIDE DEF s, E, X, Y, e, S, c1, c2, c3, c4
    <2>4. AnswerKeys(s, e) = <<c1, c2, c3, c4>>
      BY <1>8, <1>9, <2>3, Zenon DEF AnswerKeys
    <2> QED BY <2>1, <2>2, <2>4, Zenon
  <1> HIDE DEF H, K
  <1>12. b.enc = <<"ct", K, 0, H, Plain(b.enc)>>
    <2> DEFINE nil == <<>>
               c == b.enc
    <2>1. c = <<"ct", K, 0, H, nil>>
      BY <1>10, <1>11, Zenon DEF AnswerEnc
    <2> HIDE DEF c, nil
    <2>2. Plain(c) = nil
      BY <2>1 DEF Plain
    <2> QED BY <2>1, <2>2, Zenon DEF c
  <1> DEFINE cc == <<c1, c2>>
             R == ReadResponse(i, m)
             x3 == Dh(ini[i].eph, b.e)
             x4 == Dh(StaticOf[i], b.e)
             H2 == Append(h, Pub(b.e))
             K2 == Append(Append(cc, x3), x4)
  <1>13. K = K2 /\ H = H2
    BY <1>3, Zenon DEF K, H
  <1>14. ini[i].sym = Sym(h, cc, 1) /\ IsSeq(h) /\ IsSeq(cc)
    BY <1>4, <1>5, Zenon
  <1> HIDE DEF h, cc
  <1>15. /\ R.ok \in BOOLEAN
         /\ R.ok <=> Mac1Ok(OwnSig, m) /\ b.e # Zero /\ b.enc = <<"ct", K2, 0, H2, Plain(b.enc)>>
         /\ R.ok => R.sym = Sym(Append(H2, b.enc), K2, 1)
         /\ ~R.ok => R.sym \in {ini[i].sym, Sym(H2, cc, 1), Sym(H2, K2, 0)}
    BY <1>14, TakenForm, Zenon
  <1> HIDE DEF H2, K2, R, b
  <1> QED BY <1>12, <1>13, <1>15, Zenon DEF R, b

\* read_initiation, write_response, read_response and finalize leave the two ends with one
\* hash and swapped keys, no two sessions of the node share a key, and what is whole is
\* read, for every set of attempts and keys and every mixture of their messages.
THEOREM NoiseKeysAgree == NoiseSpec => []KeysAgree
  <1>1. NoiseInv => KeysAgree
    <2> SUFFICES ASSUME NoiseInv PROVE KeysAgree
      OBVIOUS
    <2>1. \A i \in Attempts : \A r \in ini[i].res :
        /\ TargetOf[i] = OwnStatic
        /\ \E k \in DOMAIN table :
            /\ table[k].keys = [send |-> r.recv, recv |-> r.send, hash |-> r.hash]
            /\ table[k].peer = StaticOf[i] /\ r.send # r.recv
      BY Zenon DEF NoiseInv, ResInv
    <2>2. \A k \in DOMAIN table :
        \E i \in Attempts : ini[i].st # "new" /\ StaticOf[i] = table[k].peer /\ TargetOf[i] = OwnStatic
      BY Zenon DEF NoiseInv, TableInv
    <2>3. \A k, l \in DOMAIN table : k # l => table[k].keys.send # table[l].keys.send
      BY Zenon DEF NoiseInv
    <2>4. ASSUME NEW i \in Attempts, NEW p \in net, p.of = i, TargetOf[i] = OwnStatic
          PROVE  IF p.msg.body.type = 1 THEN ReadInitiation(p.msg) # {}
                 ELSE ini[i].st = "sent" /\ Len(ini[i].sym.h) = 4 => ReadResponse(i, p.msg).ok
      <3>1. CASE p.msg.body.type = 1
        <4>1. p.msg = Framed(SentBody(i))
          BY <2>4, <3>1, Zenon DEF NoiseInv, NetInv, OwnInv
        <4>2. Readable(p.msg)
          BY <2>4, <4>1, OwnReadable, NoiseAssumption, Zenon
        <4>3. ReadInitiation(p.msg) = {ReadInfo(p.msg.body)}
          BY <4>2, ReadForm, Zenon
        <4> DEFINE A == ReadInitiation(p.msg)
                   I == ReadInfo(p.msg.body)
        <4> HIDE DEF A, I
        <4>4. A = {I}
          BY <4>3, Zenon DEF A, I
        <4>5. A # {}
          BY <4>4
        <4> QED BY <3>1, <4>5, Zenon DEF A
      <3>2. CASE p.msg.body.type # 1
        <4> DEFINE b == p.msg.body
                   s == SentBody(i)
                   e == b.e
        <4>1. e # Zero /\ p.msg = Framed(AnswerBody(s, b.sender, e))
          BY <2>4, <3>2, Zenon DEF NoiseInv, NetInv, OwnInv
        <4>2. Mac1Ok(OwnSig, p.msg) /\ b = AnswerBody(s, b.sender, e)
          <5> DEFINE a == AnswerBody(s, b.sender, e)
          <5>1. p.msg = Framed(a)
            BY <4>1, Zenon
          <5> HIDE DEF a
          <5>2. Mac1Ok(OwnSig, p.msg) /\ p.msg.body = a
            BY <5>1, FramedOk, Zenon
          <5> QED BY <5>2, Zenon DEF a
        <4>3. b.enc = AnswerEnc(s, e)
          <5> DEFINE A == AnswerEnc(s, e)
                     u1 == b.sender
                     u2 == s.sender
                     u3 == e
          <5>1. b = [type |-> 2, sender |-> u1, receiver |-> u2, e |-> u3, enc |-> A]
            BY <4>2, Zenon DEF AnswerBody
          <5> HIDE DEF A, u1, u2, u3, b
          <5>2. b.enc = A
            BY <5>1
          <5> QED BY <5>2, Zenon DEF A
        <4>4. ASSUME ini[i].st = "sent", Len(ini[i].sym.h) = 4 PROVE ReadResponse(i, p.msg).ok
          BY <2>4, <4>1, <4>2, <4>3, <4>4, OwnAnswer, Zenon
        <4> QED BY <3>2, <4>4, Zenon
      <3> QED BY <3>1, <3>2, Zenon
    <2> QED BY <2>1, <2>2, <2>3, <2>4, Zenon DEF KeysAgree
  <1> QED BY <1>1, NoiseInvariant, PTL
=============================================================================
