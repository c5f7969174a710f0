------------------------------ MODULE NoiseIK -------------------------------
(***************************************************************************)
(* The Noise_IK handshake of noise.rs with the mac1 gate of mac1.rs, as    *)
(* process_datagram of handshake.rs runs the responder's side of it.       *)
(*                                                                         *)
(* Values are symbolic.  A key pair is one name; DH gives the unordered    *)
(* pair of two names.  The hash h is the sequence of what was mixed into   *)
(* it and the chaining key ck the sequence of DH results, which also names *)
(* the cipher key k, since mix_key sets the two together.  A ciphertext is *)
(* the tuple of key, nonce, associated data and plaintext and opens under  *)
(* exactly these (external: BLAKE2s, ChaCha20-Poly1305, X25519).           *)
(*                                                                         *)
(* The network loses, delays and repeats messages, hands them to any       *)
(* initiator, and may put a field of one message into another, under the   *)
(* old mac1 or under a new one: its key derives from a public key.  The    *)
(* index fields, which the transcript does not cover, stay as they are.    *)
(***************************************************************************)
EXTENDS Naturals, Sequences, FiniteSets

CONSTANTS
    Attempts,      \* handshakes initiators start
    StaticOf,      \* attempt -> the initiator's static key
    TargetOf,      \* attempt -> the static key it believes to be the node's
    OwnStatic,     \* the node's static key
    OwnSig,        \* the node's Ed25519 key, which mac1 is derived from
    TableSize,     \* MAX_SESSIONS of handshake.rs
    MaxFresh,      \* bound: answers the node computes
    MaxFailed,     \* bound: failed reads behind mac1 after which an initiator reads on
    MaxMixed       \* bound: messages the network puts together

VARIABLES
    ini,      \* attempt -> the Initiator: [st, sym, eph, res]
    table,    \* the sessions the node has committed, by slot
    net,      \* messages seen on the network: [of, msg], of = 0 for mixed ones
    fresh     \* the number of ephemeral keys the node has drawn

noiseVars == <<ini, table, net, fresh>>

Zero == <<"zero">>              \* a public key of all zero bytes
NoCookie == <<"no cookie">>     \* mac2 is answered with zeros

\* Numbers of attempts are not 0, and no generated key is the all-zero one.
ASSUME NoiseAssumption ==
    /\ \A n \in {TableSize, MaxFresh, MaxFailed, MaxMixed} : n \in Nat
    /\ 0 \notin Attempts
    /\ \A i \in Attempts : StaticOf[i] # Zero

-----------------------------------------------------------------------------
\* dh: two key names make one shared secret; the identity point is an error.
DhFails(pk) == pk = Zero
Dh(sk, pk) == <<"dh", {sk, pk}>>

\* SymmetricState.
Symmetric == [h |-> <<>>, ck |-> <<>>, n |-> 0]
HasKey(s) == s.ck # <<>>
MixHash(s, data) == [s EXCEPT !.h = Append(@, data)]
MixKey(s, ikm) == [s EXCEPT !.ck = Append(@, ikm), !.n = 0]

\* What encrypt_and_hash writes, and whether decrypt_and_hash takes it.
Sealed(s, pt) == IF HasKey(s) THEN <<"ct", s.ck, s.n, s.h, pt>> ELSE <<"plain", pt>>
Plain(c) == c[Len(c)]
Decrypts(s, c) == c = Sealed(s, Plain(c))

\* The state after either of the two: the nonce advances, the ciphertext mixes.
AfterCipher(s, c) == MixHash([s EXCEPT !.n = IF HasKey(s) THEN @ + 1 ELSE @], c)

\* split: the initiator's sending key, then the responder's.
Split(s) == << <<"c1", s.ck>>, <<"c2", s.ck>> >>

\* Initiator::finalize and Responder::finalize.
FinalizeInitiator(s) == [send |-> Split(s)[1], recv |-> Split(s)[2], hash |-> s.h]
FinalizeResponder(s) == [send |-> Split(s)[2], recv |-> Split(s)[1], hash |-> s.h]

\* compute_mac1 over the bytes before mac1; verify_mac1.
Mac1(sig, body) == <<"mac1", sig, body>>
Mac1Ok(sig, msg) == msg.mac1 = Mac1(sig, msg.body)
Framed(body) == [body |-> body, mac1 |-> Mac1(OwnSig, body), mac2 |-> NoCookie]

-----------------------------------------------------------------------------
\* Mutant: the initiator leaves the pre-message out.
InitiatorSymBare(target) == Symmetric

\* Initiator::new and Responder::new: the node's static is mixed in first.
InitiatorSym(target) == MixHash(Symmetric, <<"pub", target>>)
ResponderSym == MixHash(Symmetric, <<"pub", OwnStatic>>)

\* write_initiation: e, es, s, ss, timestamp, with the attempt as its index.
Initiation(i) ==
    LET e  == <<"e", i>>
        s1 == MixKey(MixHash(InitiatorSym(TargetOf[i]), <<"pub", e>>), Dh(e, TargetOf[i]))
        encStatic == Sealed(s1, StaticOf[i])
        s2 == MixKey(AfterCipher(s1, encStatic), Dh(StaticOf[i], TargetOf[i]))
        encTime == Sealed(s2, <<"time">>)
    IN  [eph |-> e, sym |-> AfterCipher(s2, encTime),
         msg |-> Framed([type |-> 1, sender |-> i, e |-> e, encStatic |-> encStatic, encTime |-> encTime])]

\* read_initiation: mac1 first, then the same five steps from the other side.
\* The answer is {} for an error.
ReadInitiation(m) ==
    LET b  == m.body
        s1 == MixKey(MixHash(ResponderSym, <<"pub", b.e>>), Dh(OwnStatic, b.e))
        rs == Plain(b.encStatic)
        s2 == MixKey(AfterCipher(s1, b.encStatic), Dh(OwnStatic, rs))
        ok == /\ Mac1Ok(OwnSig, m)
              /\ ~DhFails(b.e) /\ Decrypts(s1, b.encStatic)
              /\ ~DhFails(rs) /\ Decrypts(s2, b.encTime)
    IN  IF ok THEN {[sender |-> b.sender, re |-> b.e, rs |-> rs, sym |-> AfterCipher(s2, b.encTime)]}
        ELSE {}

\* write_response: e, ee, se, nothing; slot is our index, the other one echoes.
Response(info, slot, e) ==
    LET s == MixKey(MixKey(MixHash(info.sym, <<"pub", e>>), Dh(e, info.re)), Dh(e, info.rs))
        enc == Sealed(s, <<>>)
    IN  [sym |-> AfterCipher(s, enc),
         msg |-> Framed([type |-> 2, sender |-> slot, receiver |-> info.sender, e |-> e, enc |-> enc])]

\* read_response: mac1 first and without effect if it fails.  Behind it every
\* step that was taken stays in the initiator's state, also when a later one
\* fails: sym is what self.sym is on return.
ReadResponse(i, m) ==
    LET b  == m.body
        s0 == MixHash(ini[i].sym, <<"pub", b.e>>)
        s1 == MixKey(MixKey(s0, Dh(ini[i].eph, b.e)), Dh(StaticOf[i], b.e))
    IN  IF ~Mac1Ok(OwnSig, m) THEN [ok |-> FALSE, sym |-> ini[i].sym]
        ELSE IF DhFails(b.e) THEN [ok |-> FALSE, sym |-> s0]
        ELSE IF ~Decrypts(s1, b.enc) THEN [ok |-> FALSE, sym |-> s1]
        ELSE [ok |-> TRUE, sym |-> AfterCipher(s1, b.enc)]

-----------------------------------------------------------------------------
NoiseInit ==
    /\ ini = [i \in Attempts |-> [st |-> "new", sym |-> InitiatorSym(TargetOf[i]), eph |-> Zero, res |-> {}]]
    /\ table = <<>> /\ net = {} /\ fresh = 0

\* An initiator sends its initiation.
Initiate(i) ==
    /\ ini[i].st = "new"
    /\ LET w == Initiation(i)
       IN  /\ ini' = [ini EXCEPT ![i].st = "sent", ![i].eph = w.eph, ![i].sym = w.sym]
           /\ net' = net \cup {[of |-> i, msg |-> w.msg]}
    /\ UNCHANGED <<table, fresh>>

\* process_datagram: read, answer, commit at the first free slot (no slot is
\* given back here, see Sessions.tla).  When the send fails the answer is gone
\* and nothing is committed; the ephemeral key has been drawn all the same.
ProcessDatagram(p, sent) ==
    /\ p.msg.body.type = 1
    /\ fresh < MaxFresh /\ Len(table) < TableSize
    /\ \E info \in ReadInitiation(p.msg) :
        LET w == Response(info, Len(table), <<"r", fresh>>)
        IN  IF sent
            THEN /\ net' = net \cup {[of |-> p.of, msg |-> w.msg]}
                 /\ table' = Append(table, [keys |-> FinalizeResponder(w.sym), peer |-> info.rs])
            ELSE UNCHANGED <<net, table>>
    /\ fresh' = fresh + 1
    /\ UNCHANGED ini

\* NotInitiation, TableFull or Refused: nothing changes.
DatagramRefused(p) ==
    /\ p.msg.body.type = 1 /\ Len(table) < TableSize => ReadInitiation(p.msg) = {}
    /\ UNCHANGED noiseVars

\* An initiator that waits is handed a response, and finalizes if it reads it.
TakeResponse(i, p) ==
    /\ ini[i].st = "sent" /\ p.msg.body.type = 2
    /\ Len(ini[i].sym.h) <= 4 + MaxFailed
    /\ LET r == ReadResponse(i, p.msg)
       IN  ini' = [ini EXCEPT ![i].sym = r.sym,
                              ![i].st = IF r.ok THEN "done" ELSE @,
                              ![i].res = IF r.ok THEN {FinalizeInitiator(r.sym)} ELSE @]
    /\ UNCHANGED <<table, net, fresh>>

\* The network puts a field of q, or zeros, into p.
Fields(p) == IF p.msg.body.type = 1 THEN {"e", "encStatic", "encTime"} ELSE {"e", "enc"}
Mix(p, q) ==
    /\ Cardinality({r \in net : r.of = 0}) < MaxMixed
    /\ p.msg.body.type = q.msg.body.type /\ p.of # 0 /\ q.of # 0
    /\ \E f \in Fields(p), again \in BOOLEAN :
        \E v \in {q.msg.body[f]} \cup (IF f = "e" THEN {Zero} ELSE {}) :
            LET body == [p.msg.body EXCEPT ![f] = v]
            IN  /\ body # p.msg.body
                /\ net' = net \cup {[of |-> 0, msg |-> IF again THEN Framed(body)
                                                       ELSE [p.msg EXCEPT !.body = body]]}
    /\ UNCHANGED <<ini, table, fresh>>

NoiseNext ==
    \/ \E i \in Attempts : Initiate(i)
    \/ \E p \in net, sent \in BOOLEAN : ProcessDatagram(p, sent)
    \/ \E p \in net : DatagramRefused(p)
    \/ \E i \in Attempts, p \in net : TakeResponse(i, p)
    \/ \E p, q \in net : Mix(p, q)

NoiseSpec == NoiseInit /\ [][NoiseNext]_noiseVars

-----------------------------------------------------------------------------
\* The two ends of a finished handshake hold one transcript hash and swapped
\* keys, each with the static key of the other (SPEC 2.2), however messages
\* were repeated, mixed up or misdelivered; two sessions of the node never share
\* a key, also when both answer one repeated initiation; and a whole initiation is
\* read, and so is a whole answer to it, unless an answer that failed behind mac1
\* has mixed another key into the initiator's state before.
KeysAgree ==
    /\ \A i \in Attempts : \A r \in ini[i].res :
        /\ TargetOf[i] = OwnStatic
        /\ \E k \in DOMAIN table :
            /\ table[k].keys = [send |-> r.recv, recv |-> r.send, hash |-> r.hash]
            /\ table[k].peer = StaticOf[i] /\ r.send # r.recv
    /\ \A k \in DOMAIN table :
        \E i \in Attempts : ini[i].st # "new" /\ StaticOf[i] = table[k].peer /\ TargetOf[i] = OwnStatic
    /\ \A k, l \in DOMAIN table : k # l => table[k].keys.send # table[l].keys.send
    /\ \A i \in Attempts, p \in net :
        p.of = i /\ TargetOf[i] = OwnStatic =>
            IF p.msg.body.type = 1 THEN ReadInitiation(p.msg) # {}
            ELSE ini[i].st = "sent" /\ Len(ini[i].sym.h) = 4 => ReadResponse(i, p.msg).ok
=============================================================================
