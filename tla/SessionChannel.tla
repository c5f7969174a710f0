--------------------------- MODULE SessionChannel ---------------------------
(***************************************************************************)
(* One direction of a transport session (transport/session.rs): the        *)
(* CipherState of the sender, the RecvState of the receiver and a network  *)
(* that loses, duplicates, delays and reorders packets.  Each end moves to *)
(* a new key on its own (Session::rotate), so packets of an old key may    *)
(* still be under way.                                                     *)
(*                                                                         *)
(* The receive window is `highest` and a 64-bit mask, here the set of the  *)
(* offsets behind `highest` whose bit is set.  Unlike transport/replay.rs  *)
(* it has no `initialized` flag: highest = 0 means "nothing received yet". *)
(*                                                                         *)
(* Keys are the successive handshake outputs, numbered; a packet opens     *)
(* under the key that sealed it and under no other (AEAD, external).       *)
(***************************************************************************)
EXTENDS Integers

CONSTANTS
    MASK_BITS,               \* width of the mask; 64 in the code
    REKEY_AFTER_MESSAGES,    \* seals allowed under one key; 2^48 in the code
    MaxKey                   \* bound: handshakes considered

ASSUME ChannelAssumption ==
    /\ MASK_BITS \in Nat \ {0}
    /\ REKEY_AFTER_MESSAGES \in Nat \ {0}
    /\ MaxKey \in Nat

Keys == 0 .. MaxKey
ChannelCounters == 0 .. REKEY_AFTER_MESSAGES - 1
Packets == [key : Keys, counter : ChannelCounters]

NewMask == [highest |-> 0, mask |-> {}]

\* The return value of ReplayWindow::check.
FreshCounter(w, c) ==
    \/ w.highest = 0
    \/ c > w.highest
    \/ /\ c < w.highest
       /\ w.highest - c < MASK_BITS
       /\ w.highest - c \notin w.mask

\* The window after check has returned true.
RecordCounter(w, c) ==
    IF w.highest = 0
    THEN [highest |-> c, mask |-> {0}]
    ELSE IF c > w.highest
    THEN [highest |-> c,
          mask |-> {d \in 0 .. MASK_BITS - 1 : d - (c - w.highest) \in w.mask} \cup {0}]
    ELSE [w EXCEPT !.mask = @ \cup {w.highest - c}]

-----------------------------------------------------------------------------
VARIABLES
    send,       \* CipherState: key and counter of the next seal
    recv,       \* RecvState: key and window
    flight,     \* packets sealed so far; any of them may arrive at any time
    sealed,     \* history: seals per packet, 2 for "more than once"
    opened      \* history: successful opens per packet, 2 for "more than once"

channelVars == <<send, recv, flight, sealed, opened>>

ChannelInit ==
    /\ send = [key |-> 0, counter |-> 0]
    /\ recv = [key |-> 0, window |-> NewMask]
    /\ flight = {}
    /\ sealed = [p \in Packets |-> 0]
    /\ opened = [p \in Packets |-> 0]

Again(n) == IF n = 0 THEN 1 ELSE 2

\* Mutant: the counter advances only after a packet that is not the first.
SealSticky ==
    LET p == [key |-> send.key, counter |-> send.counter] IN
    /\ send.counter < REKEY_AFTER_MESSAGES
    /\ send' = [send EXCEPT !.counter = IF @ = 0 /\ p \notin flight THEN 0 ELSE @ + 1]
    /\ flight' = flight \cup {p}
    /\ sealed' = [sealed EXCEPT ![p] = Again(@)]
    /\ UNCHANGED <<recv, opened>>

\* Session::seal and CipherState::seal: the header carries the counter, the
\* nonce is made from it, and it advances once the packet is sealed.
Seal ==
    LET p == [key |-> send.key, counter |-> send.counter] IN
    /\ send.counter < REKEY_AFTER_MESSAGES
    /\ send' = [send EXCEPT !.counter = @ + 1]
    /\ flight' = flight \cup {p}
    /\ sealed' = [sealed EXCEPT ![p] = Again(@)]
    /\ UNCHANGED <<recv, opened>>

\* CipherState::seal at the limit: RekeyRequired, nothing changes.
SealRefused ==
    /\ send.counter >= REKEY_AFTER_MESSAGES
    /\ UNCHANGED channelVars

\* RecvState::open of a packet whose tag verifies and whose counter is fresh.
Open(p) ==
    /\ p \in flight
    /\ p.key = recv.key
    /\ FreshCounter(recv.window, p.counter)
    /\ recv' = [recv EXCEPT !.window = RecordCounter(@, p.counter)]
    /\ opened' = [opened EXCEPT ![p] = Again(@)]
    /\ UNCHANGED <<send, flight, sealed>>

\* RecvState::open that fails: DecryptFailed for a packet of another key
\* (the window is not consulted), Replay for a counter that is not fresh.
OpenFails(p) ==
    /\ p \in flight
    /\ \/ p.key # recv.key
       \/ ~FreshCounter(recv.window, p.counter)
    /\ UNCHANGED channelVars

\* Session::rotate, the send half: zero(), then the new key.
RotateSend ==
    /\ send.key < MaxKey
    /\ send' = [key |-> send.key + 1, counter |-> 0]
    /\ UNCHANGED <<recv, flight, sealed, opened>>

\* Mutant: rotate installs the new receive key without zeroing the window.
RotateRecvKeepsWindow ==
    /\ recv.key < MaxKey
    /\ recv' = [recv EXCEPT !.key = @ + 1]
    /\ UNCHANGED <<send, flight, sealed, opened>>

\* Session::rotate at the peer, the receive half: zero(), then the new key.
RotateRecv ==
    /\ recv.key < MaxKey
    /\ recv' = [key |-> recv.key + 1, window |-> NewMask]
    /\ UNCHANGED <<send, flight, sealed, opened>>

ChannelNext ==
    \/ Seal
    \/ SealRefused
    \/ \E p \in Packets : Open(p) \/ OpenFails(p)
    \/ RotateSend
    \/ RotateRecv

ChannelSpec == ChannelInit /\ [][ChannelNext]_channelVars

-----------------------------------------------------------------------------

\* The two ends, the network and the histories have their types.
ChannelTypeOK ==
    /\ send \in [key : Keys, counter : 0 .. REKEY_AFTER_MESSAGES]
    /\ recv \in [key : Keys, window : [highest : ChannelCounters, mask : SUBSET (0 .. MASK_BITS - 1)]]
    /\ flight \subseteq Packets
    /\ sealed \in [Packets -> 0 .. 2]
    /\ opened \in [Packets -> 0 .. 2]

\* BE-TR-02: no key is ever used with the same nonce twice, through every
\* number of seals and every rotation (seal advances the counter it used,
\* rotate restarts it only together with a new key).
NonceUnique == \A p \in Packets : sealed[p] <= 1

\* BE-TR-03 for every counter but the first: a packet with a non-zero
\* counter is opened at most once, however often the network repeats it.
NonzeroAtMostOnce == \A p \in Packets : p.counter > 0 => opened[p] <= 1

\* RecvState::open loses nothing inside the mask: under the current key the
\* bit of a non-zero counter is set exactly when its packet was opened.
NonzeroExact ==
    \A p \in Packets :
        (p.key = recv.key /\ 0 < p.counter /\ p.counter <= recv.window.highest
            /\ recv.window.highest - p.counter < MASK_BITS)
        => (recv.window.highest - p.counter \in recv.window.mask <=> opened[p] >= 1)

\* "Returns true iff the counter is fresh" (session.rs:53) for every packet:
\* none is opened twice.  Counter 0 breaks it: it leaves highest at 0, which
\* check() reads as "nothing received yet".
EveryPacketAtMostOnce == \A p \in Packets : opened[p] <= 1

\* The inductive invariant: what is sealed under the sender's key is below
\* its counter, nothing is sealed under a later key; what is opened under the
\* receiver's key is at or below `highest`, nothing is opened under a later
\* key.
ChannelInv ==
    /\ ChannelTypeOK
    /\ NonceUnique
    /\ NonzeroAtMostOnce
    /\ NonzeroExact
    /\ \A p \in Packets :
         /\ sealed[p] >= 1 => p.key <= send.key
         /\ sealed[p] >= 1 /\ p.key = send.key => p.counter < send.counter
         /\ opened[p] >= 1 => p.key <= recv.key
         /\ opened[p] >= 1 /\ p.key = recv.key => p.counter <= recv.window.highest
=============================================================================
