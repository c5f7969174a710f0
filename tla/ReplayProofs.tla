---------------------------- MODULE ReplayProofs ----------------------------
(***************************************************************************)
(* Proofs about the two anti-replay windows of the transport: BE-TR-03 for *)
(* the filter of replay.rs, for every window width and every set of        *)
(* counters, and the channel of session.rs, for every mask width, every    *)
(* rekey limit and every number of keys.                                   *)
(***************************************************************************)
EXTENDS WindowBits, SessionChannel, DataLemmas

-----------------------------------------------------------------------------
(* The filter of replay.rs.                                                *)

\* The offsets of a shifted bitmap are the old ones moved up, the overflow
\* lost (shift_left).
LEMMA ShiftLeftFacts ==
    ASSUME NEW bits \in SUBSET (0 .. WINDOW_BITS - 1), NEW shift \in Nat
    PROVE  /\ ShiftLeft(bits, shift) \in SUBSET (0 .. WINDOW_BITS - 1)
           /\ \A d \in 0 .. WINDOW_BITS - 1 :
                 d \in ShiftLeft(bits, shift) <=> d - shift \in bits
    BY WindowAssumption DEF ShiftLeft

\* check() keeps the type of the filter, whatever counter it records.
LEMMA RecordType ==
    ASSUME NEW w \in Window, NEW c \in Nat, Fresh(w, c)
    PROVE  Record(w, c) \in Window
<1> USE WindowAssumption DEF Window
<1>1. CASE ~w.initialized
    BY <1>1 DEF Record
<1>2. CASE w.initialized /\ c > w.largest
    BY <1>2, ShiftLeftFacts DEF Record
<1>3. CASE w.initialized /\ c <= w.largest
    BY <1>3 DEF Record, Fresh
<1> QED BY <1>1, <1>2, <1>3

\* The invariant holds of a new filter.
LEMMA InitInv == WindowInit => Inv
    BY WindowAssumption, CountersAssumption
    DEF WindowInit, Inv, TypeOK, Window, NewWindow, AtMostOnce, WindowExact

\* One accepted counter preserves the invariant.
LEMMA AcceptInv ==
    ASSUME Inv, NEW c \in Counters, Accept(c)
    PROVE  Inv'
<1> USE WindowAssumption, CountersAssumption
<1>t. c \in Nat /\ win \in Window /\ accepts \in [Counters -> 0 .. 2]
    BY DEF Inv, TypeOK
<1>0. accepts[c] = 0
    <2>1. CASE ~win.initialized  BY <2>1 DEF Inv
    <2>2. CASE win.initialized /\ c > win.largest
        BY <2>2, <1>t DEF Inv, Window
    <2>3. CASE win.initialized /\ c <= win.largest
        BY <2>3, <1>t DEF Inv, Window, WindowExact, Accept, Fresh
    <2> QED BY <2>1, <2>2, <2>3, <1>t DEF Window
<1>1. accepts' = [accepts EXCEPT ![c] = 1]
    BY <1>0, <1>t DEF Accept
<1>2. win' = Record(win, c) /\ win' \in Window
    BY <1>t, RecordType DEF Accept
<1>3. TypeOK'
    BY <1>1, <1>2, <1>t DEF TypeOK
<1>4. AtMostOnce'
    BY <1>1, <1>t DEF Inv, AtMostOnce
<1>5. win'.initialized /\ c <= win'.largest
        /\ (win.initialized => win.largest <= win'.largest)
    BY <1>2, <1>t DEF Record, Window
<1>6. \A x \in Counters : accepts'[x] >= 1 => x <= win'.largest
    BY <1>1, <1>5, <1>2, <1>t DEF Inv, Window
<1>7. WindowExact'
    <2> SUFFICES ASSUME NEW x \in Counters,
                        x <= win'.largest, win'.largest - x < WINDOW_BITS
                 PROVE  win'.largest - x \in win'.bits <=> accepts'[x] >= 1
        BY DEF WindowExact
    <2>x. x \in Nat  OBVIOUS
    <2>1. CASE ~win.initialized
        <3>1. win'.bits = {0} /\ win'.largest = c
            BY <2>1, <1>2 DEF Inv, Record
        <3>2. accepts'[x] = IF x = c THEN 1 ELSE 0
            BY <2>1, <1>1, <1>t DEF Inv
        <3> QED BY <3>1, <3>2, <2>x, <1>t
    <2>2. CASE win.initialized /\ c > win.largest
        <3> DEFINE s == c - win.largest
        <3>1. win'.largest = c /\ win'.bits = ShiftLeft(win.bits, s) \cup {0}
            BY <2>2, <1>2 DEF Record
        <3>2. s \in Nat \ {0} /\ win.bits \in SUBSET (0 .. WINDOW_BITS - 1)
              /\ win.largest \in Nat
            BY <2>2, <1>t DEF Window
        <3>3. CASE x = c
            BY <3>1, <3>3, <1>1, <1>t
        <3>4. CASE x # c
            <4>1. c - x \in 0 .. WINDOW_BITS - 1 /\ c - x # 0
                BY <3>1, <3>4, <1>t, <2>x
            <4>2. c - x \in win'.bits <=> (c - x) - s \in win.bits
                BY <4>1, <3>1, <3>2, ShiftLeftFacts
            <4>3. (c - x) - s = win.largest - x
                BY <2>x, <1>t, <3>2
            <4>4. win.largest - x \in win.bits <=> accepts[x] >= 1
                <5>1. CASE x <= win.largest
                    BY <5>1, <4>1, <2>2, <3>2, <2>x, <1>t DEF Inv, WindowExact
                <5>2. CASE x > win.largest
                    BY <5>2, <3>2, <2>x, <1>t DEF Inv
                <5> QED BY <5>1, <5>2, <2>x, <3>2
            <4>5. accepts'[x] = accepts[x]
                BY <1>1, <3>4, <1>t
            <4> QED BY <4>2, <4>3, <4>4, <4>5, <3>1
        <3> QED BY <3>3, <3>4
    <2>3. CASE win.initialized /\ c <= win.largest
        <3>1. win'.largest = win.largest /\ win.largest \in Nat
              /\ win'.bits = win.bits \cup {win.largest - c}
            BY <2>3, <1>2, <1>t DEF Record, Window
        <3>2. win.largest - x \in win.bits <=> accepts[x] >= 1
            BY <2>3, <3>1, <1>t DEF Inv, WindowExact
        <3> QED BY <3>1, <3>2, <1>1, <1>t, <2>x
    <2> QED BY <2>1, <2>2, <2>3, <1>t DEF Window
<1> QED BY <1>3, <1>4, <1>5, <1>6, <1>7 DEF Inv

\* The invariant is inductive.
LEMMA NextInv == Inv /\ [WindowNext]_windowVars => Inv'
<1> SUFFICES ASSUME Inv, [WindowNext]_windowVars PROVE Inv'  OBVIOUS
<1>1. ASSUME NEW c \in Counters, Accept(c) PROVE Inv'
    BY <1>1, AcceptInv
<1>2. ASSUME NEW c \in Counters, Refuse(c) PROVE Inv'
    BY <1>2 DEF Refuse, windowVars, Inv, TypeOK, AtMostOnce, WindowExact
<1>3. CASE UNCHANGED windowVars
    BY <1>3 DEF windowVars, Inv, TypeOK, AtMostOnce, WindowExact
<1> QED BY <1>1, <1>2, <1>3 DEF WindowNext

\* Every reachable state of the filter satisfies the inductive invariant.
THEOREM ReplayInvariant == WindowSpec => []Inv
    BY InitInv, NextInv, PTL DEF WindowSpec

\* The filter and its history always have their types.
THEOREM ReplayTypeOK == WindowSpec => []TypeOK
<1>1. Inv => TypeOK  BY DEF Inv
<1> QED BY <1>1, ReplayInvariant, PTL

\* BE-TR-03: check() answers "fresh" at most once per counter, for every
\* window width, every set of counters and every order of arrival.
THEOREM ReplayAtMostOnce == WindowSpec => []AtMostOnce
<1>1. Inv => AtMostOnce  BY DEF Inv
<1> QED BY <1>1, ReplayInvariant, PTL

\* No counter inside the window is refused that was not accepted before.
THEOREM ReplayWindowExact == WindowSpec => []WindowExact
<1>1. Inv => WindowExact  BY DEF Inv
<1> QED BY <1>1, ReplayInvariant, PTL

-----------------------------------------------------------------------------
(* The channel of session.rs.                                              *)

Mask == [highest : ChannelCounters, mask : SUBSET (0 .. MASK_BITS - 1)]

\* ReplayWindow::check keeps the type of the window.
LEMMA RecordCounterType ==
    ASSUME NEW w \in Mask, NEW c \in ChannelCounters, FreshCounter(w, c)
    PROVE  RecordCounter(w, c) \in Mask
<1> USE ChannelAssumption DEF Mask, ChannelCounters
<1>1. CASE w.highest = 0
    BY <1>1 DEF RecordCounter
<1>2. CASE w.highest # 0 /\ c > w.highest
    BY <1>2 DEF RecordCounter
<1>3. CASE w.highest # 0 /\ c <= w.highest
    BY <1>3 DEF RecordCounter, FreshCounter
<1> QED BY <1>1, <1>2, <1>3

\* The invariant holds at the first key.
LEMMA ChannelInitInv == ChannelInit => ChannelInv
    BY ChannelAssumption
    DEF ChannelInit, ChannelInv, ChannelTypeOK, NewMask, Packets, Keys, ChannelCounters,
        NonceUnique, NonzeroAtMostOnce, NonzeroExact

\* Sealing a packet preserves the invariant: its nonce was never used.
LEMMA SealInv == ASSUME ChannelInv, Seal PROVE ChannelInv'
<1> USE ChannelAssumption DEF Keys, ChannelCounters
<1> DEFINE p == [key |-> send.key, counter |-> send.counter]
<1>1. p \in Packets /\ p.key = send.key /\ p.counter = send.counter
    BY DEF Seal, ChannelInv, ChannelTypeOK, Packets
<1>2. sealed[p] = 0
    BY <1>1 DEF ChannelInv, ChannelTypeOK
<1>3. sealed' = [sealed EXCEPT ![p] = 1]
    BY <1>2 DEF Seal, Again
<1>4. send' = [send EXCEPT !.counter = @ + 1] /\ flight' = flight \cup {p}
      /\ recv' = recv /\ opened' = opened
    BY DEF Seal
<1>5. ChannelTypeOK'
    BY <1>1, <1>3, <1>4 DEF ChannelInv, ChannelTypeOK, Seal
<1>6. NonceUnique'
    BY <1>3 DEF ChannelInv, ChannelTypeOK, NonceUnique
<1>7. \A q \in Packets :
         /\ sealed'[q] >= 1 => q.key <= send'.key
         /\ sealed'[q] >= 1 /\ q.key = send'.key => q.counter < send'.counter
    <2> SUFFICES ASSUME NEW q \in Packets, sealed'[q] >= 1
                 PROVE  /\ q.key <= send'.key
                        /\ q.key = send'.key => q.counter < send'.counter
        OBVIOUS
    <2>0. send'.key = send.key /\ send'.counter = send.counter + 1
          /\ send.key \in Nat /\ send.counter \in Nat
        BY <1>4 DEF ChannelInv, ChannelTypeOK
    <2>1. CASE q = p
        BY <2>1, <2>0, <1>1
    <2>2. CASE q # p
        <3>1. sealed[q] >= 1  BY <2>2, <1>3 DEF ChannelInv, ChannelTypeOK
        <3>2. q.counter \in Nat /\ q.key \in Nat  BY DEF Packets
        <3> QED BY <3>1, <3>2, <2>0 DEF ChannelInv
    <2> QED BY <2>1, <2>2
<1>8. NonzeroAtMostOnce' /\ NonzeroExact'
    BY <1>4 DEF ChannelInv, NonzeroAtMostOnce, NonzeroExact
<1>9. \A q \in Packets :
         /\ opened'[q] >= 1 => q.key <= recv'.key
         /\ opened'[q] >= 1 /\ q.key = recv'.key => q.counter <= recv'.window.highest
    BY <1>4 DEF ChannelInv
<1> QED BY <1>5, <1>6, <1>7, <1>8, <1>9 DEF ChannelInv

\* Opening a packet preserves the invariant: a non-zero counter that check()
\* calls fresh was never opened, and the mask stays exact.
LEMMA OpenInv ==
    ASSUME ChannelInv, NEW p \in Packets, Open(p)
    PROVE  ChannelInv'
<1> USE ChannelAssumption DEF Keys, ChannelCounters
<1> DEFINE w == recv.window
           c == p.counter
           v == RecordCounter(w, c)
<1>t. /\ w \in Mask /\ w.highest \in Nat /\ w.mask \in SUBSET (0 .. MASK_BITS - 1)
      /\ c \in ChannelCounters /\ c \in Nat /\ p.key = recv.key
      /\ opened \in [Packets -> 0 .. 2]
      /\ recv \in [key : Keys, window : Mask]
    BY DEF ChannelInv, ChannelTypeOK, Mask, Packets, Open
<1>1. recv' = [recv EXCEPT !.window = v] /\ v \in Mask
    BY <1>t, RecordCounterType DEF Open
<1>2. recv'.key = recv.key /\ recv'.window = v
    BY <1>1, <1>t
<1>3. opened' = [opened EXCEPT ![p] = Again(@)] /\ UNCHANGED <<send, flight, sealed>>
    BY DEF Open
<1>4. ChannelTypeOK'
    BY <1>1, <1>3, <1>t DEF ChannelInv, ChannelTypeOK, Mask, Again
<1>5. NonceUnique'
    BY <1>3 DEF ChannelInv, NonceUnique
<1>6. c > 0 => opened[p] = 0
    <2> SUFFICES ASSUME c > 0 PROVE opened[p] = 0  OBVIOUS
    <2>1. CASE c > w.highest
        BY <2>1, <1>t DEF ChannelInv
    <2>2. CASE c <= w.highest
        BY <2>2, <1>t DEF ChannelInv, NonzeroExact, Open, FreshCounter
    <2> QED BY <2>1, <2>2, <1>t
<1>7. c > 0 => opened'[p] = 1
    BY <1>6, <1>3, <1>t DEF Again
<1>8. opened'[p] >= 1 /\ \A q \in Packets : q # p => opened'[q] = opened[q]
    BY <1>3, <1>t DEF Again
<1>9. NonzeroAtMostOnce'
    BY <1>7, <1>8 DEF ChannelInv, NonzeroAtMostOnce
<1>10. c <= v.highest /\ w.highest <= v.highest /\ v.highest \in Nat
       /\ v.mask \in SUBSET (0 .. MASK_BITS - 1)
    BY <1>1, <1>t DEF RecordCounter, Mask
<1>11. \A q \in Packets :
         /\ opened'[q] >= 1 => q.key <= recv'.key
         /\ opened'[q] >= 1 /\ q.key = recv'.key => q.counter <= recv'.window.highest
    <2> SUFFICES ASSUME NEW q \in Packets, opened'[q] >= 1
                 PROVE  /\ q.key <= recv'.key
                        /\ q.key = recv'.key => q.counter <= v.highest
        BY <1>2
    <2>0. q.counter \in Nat /\ q.key \in Nat /\ recv.key \in Nat
        BY <1>t DEF Packets
    <2>1. CASE q = p  BY <2>1, <2>0, <1>2, <1>10, <1>t
    <2>2. CASE q # p
        BY <2>2, <2>0, <1>2, <1>8, <1>10, <1>t DEF ChannelInv
    <2> QED BY <2>1, <2>2
<1>12. NonzeroExact'
    <2> SUFFICES ASSUME NEW q \in Packets, q.key = recv.key, 0 < q.counter,
                        q.counter <= v.highest, v.highest - q.counter < MASK_BITS
                 PROVE  v.highest - q.counter \in v.mask <=> opened'[q] >= 1
        BY <1>2 DEF NonzeroExact
    <2>x. q.counter \in Nat  BY DEF Packets
    <2>q. q = p <=> q.counter = c
        BY <1>t DEF Packets
    <2>1. CASE w.highest = 0
        <3>1. v = [highest |-> c, mask |-> {0}]
            BY <2>1 DEF RecordCounter
        <3>2. q # p => opened[q] = 0
            BY <2>1, <2>x, <1>t DEF ChannelInv
        <3> QED BY <3>1, <3>2, <2>q, <2>x, <1>8, <1>t
    <2>2. CASE w.highest # 0 /\ c > w.highest
        <3>1. v.highest = c
              /\ v.mask = {d \in 0 .. MASK_BITS - 1 : d - (c - w.highest) \in w.mask} \cup {0}
            BY <2>2, <1>t DEF RecordCounter
        <3>2. CASE q = p
            BY <3>1, <3>2, <1>8, <1>t
        <3>3. CASE q # p
            <4>1. c - q.counter \in 0 .. MASK_BITS - 1 /\ c - q.counter # 0
                BY <3>1, <3>3, <2>q, <2>x, <1>t
            <4>2. c - q.counter \in v.mask
                    <=> (c - q.counter) - (c - w.highest) \in w.mask
                BY <4>1, <3>1
            <4>3. (c - q.counter) - (c - w.highest) = w.highest - q.counter
                BY <2>x, <1>t
            <4>4. w.highest - q.counter \in w.mask <=> opened[q] >= 1
                <5>1. CASE q.counter <= w.highest
                    BY <5>1, <4>1, <2>2, <2>x, <1>t DEF ChannelInv, NonzeroExact
                <5>2. CASE q.counter > w.highest
                    BY <5>2, <2>x, <1>t DEF ChannelInv
                <5> QED BY <5>1, <5>2, <2>x, <1>t
            <4> QED BY <4>2, <4>3, <4>4, <3>1, <3>3, <1>8
        <3> QED BY <3>2, <3>3
    <2>3. CASE w.highest # 0 /\ c <= w.highest
        <3>1. v.highest = w.highest /\ v.mask = w.mask \cup {w.highest - c}
            BY <2>3, <1>t DEF RecordCounter, Mask
        <3>2. w.highest - q.counter \in w.mask <=> opened[q] >= 1
            BY <2>3, <3>1, <2>x, <1>t DEF ChannelInv, NonzeroExact
        <3> QED BY <3>1, <3>2, <2>q, <2>x, <1>8, <1>t
    <2> QED BY <2>1, <2>2, <2>3, <1>t
<1>13. \A q \in Packets :
         /\ sealed'[q] >= 1 => q.key <= send'.key
         /\ sealed'[q] >= 1 /\ q.key = send'.key => q.counter < send'.counter
    BY <1>3 DEF ChannelInv
<1> QED BY <1>4, <1>5, <1>9, <1>11, <1>12, <1>13 DEF ChannelInv

\* A new key at either end preserves the invariant: nothing was sealed, and
\* nothing opened, under a later key.
LEMMA RotateInv == ASSUME ChannelInv, RotateSend \/ RotateRecv PROVE ChannelInv'
<1> USE ChannelAssumption DEF Keys, ChannelCounters
<1>0. \A q \in Packets : q.key \in Nat /\ q.counter \in Nat
    BY DEF Packets
<1>1. CASE RotateSend
    <2>1. ChannelTypeOK'
        BY <1>1 DEF RotateSend, ChannelInv, ChannelTypeOK
    <2>2. NonceUnique' /\ NonzeroAtMostOnce' /\ NonzeroExact'
        BY <1>1 DEF RotateSend, ChannelInv, NonceUnique, NonzeroAtMostOnce, NonzeroExact
    <2>3. \A q \in Packets :
             /\ sealed'[q] >= 1 => q.key <= send'.key
             /\ sealed'[q] >= 1 /\ q.key = send'.key => q.counter < send'.counter
        BY <1>0, <1>1 DEF RotateSend, ChannelInv, ChannelTypeOK
    <2>4. \A q \in Packets :
             /\ opened'[q] >= 1 => q.key <= recv'.key
             /\ opened'[q] >= 1 /\ q.key = recv'.key
                  => q.counter <= recv'.window.highest
        BY <1>1 DEF RotateSend, ChannelInv
    <2> QED BY <2>1, <2>2, <2>3, <2>4 DEF ChannelInv
<1>2. CASE RotateRecv
    <2>1. ChannelTypeOK'
        BY <1>2 DEF RotateRecv, ChannelInv, ChannelTypeOK, NewMask
    <2>2. NonceUnique' /\ NonzeroAtMostOnce'
        BY <1>2 DEF RotateRecv, ChannelInv, NonceUnique, NonzeroAtMostOnce
    <2>3. NonzeroExact'
        BY <1>0, <1>2 DEF RotateRecv, NonzeroExact, NewMask
    <2>4. \A q \in Packets :
             /\ opened'[q] >= 1 => q.key <= recv'.key
             /\ opened'[q] >= 1 /\ q.key = recv'.key
                  => q.counter <= recv'.window.highest
        BY <1>0, <1>2 DEF RotateRecv, ChannelInv, ChannelTypeOK
    <2>5. \A q \in Packets :
             /\ sealed'[q] >= 1 => q.key <= send'.key
             /\ sealed'[q] >= 1 /\ q.key = send'.key => q.counter < send'.counter
        BY <1>2 DEF RotateRecv, ChannelInv
    <2> QED BY <2>1, <2>2, <2>3, <2>4, <2>5 DEF ChannelInv
<1> QED BY <1>1, <1>2

\* The invariant is inductive.
LEMMA ChannelNextInv == ChannelInv /\ [ChannelNext]_channelVars => ChannelInv'
<1> SUFFICES ASSUME ChannelInv, [ChannelNext]_channelVars PROVE ChannelInv'  OBVIOUS
<1>1. CASE Seal  BY <1>1, SealInv
<1>2. ASSUME NEW p \in Packets, Open(p) PROVE ChannelInv'
    BY <1>2, OpenInv
<1>3. CASE RotateSend \/ RotateRecv  BY <1>3, RotateInv
<1>4. CASE UNCHANGED channelVars
    BY <1>4 DEF channelVars, ChannelInv, ChannelTypeOK, NonceUnique, NonzeroAtMostOnce, NonzeroExact
<1>5. CASE SealRefused  BY <1>4, <1>5 DEF SealRefused
<1>6. ASSUME NEW p \in Packets, OpenFails(p) PROVE ChannelInv'
    BY <1>4, <1>6 DEF OpenFails
<1> QED BY <1>1, <1>2, <1>3, <1>4, <1>5, <1>6 DEF ChannelNext

\* Every reachable state of the channel satisfies the inductive invariant.
THEOREM ChannelInvariant == ChannelSpec => []ChannelInv
    BY ChannelInitInv, ChannelNextInv, PTL DEF ChannelSpec

\* BE-TR-02: no (key, nonce) pair is used by two seals, for every rekey
\* limit and every interleaving of seals and rotations.
THEOREM ChannelNonceUnique == ChannelSpec => []NonceUnique
<1>1. ChannelInv => NonceUnique  BY DEF ChannelInv
<1> QED BY <1>1, ChannelInvariant, PTL

\* BE-TR-03 except for counter 0: a packet is opened at most once, whatever
\* the network repeats and however the two ends rotate.
THEOREM ChannelNonzeroAtMostOnce == ChannelSpec => []NonzeroAtMostOnce
<1>1. ChannelInv => NonzeroAtMostOnce  BY DEF ChannelInv
<1> QED BY <1>1, ChannelInvariant, PTL

\* No packet with a non-zero counter inside the mask is refused unopened.
THEOREM ChannelNonzeroExact == ChannelSpec => []NonzeroExact
<1>1. ChannelInv => NonzeroExact  BY DEF ChannelInv
<1> QED BY <1>1, ChannelInvariant, PTL

-----------------------------------------------------------------------------
(* The words of the filter.                                                *)

Arrays == [Words -> SUBSET Bits]

\* An offset is the word and the bit check() finds it at.
LEMMA OffsetParts ==
    ASSUME NEW d \in Nat
    PROVE  \E q \in Nat, r \in Bits :
               q = d \div WORD_BITS /\ r = d % WORD_BITS /\ d = q * WORD_BITS + r
<1>1. WORD_BITS \in Nat \ {0}  BY WordsAssumption
<1>2. d \div WORD_BITS \in Nat  BY <1>1
<1>3. d % WORD_BITS \in 0 .. WORD_BITS - 1  BY <1>1
<1> DEFINE q == d \div WORD_BITS
           r == d % WORD_BITS
<1>4. q = d \div WORD_BITS /\ r = d % WORD_BITS /\ q \in Nat /\ r \in Nat
    BY <1>1, <1>2, <1>3
<1> HIDE DEF q, r
<1>5. d = q * WORD_BITS + r
    BY <1>1, <1>4
<1>6. r \in Bits  BY <1>3, <1>4 DEF Bits
<1> QED BY <1>4, <1>5, <1>6, Zenon

\* The word and the bit of an offset are its only ones.
LEMMA PartsUnique ==
    ASSUME NEW q \in Nat, NEW r \in Bits
    PROVE  (q * WORD_BITS + r) \div WORD_BITS = q /\ (q * WORD_BITS + r) % WORD_BITS = r
<1>1. WORD_BITS \in Nat \ {0} /\ r \in 0 .. WORD_BITS - 1  BY WordsAssumption DEF Bits
<1> QED BY <1>1

\* The offsets of the window are the bits of its words.
LEMMA OffsetWord ==
    ASSUME NEW d \in Nat
    PROVE  d \in 0 .. WINDOW_BITS - 1 <=> d \div WORD_BITS \in Words
<1> DEFINE W == WORD_BITS
<1>0. PICK q \in Nat, r \in Bits : q = d \div W /\ r = d % W /\ d = q * W + r
    BY OffsetParts
<1>1. /\ W \in Nat \ {0} /\ WINDOW_WORDS \in Nat \ {0} /\ WINDOW_BITS = W * WINDOW_WORDS
      /\ q \in Nat /\ r \in 0 .. W - 1 /\ d = q * W + r
    BY <1>0, WordsAssumption DEF Bits
<1> SUFFICES d \in 0 .. WINDOW_BITS - 1 <=> q \in Words
    BY <1>0
<1> HIDE DEF W
<1>2. CASE q >= WINDOW_WORDS
    <2>1. (q - WINDOW_WORDS) * W >= 0
        <3>1. q - WINDOW_WORDS \in Nat  BY <1>1, <1>2
        <3> QED BY <1>1, <3>1
    <2>2. d >= WINDOW_BITS  BY <1>1, <2>1
    <2>3. WINDOW_BITS \in Nat  BY <1>1
    <2> QED BY <1>1, <1>2, <2>2, <2>3 DEF Words
<1>3. CASE q < WINDOW_WORDS
    <2>1. (WINDOW_WORDS - q - 1) * W >= 0
        <3>1. WINDOW_WORDS - q - 1 \in Nat  BY <1>1, <1>3
        <3> QED BY <1>1, <3>1
    <2>2. d < WINDOW_BITS  BY <1>1, <2>1
    <2>3. WINDOW_BITS \in Nat  BY <1>1
    <2> QED BY <1>1, <1>3, <2>2, <2>3 DEF Words
<1> QED BY <1>1, <1>2, <1>3

\* Word i of the shifted array, read from an array that agrees with a below i.
LEMMA ReadsBelow ==
    ASSUME NEW a, NEW b, NEW i \in Words, NEW shift \in Nat, \A j \in 0 .. i : b[j] = a[j]
    PROVE  ShiftedWord(b, i, shift) = ShiftedWord(a, i, shift)
<1> DEFINE q == shift \div WORD_BITS
<1>1. q \in Nat /\ i \in Nat  BY OffsetParts DEF Words
<1> HIDE DEF q
<1>2. i >= q => i - q \in 0 .. i  BY <1>1
<1>3. i >= q + 1 => i - q - 1 \in 0 .. i  BY <1>1
<1>4. i >= q => b[i - q] = a[i - q]  BY <1>2
<1>5. i >= q + 1 => b[i - q - 1] = a[i - q - 1]  BY <1>3
<1> QED BY <1>4, <1>5 DEF ShiftedWord, q

\* The loop of shift_left once it has come down to word w: from w on the words are
\* the shifted ones, each read from words not yet overwritten.
LEMMA LoopWords ==
    ASSUME NEW a \in Arrays, NEW shift \in Nat
    PROVE  Loop(a, shift)[0] = [i \in Words |-> ShiftedWord(a, i, shift)]
<1> DEFINE N == WINDOW_WORDS
           D(w) == [i \in Words |-> IF i >= w THEN ShiftedWord(a, i, shift) ELSE a[i]]
           Eq(f) == f = [w \in 0 .. N |->
                          IF w = N THEN a
                          ELSE [f[w + 1] EXCEPT ![w] = ShiftedWord(f[w + 1], w, shift)]]
           F == [w \in 0 .. N |-> D(w)]
<1>1. N \in Nat \ {0} /\ Words = 0 .. N - 1  BY WordsAssumption DEF Words
<1>2. D(N) = a
    BY <1>1 DEF Arrays
<1>3. ASSUME NEW w \in 0 .. N - 1
      PROVE  D(w) = [D(w + 1) EXCEPT ![w] = ShiftedWord(D(w + 1), w, shift)]
    <2>1. \A j \in 0 .. w : D(w + 1)[j] = a[j]  BY <1>1
    <2>2. ShiftedWord(D(w + 1), w, shift) = ShiftedWord(a, w, shift)
        <3> HIDE DEF D
        <3> QED BY <1>1, <2>1, ReadsBelow
    <2>3. D(w) = [D(w + 1) EXCEPT ![w] = ShiftedWord(a, w, shift)]
        <3>1. ASSUME NEW i \in Words
              PROVE  D(w)[i] = IF i = w THEN ShiftedWord(a, w, shift) ELSE D(w + 1)[i]
            <4>1. i \in Int /\ w \in Int  BY <1>1
            <4>2. i # w => (i >= w <=> i >= w + 1)  BY <4>1
            <4> QED BY <4>1, <4>2
        <3>2. DOMAIN D(w) = Words /\ DOMAIN D(w + 1) = Words  OBVIOUS
        <3>3. D(w) = [i \in Words |-> D(w)[i]]  OBVIOUS
        <3> HIDE DEF D
        <3> QED BY <3>1, <3>2, <3>3
    <2> HIDE DEF D
    <2> QED BY <2>2, <2>3
<1> HIDE DEF D
<1>4. Eq(F)
    <2>1. ASSUME NEW w \in 0 .. N
          PROVE  F[w] = IF w = N THEN a
                        ELSE [F[w + 1] EXCEPT ![w] = ShiftedWord(F[w + 1], w, shift)]
        <3>1. CASE w = N  BY <1>2, <3>1
        <3>2. CASE w # N
            <4>1. w \in 0 .. N - 1 /\ w + 1 \in 0 .. N  BY <1>1, <3>2
            <4>2. F[w] = D(w) /\ F[w + 1] = D(w + 1)  BY <4>1
            <4> QED BY <1>3, <3>2, <4>1, <4>2
        <3> QED BY <3>1, <3>2
    <2> QED BY <2>1
<1>5. Loop(a, shift) = CHOOSE f : Eq(f)
    BY DEF Loop
<1> DEFINE f == Loop(a, shift)
<1> HIDE DEF F
<1>6. Eq(f)
    BY <1>4, <1>5
<1> HIDE DEF f
<1>7. f[N] = a /\ \A w \in 0 .. N - 1 :
                     f[w] = [f[w + 1] EXCEPT ![w] = ShiftedWord(f[w + 1], w, shift)]
    <2>1. f[N] = a
        <3>1. N \in 0 .. N  BY <1>1
        <3> QED BY <1>6, <3>1
    <2>2. ASSUME NEW w \in 0 .. N - 1
          PROVE  f[w] = [f[w + 1] EXCEPT ![w] = ShiftedWord(f[w + 1], w, shift)]
        <3>1. w \in 0 .. N /\ w # N  BY <1>1
        <3> QED BY <1>6, <3>1
    <2> QED BY <2>1, <2>2
<1> DEFINE T == {k \in 0 .. N : f[N - k] # D(N - k)}
<1>8. T = {}
    <2> SUFFICES ASSUME T # {} PROVE FALSE  OBVIOUS
    <2>1. T \in SUBSET Nat  BY <1>1
    <2>2. PICK k \in T : \A y \in T : k <= y  BY <2>1, LeastNatural
    <2>3. k \in 0 .. N /\ f[N - k] # D(N - k)  BY <2>2
    <2>4. k # 0
        <3>1. N - 0 = N  BY <1>1
        <3> QED BY <1>2, <1>7, <2>3, <3>1
    <2> DEFINE w == N - k
    <2>5. w \in 0 .. N - 1 /\ k - 1 \in 0 .. N /\ N - (k - 1) = w + 1 /\ ~(k <= k - 1)
        BY <1>1, <2>3, <2>4
    <2>6. f[w + 1] = D(w + 1)
        <3>1. k - 1 \notin T  BY <2>2, <2>5
        <3> QED BY <2>5, <3>1
    <2>7. f[w] = D(w)
        BY <1>3, <1>7, <2>5, <2>6
    <2> QED BY <2>3, <2>7
<1>9. f[0] = D(0)
    <2>1. N \in 0 .. N /\ N - N = 0  BY <1>1
    <2> QED BY <1>8, <2>1
<1>10. D(0) = [i \in Words |-> ShiftedWord(a, i, shift)]
    BY <1>1 DEF D
<1> QED BY <1>9, <1>10 DEF f

\* Offset i * WORD_BITS + b is bit b of word i.
LEMMA OffsetBit ==
    ASSUME NEW a, NEW i \in Nat, NEW b \in Bits
    PROVE  i * WORD_BITS + b \in Offsets(a) <=> i \in Words /\ b \in a[i]
<1> DEFINE d == i * WORD_BITS + b
<1>1. d \in Nat  BY WordsAssumption DEF Bits
<1>2. d \div WORD_BITS = i /\ d % WORD_BITS = b  BY PartsUnique
<1> HIDE DEF d
<1>3. d \in 0 .. WINDOW_BITS - 1 <=> i \in Words  BY <1>1, <1>2, OffsetWord
<1>4. d \in Offsets(a) <=> d \in 0 .. WINDOW_BITS - 1 /\ b \in a[i]
    BY <1>2, Zenon DEF Offsets
<1> QED BY <1>3, <1>4 DEF d

\* The bits of a shifted word, from the two words they come from.
LEMMA ShiftedBit ==
    ASSUME NEW a, NEW i \in Words, NEW b \in Bits, NEW shift \in Nat,
           NEW q \in Nat, NEW r \in Bits, q = shift \div WORD_BITS, r = shift % WORD_BITS
    PROVE  b \in ShiftedWord(a, i, shift) <=>
               \/ i >= q /\ b - r \in a[i - q]
               \/ r # 0 /\ i >= q + 1 /\ b + (WORD_BITS - r) \in a[i - q - 1]
<1>1. ShiftedWord(a, i, shift)
        = (IF i >= q THEN Shl(a[i - q], r) ELSE {})
          \cup (IF r # 0 /\ i >= q + 1 THEN Shr(a[i - q - 1], WORD_BITS - r) ELSE {})
    BY Zenon DEF ShiftedWord
<1> QED BY <1>1 DEF Shl, Shr

\* shift_left on the words is the shift of the whole bitmap: no bit is lost between
\* two words, none is read after it was overwritten.
LEMMA ShiftOffsets ==
    ASSUME NEW a \in Arrays, NEW shift \in Nat
    PROVE  /\ ShiftWords(a, shift) \in Arrays
           /\ Offsets(ShiftWords(a, shift)) = ShiftLeft(Offsets(a), shift)
<1> DEFINE W == WORD_BITS
<1>0. /\ W \in Nat \ {0} /\ WINDOW_BITS \in Nat \ {0} /\ Bits = 0 .. W - 1
      /\ WINDOW_WORDS \in Nat \ {0} /\ Words = 0 .. WINDOW_WORDS - 1
    BY WordsAssumption, WindowAssumption DEF Bits, Words
<1>1. CASE shift >= WINDOW_BITS
    <2>1. ShiftWords(a, shift) = NoBits  BY <1>1 DEF ShiftWords
    <2>2. NoBits \in Arrays  BY DEF NoBits, Arrays
    <2>3. Offsets(NoBits) = {}
        <3> SUFFICES ASSUME NEW d \in 0 .. WINDOW_BITS - 1, d % W \in NoBits[d \div W] PROVE FALSE
            BY DEF Offsets
        <3>0. d \in Nat  BY <1>0
        <3>1. d \div W \in Words  BY <3>0, OffsetWord
        <3> HIDE DEF W
        <3> QED BY <3>1 DEF NoBits
    <2>4. ShiftLeft(Offsets(a), shift) = {}
        <3> SUFFICES ASSUME NEW d \in 0 .. WINDOW_BITS - 1, d - shift \in 0 .. WINDOW_BITS - 1
                     PROVE  FALSE
            BY DEF ShiftLeft, Offsets
        <3> QED BY <1>0, <1>1
    <2> QED BY <2>1, <2>2, <2>3, <2>4
<1>2. CASE shift < WINDOW_BITS
    <2> DEFINE s == [i \in Words |-> ShiftedWord(a, i, shift)]
    <2>1. ShiftWords(a, shift) = s
        BY <1>0, <1>2, LoopWords DEF ShiftWords
    <2>2. s \in Arrays
        BY DEF ShiftedWord, Shl, Shr, Arrays
    <2>3. ASSUME NEW d \in 0 .. WINDOW_BITS - 1
          PROVE  d \in Offsets(s) <=> d - shift \in Offsets(a)
        <3>1. PICK i \in Nat, b \in Bits : i = d \div W /\ b = d % W /\ d = i * W + b
            <4>1. d \in Nat  BY <1>0
            <4> QED BY <4>1, OffsetParts
        <3>2. PICK q \in Nat, r \in Bits : q = shift \div W /\ r = shift % W /\ shift = q * W + r
            BY OffsetParts
        <3>3. i \in Words
            <4>1. d \in Nat  BY <1>0
            <4> QED BY <3>1, <4>1, OffsetWord
        <3>4. d \in Offsets(s) <=> b \in ShiftedWord(a, i, shift)
            <4> HIDE DEF s
            <4>1. i * W + b \in Offsets(s) <=> i \in Words /\ b \in s[i]  BY OffsetBit
            <4> QED BY <3>1, <3>3, <4>1 DEF s
        <3>5. b \in ShiftedWord(a, i, shift) <=>
                  \/ i >= q /\ b - r \in a[i - q]
                  \/ r # 0 /\ i >= q + 1 /\ b + (W - r) \in a[i - q - 1]
            BY <3>2, <3>3, ShiftedBit
        <3>6. Offsets(a) \subseteq Nat  BY <1>0 DEF Offsets
        <3>7. \A k \in Words : a[k] \subseteq Bits  BY DEF Arrays
        <3>p. /\ d = i * W + b /\ shift = q * W + r /\ W \in Nat \ {0}
              /\ i \in Nat /\ q \in Nat /\ b \in 0 .. W - 1 /\ r \in 0 .. W - 1
            BY <1>0, <3>1, <3>2
        <3> HIDE DEF W, s
        <3>d. \A x, y \in Int : (x - y) * W = x * W - y * W  BY <3>p
        <3>m. i * W \in Int /\ q * W \in Int /\ i \in Int /\ q \in Int  BY <3>p
        <3>t. (i - q) * W = i * W - q * W /\ (i - q - 1) * W = i * W - q * W - W
            <4>1. (i - q) * W = i * W - q * W  BY <3>d, <3>m
            <4>2. i - q \in Int /\ 1 \in Int /\ 1 * W = W  BY <3>p, <3>m
            <4>3. (i - q - 1) * W = (i - q) * W - 1 * W  BY <3>d, <4>2
            <4> QED BY <4>1, <4>2, <4>3
        <3> DEFINE P == i * W
                   Q == q * W
        <3>u. P \in Int /\ Q \in Int /\ d = P + b /\ shift = Q + r
            BY <3>p, <3>m
        <3>v. (i - q) * W = P - Q /\ (i - q - 1) * W = P - Q - W
            BY <3>t
        <3> HIDE DEF P, Q
        <3>8. CASE b >= r /\ i >= q
            <4>1. d - shift = (i - q) * W + (b - r)  BY <3>p, <3>u, <3>v
            <4>2. i - q \in Nat /\ b - r \in Bits /\ i - q \in Words
                BY <1>0, <3>3, <3>8, <3>p
            <4>3. d - shift \in Offsets(a) <=> b - r \in a[i - q]
                BY <4>1, <4>2, OffsetBit DEF W
            <4>4. i >= q + 1 /\ r # 0 => b + (W - r) \notin a[i - q - 1]
                <5>1. i >= q + 1 => i - q - 1 \in Words  BY <1>0, <3>3, <3>p
                <5>2. b + (W - r) \notin Bits  BY <1>0, <3>8
                <5> QED BY <3>7, <5>1, <5>2
            <4> QED BY <3>4, <3>5, <3>8, <4>3, <4>4
        <3>9. CASE b < r /\ i >= q + 1
            <4>1. d - shift = (i - q - 1) * W + (b + (W - r))  BY <3>p, <3>u, <3>v
            <4>2. i - q - 1 \in Nat /\ b + (W - r) \in Bits /\ i - q - 1 \in Words
                BY <1>0, <3>3, <3>9, <3>p
            <4>3. d - shift \in Offsets(a) <=> b + (W - r) \in a[i - q - 1]
                BY <4>1, <4>2, OffsetBit DEF W
            <4>4. i >= q => b - r \notin a[i - q]
                <5>1. i >= q => i - q \in Words  BY <1>0, <3>3, <3>p
                <5>2. b - r \notin Bits  BY <1>0, <3>9
                <5> QED BY <3>7, <5>1, <5>2
            <4>5. r # 0  BY <1>0, <3>9
            <4> QED BY <3>4, <3>5, <3>9, <4>3, <4>4, <4>5
        <3>10. CASE i < q
            <4>1. Q - P - W >= 0
                <5>1. (q - i) * W = q * W - i * W  BY <3>d, <3>m
                <5>2. q - i \in Int /\ 1 \in Int /\ 1 * W = W  BY <3>p, <3>m
                <5>3. (q - i - 1) * W = (q - i) * W - 1 * W  BY <3>d, <5>2
                <5>4. \A x \in Nat : x * W >= 0  BY <3>p
                <5>5. q - i - 1 \in Nat  BY <3>p, <3>10
                <5>6. (q - i - 1) * W >= 0  BY <5>4, <5>5
                <5> QED BY <5>1, <5>2, <5>3, <5>6 DEF P, Q
            <4>2. d - shift < 0  BY <3>p, <3>u, <4>1
            <4>3. d - shift \notin Offsets(a)  BY <3>6, <4>2
            <4>4. ~(i >= q) /\ ~(i >= q + 1)  BY <3>10
            <4> QED BY <3>4, <3>5, <4>3, <4>4
        <3>11. CASE i = q /\ b < r
            <4>1. d - shift < 0  BY <3>p, <3>u, <3>11 DEF P, Q
            <4>2. d - shift \notin Offsets(a)  BY <3>6, <4>1
            <4>3. b - r \notin a[i - q]
                <5>1. i - q \in Words  BY <1>0, <3>3, <3>11, <3>p
                <5>2. b - r \notin Bits  BY <1>0, <3>11
                <5> QED BY <3>7, <5>1, <5>2
            <4>4. ~(i >= q + 1)  BY <3>11
            <4> QED BY <3>4, <3>5, <4>2, <4>3, <4>4
        <3>12. i \in Int /\ q \in Int /\ b \in Int /\ r \in Int  BY <1>0
        <3> QED BY <3>8, <3>9, <3>10, <3>11, <3>12
    <2> HIDE DEF s
    <2>4. Offsets(s) = ShiftLeft(Offsets(a), shift)
        <3>1. Offsets(s) \subseteq 0 .. WINDOW_BITS - 1  BY DEF Offsets
        <3>2. \A d : d \in ShiftLeft(Offsets(a), shift) <=>
                        d \in 0 .. WINDOW_BITS - 1 /\ d - shift \in Offsets(a)
            BY DEF ShiftLeft
        <3> QED BY <2>3, <3>1, <3>2
    <2> QED BY <2>1, <2>2, <2>4
<1> QED BY <1>0, <1>1, <1>2

\* A bit set in its word is its offset added to the bitmap.
LEMMA SetOffsets ==
    ASSUME NEW a \in Arrays, NEW d \in 0 .. WINDOW_BITS - 1
    PROVE  SetBit(a, d) \in Arrays /\ Offsets(SetBit(a, d)) = Offsets(a) \cup {d}
<1> DEFINE W == WORD_BITS
           s == SetBit(a, d)
<1>0. d \in Nat /\ 0 .. WINDOW_BITS - 1 \subseteq Nat  BY WindowAssumption
<1>1. PICK i \in Nat, b \in Bits : i = d \div W /\ b = d % W /\ d = i * W + b
    BY <1>0, OffsetParts
<1>2. i \in Words  BY <1>0, <1>1, OffsetWord
<1>3. s = [a EXCEPT ![i] = @ \cup {b}]  BY <1>1 DEF SetBit
<1> HIDE DEF s
<1>4. s \in Arrays /\ \A k \in Words : s[k] = IF k = i THEN a[i] \cup {b} ELSE a[k]
    BY <1>2, <1>3 DEF Arrays
<1>5. ASSUME NEW e \in 0 .. WINDOW_BITS - 1 PROVE e \in Offsets(s) <=> e \in Offsets(a) \/ e = d
    <2>0. e \in Nat  BY <1>0
    <2>1. PICK j \in Nat, c \in Bits : j = e \div W /\ c = e % W /\ e = j * W + c
        BY <2>0, OffsetParts
    <2>2. j \in Words  BY <2>0, <2>1, OffsetWord
    <2>3. e \in Offsets(s) <=> c \in s[j]
        <3>1. j * W + c \in Offsets(s) <=> j \in Words /\ c \in s[j]  BY OffsetBit
        <3> QED BY <2>1, <2>2, <3>1
    <2>4. e \in Offsets(a) <=> c \in a[j]
        <3>1. j * W + c \in Offsets(a) <=> j \in Words /\ c \in a[j]  BY OffsetBit
        <3> QED BY <2>1, <2>2, <3>1
    <2>5. e = d <=> j = i /\ c = b  BY <1>1, <2>1, Zenon
    <2> QED BY <1>4, <2>2, <2>3, <2>4, <2>5
<1>6. Offsets(s) \subseteq 0 .. WINDOW_BITS - 1 /\ Offsets(a) \subseteq 0 .. WINDOW_BITS - 1
    BY DEF Offsets
<1>7. Offsets(s) = Offsets(a) \cup {d}  BY <1>5, <1>6
<1> QED BY <1>4, <1>7 DEF s

\* The array has its type and holds the bitmap of the filter.
BitsInv ==
    /\ win \in Window
    /\ words \in Arrays
    /\ Offsets(words) = win.bits

\* The words answer as the bitmap does.
LEMMA SameAnswer ==
    ASSUME BitsInv, NEW c \in Nat
    PROVE  FreshBit(c) <=> Fresh(win, c)
<1>1. win.largest \in Nat  BY DEF BitsInv, Window
<1>2. CASE ~win.initialized \/ c > win.largest
    BY <1>2 DEF FreshBit, Fresh
<1>3. CASE ~(~win.initialized \/ c > win.largest)
    <2> DEFINE diff == win.largest - c
    <2>1. diff \in Nat  BY <1>1, <1>3
    <2> HIDE DEF diff
    <2>2. diff < WINDOW_BITS => (diff \in win.bits <=> diff % WORD_BITS \in words[diff \div WORD_BITS])
        <3>1. diff < WINDOW_BITS => diff \in 0 .. WINDOW_BITS - 1  BY <2>1, WindowAssumption
        <3>2. diff \in Offsets(words) <=>
                  diff \in 0 .. WINDOW_BITS - 1 /\ diff % WORD_BITS \in words[diff \div WORD_BITS]
            BY Zenon DEF Offsets
        <3> QED BY <3>1, <3>2, Zenon DEF BitsInv
    <2>3. FreshBit(c) <=> diff < WINDOW_BITS /\ diff % WORD_BITS \notin words[diff \div WORD_BITS]
        BY <1>3, Zenon DEF FreshBit, diff
    <2>4. Fresh(win, c) <=> diff < WINDOW_BITS /\ diff \notin win.bits
        BY <1>3, Zenon DEF Fresh, diff
    <2> QED BY <2>2, <2>3, <2>4, Zenon
<1> QED BY <1>2, <1>3

\* The words and the bitmap record a counter alike.
LEMMA SameRecord ==
    ASSUME BitsInv, NEW c \in Nat, Fresh(win, c)
    PROVE  RecordBit(c) \in Arrays /\ Offsets(RecordBit(c)) = Record(win, c).bits
<1>1. /\ win.largest \in Nat /\ words \in Arrays /\ Offsets(words) = win.bits
      /\ 0 \in 0 .. WINDOW_BITS - 1
    BY WindowAssumption DEF BitsInv, Window
<1>2. CASE ~win.initialized
    <2>1. RecordBit(c) = SetBit(words, 0)  BY <1>2 DEF RecordBit
    <2>2. Record(win, c).bits = win.bits \cup {0}  BY <1>2 DEF Record
    <2> QED BY <1>1, <2>1, <2>2, SetOffsets
<1>3. CASE win.initialized /\ c > win.largest
    <2> DEFINE shift == c - win.largest
    <2>1. shift \in Nat  BY <1>1, <1>3
    <2>2. RecordBit(c) = SetBit(ShiftWords(words, shift), 0)  BY <1>3 DEF RecordBit
    <2>3. Record(win, c).bits = ShiftLeft(win.bits, shift) \cup {0}  BY <1>3 DEF Record
    <2> HIDE DEF shift
    <2>4. /\ ShiftWords(words, shift) \in Arrays
          /\ Offsets(ShiftWords(words, shift)) = ShiftLeft(win.bits, shift)
        BY <1>1, <2>1, ShiftOffsets
    <2> QED BY <1>1, <2>2, <2>3, <2>4, SetOffsets
<1>4. CASE win.initialized /\ ~(c > win.largest)
    <2> DEFINE diff == win.largest - c
    <2>1. diff \in 0 .. WINDOW_BITS - 1  BY <1>1, <1>4, WindowAssumption DEF Fresh
    <2>2. RecordBit(c) = SetBit(words, diff)  BY <1>4 DEF RecordBit
    <2>3. Record(win, c).bits = win.bits \cup {diff}  BY <1>4 DEF Record, BitsInv, Window
    <2> HIDE DEF diff
    <2> QED BY <1>1, <2>1, <2>2, <2>3, SetOffsets
<1> QED BY <1>2, <1>3, <1>4

\* Every check keeps the array and the bitmap together.
LEMMA BitsStep == BitsInv /\ [BitsNext]_filterVars => BitsInv'
<1> SUFFICES ASSUME BitsInv, [BitsNext]_filterVars PROVE BitsInv'  OBVIOUS
<1>1. CASE UNCHANGED filterVars
    BY <1>1 DEF filterVars, windowVars, BitsInv, Offsets
<1>2. ASSUME NEW c \in Counters, Check(c) PROVE BitsInv'
    <2>1. c \in Nat /\ win \in Window  BY CountersAssumption DEF BitsInv
    <2>2. FreshBit(c) <=> Fresh(win, c)  BY <2>1, SameAnswer
    <2>3. CASE Accept(c)
        <3>1. Fresh(win, c) /\ win' = Record(win, c) /\ words' = RecordBit(c)
            BY <1>2, <2>2, <2>3 DEF Accept, Check
        <3>2. win' \in Window  BY <2>1, <3>1, RecordType
        <3>3. words' \in Arrays /\ Offsets(words') = win'.bits
            BY <2>1, <3>1, SameRecord
        <3> QED BY <3>2, <3>3 DEF BitsInv
    <2>4. CASE Refuse(c)
        <3>1. win' = win /\ words' = words
            BY <1>2, <2>2, <2>4 DEF Refuse, Check, windowVars
        <3> QED BY <3>1 DEF BitsInv, Offsets
    <2> QED BY <1>2, <2>3, <2>4 DEF Check
<1> QED BY <1>1, <1>2 DEF BitsNext

\* For every word width, number of words and set of counters, the array holds the
\* bitmap after any sequence of checks.
THEOREM WordsInvariant == BitsSpec => []BitsInv
<1>1. BitsInit => BitsInv
    <2> SUFFICES ASSUME BitsInit PROVE BitsInv  OBVIOUS
    <2>1. win = NewWindow /\ words = NoBits  BY DEF BitsInit, WindowInit
    <2>2. win \in Window /\ win.bits = {}  BY <2>1, WindowAssumption DEF NewWindow, Window
    <2>3. words \in Arrays  BY <2>1 DEF NoBits, Arrays
    <2>4. Offsets(words) = {}
        <3> SUFFICES ASSUME NEW d \in 0 .. WINDOW_BITS - 1,
                            d % WORD_BITS \in NoBits[d \div WORD_BITS]
                     PROVE  FALSE
            BY <2>1 DEF Offsets
        <3>1. d \in Nat  BY WindowAssumption
        <3>2. d \div WORD_BITS \in Words  BY <3>1, OffsetWord
        <3> QED BY <3>2, Zenon DEF NoBits
    <2> QED BY <2>2, <2>3, <2>4 DEF BitsInv
<1> QED BY <1>1, BitsStep, PTL DEF BitsSpec

\* The words are the filter: the in-place loop of shift_left and the masks of check()
\* compute on the array what ReplayFilter says of the bitmap, for every word width and
\* every number of words.
THEOREM WordsBitsExact == BitsSpec => []BitsExact
<1>1. BitsInv => BitsExact
    BY CountersAssumption, SameAnswer DEF BitsExact, BitsInv
<1> QED BY <1>1, WordsInvariant, PTL
=============================================================================
