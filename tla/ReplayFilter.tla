---------------------------- MODULE ReplayFilter ----------------------------
(***************************************************************************)
(* The sliding anti-replay filter of transport/replay.rs as operators on   *)
(* its state.  ReplayWindow.tla drives one filter by an arbitrary arrival  *)
(* order; EnvelopeLedger.tla keeps one per (sender, channel).              *)
(*                                                                         *)
(* The bitmap `window: [u64; 16]` is the set of offsets behind `largest`   *)
(* whose bit is set.  WindowBits.tla shows that the word-by-word in-place  *)
(* loop of the code computes exactly ShiftLeft on that set.                *)
(***************************************************************************)
EXTENDS Integers

CONSTANT WINDOW_BITS     \* width of the window; 1024 in the code

ASSUME WindowAssumption == WINDOW_BITS \in Nat \ {0}

NewWindow == [initialized |-> FALSE, largest |-> 0, bits |-> {}]

\* shift_left: every set bit moves `shift` places up, the overflow is lost.
ShiftLeft(bits, shift) == {d \in 0 .. WINDOW_BITS - 1 : d - shift \in bits}

\* Mutant: the staleness test `diff >= WINDOW_BITS` is missing.
FreshStale(w, c) ==
    \/ ~w.initialized
    \/ c > w.largest
    \/ w.largest - c \notin w.bits

\* The return value of check(): true for fresh, false for replay or stale.
Fresh(w, c) ==
    \/ ~w.initialized
    \/ c > w.largest
    \/ /\ w.largest - c < WINDOW_BITS
       /\ w.largest - c \notin w.bits

\* Mutant: the window slides without setting the new counter's own bit.
RecordNoMark(w, c) ==
    IF ~w.initialized
    THEN [initialized |-> TRUE, largest |-> c, bits |-> w.bits \cup {0}]
    ELSE IF c > w.largest
    THEN [initialized |-> TRUE, largest |-> c,
          bits |-> ShiftLeft(w.bits, c - w.largest)]
    ELSE [w EXCEPT !.bits = @ \cup {w.largest - c}]

\* The window after check() has returned true.
Record(w, c) ==
    IF ~w.initialized
    THEN [initialized |-> TRUE, largest |-> c, bits |-> w.bits \cup {0}]
    ELSE IF c > w.largest
    THEN [initialized |-> TRUE, largest |-> c,
          bits |-> ShiftLeft(w.bits, c - w.largest) \cup {0}]
    ELSE [w EXCEPT !.bits = @ \cup {w.largest - c}]

Window == [initialized : BOOLEAN, largest : Nat, bits : SUBSET (0 .. WINDOW_BITS - 1)]
=============================================================================
