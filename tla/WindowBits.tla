----------------------------- MODULE WindowBits -----------------------------
(***************************************************************************)
(* The filter of transport/replay.rs as it is stored: WINDOW_WORDS words   *)
(* of WORD_BITS bits, shifted in place by the loop of shift_left and       *)
(* tested and set with a mask.  It runs in step with ReplayWindow.tla,     *)
(* whose bitmap is one set of offsets: every check() is put to both.       *)
(***************************************************************************)
EXTENDS ReplayWindow

CONSTANTS
    WORD_BITS,       \* 64 in the code
    WINDOW_WORDS     \* 16 in the code

ASSUME WordsAssumption ==
    /\ WORD_BITS \in Nat \ {0} /\ WINDOW_WORDS \in Nat \ {0}
    /\ WINDOW_BITS = WORD_BITS * WINDOW_WORDS

VARIABLE words      \* the array, each word the set of its 1 bits

Bits == 0 .. WORD_BITS - 1
Words == 0 .. WINDOW_WORDS - 1
NoBits == [i \in Words |-> {}]

\* u64 << n and u64 >> n on the set of 1 bits, for n < WORD_BITS.
Shl(word, n) == {b \in Bits : b - n \in word}
Shr(word, n) == {b \in Bits : b + n \in word}

\* Mutant: the carry from the lower word is taken one word too late.
ShiftedWordLateCarry(a, i, shift) ==
    LET word_shift == shift \div WORD_BITS
        bit_shift  == shift % WORD_BITS
        low  == IF i >= word_shift THEN Shl(a[i - word_shift], bit_shift) ELSE {}
        high == IF bit_shift # 0 /\ i > word_shift + 1
                THEN Shr(a[i - word_shift - 1], WORD_BITS - bit_shift) ELSE {}
    IN low \cup high

\* What the loop puts into word i, read from the array as it is by then.
ShiftedWord(a, i, shift) ==
    LET word_shift == shift \div WORD_BITS
        bit_shift  == shift % WORD_BITS
        low  == IF i >= word_shift THEN Shl(a[i - word_shift], bit_shift) ELSE {}
        high == IF bit_shift # 0 /\ i >= word_shift + 1
                THEN Shr(a[i - word_shift - 1], WORD_BITS - bit_shift) ELSE {}
    IN low \cup high

\* The loop of shift_left, which rewrites the words in place from the top down:
\* downTo[w] is the array once words w and above have been.
Loop(a, shift) ==
    LET downTo[w \in 0 .. WINDOW_WORDS] ==
          IF w = WINDOW_WORDS THEN a
          ELSE [downTo[w + 1] EXCEPT ![w] = ShiftedWord(downTo[w + 1], w, shift)]
    IN  downTo

\* shift_left.
ShiftWords(a, shift) == IF shift >= WINDOW_BITS THEN NoBits ELSE Loop(a, shift)[0]

SetBit(a, d) == [a EXCEPT ![d \div WORD_BITS] = @ \cup {d % WORD_BITS}]

\* The answer of check(c), read from the words.
FreshBit(c) ==
    \/ ~win.initialized \/ c > win.largest
    \/ LET diff == win.largest - c
       IN  diff < WINDOW_BITS /\ diff % WORD_BITS \notin words[diff \div WORD_BITS]

\* The words after check(c) has returned true.
RecordBit(c) ==
    IF ~win.initialized THEN SetBit(words, 0)
    ELSE IF c > win.largest THEN SetBit(ShiftWords(words, c - win.largest), 0)
    ELSE SetBit(words, win.largest - c)

Check(c) ==
    /\ words' = IF FreshBit(c) THEN RecordBit(c) ELSE words
    /\ Accept(c) \/ Refuse(c)

BitsInit == WindowInit /\ words = NoBits

BitsNext == \E c \in Counters : Check(c)

filterVars == <<windowVars, words>>

BitsSpec == BitsInit /\ [][BitsNext]_filterVars

-----------------------------------------------------------------------------
\* The offsets whose bit is set, as check() addresses them.
Offsets(a) == {d \in 0 .. WINDOW_BITS - 1 : d % WORD_BITS \in a[d \div WORD_BITS]}

\* The words are the filter: the in-place loop of shift_left loses no bit
\* between two words and reads none after it was overwritten, and check()
\* answers from the words what the filter says for every counter.
BitsExact ==
    /\ Offsets(words) = win.bits
    /\ \A c \in Counters : FreshBit(c) <=> Fresh(win, c)
=============================================================================
