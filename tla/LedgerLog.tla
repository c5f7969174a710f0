----------------------------- MODULE LedgerLog ------------------------------
(***************************************************************************)
(* The on-disk log of state/ledger.rs: its records, how they are laid out  *)
(* in the file and how recover() reads them back.                          *)
(*                                                                         *)
(* A byte of the file is <<field, value, k>>: byte k of the tag, key or    *)
(* number of a record.  Key and number bytes are taken not to be tag bytes *)
(* (0x01..0x04), so a reader that lands on one reports BadLog; a field put *)
(* together from bytes of different values reads as Garbled (a number: as  *)
(* GarbledNum).                                                            *)
(***************************************************************************)
EXTENDS Integers, SequencesExt

CONSTANTS
    GrantIds,                        \* grant ids
    Signers,                         \* signer public keys
    GRANT_ID_LEN,                    \* 16 bytes in the code
    SIG_PUBKEY_LEN,                  \* 32 bytes in the code
    U64_LEN,                         \* 8 bytes in the code
    Garbled,                         \* a key read from mixed-up bytes
    GarbledNum                       \* a number read from mixed-up bytes

ASSUME LayoutAssumption ==
    /\ GRANT_ID_LEN \in Nat \ {0}
    /\ SIG_PUBKEY_LEN \in Nat \ {0}
    /\ U64_LEN \in Nat \ {0}
    /\ Garbled \notin GrantIds \cup Signers
    /\ GarbledNum \in Nat

Tags == {"COMMIT", "PUBLISHED", "REVOKE", "FIRST_RECEIPT"}

KeyLen(tag) == IF tag = "REVOKE" THEN SIG_PUBKEY_LEN ELSE GRANT_ID_LEN
NumLen(tag) == IF tag = "PUBLISHED" THEN 0 ELSE U64_LEN
RecLen(tag) == 1 + KeyLen(tag) + NumLen(tag)

Rec(tag, key, num) == [tag |-> tag, key |-> key, num |-> num]

Bytes(rec) ==
    [j \in 1 .. RecLen(rec.tag) |->
        IF j = 1 THEN <<"tag", rec.tag, 0>>
        ELSE IF j <= 1 + KeyLen(rec.tag) THEN <<"key", rec.key, j - 1>>
        ELSE <<"num", rec.num, j - 1 - KeyLen(rec.tag)>>]

\* write_all at position pos (0-based): overwrites, and extends at the end.
WriteAt(file, pos, bytes) ==
    [j \in 1 .. Max({Len(file), pos + Len(bytes)}) |->
        IF j > pos /\ j <= pos + Len(bytes) THEN bytes[j - pos] ELSE file[j]]

\* The value of the field whose bytes start at j, if they belong together.
Field(file, j, len, name, mixed) ==
    LET b == file[j] IN
    IF \A k \in 1 .. len : file[j + k - 1] = <<name, b[2], k>> THEN b[2] ELSE mixed

-----------------------------------------------------------------------------
(* The caches that recover() rebuilds.                                     *)

EmptyMap == <<>>
Put(map, k, v) == [x \in DOMAIN map \cup {k} |-> IF x = k THEN v ELSE map[x]]
Drop(map, ks) == [x \in DOMAIN map \ ks |-> map[x]]

NewCaches == [consumed |-> EmptyMap, order |-> <<>>, published |-> {},
              revoked |-> EmptyMap, receipts |-> EmptyMap]

\* Mutant: a PUBLISHED record does not take its grant out of `consumed`.
ApplyRecKeepsCommit(c, rec) ==
    CASE rec.tag = "COMMIT" ->
           [c EXCEPT !.order = IF rec.key \in c.published \cup DOMAIN c.consumed
                               THEN @ ELSE Append(@, rec.key),
                     !.consumed = Put(@, rec.key, rec.num)]
      [] rec.tag = "PUBLISHED" -> [c EXCEPT !.published = @ \cup {rec.key}]
      [] rec.tag = "REVOKE" -> [c EXCEPT !.revoked = Put(@, rec.key, rec.num)]
      [] rec.tag = "FIRST_RECEIPT" ->
           [c EXCEPT !.receipts = IF rec.key \in DOMAIN @ THEN @ ELSE Put(@, rec.key, rec.num)]

\* One record replayed into the caches; the first receipt of a grant wins.
ApplyRec(c, rec) ==
    CASE rec.tag = "COMMIT" ->
           [c EXCEPT !.order = IF rec.key \in c.published \cup DOMAIN c.consumed
                               THEN @ ELSE Append(@, rec.key),
                     !.consumed = Put(@, rec.key, rec.num)]
      [] rec.tag = "PUBLISHED" ->
           [c EXCEPT !.consumed = Drop(@, {rec.key}), !.published = @ \cup {rec.key}]
      [] rec.tag = "REVOKE" -> [c EXCEPT !.revoked = Put(@, rec.key, rec.num)]
      [] rec.tag = "FIRST_RECEIPT" ->
           [c EXCEPT !.receipts = IF rec.key \in DOMAIN @ THEN @ ELSE Put(@, rec.key, rec.num)]

-----------------------------------------------------------------------------
(* recover() reads the file.                                               *)

\* What recover() has made of the file up to byte off.
Reader(off, ok, c) == [off |-> off, ok |-> ok, c |-> c]

\* recover() at byte n: if the next record starts there it is applied, unless its tag
\* is none (BadLog) or the rest of the file is too short for it (T6).
ReadAt(file, n, r) ==
    LET tag == file[n][2]
        key == Field(file, n + 1, KeyLen(tag), "key", Garbled)
        num == IF NumLen(tag) = 0 THEN 0
               ELSE Field(file, n + 1 + KeyLen(tag), NumLen(tag), "num", GarbledNum)
    IN CASE r.off # n - 1 -> r
         [] r.off = n - 1 /\ file[n][1] # "tag" -> Reader(r.off, FALSE, r.c)
         [] r.off = n - 1 /\ file[n][1] = "tag" /\ Len(file) - r.off < RecLen(tag) -> r
         [] OTHER -> Reader(r.off + RecLen(tag), r.ok, ApplyRec(r.c, Rec(tag, key, num)))

\* One pass of recover() over the file.
Scan(file) ==
    LET read[n \in 0 .. Len(file)] ==
          IF n = 0 THEN Reader(0, TRUE, NewCaches) ELSE ReadAt(file, n, read[n - 1])
    IN  read[Len(file)]

\* The caches after recover(): everything before the end or the bad byte.
Replay(file) == Scan(file).c

\* The file ends in a part of a record that recover() leaves in place.
Torn(file) == Scan(file).off # Len(file)

\* Recovery.orphans: committed, never published, in log order.
Orphans(c) ==
    LET found[n \in 0 .. Len(c.order)] ==
          IF n = 0 THEN <<>>
          ELSE IF c.order[n] \in DOMAIN c.consumed THEN Append(found[n - 1], c.order[n])
          ELSE found[n - 1]
    IN  found[Len(c.order)]
=============================================================================
