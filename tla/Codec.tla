------------------------------- MODULE Codec --------------------------------
(***************************************************************************)
(* The wire formats of codec.rs: the cursor every parser reads through,    *)
(* the six parsers as layouts over it, the encoders, and what a signature  *)
(* covers.  A buffer grows by one byte at a time, so that every buffer of  *)
(* up to MaxWire bytes is parsed as each of the six.                       *)
(*                                                                         *)
(* Sizes are scaled down: a run of fixed fields is one byte, for need()    *)
(* answers Truncated wherever in the run the buffer ends; a length or      *)
(* count is one byte and its limit small.  Big-endian integers inside a    *)
(* fixed run are opaque to the parser and stay bytes.                      *)
(***************************************************************************)
EXTENDS Naturals, Sequences, SequencesExt

CONSTANTS
    Bytes,          \* the values a byte takes
    MaxWire,        \* bound: bytes of a buffer
    MAX_FIELD,      \* MAX_RESOURCE, MAX_ACTION, MAX_RATIONALE, MAX_NOTE, MAX_NAME, MAX_BODY
    MAX_COUNT,      \* MAX_PARENTS, MAX_SCOPE
    UNIT,           \* bytes of one counted item: LEN_PARENT, LEN_SCOPE_ID
    MAX_CA_SIGS

ASSUME CodecAssumption ==
    /\ Bytes \subseteq Nat /\ UNIT \in Nat \ {0}
    /\ {MAX_FIELD, MAX_COUNT, MAX_CA_SIGS} \subseteq Nat

VARIABLE wire       \* the buffer

-----------------------------------------------------------------------------
Fixed == [op |-> "take"]
Field == [op |-> "field", max |-> MAX_FIELD, unit |-> 1]
Counted == [op |-> "field", max |-> MAX_COUNT, unit |-> UNIT]
CaSigs == [op |-> "casigs"]

\* What each parser reads, in its order.
EnvelopeLayout == <<Fixed, Counted, Fixed, Field, Fixed>>
IntentLayout == <<Fixed, Field, Field, Field>>
GrantLayout == <<Fixed, Field, Fixed, Fixed>>
RefusalLayout == <<Fixed, Field, Fixed>>
SpanLayout == <<Fixed, Field, Fixed, Fixed>>
CertLayout == <<Fixed, Field, Counted, CaSigs>>
Layout ==
    [envelope |-> EnvelopeLayout, intent |-> IntentLayout, grant |-> GrantLayout,
     refusal |-> RefusalLayout, span |-> SpanLayout, cert |-> CertLayout]

\* The fields tbs covers, and the tag that is signed before it; intents are
\* covered by the envelope that carries them.
Signed == [envelope |-> 4, grant |-> 3, refusal |-> 2, span |-> 3, cert |-> 3]
Domain == [cert |-> 1, envelope |-> 2, span |-> 3, grant |-> 4, refusal |-> 6]

\* Cursor::new; ends remembers where each field ended.
Start == [pos |-> 0, fields |-> <<>>, ends |-> <<>>, err |-> "ok"]
Fail(c, e) == [c EXCEPT !.err = e]

\* need and take: the slice of n bytes, or Truncated.
Take(w, c, n) ==
    IF c.err # "ok" THEN c
    ELSE IF c.pos + n > Len(w) THEN Fail(c, "Truncated")
    ELSE [c EXCEPT !.pos = @ + n, !.ends = Append(@, c.pos + n),
                   !.fields = Append(@, SubSeq(w, c.pos + 1, c.pos + n))]

\* u8r, u16be and u32be: one number, which is not a field of its own.
Number(w, c) == IF c.pos < Len(w) THEN [c EXCEPT !.pos = @ + 1] ELSE Fail(c, "Truncated")

\* Mutant: the bound is looked at after the read.
TakeFieldLate(w, c, el) ==
    LET d == Number(w, c)
        e == Take(w, d, w[d.pos] * el.unit)
    IN  IF d.err # "ok" THEN d
        ELSE IF e.err = "ok" /\ w[d.pos] > el.max THEN Fail(e, "Oversize") ELSE e

\* field16, field32 and the counted lists: the bound first, then the read.
TakeField(w, c, el) ==
    LET d == Number(w, c)
    IN  IF d.err # "ok" THEN d
        ELSE IF w[d.pos] > el.max THEN Fail(d, "Oversize")
        ELSE Take(w, d, w[d.pos] * el.unit)

\* One turn of the loop of parse_cert: a key above the one before, a signature.
TakeCaSig(w, c, i) ==
    IF c.err # "ok" THEN c
    ELSE IF c.pos + 1 > Len(w) THEN Fail(c, "Truncated")
    ELSE IF i > 1 /\ w[c.pos + 1] <= w[c.pos - 1] THEN Fail(c, "Malformed")
    ELSE IF c.pos + 2 > Len(w) THEN Fail(c, "Truncated")
    ELSE [c EXCEPT !.pos = @ + 2]

\* The tail of parse_cert: ca_sig_count and its pairs, taken as one field.
TakeCaSigs(w, c) ==
    LET d == Number(w, c)
        n == w[d.pos]
        after[i \in 0 .. n] == IF i = 0 THEN d ELSE TakeCaSig(w, after[i - 1], i)
        e == after[n]
    IN  IF d.err # "ok" THEN d
        ELSE IF n = 0 THEN Fail(d, "Malformed")
        ELSE IF n > MAX_CA_SIGS THEN Fail(d, "Oversize")
        ELSE IF e.err # "ok" THEN e
        ELSE [e EXCEPT !.ends = Append(@, e.pos), !.fields = Append(@, SubSeq(w, d.pos + 1, e.pos))]

Read(w, c, el) ==
    IF c.err # "ok" THEN c
    ELSE CASE el.op = "take"  -> Take(w, c, 1)
           [] el.op = "field" -> TakeField(w, c, el)
           [] OTHER           -> TakeCaSigs(w, c)

\* parse_envelope, parse_intent, parse_grant, parse_refusal, parse_span and
\* parse_cert: the fields in order, and nothing behind the last one.
ParseWire(f, w) ==
    LET N == Len(Layout[f])
        after[k \in 0 .. N] == IF k = 0 THEN Start ELSE Read(w, after[k - 1], Layout[f][k])
        c == after[N]
    IN  IF c.err = "ok" /\ c.pos < Len(w) THEN Fail(c, "TrailingBytes") ELSE c

\* The encoders: push_field16 and push_field32 write the length, the counts are
\* fields of the structs they come from.
EncodeField(el, v) ==
    CASE el.op = "take"  -> v
      [] el.op = "field" -> <<Len(v) \div el.unit>> \o v
      [] OTHER           -> <<Len(v) \div 2>> \o v
Encode(f, fields) == FlattenSeq([i \in DOMAIN fields |-> EncodeField(Layout[f][i], fields[i])])

\* verify_signed: the domain tag, then tbs (external: Ed25519).
SignedInput(f, w, c) == <<Domain[f]>> \o SubSeq(w, 1, c.ends[Signed[f]])

-----------------------------------------------------------------------------
WireInit == wire = <<>>

Grow(b) == Len(wire) < MaxWire /\ wire' = Append(wire, b)

\* The next message comes in a buffer of its own.
NewBuffer == wire # <<>> /\ wire' = <<>>

WireNext == (\E b \in Bytes : Grow(b)) \/ NewBuffer

WireSpec == WireInit /\ [][WireNext]_wire

-----------------------------------------------------------------------------
\* The reference: what one field may look like, and how one may begin.
Room(el, s) == IF el.op = "casigs" THEN s[1] \in 1 .. MAX_CA_SIGS ELSE s[1] <= el.max
Size(el, s) == 1 + s[1] * (IF el.op = "casigs" THEN 2 ELSE el.unit)
Ascending(s) == \A i, j \in 1 .. Len(s) \div 2 : i < j => s[2 * i] < s[2 * j]
Begins(el, s) ==
    \/ s = <<>>
    \/ el.op # "take" /\ Room(el, s) /\ Len(s) < Size(el, s) /\ (el.op = "casigs" => Ascending(s))
IsWire(el, s) ==
    IF el.op = "take" THEN Len(s) = 1
    ELSE s # <<>> /\ Room(el, s) /\ Len(s) = Size(el, s) /\ (el.op = "casigs" => Ascending(s))

\* The places of w where the first k fields, one after the other, may end.
Ends(f, w) ==
    LET ends[k \in 0 .. Len(Layout[f])] ==
          IF k = 0 THEN {0}
          ELSE UNION {{q \in p + 1 .. Len(w) : IsWire(Layout[f][k], SubSeq(w, p + 1, q))} :
                         p \in ends[k - 1]}
    IN  ends
Whole(f, w) == Len(w) \in Ends(f, w)[Len(Layout[f])]
Unfinished(f, w) ==
    \E k \in 1 .. Len(Layout[f]) : \E p \in Ends(f, w)[k - 1] :
        Begins(Layout[f][k], SubSeq(w, p + 1, Len(w)))
Trailing(f, w) == \E n \in 0 .. Len(w) - 1 : n \in Ends(f, w)[Len(Layout[f])]

\* BE-WIRE-02: every parser takes exactly the wires of its grammar and names the
\* reason otherwise: Truncated for what more bytes could complete and nothing
\* else, TrailingBytes behind a whole message.  What it took encodes to the same
\* bytes, and the signed input ends where the signature, or ca_sig_count, begins.
CodecExact ==
    \A f \in DOMAIN Layout :
        LET c == ParseWire(f, wire)
        IN  /\ c.err = "ok" <=> Whole(f, wire)
            /\ c.err = "Truncated" <=> Unfinished(f, wire)
            /\ c.err = "TrailingBytes" <=> Trailing(f, wire)
            /\ c.err = "ok" => Encode(f, c.fields) = wire
            /\ c.err = "ok" /\ f \in DOMAIN Signed =>
                  wire = Tail(SignedInput(f, wire, c)) \o
                         EncodeField(Last(Layout[f]), Last(c.fields))
=============================================================================
