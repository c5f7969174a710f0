----------------------------- MODULE EventFeed ------------------------------
(***************************************************************************)
(* The event feed: EventRing of control_api.rs, and GET /v1/events as      *)
(* http_parse, extract_since and parse_since read it.                      *)
(*                                                                         *)
(* A client may write its query in several ways: one of form f has f       *)
(* characters that are no digits between the question mark and the number. *)
(* The documented "?since=N" has form 6.  A client asks for what follows   *)
(* the last event it was told of.  The ring lives as long as the process;  *)
(* a client does not forget its place when the process restarts.           *)
(***************************************************************************)
EXTENDS Integers, Sequences, SequencesExt, FiniteSetsExt

CONSTANTS
    Tags,        \* the events dispatch publishes
    RING_CAP,    \* 256 in the code
    Forms,       \* forms of the clients' queries
    MaxSeq       \* bound: events of one process, below 2^64

ASSUME FeedAssumption == RING_CAP \in Nat \ {0} /\ MaxSeq \in Nat /\ Forms \subseteq Nat

VARIABLES
    ring,        \* EventRing: [events, next_seq]
    feed,        \* history: the tags of this process's events, in order
    client       \* its place (cursor), and its last request: [form, asked, upto, reply]

feedVars == <<ring, feed, client>>

NewRing == [events |-> <<>>, next_seq |-> 1]

FeedInit ==
    /\ ring = NewRing
    /\ feed = <<>>
    /\ client = [cursor |-> 0, form |-> 1, asked |-> 0, upto |-> 0, reply |-> <<>>]

-----------------------------------------------------------------------------
\* EventRing::publish: a full ring drops its oldest event.
Publish(tag) ==
    /\ ring.next_seq <= MaxSeq
    /\ ring' = [events |-> (IF Len(ring.events) = RING_CAP THEN Tail(ring.events) ELSE ring.events)
                               \o <<[seq |-> ring.next_seq, tag |-> tag]>>,
                next_seq |-> ring.next_seq + 1]
    /\ feed' = Append(feed, tag)
    /\ UNCHANGED client

\* Mutant: an event the client has already is sent again.
SinceFrom(since) ==
    LET later == {k \in DOMAIN ring.events : ring.events[k].seq >= since}
    IN  IF later = {} THEN <<>> ELSE SubSeq(ring.events, Min(later), Len(ring.events))

\* EventRing::since: everything from the first event with seq > since on.
Since(since) ==
    LET later == {k \in DOMAIN ring.events : ring.events[k].seq > since}
    IN  IF later = {} THEN <<>> ELSE SubSeq(ring.events, Min(later), Len(ring.events))

NoDigit == -1
NoSince == -1

\* The digits of a number, as a client writes it.
Decimal[n \in 0 .. MaxSeq] == IF n < 10 THEN <<n>> ELSE Append(Decimal[n \div 10], n % 10)

\* The bytes from the one behind the question mark, where http_parse lets query_start
\* point, to the end of the target.
Query(f, n) == [k \in 1 .. f |-> NoDigit] \o Decimal[n]

\* str::parse: value[k] is the number the first k digits write.
Value(text) ==
    LET value[k \in 0 .. Len(text)] == IF k = 0 THEN 0 ELSE 10 * value[k - 1] + text[k]
    IN  value[Len(text)]

\* parse_since: digits only, and at least one.
ParseSince(text) ==
    IF text = <<>> \/ \E k \in DOMAIN text : text[k] = NoDigit THEN NoSince ELSE Value(text)

\* extract_since: the byte at query_start is left out, and what parse_since refuses
\* counts as 0.
ExtractSince(text) ==
    LET since == ParseSince(Tail(text)) IN IF since = NoSince THEN 0 ELSE since

\* GET /v1/events: events_sse_body from the cursor the query was read as.
GetEvents(f) ==
    LET asked == client.cursor
        reply == Since(ExtractSince(Query(f, asked)))
    IN  /\ client' = [client EXCEPT !.form = f, !.cursor = IF reply = <<>> THEN asked ELSE Last(reply).seq,
                                    !.asked = asked, !.upto = ring.next_seq - 1, !.reply = reply]
        /\ UNCHANGED <<ring, feed>>

\* A new process has a new ring.
FeedRestart ==
    /\ ring' = NewRing
    /\ feed' = <<>>
    /\ client' = [client EXCEPT !.upto = 0, !.reply = <<>>]

FeedNext ==
    \/ \E tag \in Tags : Publish(tag)
    \/ \E f \in Forms : GetEvents(f)
    \/ FeedRestart

FeedSpec == FeedInit /\ [][FeedNext]_feedVars

-----------------------------------------------------------------------------
\* The events n .. m of this process, as they were published.
Events(n, m) == [k \in 1 .. m - n + 1 |-> [seq |-> n + k - 1, tag |-> feed[n + k - 1]]]

\* "Events with seq > since, oldest first" and "Sequence numbers survive eviction"
\* (control_api.rs:332, :358): from the place the query was read as, a client gets every
\* later event of this process once, in order and under the number it was published
\* with, except those the ring had to drop; it gets nothing of an earlier process.
FeedExact ==
    LET from == Max({ExtractSince(Query(client.form, client.asked)), client.upto - RING_CAP})
    IN  client.reply = Events(from + 1, client.upto)

\* docs/w12-integration-harness-design.md:376, "The client reads `GET
\* /v1/events?since=<last_seq>` at the end of each round and counts": a client that asks
\* for what follows its last event is not told of an event twice.
EventsOnce == \A k \in DOMAIN client.reply : client.reply[k].seq > client.asked
=============================================================================
