---------------------------- MODULE ControlProofs ----------------------------
(***************************************************************************)
(* Theorems about the control plane: its connections (control.rs and       *)
(* poll_control of daemon.rs), the event feed (EventRing and its query),   *)
(* and what the handlers and routes count and answer, for every number of  *)
(* connections, every set of requests, intents and refusals, every size of *)
(* the ring and every limit.                                               *)
(***************************************************************************)
EXTENDS ControlPlane, NodeApi, EventFeed, DataLemmas

States == {"idle", "backlog", "ReadingHeaders", "ReadingBody", "Writing", "Closing", "closed"}

Connection ==
    [st : States, req : Requests, sent : Nat, buf : Nat, age : Nat, gone : BOOLEAN, replies : Nat]

\* A connection is answered when it is closing or closed, once, and routed when the
\* whole request is buffered.
WellServed(k) ==
    /\ k \in Connection
    /\ k.replies <= 1
    /\ k.replies # 0 => k.st \in {"Closing", "closed"}
    /\ k.st \in {"Writing", "Closing"} => k.buf >= Size(k.req)

\* Between two passes of the loop nobody is in the state Writing.
ConnInv ==
    /\ DOMAIN conn = Conns /\ conn = [c \in Conns |-> conn[c]]
    /\ \A c \in Conns : WellServed(conn[c]) /\ conn[c].st # "Writing"

\* A request has its lengths.
LEMMA SizeType ==
    ASSUME NEW r \in Requests
    PROVE  r.head \in Nat /\ r.len \in Int /\ r.crlf \in Nat /\ Size(r) \in Nat
  <1>1. r.head \in Nat /\ r.len \in Int /\ r.crlf \in Nat
    BY ControlAssumption
  <1> QED BY <1>1 DEF Size

\* The state after the header terminator was looked for is Writing only with the body.
LEMMA AfterHeadersWhole ==
    ASSUME NEW k \in Connection, NEW n \in Nat
    PROVE  /\ AfterHeaders(k, n) \in {"ReadingHeaders", "ReadingBody", "Writing", "closed"}
           /\ AfterHeaders(k, n) = "Writing" => n >= Size(k.req)
  <1>1. k.req \in Requests
    BY DEF Connection
  <1>2. k.req.head \in Nat /\ k.req.len \in Int
    BY <1>1, SizeType
  <1> QED BY <1>2 DEF AfterHeaders, Size

\* A change of the state leaves the other fields alone.
LEMMA ConnectionFields ==
    ASSUME NEW k \in Connection, NEW s \in States
    PROVE  /\ [k EXCEPT !.st = s] \in Connection
           /\ [k EXCEPT !.st = s].st = s /\ [k EXCEPT !.st = s].buf = k.buf
           /\ [k EXCEPT !.st = s].req = k.req /\ [k EXCEPT !.st = s].replies = k.replies
  BY DEF Connection

\* poll_readable closes, or reads on, or finds the request complete.
LEMMA PolledServed ==
    ASSUME NEW k, WellServed(k), Open(k.st), k.st # "Writing"
    PROVE  WellServed(Polled(k))
  <1>0. k \in Connection /\ k.st \in States /\ k.sent \in Nat /\ k.buf \in Nat /\ k.req \in Requests
    BY DEF WellServed, Connection
  <1>1. WellServed([k EXCEPT !.st = "closed"])
    BY <1>0, ConnectionFields DEF WellServed, States
  <1>2. ASSUME NEW s \in States, k.replies # 0 => s = "closed",
               s \in {"Writing", "Closing"} => k.sent >= Size(k.req)
        PROVE  WellServed([k EXCEPT !.buf = k.sent, !.st = s])
    <2> DEFINE m == [k EXCEPT !.buf = k.sent, !.st = s]
    <2>1. m \in Connection
      BY <1>0 DEF Connection
    <2>2. m.st = s /\ m.buf = k.sent /\ m.req = k.req /\ m.replies = k.replies
      BY <1>0 DEF Connection
    <2> HIDE DEF m
    <2>3. WellServed(m)
      BY <1>2, <2>1, <2>2 DEF WellServed
    <2> QED BY <2>3 DEF m
  <1>3. CASE k.age > CONN_TIMEOUT
    BY <1>1, <1>3 DEF Polled
  <1>4. CASE ~(k.age > CONN_TIMEOUT) /\ k.sent = k.buf
    BY <1>1, <1>4 DEF Polled
  <1>5. CASE ~(k.age > CONN_TIMEOUT) /\ k.sent # k.buf
    <2>1. CASE k.st = "Closing"
      <3>1. Polled(k) = [k EXCEPT !.buf = k.sent, !.st = "closed"]
        BY <1>5, <2>1 DEF Polled
      <3> QED BY <1>2, <3>1 DEF States
    <2>2. CASE k.st = "ReadingHeaders"
      <3> DEFINE s == IF k.sent >= SLOWLORIS_SIZE /\ k.sent < k.req.crlf
                      THEN "closed" ELSE AfterHeaders(k, k.sent)
      <3>1. Polled(k) = [k EXCEPT !.buf = k.sent, !.st = s]
        BY <1>5, <2>2 DEF Polled
      <3>2. s \in States /\ (s \in {"Writing", "Closing"} => k.sent >= Size(k.req))
        BY <1>0, AfterHeadersWhole DEF States
      <3>3. k.replies = 0
        BY <2>2 DEF WellServed
      <3> HIDE DEF s
      <3> QED BY <1>2, <3>1, <3>2, <3>3
    <2>3. CASE k.st = "ReadingBody"
      <3>1. Polled(k) = [k EXCEPT !.buf = k.sent, !.st = "ReadingBody"]
        BY <1>5, <2>3 DEF Polled
      <3>2. k.replies = 0
        BY <2>3 DEF WellServed
      <3> QED BY <1>2, <3>1, <3>2 DEF States
    <2> QED BY <2>1, <2>2, <2>3 DEF Open
  <1> QED BY <1>3, <1>4, <1>5

\* write_response answers who is in the state Writing, for the first time.
LEMMA AnsweredServed ==
    ASSUME NEW k, WellServed(k)
    PROVE  WellServed(Answered(k)) /\ Answered(k).st # "Writing"
  <1>1. CASE k.st = "Writing"
    <2> DEFINE m == [k EXCEPT !.st = "Closing", !.replies = @ + 1]
    <2>0. k \in Connection /\ k.replies = 0 /\ k.buf >= Size(k.req)
      BY <1>1 DEF WellServed
    <2>1. m \in Connection
      <3>1. k.replies + 1 \in Nat /\ "Closing" \in States
        BY <2>0 DEF States
      <3> QED BY <2>0, <3>1 DEF Connection
    <2>2. m.st = "Closing" /\ m.buf = k.buf /\ m.req = k.req /\ m.replies = k.replies + 1
      BY <2>0 DEF Connection
    <2> HIDE DEF m
    <2>3. WellServed(m) /\ m.st # "Writing"
      BY <2>0, <2>1, <2>2 DEF WellServed
    <2> QED BY <1>1, <2>3 DEF Answered, m
  <1>2. CASE k.st # "Writing"
    BY <1>2 DEF Answered
  <1> QED BY <1>1, <1>2

\* accept takes a connection that was not answered yet.
LEMMA AcceptedServed ==
    ASSUME ConnInv, NEW c \in Backlog
    PROVE  WellServed(Accepted(c)) /\ Accepted(c).st # "Writing"
  <1> DEFINE k == conn[c]
  <1>1. c \in Conns /\ k.st = "backlog" /\ WellServed(k)
    BY DEF Backlog, ConnInv
  <1>2. k \in Connection /\ k.replies = 0
    BY <1>1 DEF WellServed
  <1> HIDE DEF k
  <1>3. CASE Room
    <2> DEFINE m == [k EXCEPT !.st = "ReadingHeaders", !.age = 0]
    <2>1. m \in Connection
      BY <1>2 DEF Connection, States
    <2>2. m.st = "ReadingHeaders" /\ m.replies = 0
      BY <1>2 DEF Connection
    <2>3. Accepted(c) = m
      BY <1>3 DEF Accepted, k
    <2> HIDE DEF m
    <2> QED BY <2>1, <2>2, <2>3 DEF WellServed
  <1>4. CASE ~Room
    <2> DEFINE m == [k EXCEPT !.st = "closed", !.replies = 1]
    <2>1. m \in Connection
      BY <1>2 DEF Connection, States
    <2>2. m.st = "closed" /\ m.replies = 1
      BY <1>2 DEF Connection
    <2>3. Accepted(c) = m
      BY <1>4 DEF Accepted, k
    <2> HIDE DEF m
    <2> QED BY <2>1, <2>2, <2>3 DEF WellServed
  <1> QED BY <1>3, <1>4

\* A step that changes one connection leaves the others as they were.
LEMMA OneChanges ==
    ASSUME ConnInv, NEW c \in Conns, NEW k, WellServed(k), k.st # "Writing",
           conn' = [conn EXCEPT ![c] = k]
    PROVE  ConnInv'
  BY DEF ConnInv

\* What the peer or the clock changes is no state that poll_control looks at.
LEMMA PeerServed ==
    ASSUME NEW k, WellServed(k), k.st # "Writing", NEW n \in Nat
    PROVE  /\ WellServed([k EXCEPT !.sent = n]) /\ [k EXCEPT !.sent = n].st # "Writing"
           /\ WellServed([k EXCEPT !.gone = TRUE]) /\ [k EXCEPT !.gone = TRUE].st # "Writing"
           /\ WellServed([k EXCEPT !.age = @ + 1]) /\ [k EXCEPT !.age = @ + 1].st # "Writing"
  <1>0. k \in Connection
    BY DEF WellServed
  <1>1. ASSUME NEW m \in Connection, m.st = k.st, m.buf = k.buf, m.req = k.req, m.replies = k.replies
        PROVE  WellServed(m) /\ m.st # "Writing"
    BY <1>1 DEF WellServed
  <1>2. LET m == [k EXCEPT !.sent = n]
        IN  m \in Connection /\ m.st = k.st /\ m.buf = k.buf /\ m.req = k.req /\ m.replies = k.replies
    BY <1>0 DEF Connection
  <1>3. LET m == [k EXCEPT !.gone = TRUE]
        IN  m \in Connection /\ m.st = k.st /\ m.buf = k.buf /\ m.req = k.req /\ m.replies = k.replies
    BY <1>0 DEF Connection
  <1>4. LET m == [k EXCEPT !.age = @ + 1]
        IN  m \in Connection /\ m.st = k.st /\ m.buf = k.buf /\ m.req = k.req /\ m.replies = k.replies
    BY <1>0 DEF Connection
  <1> QED BY <1>1, <1>2, <1>3, <1>4

\* One pass of the loop, whoever is accepted in it.
LEMMA PollServed ==
    ASSUME ConnInv, PollControl
    PROVE  ConnInv'
  <1>1. PICK a \in IF Backlog = {} THEN {{}} ELSE {{c} : c \in Backlog} :
            conn' = [c \in Conns |-> Answered(Ticked(a)[c])]
    BY DEF PollControl
  <1>2. a \subseteq Backlog
    BY <1>1
  <1>3. ASSUME NEW c \in Conns PROVE WellServed(Answered(Ticked(a)[c])) /\ Answered(Ticked(a)[c]).st # "Writing"
    <2> DEFINE k == IF c \in a THEN Accepted(c) ELSE conn[c]
    <2>1. WellServed(k) /\ k.st # "Writing"
      BY <1>2, AcceptedServed DEF ConnInv
    <2>2. Ticked(a)[c] = IF Open(k.st) THEN Polled(k) ELSE k
      BY DEF Ticked
    <2> HIDE DEF k
    <2>3. WellServed(Ticked(a)[c])
      BY <2>1, <2>2, PolledServed
    <2> QED BY <2>3, AnsweredServed
  <1> QED BY <1>1, <1>3 DEF ConnInv

\* Every step of the peers, of the clock and of the loop keeps the invariant.
LEMMA ConnStepKeeps == ConnInv /\ [Next]_vars => ConnInv'
  <1> SUFFICES ASSUME ConnInv, [Next]_vars PROVE ConnInv'
    OBVIOUS
  <1>0. \A c \in Conns : WellServed(conn[c]) /\ conn[c].st # "Writing" /\ conn[c] \in Connection
    BY DEF ConnInv, WellServed
  <1>1. CASE UNCHANGED conn
    BY <1>1 DEF ConnInv
  <1>2. ASSUME NEW c \in Conns, Connect(c) PROVE ConnInv'
    <2> DEFINE k == [conn[c] EXCEPT !.st = "backlog"]
    <2>1. conn[c].st = "idle" /\ conn' = [conn EXCEPT ![c] = k]
      BY <1>2 DEF Connect
    <2>2. WellServed(k) /\ k.st # "Writing"
      <3>1. WellServed(conn[c]) /\ conn[c] \in Connection /\ "backlog" \in States
        BY <1>0 DEF States
      <3>2. k \in Connection /\ k.st = "backlog" /\ k.replies = conn[c].replies
        BY <3>1, ConnectionFields
      <3>3. conn[c].replies = 0
        BY <2>1, <3>1 DEF WellServed
      <3> HIDE DEF k
      <3> QED BY <3>2, <3>3 DEF WellServed
    <2> HIDE DEF k
    <2> QED BY <2>1, <2>2, OneChanges
  <1>3. ASSUME NEW c \in Conns, Send(c) PROVE ConnInv'
    <2>1. PICK n \in conn[c].sent + 1 .. Size(conn[c].req) : conn' = [conn EXCEPT ![c].sent = n]
      BY <1>3 DEF Send
    <2>2. n \in Nat
      <3>1. conn[c].sent \in Nat /\ conn[c].req \in Requests BY <1>0 DEF Connection
      <3> QED BY <2>1, <3>1, SizeType
    <2> DEFINE k == [conn[c] EXCEPT !.sent = n]
    <2>3. conn' = [conn EXCEPT ![c] = k]
      BY <2>1
    <2>4. WellServed(k) /\ k.st # "Writing"
      BY <1>0, <2>2, PeerServed
    <2> HIDE DEF k
    <2> QED BY <2>3, <2>4, OneChanges
  <1>4. ASSUME NEW c \in Conns, Leave(c) PROVE ConnInv'
    <2> DEFINE k == [conn[c] EXCEPT !.gone = TRUE]
    <2>1. conn' = [conn EXCEPT ![c] = k]
      BY <1>4 DEF Leave
    <2>2. WellServed(k) /\ k.st # "Writing"
      BY <1>0, PeerServed
    <2> HIDE DEF k
    <2> QED BY <2>1, <2>2, OneChanges
  <1>5. CASE Tick
    <2>1. conn' = [c \in Conns |-> IF Open(conn[c].st) /\ conn[c].age <= CONN_TIMEOUT
                                    THEN [conn[c] EXCEPT !.age = @ + 1] ELSE conn[c]]
      BY <1>5 DEF Tick
    <2>2. ASSUME NEW c \in Conns PROVE WellServed(conn'[c]) /\ conn'[c].st # "Writing"
      <3>1. /\ WellServed([conn[c] EXCEPT !.age = @ + 1])
            /\ [conn[c] EXCEPT !.age = @ + 1].st # "Writing"
        BY <1>0, PeerServed
      <3>2. conn'[c] = conn[c] \/ conn'[c] = [conn[c] EXCEPT !.age = @ + 1]
        BY <2>1
      <3> QED BY <1>0, <3>1, <3>2
    <2>3. DOMAIN conn' = Conns /\ conn' = [c \in Conns |-> conn'[c]]
      BY <2>1
    <2> QED BY <2>2, <2>3 DEF ConnInv
  <1> QED BY <1>1, <1>2, <1>3, <1>4, <1>5, PollServed DEF Next, vars, WriteFails

\* For every number of connections and every request: a connection with an answer is
\* on its way out, and none waits for its answer between two passes.
THEOREM ControlInvariant == Spec => []ConnInv
  <1>1. Init => ConnInv
    <2> SUFFICES ASSUME Init, NEW c \in Conns
                 PROVE  WellServed(conn[c]) /\ conn[c].st # "Writing"
      BY DEF Init, ConnInv
    <2>1. PICK r \in Requests :
              conn[c] = [st |-> "idle", req |-> r, sent |-> 0, buf |-> 0, age |-> 0,
                         gone |-> FALSE, replies |-> 0]
      BY DEF Init
    <2> QED BY <2>1 DEF WellServed, Connection, States
  <1> QED BY <1>1, ConnStepKeeps, PTL DEF Spec

\* specs/control.md, "one request per connection", for every number of connections,
\* every cut of every request and every limit: poll_control answers a peer once at
\* most, and with every byte the request declared.
THEOREM ControlOneWholeReply == Spec => []OneWholeReply
  <1>1. ConnInv => OneWholeReply
    BY DEF ConnInv, WellServed, OneWholeReply
  <1> QED BY <1>1, ControlInvariant, PTL

-----------------------------------------------------------------------------
(* The event feed: what a query is read as.                                *)

\* g writes the numbers up to m.
Writes(m, g) ==
    g = [n \in 0 .. m |-> IF n < 10 THEN <<n>> ELSE Append(g[n \div 10], n % 10)]

\* The recursion of Decimal has a solution up to every number.
LEMMA WritesExist ==
  ASSUME NEW m \in Nat
  PROVE  \E g : Writes(m, g)
  <1> DEFINE T == {n \in Nat : ~ \E g : Writes(n, g)}
  <1>1. T = {}
    <2> SUFFICES ASSUME T # {} PROVE FALSE OBVIOUS
    <2>1. PICK n \in T : \A k \in T : n <= k
      <3>1. T \in SUBSET Nat OBVIOUS
      <3> QED BY <3>1, LeastNatural
    <2>2. CASE n < 10
      <3> DEFINE g == [k \in 0 .. n |-> <<k>>]
      <3>1. \A k \in 0 .. n : k < 10 BY <2>2
      <3>2. Writes(n, g) BY <3>1 DEF Writes
      <3> QED BY <2>1, <3>2
    <2>3. CASE ~(n < 10)
      <3>1. n - 1 \in Nat /\ n \in Nat /\ ~(n <= n - 1) BY <2>3
      <3>2. PICK g : Writes(n - 1, g) BY <2>1, <3>1
      <3> DEFINE h == [k \in 0 .. n |-> IF k < 10 THEN <<k>> ELSE Append(g[k \div 10], k % 10)]
      <3>3. \A k \in 0 .. n - 1 : k \in 0 .. n /\ g[k] = h[k]
        <4> SUFFICES ASSUME NEW k \in 0 .. n - 1 PROVE k \in 0 .. n /\ g[k] = h[k]
          OBVIOUS
        <4>1. k \in 0 .. n BY <3>1
        <4> QED BY <3>2, <4>1, Zenon DEF Writes
      <3>4. \A k \in 0 .. n : ~(k < 10) => k \div 10 \in 0 .. n - 1
        BY <3>1
      <3>5. \A k \in 0 .. n : h[k] = IF k < 10 THEN <<k>> ELSE Append(g[k \div 10], k % 10)
        OBVIOUS
      <3>6. h = [k \in 0 .. n |-> h[k]] OBVIOUS
      <3> HIDE DEF h
      <3>7. \A k \in 0 .. n : h[k] = IF k < 10 THEN <<k>> ELSE Append(h[k \div 10], k % 10)
        BY <3>3, <3>4, <3>5
      <3>8. Writes(n, h) BY <3>6, <3>7 DEF Writes
      <3> QED BY <2>1, <3>8
    <2> QED BY <2>2, <2>3
  <1> QED BY <1>1

\* Decimal solves its recursion.
LEMMA DecimalStep ==
  ASSUME NEW n \in 0 .. MaxSeq
  PROVE  Decimal[n] = IF n < 10 THEN <<n>> ELSE Append(Decimal[n \div 10], n % 10)
  <1>1. Decimal = CHOOSE g : Writes(MaxSeq, g)
    BY Zenon DEF Decimal, Writes
  <1>2. Writes(MaxSeq, Decimal)
    BY <1>1, WritesExist, FeedAssumption
  <1> QED BY <1>2, Zenon DEF Writes

\* A number is written with digits, one at least.
LEMMA DecimalDigits ==
  ASSUME NEW n \in 0 .. MaxSeq
  PROVE  Decimal[n] \in Seq(0 .. 9) /\ Len(Decimal[n]) \in Nat \ {0}
  <1> DEFINE Good(k) == Decimal[k] \in Seq(0 .. 9) /\ Len(Decimal[k]) \in Nat \ {0}
             B == {k \in 0 .. MaxSeq : ~Good(k)}
  <1>1. B = {}
    <2> SUFFICES ASSUME B # {} PROVE FALSE OBVIOUS
    <2>1. PICK m \in B : \A k \in B : m <= k
      <3>1. B \in SUBSET Nat BY FeedAssumption
      <3> QED BY <3>1, LeastNatural
    <2>2. CASE m < 10
      <3>1. m \in 0 .. 9 /\ m \in 0 .. MaxSeq BY <2>2, FeedAssumption
      <3>2. Decimal[m] = <<m>> BY <2>2, <3>1, DecimalStep
      <3>3. Good(m) BY <3>1, <3>2
      <3> QED BY <2>1, <3>3
    <2>3. CASE ~(m < 10)
      <3>1. m \div 10 \in 0 .. MaxSeq /\ ~(m <= m \div 10) /\ m % 10 \in 0 .. 9
        BY <2>3, FeedAssumption
      <3>2. Good(m \div 10) BY <2>1, <3>1
      <3>3. Decimal[m] = Append(Decimal[m \div 10], m % 10) BY <2>3, DecimalStep
      <3>4. Good(m) BY <3>1, <3>2, <3>3
      <3> QED BY <2>1, <3>4
    <2> QED BY <2>2, <2>3
  <1> QED BY <1>1

\* g reads the prefixes of a text as numbers.
Reads(text, g) ==
    g = [k \in 0 .. Len(text) |-> IF k = 0 THEN 0 ELSE 10 * g[k - 1] + text[k]]

\* Digits have a value, and the function of Value gives it for every prefix.
LEMMA ReadsExist ==
  ASSUME NEW text \in Seq(Nat)
  PROVE  \E g \in [0 .. Len(text) -> Nat] : Reads(text, g)
  <1> DEFINE Upto(m, g) == /\ g \in [0 .. m -> Nat] /\ g[0] = 0
                           /\ \A k \in 1 .. m : g[k] = 10 * g[k - 1] + text[k]
             T == {m \in 0 .. Len(text) : ~ \E g : Upto(m, g)}
  <1>1. T = {}
    <2> SUFFICES ASSUME T # {} PROVE FALSE OBVIOUS
    <2>1. PICK m \in T : \A k \in T : m <= k
      <3>1. T \in SUBSET Nat OBVIOUS
      <3> QED BY <3>1, LeastNatural
    <2>2. CASE m = 0
      <3>1. Upto(0, [k \in 0 .. 0 |-> 0]) OBVIOUS
      <3> QED BY <2>1, <2>2, <3>1
    <2>3. CASE m # 0
      <3>1. m - 1 \in 0 .. Len(text) /\ m \in 1 .. Len(text) /\ ~(m <= m - 1) BY <2>3
      <3>2. PICK g : Upto(m - 1, g) BY <2>1, <3>1
      <3>3. text[m] \in Nat BY <3>1
      <3> DEFINE h == [k \in 0 .. m |-> IF k = m THEN 10 * g[m - 1] + text[m] ELSE g[k]]
      <3>4. g[m - 1] \in Nat BY <3>1, <3>2
      <3>5. h \in [0 .. m -> Nat] BY <3>1, <3>2, <3>3, <3>4
      <3>6. \A k \in 0 .. m - 1 : h[k] = g[k] BY <3>1
      <3>7. h[m] = 10 * g[m - 1] + text[m] BY <3>1
      <3> HIDE DEF h
      <3>8. \A k \in 1 .. m : h[k] = 10 * h[k - 1] + text[k]
        <4> SUFFICES ASSUME NEW k \in 1 .. m PROVE h[k] = 10 * h[k - 1] + text[k]
          OBVIOUS
        <4>1. k - 1 \in 0 .. m - 1 BY <3>1
        <4>2. CASE k = m BY <3>6, <3>7, <4>1, <4>2
        <4>3. CASE k # m
          <5>1. k \in 1 .. m - 1 /\ k \in 0 .. m - 1 BY <3>1, <4>3
          <5> QED BY <3>2, <3>6, <4>1, <5>1
        <4> QED BY <4>2, <4>3
      <3>9. Upto(m, h) BY <3>1, <3>2, <3>5, <3>6, <3>8
      <3> QED BY <2>1, <3>9
    <2> QED BY <2>2, <2>3
  <1>2. PICK g : Upto(Len(text), g)
    <2>1. Len(text) \in 0 .. Len(text) OBVIOUS
    <2> QED BY <1>1, <2>1
  <1>3. \A k \in 0 .. Len(text) : g[k] = IF k = 0 THEN 0 ELSE 10 * g[k - 1] + text[k]
    BY <1>2
  <1>4. g = [k \in 0 .. Len(text) |-> g[k]] BY <1>2
  <1> QED BY <1>2, <1>3, <1>4 DEF Reads

\* Two such functions agree on a common prefix.
LEMMA ReadsAgree ==
  ASSUME NEW s \in Seq(Nat), NEW t \in Seq(Nat), Len(s) <= Len(t),
         \A k \in 1 .. Len(s) : s[k] = t[k], NEW g, NEW h, Reads(s, g), Reads(t, h)
  PROVE  \A k \in 0 .. Len(s) : g[k] = h[k]
  <1> DEFINE B == {k \in 0 .. Len(s) : g[k] # h[k]}
  <1>1. B = {}
    <2> SUFFICES ASSUME B # {} PROVE FALSE OBVIOUS
    <2>1. PICK m \in B : \A k \in B : m <= k
      <3>1. B \in SUBSET Nat OBVIOUS
      <3> QED BY <3>1, LeastNatural
    <2>2. m \in 0 .. Len(s) /\ m \in 0 .. Len(t) OBVIOUS
    <2>3. /\ g[m] = IF m = 0 THEN 0 ELSE 10 * g[m - 1] + s[m]
          /\ h[m] = IF m = 0 THEN 0 ELSE 10 * h[m - 1] + t[m]
      BY <2>2, Zenon DEF Reads
    <2>4. m # 0 BY <2>1, <2>3
    <2>5. m - 1 \in 0 .. Len(s) /\ ~(m <= m - 1) /\ m \in 1 .. Len(s) BY <2>2, <2>4
    <2>6. g[m - 1] = h[m - 1] BY <2>1, <2>5
    <2> QED BY <2>1, <2>3, <2>4, <2>5, <2>6
  <1> QED BY <1>1

\* The value of digits is a number, and one more digit makes it ten times as large.
LEMMA ValueStep ==
  ASSUME NEW text \in Seq(Nat), NEW d \in Nat
  PROVE  Value(text) \in Nat /\ Value(Append(text, d)) = 10 * Value(text) + d
  <1>1. \A t : Value(t) = (CHOOSE g : Reads(t, g))[Len(t)]
    BY Zenon DEF Value, Reads
  <1>2. PICK t : t = Append(text, d) OBVIOUS
  <1>3. /\ t \in Seq(Nat) /\ Len(t) = Len(text) + 1 /\ t[Len(t)] = d
        /\ \A k \in 1 .. Len(text) : text[k] = t[k]
    BY <1>2
  <1>4. PICK g : g = CHOOSE r : Reads(text, r) OBVIOUS
  <1>5. PICK h : h = CHOOSE r : Reads(t, r) OBVIOUS
  <1>6. Reads(text, g) /\ Reads(t, h)
    BY <1>3, <1>4, <1>5, ReadsExist
  <1>7. Len(text) \in Nat /\ Len(text) <= Len(t) /\ Len(text) \in 0 .. Len(text)
    BY <1>3
  <1>8. \A k \in 0 .. Len(text) : g[k] = h[k]
    BY <1>3, <1>6, <1>7, ReadsAgree
  <1>9. g[Len(text)] \in Nat
    <2>1. PICK r \in [0 .. Len(text) -> Nat] : Reads(text, r) BY ReadsExist
    <2>2. \A k \in 0 .. Len(text) : g[k] = r[k]
      <3>1. Len(text) <= Len(text) /\ \A k \in 1 .. Len(text) : text[k] = text[k] BY <1>7
      <3> QED BY <1>6, <2>1, <3>1, ReadsAgree
    <2> QED BY <1>7, <2>1, <2>2
  <1>10. h[Len(t)] = IF Len(t) = 0 THEN 0 ELSE 10 * h[Len(t) - 1] + t[Len(t)]
    <2>1. Len(t) \in 0 .. Len(t) BY <1>3
    <2> QED BY <1>6, <2>1, Zenon DEF Reads
  <1>11. h[Len(t)] = 10 * g[Len(text)] + d
    <2>1. Len(t) # 0 /\ Len(t) - 1 = Len(text) BY <1>3, <1>7
    <2> QED BY <1>3, <1>7, <1>8, <1>10, <2>1
  <1>12. Value(text) = g[Len(text)] /\ Value(t) = h[Len(t)]
    BY <1>1, <1>4, <1>5
  <1> QED BY <1>2, <1>9, <1>11, <1>12

\* The value of no digits.
LEMMA ValueEmpty == Value(<<>>) = 0
  <1>1. Value(<<>>) = (CHOOSE g : Reads(<<>>, g))[Len(<<>>)]
    BY Zenon DEF Value, Reads
  <1>2. PICK g : g = CHOOSE r : Reads(<<>>, r) OBVIOUS
  <1>3. Reads(<<>>, g)
    <2>1. <<>> \in Seq(Nat) OBVIOUS
    <2> QED BY <1>2, <2>1, ReadsExist
  <1>4. Len(<<>>) = 0 /\ 0 \in 0 .. Len(<<>>) OBVIOUS
  <1>5. g[0] = 0 BY <1>3, <1>4 DEF Reads
  <1> QED BY <1>1, <1>2, <1>4, <1>5

\* str::parse reads what was written.
LEMMA ValueOfDecimal ==
  ASSUME NEW n \in 0 .. MaxSeq
  PROVE  Value(Decimal[n]) = n
  <1> DEFINE B == {k \in 0 .. MaxSeq : Value(Decimal[k]) # k}
  <1>1. B = {}
    <2> SUFFICES ASSUME B # {} PROVE FALSE OBVIOUS
    <2>1. PICK m \in B : \A k \in B : m <= k
      <3>1. B \in SUBSET Nat BY FeedAssumption
      <3> QED BY <3>1, LeastNatural
    <2>2. m \in Nat BY FeedAssumption
    <2>3. CASE m < 10
      <3>1. Decimal[m] = Append(<<>>, m)
        <4>1. Decimal[m] = <<m>> BY <2>3, DecimalStep
        <4>2. Append(<<>>, m) = <<m>> OBVIOUS
        <4> QED BY <4>1, <4>2
      <3>2. <<>> \in Seq(Nat) OBVIOUS
      <3>3. Value(Append(<<>>, m)) = 10 * 0 + m BY <2>2, <3>2, ValueStep, ValueEmpty
      <3> QED BY <2>1, <2>2, <3>1, <3>3
    <2>4. CASE ~(m < 10)
      <3>1. m \div 10 \in 0 .. MaxSeq /\ ~(m <= m \div 10) /\ m % 10 \in Nat
        BY <2>2, <2>4, FeedAssumption
      <3>2. Value(Decimal[m \div 10]) = m \div 10 BY <2>1, <3>1
      <3>3. Decimal[m] = Append(Decimal[m \div 10], m % 10) BY <2>4, DecimalStep
      <3>4. Decimal[m \div 10] \in Seq(Nat)
        <4>1. Decimal[m \div 10] \in Seq(0 .. 9) BY <3>1, DecimalDigits
        <4> QED BY <4>1
      <3>5. Value(Decimal[m]) = 10 * (m \div 10) + (m % 10)
        <4>1. Value(Append(Decimal[m \div 10], m % 10)) = 10 * Value(Decimal[m \div 10]) + (m % 10)
          BY <3>1, <3>4, ValueStep
        <4> QED BY <3>2, <3>3, <4>1
      <3>6. 10 * (m \div 10) + (m % 10) = m BY <2>2, SMTT(30)
      <3> QED BY <2>1, <3>5, <3>6
    <2> QED BY <2>3, <2>4
  <1> QED BY <1>1

\* How a query is read.  Written with one character before the number it is the number;
\* with more, like the documented "?since=N", it is 0; without one, the number loses its
\* first digit.
LEMMA QueryRead ==
  ASSUME NEW f \in Nat, NEW n \in 0 .. MaxSeq
  PROVE  /\ ExtractSince(Query(f, n)) \in Nat
         /\ f = 1 => ExtractSince(Query(f, n)) = n
         /\ f > 1 => ExtractSince(Query(f, n)) = 0
  <1>1. PICK D : D = Decimal[n] OBVIOUS
  <1>2. D \in Seq(0 .. 9) /\ Len(D) \in Nat \ {0} /\ D \in Seq(Int)
    BY <1>1, DecimalDigits
  <1>3. PICK q : q = Query(f, n) OBVIOUS
  <1>4. /\ q \in Seq(Int) /\ Len(q) = f + Len(D)
        /\ \A k \in 1 .. Len(q) : q[k] = IF k <= f THEN NoDigit ELSE D[k - f]
    <2>1. [k \in 1 .. f |-> NoDigit] \in Seq(Int) /\ Len([k \in 1 .. f |-> NoDigit]) = f
      BY DEF NoDigit
    <2> QED BY <1>1, <1>2, <1>3, <2>1 DEF Query
  <1>5. PICK t : t = Tail(q) OBVIOUS
  <1>6. /\ t \in Seq(Int) /\ Len(t) = f + Len(D) - 1
        /\ \A k \in 1 .. Len(t) : t[k] = IF k + 1 <= f THEN NoDigit ELSE D[k + 1 - f]
    <2>1. q # <<>> /\ Len(q) \in Nat /\ Len(q) > 0 BY <1>2, <1>4
    <2>2. t \in Seq(Int) /\ Len(t) = Len(q) - 1 BY <1>4, <1>5, <2>1
    <2>3. \A k \in 1 .. Len(t) : t[k] = q[k + 1] /\ k + 1 \in 1 .. Len(q)
      BY <1>4, <1>5, <2>1, <2>2
    <2>4. Len(t) = f + Len(D) - 1 BY <1>4, <2>2
    <2>5. ASSUME NEW k \in 1 .. Len(t) PROVE t[k] = IF k + 1 <= f THEN NoDigit ELSE D[k + 1 - f]
      <3>1. t[k] = q[k + 1] /\ k + 1 \in 1 .. Len(q) BY <2>3
      <3>2. PICK j : j = k + 1 OBVIOUS
      <3>3. q[j] = IF j <= f THEN NoDigit ELSE D[j - f] BY <1>4, <3>1, <3>2
      <3> QED BY <3>1, <3>2, <3>3
    <2> QED BY <2>2, <2>4, <2>5
  <1>7. ExtractSince(q) = IF ParseSince(t) = NoSince THEN 0 ELSE ParseSince(t)
    BY <1>5 DEF ExtractSince
  <1>8. CASE f > 1
    <2>1. 1 \in 1 .. Len(t) BY <1>2, <1>6, <1>8
    <2>2. 1 \in DOMAIN t /\ t[1] = NoDigit BY <1>6, <1>8, <2>1
    <2>3. ParseSince(t) = NoSince BY <2>2, Zenon DEF ParseSince
    <2> QED BY <1>3, <1>7, <1>8, <2>3
  <1>9. CASE f <= 1
    <2>1. t \in Seq(Nat)
      <3>1. ASSUME NEW k \in 1 .. Len(t) PROVE t[k] \in Nat
        <4>1. ~(k + 1 <= f) /\ k + 1 - f \in 1 .. Len(D) BY <1>2, <1>6, <1>9
        <4>2. D[k + 1 - f] \in 0 .. 9 BY <1>2, <4>1
        <4>3. t[k] = D[k + 1 - f] BY <1>6, <4>1
        <4> QED BY <4>2, <4>3
      <3> QED BY <1>6, <3>1
    <2>2. Value(t) \in Nat BY <2>1, ValueStep
    <2>3. \A k \in DOMAIN t : t[k] # NoDigit BY <2>1 DEF NoDigit
    <2>4. ParseSince(t) = IF t = <<>> THEN NoSince ELSE Value(t)
      BY <2>3, Zenon DEF ParseSince
    <2>5. f = 1 => t = D
      <3> SUFFICES ASSUME f = 1 PROVE t = D OBVIOUS
      <3>1. Len(t) = Len(D) /\ \A k \in 1 .. Len(t) : t[k] = D[k] BY <1>2, <1>6
      <3> QED BY <1>2, <1>6, <3>1
    <2>6. f = 1 => ExtractSince(q) = n
      <3> SUFFICES ASSUME f = 1 PROVE ExtractSince(q) = n OBVIOUS
      <3>1. t # <<>> BY <1>2, <2>5
      <3>2. Value(t) = n BY <1>1, <2>5, ValueOfDecimal
      <3> QED BY <1>7, <2>2, <2>4, <3>1, <3>2 DEF NoSince
    <2>7. ExtractSince(q) \in Nat BY <1>7, <2>2, <2>4 DEF NoSince
    <2> QED BY <1>3, <1>9, <2>6, <2>7
  <1> QED BY <1>8, <1>9

-----------------------------------------------------------------------------
(* The event feed: the ring and its clients.                               *)

\* The events n .. m of a process that has published s.
Numbered(s, n, m) == [k \in 1 .. m - n + 1 |-> [seq |-> n + k - 1, tag |-> s[n + k - 1]]]

\* How many events the ring keeps of n.
Kept(n) == IF n < RING_CAP THEN n ELSE RING_CAP

FeedEvent == [seq : 1 .. MaxSeq, tag : Tags]

\* A client's place, and its last request.
FeedClient ==
    [cursor : 0 .. MaxSeq, form : Nat, asked : 0 .. MaxSeq, upto : 0 .. MaxSeq, reply : Seq(FeedEvent)]

\* The ring holds the latest events under their numbers, and no client was told of an
\* event that is still to come.
FeedInv ==
    /\ feed \in Seq(Tags) /\ Len(feed) <= MaxSeq
    /\ ring.next_seq = Len(feed) + 1
    /\ ring.events = Numbered(feed, Len(feed) - Kept(Len(feed)) + 1, Len(feed))
    /\ client \in FeedClient /\ client.upto <= Len(feed)
    /\ FeedExact

\* The larger of two numbers.
LEMMA MaxTwo ==
  ASSUME NEW x \in Int, NEW y \in Int
  PROVE  Max({x, y}) = IF x >= y THEN x ELSE y
  <1>1. \E z \in {x, y} : \A w \in {x, y} : z >= w OBVIOUS
  <1>2. Max({x, y}) \in {x, y} /\ \A w \in {x, y} : Max({x, y}) >= w
    BY <1>1, Zenon DEF Max
  <1> QED BY <1>2

\* Events are events, and a stretch that ends before it begins is empty.
LEMMA NumberedType ==
  ASSUME NEW s \in Seq(Tags), Len(s) <= MaxSeq, NEW n \in Nat \ {0}, NEW m \in 0 .. Len(s)
  PROVE  /\ Numbered(s, n, m) \in Seq(FeedEvent)
         /\ m - n + 1 <= 0 => Numbered(s, n, m) = <<>>
  <1>1. \A k \in 1 .. m - n + 1 : n + k - 1 \in 1 .. Len(s) /\ n + k - 1 \in 1 .. MaxSeq
    BY FeedAssumption
  <1>2. \A k \in 1 .. m - n + 1 : [seq |-> n + k - 1, tag |-> s[n + k - 1]] \in FeedEvent
    <2> SUFFICES ASSUME NEW k \in 1 .. m - n + 1
                 PROVE  [seq |-> n + k - 1, tag |-> s[n + k - 1]] \in FeedEvent
      OBVIOUS
    <2>1. PICK i : i = n + k - 1 OBVIOUS
    <2>2. i \in 1 .. Len(s) /\ i \in 1 .. MaxSeq BY <1>1, <2>1
    <2>3. s[i] \in Tags BY <2>2
    <2> QED BY <2>1, <2>2, <2>3 DEF FeedEvent
  <1>3. CASE m - n + 1 <= 0
    <2>1. 1 .. m - n + 1 = {} BY <1>3
    <2> QED BY <2>1 DEF Numbered
  <1>4. CASE ~(m - n + 1 <= 0)
    <2>1. PICK len \in Nat : len = m - n + 1 BY <1>4
    <2>2. [k \in 1 .. len |-> [seq |-> n + k - 1, tag |-> s[n + k - 1]]] \in Seq(FeedEvent)
      <3> DEFINE at(k) == [seq |-> n + k - 1, tag |-> s[n + k - 1]]
      <3>1. \A k \in 1 .. len : at(k) \in FeedEvent BY <1>2, <2>1
      <3> HIDE DEF at
      <3>2. [k \in 1 .. len |-> at(k)] \in Seq(FeedEvent) BY <3>1
      <3> QED BY <3>2 DEF at
    <2> QED BY <1>4, <2>1, <2>2 DEF Numbered
  <1> QED BY <1>3, <1>4

\* A stretch does not change when later events come.
LEMMA NumberedGrows ==
  ASSUME NEW s \in Seq(Tags), NEW tag \in Tags, NEW n \in Nat \ {0}, NEW m \in 0 .. Len(s)
  PROVE  Numbered(Append(s, tag), n, m) = Numbered(s, n, m)
  <1>1. \A k \in 1 .. m - n + 1 : n + k - 1 \in 1 .. Len(s)
    OBVIOUS
  <1>2. \A i \in 1 .. Len(s) : Append(s, tag)[i] = s[i]
    OBVIOUS
  <1> QED BY <1>1, <1>2 DEF Numbered

\* EventRing::since: from the place asked for, or from the oldest event kept.
LEMMA SinceExact ==
  ASSUME FeedInv, NEW a \in Nat
  PROVE  Since(a) = Numbered(feed, Max({a, Len(feed) - RING_CAP}) + 1, Len(feed))
  <1>1. PICK L : L = Len(feed) OBVIOUS
  <1>2. PICK K : K = Kept(L) OBVIOUS
  <1>3. L \in Nat /\ K \in 0 .. L /\ L - K >= L - RING_CAP /\ (L - K = L - RING_CAP \/ L = K)
        /\ RING_CAP \in Nat
    BY <1>1, <1>2, FeedAssumption DEF FeedInv, Kept
  <1>4. PICK e : e = ring.events OBVIOUS
  <1>5. e = [k \in 1 .. K |-> [seq |-> L - K + k, tag |-> feed[L - K + k]]]
    <2>1. L - (L - K + 1) + 1 = K /\ \A k \in 1 .. K : (L - K + 1) + k - 1 = L - K + k
      BY <1>3
    <2>2. e = Numbered(feed, L - K + 1, L) BY <1>1, <1>2, <1>4 DEF FeedInv
    <2> QED BY <2>1, <2>2 DEF Numbered
  <1>6. Len(e) = K /\ DOMAIN e = 1 .. K BY <1>3, <1>5
  <1>13. e \in Seq(FeedEvent)
    <2>1. L - K + 1 \in Nat \ {0} /\ L \in 0 .. L BY <1>3
    <2> QED BY <1>1, <1>2, <1>4, <2>1, NumberedType DEF FeedInv
  <1>7. PICK x : x = Max({a, L - RING_CAP}) OBVIOUS
  <1>8. x = IF a >= L - RING_CAP THEN a ELSE L - RING_CAP BY <1>3, <1>7, MaxTwo
  <1> DEFINE later == {k \in DOMAIN e : e[k].seq > a}
  <1>9. later = {k \in 1 .. K : L - K + k > a} BY <1>5, <1>6
  <1>10. Since(a) = IF later = {} THEN <<>> ELSE SubSeq(e, Min(later), K)
    BY <1>4, <1>6 DEF Since
  <1> HIDE DEF later
  <1>11. CASE a >= L
    <2>1. later = {} BY <1>3, <1>9, <1>11
    <2>2. x = a BY <1>3, <1>8, <1>11
    <2>3. 1 .. L - (x + 1) + 1 = {} BY <1>3, <1>11, <2>2
    <2>4. Numbered(feed, x + 1, L) = <<>> BY <2>3 DEF Numbered
    <2> QED BY <1>1, <1>7, <1>10, <2>1, <2>4
  <1>12. CASE a < L
    <2> DEFINE j == IF a <= L - K THEN 1 ELSE a - (L - K) + 1
    <2>1. j \in 1 .. K /\ j \in later /\ \A k \in later : j <= k
      <3>1. K >= 1 /\ j \in 1 .. K /\ L - K + j > a
        BY <1>3, <1>12, FeedAssumption, <1>2 DEF Kept
      <3> QED BY <1>3, <1>9, <3>1
    <2>2. Min(later) = j
      <3>1. \E z \in later : \A y \in later : z <= y BY <2>1, Zenon
      <3>2. Min(later) \in later /\ \A y \in later : Min(later) <= y
        BY <3>1, Zenon DEF Min
      <3>3. Min(later) \in Int /\ j \in Int BY <1>9, <2>1, <3>2
      <3>4. Min(later) <= j /\ j <= Min(later) BY <2>1, <3>2
      <3> HIDE DEF j
      <3> QED BY <3>3, <3>4
    <2>3. later # {} BY <2>1
    <2>4. SubSeq(e, j, K) = [k \in 1 .. K - j + 1 |-> e[j + k - 1]]
      <3>1. SubSeq(e, j, K) = [k \in 1 .. (1 + K - j) |-> e[j + k - 1]] BY <1>3, <1>6, <1>13, <2>1
      <3>2. 1 + K - j = K - j + 1 BY <1>3, <2>1
      <3> QED BY <3>1, <3>2
    <2>5. L - K + j = x + 1 BY <1>3, <1>8, <1>12
    <2> HIDE DEF j
    <2>6. K - j + 1 = L - (x + 1) + 1 BY <1>3, <2>1, <2>5
    <2>7. \A k \in 1 .. K - j + 1 : /\ j + k - 1 \in 1 .. K
                                    /\ L - K + (j + k - 1) = (x + 1) + k - 1
      BY <1>3, <2>1, <2>5
    <2>8. \A k \in 1 .. K - j + 1 :
              e[j + k - 1] = [seq |-> (x + 1) + k - 1, tag |-> feed[(x + 1) + k - 1]]
      BY <1>5, <2>7
    <2>9. SubSeq(e, j, K) = Numbered(feed, x + 1, L) BY <2>4, <2>6, <2>8 DEF Numbered
    <2> QED BY <1>1, <1>7, <1>10, <2>2, <2>3, <2>9
  <1> QED BY <1>3, <1>11, <1>12

\* What the two places of FeedExact are made of.
LEMMA FeedFrom ==
  ASSUME NEW f \in Nat, NEW n \in 0 .. MaxSeq, NEW u \in Nat
  PROVE  LET from == Max({ExtractSince(Query(f, n)), u - RING_CAP})
         IN  from \in Nat /\ from + 1 \in Nat \ {0}
  <1>1. PICK x : x = ExtractSince(Query(f, n)) OBVIOUS
  <1>2. x \in Nat BY <1>1, QueryRead
  <1>3. u - RING_CAP \in Int BY FeedAssumption
  <1>4. Max({x, u - RING_CAP}) \in Nat BY <1>2, <1>3, MaxTwo
  <1> QED BY <1>1, <1>4

\* FeedExact in terms of Numbered.
LEMMA FeedExactNumbered ==
  FeedExact <=> client.reply =
                  Numbered(feed, Max({ExtractSince(Query(client.form, client.asked)),
                                      client.upto - RING_CAP}) + 1, client.upto)
  BY DEF FeedExact, Events, Numbered

\* The ring drops its oldest event when it is full, and keeps the rest.
LEMMA PublishKeeps ==
  ASSUME FeedInv, NEW tag \in Tags, Publish(tag)
  PROVE  FeedInv'
  <1>1. PICK L : L = Len(feed) OBVIOUS
  <1>2. PICK K : K = Kept(L) OBVIOUS
  <1>3. PICK N : N = Kept(L + 1) OBVIOUS
  <1>4. L \in Nat /\ K \in 0 .. L /\ RING_CAP \in Nat \ {0} /\ ring.next_seq = L + 1 /\ L + 1 <= MaxSeq
    BY <1>1, <1>2, FeedAssumption DEF FeedInv, Kept, Publish
  <1>5. (K = RING_CAP /\ N = K) \/ (K # RING_CAP /\ N = K + 1)
    BY <1>2, <1>3, <1>4 DEF Kept
  <1>6. feed' = Append(feed, tag) /\ feed' \in Seq(Tags) /\ Len(feed') = L + 1
        /\ feed'[L + 1] = tag /\ \A i \in 1 .. L : feed'[i] = feed[i]
    BY <1>1 DEF Publish, FeedInv
  <1>7. PICK e : e = ring.events OBVIOUS
  <1>8. e = [k \in 1 .. K |-> [seq |-> L - K + k, tag |-> feed[L - K + k]]]
    <2>1. L - (L - K + 1) + 1 = K /\ \A k \in 1 .. K : (L - K + 1) + k - 1 = L - K + k
      BY <1>4
    <2>2. e = Numbered(feed, L - K + 1, L) BY <1>1, <1>2, <1>7 DEF FeedInv
    <2> QED BY <2>1, <2>2 DEF Numbered
  <1>9. e \in Seq(FeedEvent) /\ Len(e) = K
    <2>1. L - K + 1 \in Nat \ {0} /\ L \in 0 .. L BY <1>4
    <2>2. e \in Seq(FeedEvent) BY <1>1, <1>2, <1>7, <2>1, NumberedType DEF FeedInv
    <2>3. DOMAIN e = 1 .. K BY <1>8
    <2> QED BY <1>4, <2>2, <2>3
  <1>10. PICK d : d = [seq |-> L + 1, tag |-> tag] OBVIOUS
  <1>11. /\ ring'.events = (IF K = RING_CAP THEN Tail(e) ELSE e) \o <<d>>
         /\ ring'.next_seq = L + 2
    BY <1>4, <1>7, <1>9, <1>10 DEF Publish
  <1>12. d \in FeedEvent BY <1>4, <1>10 DEF FeedEvent
  <1>13. PICK r : r = (IF K = RING_CAP THEN Tail(e) ELSE e) OBVIOUS
  <1>14. r \in Seq(FeedEvent) /\ Len(r) = N - 1
         /\ \A k \in 1 .. N - 1 : r[k] = [seq |-> L + 1 - N + k, tag |-> feed[L + 1 - N + k]]
    <2>1. CASE K = RING_CAP
      <3>1. r = Tail(e) /\ N = K /\ e # <<>> /\ Len(e) > 0
        BY <1>4, <1>5, <1>9, <1>13, <2>1
      <3>2. r \in Seq(FeedEvent) /\ Len(r) = N - 1 BY <1>4, <1>9, <3>1
      <3>3. \A k \in 1 .. N - 1 : r[k] = e[k + 1] /\ k + 1 \in 1 .. K /\ L - K + (k + 1) = L + 1 - N + k
        BY <1>4, <1>9, <3>1, <3>2
      <3> QED BY <1>8, <3>2, <3>3
    <2>2. CASE K # RING_CAP
      <3>1. r = e /\ N - 1 = K BY <1>4, <1>5, <1>13, <2>2
      <3>2. N = K + 1 /\ K \in Int /\ L \in Int BY <1>4, <1>5, <2>2
      <3>3. \A k \in 1 .. K : L - K + k = L + 1 - N + k BY <3>2
      <3> QED BY <1>8, <1>9, <3>1, <3>3
    <2> QED BY <2>1, <2>2
  <1>15. N \in 1 .. L + 1 BY <1>4, <1>5
  <1>16. PICK v : v = ring'.events OBVIOUS
  <1>17. v \in Seq(FeedEvent) /\ Len(v) = N /\ v[N] = d /\ \A k \in 1 .. N - 1 : v[k] = r[k]
    BY <1>11, <1>12, <1>13, <1>14, <1>15, <1>16
  <1>18. \A k \in 1 .. N : v[k] = [seq |-> L + 1 - N + k, tag |-> feed'[L + 1 - N + k]]
    <2> SUFFICES ASSUME NEW k \in 1 .. N
                 PROVE  v[k] = [seq |-> L + 1 - N + k, tag |-> feed'[L + 1 - N + k]]
      OBVIOUS
    <2>1. CASE k = N
      <3>1. L + 1 - N + k = L + 1 BY <1>4, <1>15, <2>1
      <3> QED BY <1>6, <1>10, <1>17, <2>1, <3>1
    <2>2. CASE k # N
      <3>1. k \in 1 .. N - 1 /\ L + 1 - N + k \in 1 .. L BY <1>4, <1>15, <2>2
      <3> QED BY <1>6, <1>14, <1>17, <3>1
    <2> QED BY <2>1, <2>2
  <1>19. v = Numbered(feed', L + 1 - N + 1, L + 1)
    <2>1. (L + 1) - (L + 1 - N + 1) + 1 = N /\ \A k \in 1 .. N : (L + 1 - N + 1) + k - 1 = L + 1 - N + k
      BY <1>4, <1>15
    <2>2. v = [k \in 1 .. N |-> v[k]] BY <1>17
    <2>3. v = [k \in 1 .. N |-> [seq |-> L + 1 - N + k, tag |-> feed'[L + 1 - N + k]]]
      BY <1>18, <2>2
    <2> QED BY <2>1, <2>3 DEF Numbered
  <1>20. client' = client /\ client \in FeedClient /\ client.upto <= L
    BY <1>1 DEF Publish, FeedInv
  <1>21. FeedExact'
    <2>1. PICK from : from = Max({ExtractSince(Query(client.form, client.asked)), client.upto - RING_CAP})
      OBVIOUS
    <2>2. client.form \in Nat /\ client.asked \in 0 .. MaxSeq /\ client.upto \in 0 .. L
      BY <1>4, <1>20 DEF FeedClient
    <2>3. from + 1 \in Nat \ {0} BY <2>1, <2>2, FeedFrom
    <2>4. client.reply = Numbered(feed, from + 1, client.upto)
      BY <2>1, FeedExactNumbered DEF FeedInv
    <2>5. Numbered(feed', from + 1, client.upto) = Numbered(feed, from + 1, client.upto)
      BY <1>1, <1>6, <2>2, <2>3, NumberedGrows DEF FeedInv
    <2>6. client'.reply = Numbered(feed', from + 1, client'.upto)
      BY <1>20, <2>4, <2>5
    <2> QED BY <1>20, <2>1, <2>6 DEF FeedExact, Events, Numbered
  <1>22. ring'.events = Numbered(feed', Len(feed') - Kept(Len(feed')) + 1, Len(feed'))
    <2>1. Len(feed') = L + 1 BY <1>6
    <2>2. Kept(Len(feed')) = N BY <1>3, <2>1
    <2>3. ring'.events = Numbered(feed', L + 1 - N + 1, L + 1) BY <1>16, <1>19
    <2>4. Len(feed') - Kept(Len(feed')) + 1 = L + 1 - N + 1 BY <1>4, <1>15, <2>1, <2>2
    <2> QED BY <2>1, <2>3, <2>4, Zenon
  <1>23. ring'.next_seq = Len(feed') + 1 /\ client'.upto <= Len(feed') /\ client' \in FeedClient
    <2>1. client.upto \in Nat BY <1>20 DEF FeedClient
    <2> QED BY <1>4, <1>6, <1>11, <1>20, <2>1
  <1>24. feed' \in Seq(Tags) /\ Len(feed') <= MaxSeq BY <1>4, <1>6
  <1> QED BY <1>21, <1>22, <1>23, <1>24, Zenon DEF FeedInv

\* A client's place is the number of the last event it was told of.
LEMMA GetEventsKeeps ==
  ASSUME FeedInv, NEW f \in Forms, GetEvents(f)
  PROVE  FeedInv'
  <1>1. PICK L : L = Len(feed) OBVIOUS
  <1>2. PICK n : n = client.cursor OBVIOUS
  <1>3. /\ L \in 0 .. MaxSeq /\ n \in 0 .. MaxSeq /\ f \in Nat /\ feed \in Seq(Tags)
        /\ ring.next_seq - 1 = L /\ Len(feed) <= MaxSeq
    BY <1>1, <1>2, FeedAssumption DEF FeedInv, FeedClient
  <1>4. PICK x : x = ExtractSince(Query(f, n)) OBVIOUS
  <1>5. x \in Nat BY <1>3, <1>4, QueryRead
  <1>6. PICK told : told = Since(x) OBVIOUS
  <1>7. PICK from : from = Max({x, L - RING_CAP}) OBVIOUS
  <1>8. from + 1 \in Nat \ {0}
    <2>1. L \in Nat BY <1>3
    <2> QED BY <1>3, <1>4, <1>7, <2>1, FeedFrom
  <1>9. told = Numbered(feed, from + 1, L)
    BY <1>1, <1>5, <1>6, <1>7, SinceExact
  <1>10. told \in Seq(FeedEvent)
    <2>1. L \in 0 .. Len(feed) BY <1>1, <1>3
    <2> QED BY <1>3, <1>8, <1>9, <2>1, NumberedType
  <1>11. /\ client' = [client EXCEPT !.form = f, !.cursor = IF told = <<>> THEN n ELSE Last(told).seq,
                                     !.asked = n, !.upto = L, !.reply = told]
         /\ UNCHANGED <<ring, feed>>
    BY <1>2, <1>3, <1>4, <1>6 DEF GetEvents
  <1>12. (IF told = <<>> THEN n ELSE Last(told).seq) \in 0 .. MaxSeq
    <2>1. CASE told = <<>> BY <1>3, <2>1
    <2>2. CASE told # <<>>
      <3>1. Len(told) \in 1 .. Len(told) BY <1>10, <2>2
      <3>2. Last(told) \in FeedEvent BY <1>10, <3>1 DEF Last
      <3> QED BY <2>2, <3>2, FeedAssumption DEF FeedEvent
    <2> QED BY <2>1, <2>2
  <1>13. /\ client' \in FeedClient /\ client'.form = f /\ client'.asked = n /\ client'.upto = L
         /\ client'.reply = told
    BY <1>3, <1>10, <1>11, <1>12 DEF FeedInv, FeedClient
  <1>14. FeedExact'
    <2>1. Numbered(feed', from + 1, L) = Numbered(feed, from + 1, L) BY <1>11
    <2> QED BY <1>4, <1>7, <1>9, <1>13, <2>1 DEF FeedExact, Events, Numbered
  <1>15. feed' = feed /\ ring' = ring BY <1>11
  <1> QED BY <1>1, <1>3, <1>13, <1>14, <1>15 DEF FeedInv

\* A new process has an empty ring, and a client has heard nothing of it.
LEMMA FeedFresh ==
  ASSUME NEW f \in Nat, NEW n \in 0 .. MaxSeq
  PROVE  /\ Numbered(<<>>, 1, 0) = <<>> /\ Kept(0) = 0
         /\ Numbered(<<>>, Max({ExtractSince(Query(f, n)), 0 - RING_CAP}) + 1, 0) = <<>>
  <1>1. Kept(0) = 0 BY FeedAssumption DEF Kept
  <1>2. PICK from : from = Max({ExtractSince(Query(f, n)), 0 - RING_CAP}) OBVIOUS
  <1>3. from \in Nat /\ from + 1 \in Nat \ {0} BY <1>2, FeedFrom
  <1>5. Numbered(<<>>, from + 1, 0) = <<>> /\ Numbered(<<>>, 1, 0) = <<>>
    <2>1. 1 .. 0 - (from + 1) + 1 = {} /\ 1 .. 0 - 1 + 1 = {} BY <1>3
    <2> QED BY <2>1 DEF Numbered
  <1> QED BY <1>1, <1>2, <1>5

\* Every step of the feed keeps the invariant.
LEMMA FeedStepKeeps == FeedInv /\ [FeedNext]_feedVars => FeedInv'
  <1> SUFFICES ASSUME FeedInv, [FeedNext]_feedVars PROVE FeedInv'
    OBVIOUS
  <1>1. CASE \E tag \in Tags : Publish(tag) BY <1>1, PublishKeeps
  <1>2. CASE \E f \in Forms : GetEvents(f) BY <1>2, GetEventsKeeps
  <1>3. CASE FeedRestart
    <2>1. /\ feed' = <<>> /\ ring'.next_seq = 1 /\ ring'.events = <<>>
          /\ client' = [client EXCEPT !.upto = 0, !.reply = <<>>]
      BY <1>3 DEF FeedRestart, NewRing
    <2>2. /\ client' \in FeedClient /\ client'.upto = 0 /\ client'.reply = <<>>
          /\ client'.form \in Nat /\ client'.asked \in 0 .. MaxSeq
      <3>1. client \in FeedClient BY DEF FeedInv
      <3>2. 0 \in 0 .. MaxSeq /\ <<>> \in Seq(FeedEvent) BY FeedAssumption
      <3> QED BY <2>1, <3>1, <3>2 DEF FeedClient
    <2>3. feed' \in Seq(Tags) /\ Len(feed') = 0 /\ 0 <= MaxSeq BY <2>1, FeedAssumption
    <2>4. ring'.events = Numbered(feed', Len(feed') - Kept(Len(feed')) + 1, Len(feed'))
      <3>1. Kept(0) = 0 /\ Numbered(<<>>, 1, 0) = <<>> BY <2>2, FeedFresh
      <3>2. 0 - 0 + 1 = 1 OBVIOUS
      <3> QED BY <2>1, <2>3, <3>1, <3>2
    <2>5. FeedExact'
      <3>1. client'.reply = Numbered(feed', Max({ExtractSince(Query(client'.form, client'.asked)),
                                                 client'.upto - RING_CAP}) + 1, client'.upto)
        BY <2>1, <2>2, FeedFresh
      <3> QED BY <3>1 DEF FeedExact, Events, Numbered
    <2> QED BY <2>1, <2>2, <2>3, <2>4, <2>5 DEF FeedInv
  <1>4. CASE UNCHANGED feedVars
    <2>1. ring' = ring /\ feed' = feed /\ client' = client BY <1>4 DEF feedVars
    <2>2. FeedExact' BY <2>1 DEF FeedInv, FeedExact, Events
    <2> QED BY <2>1, <2>2 DEF FeedInv
  <1> QED BY <1>1, <1>2, <1>3, <1>4 DEF FeedNext

\* For every ring and any number of events, queries and restarts: the ring holds the
\* latest events of the process under their numbers.
THEOREM FeedInvariant == FeedSpec => []FeedInv
  <1>1. FeedInit => FeedInv
    <2> SUFFICES ASSUME FeedInit PROVE FeedInv OBVIOUS
    <2>1. /\ feed = <<>> /\ ring.next_seq = 1 /\ ring.events = <<>>
          /\ client \in FeedClient /\ client.upto = 0 /\ client.reply = <<>>
          /\ client.form \in Nat /\ client.asked \in 0 .. MaxSeq
      BY FeedAssumption DEF FeedInit, NewRing, FeedClient
    <2>2. feed \in Seq(Tags) /\ Len(feed) = 0 /\ 0 <= MaxSeq BY <2>1, FeedAssumption
    <2>3. Kept(0) = 0 /\ Numbered(<<>>, 1, 0) = <<>> BY <2>1, FeedFresh
    <2>5. ring.events = Numbered(feed, Len(feed) - Kept(Len(feed)) + 1, Len(feed))
      <3>1. 0 - 0 + 1 = 1 OBVIOUS
      <3> QED BY <2>1, <2>2, <2>3, <3>1
    <2>6. ring.next_seq = Len(feed) + 1 /\ client.upto <= Len(feed) /\ Len(feed) <= MaxSeq
      BY <2>1, <2>2
    <2>4. client.reply = Numbered(feed, Max({ExtractSince(Query(client.form, client.asked)),
                                             client.upto - RING_CAP}) + 1, client.upto)
      BY <2>1, FeedFresh
    <2> QED BY <2>1, <2>2, <2>4, <2>5, <2>6, FeedExactNumbered DEF FeedInv
  <1> QED BY <1>1, FeedStepKeeps, PTL DEF FeedSpec

\* "Events with seq > since, oldest first", "Sequence numbers survive eviction"
\* (EventRing), for every ring and any number of events: what a client is told is every
\* event after the place its query was read as, in order and under its number, except
\* those the ring had to drop.
THEOREM FeedRepliesExact == FeedSpec => []FeedExact
  <1>1. FeedInv => FeedExact BY DEF FeedInv
  <1> QED BY <1>1, FeedInvariant, PTL

\* What extract_since and parse_since make of it: a query with one character before the
\* number is answered with the events after that number; one with more, the documented
\* "?since=N" among them, with everything the ring holds.
THEOREM FeedByForm ==
  FeedSpec => [](/\ client.form = 1 =>
                      client.reply = Events(Max({client.asked, client.upto - RING_CAP}) + 1, client.upto)
                 /\ client.form > 1 =>
                      client.reply = Events(Max({0, client.upto - RING_CAP}) + 1, client.upto))
  <1>1. FeedInv => /\ client.form = 1 =>
                        client.reply = Events(Max({client.asked, client.upto - RING_CAP}) + 1, client.upto)
                   /\ client.form > 1 =>
                        client.reply = Events(Max({0, client.upto - RING_CAP}) + 1, client.upto)
    <2> SUFFICES ASSUME FeedInv
                 PROVE  /\ client.form = 1 =>
                             client.reply = Events(Max({client.asked, client.upto - RING_CAP}) + 1, client.upto)
                        /\ client.form > 1 =>
                             client.reply = Events(Max({0, client.upto - RING_CAP}) + 1, client.upto)
      OBVIOUS
    <2>1. client.form \in Nat /\ client.asked \in 0 .. MaxSeq BY DEF FeedInv, FeedClient
    <2>2. /\ client.form = 1 => ExtractSince(Query(client.form, client.asked)) = client.asked
          /\ client.form > 1 => ExtractSince(Query(client.form, client.asked)) = 0
      BY <2>1, QueryRead
    <2> QED BY <2>2 DEF FeedInv, FeedExact
  <1> QED BY <1>1, FeedInvariant, PTL

-----------------------------------------------------------------------------
\* The names of the classes: their number, and that no two are the same.
LEMMA ClassNames ==
  /\ DOMAIN NAMES = 1 .. 45 /\ Len(NAMES) = 45
  /\ \A i, j \in 1 .. 45 : NAMES[i] = NAMES[j] => i = j
  /\ NAMES[31] = "ActionTooLarge" /\ NAMES[42] = "DuplicateIntentId" /\ NAMES[45] = "HandshakeFull"
  /\ NAMES[43] = "ResourceHeld" /\ NAMES[41] = "TableFull"
  <1>1. DOMAIN NAMES = 1 .. 45 /\ Len(NAMES) = 45
    BY DEF NAMES
  <1>2. \A i, j \in 1 .. 45 : NAMES[i] = NAMES[j] => i = j
    BY SMTT(60) DEF NAMES
  <1>3. NAMES[31] = "ActionTooLarge" /\ NAMES[42] = "DuplicateIntentId" /\ NAMES[45] = "HandshakeFull"
    BY DEF NAMES
  <1>4. NAMES[43] = "ResourceHeld" /\ NAMES[41] = "TableFull"
    BY DEF NAMES
  <1> QED BY <1>1, <1>2, <1>3, <1>4

\* WireRejectClass::index finds the one place of a class.
LEMMA ClassIndex ==
  /\ \A k \in 1 .. 45 : NAMES[k] \in ToSet(NAMES) /\ Index(NAMES[k]) = k - 1
  /\ \A c \in ToSet(NAMES) : \E k \in 1 .. 45 : c = NAMES[k]
  /\ Index("ActionTooLarge") = 30 /\ Index("HandshakeFull") = 44
  /\ {"ActionTooLarge", "DuplicateIntentId", "HandshakeFull", "ResourceHeld", "TableFull"} \subseteq ToSet(NAMES)
  <1>1. \A c \in ToSet(NAMES) : \E k \in 1 .. 45 : c = NAMES[k]
    BY ClassNames, Zenon DEF ToSet
  <1>2. \A k \in 1 .. 45 : NAMES[k] \in ToSet(NAMES)
    BY ClassNames, Zenon DEF ToSet
  <1>3. ASSUME NEW k \in 1 .. 45
        PROVE  Index(NAMES[k]) = k - 1
    <2> DEFINE j == CHOOSE m \in DOMAIN NAMES : NAMES[m] = NAMES[k]
    <2>1. k \in DOMAIN NAMES
      BY ClassNames
    <2>2. j \in DOMAIN NAMES /\ NAMES[j] = NAMES[k]
      BY <2>1, Zenon
    <2>3. j = k
      BY <2>2, ClassNames
    <2> QED BY <2>3 DEF Index
  <1>4. 31 \in 1 .. 45 /\ 45 \in 1 .. 45 /\ 42 \in 1 .. 45 /\ 43 \in 1 .. 45 /\ 41 \in 1 .. 45
    OBVIOUS
  <1>5. Index("ActionTooLarge") = 30 /\ Index("HandshakeFull") = 44
    <2>1. Index(NAMES[31]) = 31 - 1 /\ Index(NAMES[45]) = 45 - 1
      BY <1>3, <1>4
    <2> QED BY <2>1, ClassNames
  <1>6. {"ActionTooLarge", "DuplicateIntentId", "HandshakeFull", "ResourceHeld", "TableFull"} \subseteq ToSet(NAMES)
    BY <1>2, <1>4, ClassNames
  <1> QED BY <1>1, <1>2, <1>3, <1>5, <1>6

\* The counters r of the classes are those of the refusals f seen, and add up to n.
Accounted(r, f, n) ==
    /\ r \in [0 .. 44 -> Nat] /\ f \in [ToSet(NAMES) -> Nat] /\ n \in Nat
    /\ \A k \in 1 .. 45 : r[k - 1] = f[NAMES[k]]
    /\ SumFunction(r) = n + r[44]

\* The refusals seen, with one of class c more.
OneMore(f, c) == [k \in DOMAIN f |-> f[k] + IF k \in c THEN 1 ELSE 0]

\* One refusal counted in its class, and in the total unless a handshake found no slot,
\* leaves the other classes alone and the books right.
LEMMA BumpAccounted ==
  ASSUME NEW r, NEW f, NEW n, Accounted(r, f, n), NEW c \in ToSet(NAMES)
  PROVE  LET b == [r EXCEPT ![Index(c)] = @ + 1]
         IN  /\ Accounted(b, OneMore(f, {c}), IF c = "HandshakeFull" THEN n ELSE n + 1)
             /\ b[30] = IF c = "ActionTooLarge" THEN r[30] + 1 ELSE r[30]
  <1> DEFINE b == [r EXCEPT ![Index(c)] = @ + 1]
             g == OneMore(f, {c})
             m == IF c = "HandshakeFull" THEN n ELSE n + 1
  <1>0. r \in [0 .. 44 -> Nat] /\ f \in [ToSet(NAMES) -> Nat] /\ n \in Nat
    BY DEF Accounted
  <1>1. PICK p \in 1 .. 45 : c = NAMES[p]
    BY ClassIndex
  <1>2. Index(c) = p - 1 /\ p - 1 \in 0 .. 44
    BY <1>1, ClassIndex
  <1>3. b \in [0 .. 44 -> Nat] /\ b = [r EXCEPT ![p - 1] = @ + 1]
    BY <1>0, <1>2
  <1>4. \A x \in 0 .. 44 : b[x] = IF x = p - 1 THEN r[x] + 1 ELSE r[x]
    BY <1>0, <1>2, <1>3
  <1>5. g \in [ToSet(NAMES) -> Nat] /\ \A k \in ToSet(NAMES) : g[k] = IF k = c THEN f[k] + 1 ELSE f[k]
    BY <1>0 DEF OneMore
  <1>6. ASSUME NEW k \in 1 .. 45 PROVE b[k - 1] = g[NAMES[k]]
    <2>1. r[k - 1] = f[NAMES[k]] /\ NAMES[k] \in ToSet(NAMES)
      BY ClassIndex DEF Accounted
    <2>2. (NAMES[k] = c) <=> k = p
      BY <1>1, ClassNames
    <2>3. k - 1 \in 0 .. 44 /\ (k - 1 = p - 1 <=> k = p)
      OBVIOUS
    <2> QED BY <1>4, <1>5, <2>1, <2>2, <2>3
  <1>7. /\ c = "HandshakeFull" <=> p = 45
        /\ c = "ActionTooLarge" <=> p = 31
    <2>1. 45 \in 1 .. 45 /\ 31 \in 1 .. 45
      OBVIOUS
    <2>2. NAMES[p] = NAMES[45] <=> p = 45
      BY <2>1, ClassNames, Zenon
    <2>3. NAMES[p] = NAMES[31] <=> p = 31
      BY <2>1, ClassNames, Zenon
    <2> QED BY <1>1, <2>2, <2>3, ClassNames
  <1>8. SumFunction(b) = SumFunction(r) + 1
    <2>1. IsFiniteSet(0 .. 44)
      <3>1. 0 \in Int /\ 44 \in Int
        OBVIOUS
      <3> QED BY <3>1, FS_Interval, Zenon
    <2>2. SumFunction([r EXCEPT ![p - 1] = @ + 1]) = SumFunction(r) + 1
      BY <2>1, <1>0, <1>2, SumBump, Zenon
    <2> QED BY <1>3, <2>2
  <1>9. SumFunction(r) = n + r[44] /\ r[44] \in Nat
    BY <1>0 DEF Accounted
  <1>10. m \in Nat /\ SumFunction(b) = m + b[44]
    <2>1. b[44] = IF p = 45 THEN r[44] + 1 ELSE r[44]
      BY <1>4
    <2> QED BY <2>1, <1>0, <1>7, <1>8, <1>9
  <1>11. b[30] = IF c = "ActionTooLarge" THEN r[30] + 1 ELSE r[30]
    BY <1>4, <1>7
  <1> HIDE DEF b, g, m
  <1>12. Accounted(b, g, m)
    BY <1>3, <1>5, <1>6, <1>10 DEF Accounted
  <1> QED BY <1>11, <1>12 DEF b, g, m

\* No refusal, no change.
LEMMA NoneMore ==
  ASSUME NEW f, NEW S, f \in [S -> Nat] PROVE OneMore(f, {}) = f
  BY DEF OneMore

\* An entry of the table: a daemon that runs nothing leaves every intent PENDING.
PendingEntry == [id : IntentIds, resource : Resources, state : {"Pending"}, admitted : Nat]

\* The counters, and the history.
Counts == [rejected : Nat, admissions : Nat, admitted : Nat, requests : Nat, authRefused : Nat]

Past == [handled : Nat, refused : [ToSet(NAMES) -> Nat], rejected : Nat]

\* The books: the types, the classes' counters, the events, and the intents.
ApiInv ==
    /\ table \subseteq PendingEntry /\ IsFiniteSet(table) /\ now \in Nat
    /\ count \in Counts /\ past \in Past
    /\ published \in [{"IntentAdmitted", "RefusalApplied", "Other"} -> Nat]
    /\ Accounted(rejects, past.refused, count.rejected)
    /\ published["IntentAdmitted"] = count.admitted + count.admissions
    /\ Cardinality(table) + past.rejected = count.admitted + count.admissions + rejects[30]
    /\ reply.code = 202 => MatchForGrant(table, reply.id) # {}

\* The books say what CountersReconcile says.
LEMMA BooksReconcile == ApiInv => CountersReconcile
  <1> SUFFICES ASSUME ApiInv PROVE CountersReconcile
    OBVIOUS
  <1>1. \A k \in DOMAIN NAMES : rejects[k - 1] = past.refused[NAMES[k]]
    BY ClassNames DEF ApiInv, Accounted
  <1>2. SumFunction(rejects) = count.rejected + rejects[Index("HandshakeFull")]
    BY ClassIndex DEF ApiInv, Accounted
  <1>3. Cardinality(table) + past.rejected
           = count.admitted + count.admissions + rejects[Index("ActionTooLarge")]
    BY ClassIndex DEF ApiInv
  <1> QED BY <1>1, <1>2, <1>3 DEF ApiInv, CountersReconcile

\* What Handled does to the history.
LEMMA HandledPast ==
  ASSUME past \in Past, NEW c, Handled(c)
  PROVE  past' \in Past /\ past'.refused = OneMore(past.refused, c) /\ past'.rejected = past.rejected
  <1>1. past.handled \in Nat /\ past.refused \in [ToSet(NAMES) -> Nat] /\ past.rejected \in Nat
    BY DEF Past
  <1>2. OneMore(past.refused, c) \in [ToSet(NAMES) -> Nat]
    BY <1>1 DEF OneMore
  <1>3. past' = [past EXCEPT !.handled = @ + 1, !.refused = OneMore(past.refused, c)]
    BY Zenon DEF Handled, OneMore
  <1> DEFINE g == OneMore(past.refused, c)
  <1>4. g \in [ToSet(NAMES) -> Nat] /\ past' = [past EXCEPT !.handled = @ + 1, !.refused = g]
    BY <1>2, <1>3
  <1> HIDE DEF g
  <1>5. past' = [handled |-> past.handled + 1, refused |-> g, rejected |-> past.rejected]
    BY <1>4 DEF Past
  <1>6. past' \in Past /\ past'.refused = g /\ past'.rejected = past.rejected
    BY <1>1, <1>4, <1>5 DEF Past
  <1> QED BY <1>6 DEF g

\* A resolved name whose admission returns Ok is one entry more, and nobody had its id.
LEMMA AdmitOne ==
  ASSUME ApiInv, NEW i \in IntentIds, NEW name \in Resources, ResolveAndAdmit(i, name) = <<"Ok">>
  PROVE  LET t == Admit(table, i, name, now)
         IN  /\ t \subseteq PendingEntry /\ IsFiniteSet(t)
             /\ Cardinality(t) = Cardinality(table) + 1
             /\ MatchForGrant(t, i) # {}
  <1> DEFINE e == [id |-> i, resource |-> name, state |-> "Pending", admitted |-> now]
             t == Admit(table, i, name, now)
  <1>1. AdmitResult(table, i, name) = "Ok"
    BY DEF ResolveAndAdmit
  <1>2. MatchForGrant(table, i) = {}
    BY <1>1 DEF AdmitResult
  <1>3. table \subseteq PendingEntry /\ IsFiniteSet(table) /\ now \in Nat
    BY DEF ApiInv
  <1>4. e \in PendingEntry /\ e.state = "Pending" /\ e.id = i
    BY <1>3 DEF PendingEntry
  <1>5. e \notin table
    BY <1>2, <1>4 DEF MatchForGrant
  <1>6. t = table \cup {e}
    BY DEF Admit
  <1>7. IsFiniteSet(t) /\ Cardinality(t) = Cardinality(table) + 1
    BY <1>3, <1>5, <1>6, FS_AddElement
  <1>8. e \in MatchForGrant(t, i)
    BY <1>4, <1>6 DEF MatchForGrant
  <1> QED BY <1>3, <1>4, <1>6, <1>7, <1>8

\* What resolve_and_admit refuses has a class, and is a duplicate only of a PENDING intent.
LEMMA RefusedClass ==
  ASSUME NEW i \in IntentIds, NEW name \in Resources \cup Unresolved,
         ResolveAndAdmit(i, name) # <<"Ok">>
  PROVE  LET v == ResolveAndAdmit(i, name)
         IN  /\ Last(v) \in ToSet(NAMES) \ {"ActionTooLarge", "HandshakeFull"}
             /\ From(<<"Dispatch">> \o v) = Last(v)
             /\ Last(v) = "DuplicateIntentId" => MatchForGrant(table, i) # {}
  <1> DEFINE v == ResolveAndAdmit(i, name)
  <1>1. CASE name \in Unresolved
    <2>1. v = <<"Resolve", name>>
      BY <1>1 DEF ResolveAndAdmit
    <2>2. name \in ToSet(NAMES) \ {"DuplicateIntentId", "ActionTooLarge", "HandshakeFull"}
      BY <1>1, ApiAssumption
    <2>3. Last(v) = name /\ From(<<"Dispatch">> \o v) = name
      BY <2>1 DEF Last, From
    <2> QED BY <2>2, <2>3
  <1>2. CASE name \notin Unresolved
    <2> DEFINE a == AdmitResult(table, i, name)
    <2>1. v = <<"Resolve", "Intent", a>>
      BY <1>2 DEF ResolveAndAdmit
    <2>2. /\ a \in {"DuplicateIntentId", "ResourceHeld", "TableFull"}
          /\ a = "DuplicateIntentId" => MatchForGrant(table, i) # {}
      BY <1>2 DEF AdmitResult, ResolveAndAdmit
    <2> HIDE DEF a
    <2>3. Last(v) = a /\ From(<<"Dispatch">> \o v) = a
      BY <2>1 DEF Last, From
    <2>4. a \in ToSet(NAMES) \ {"ActionTooLarge", "HandshakeFull"}
      BY <2>2, ClassIndex
    <2> QED BY <2>2, <2>3, <2>4
  <1> QED BY <1>1, <1>2

\* A packet refused: one bump, nothing admitted.
LEMMA PacketRefusedKeeps ==
  ASSUME ApiInv, NEW error, From(error) \in ToSet(NAMES) \ {"ActionTooLarge", "HandshakeFull"},
         PacketRefused(error)
  PROVE  ApiInv'
  <1> DEFINE c == From(error)
             b == [rejects EXCEPT ![Index(c)] = @ + 1]
  <1>1. /\ past' \in Past /\ past'.refused = OneMore(past.refused, {c})
        /\ past'.rejected = past.rejected
    BY HandledPast DEF ApiInv, PacketRefused
  <1>2. /\ rejects' = b /\ count' = [count EXCEPT !.rejected = @ + 1] /\ reply' = NoReply
        /\ table' = table /\ now' = now /\ published' = published
    BY DEF PacketRefused, Bump
  <1>3. /\ count' \in Counts /\ count'.rejected = count.rejected + 1
        /\ count'.admitted = count.admitted /\ count'.admissions = count.admissions
    BY <1>2 DEF ApiInv, Counts
  <1>4. Accounted(rejects, past.refused, count.rejected)
    BY DEF ApiInv
  <1>5. /\ Accounted(b, OneMore(past.refused, {c}), IF c = "HandshakeFull" THEN count.rejected ELSE count.rejected + 1)
        /\ b[30] = IF c = "ActionTooLarge" THEN rejects[30] + 1 ELSE rejects[30]
    BY <1>4, BumpAccounted, Zenon
  <1>6. Accounted(rejects', past'.refused, count'.rejected) /\ rejects'[30] = rejects[30]
    BY <1>1, <1>2, <1>3, <1>5
  <1>7. reply'.code # 202
    BY <1>2 DEF NoReply
  <1> QED BY <1>1, <1>2, <1>3, <1>6, <1>7 DEF ApiInv

\* Nothing refused, nothing bumped: the classes' books are as they were.
LEMMA HandledNone ==
  ASSUME ApiInv, Handled({}), rejects' = rejects, count'.rejected = count.rejected
  PROVE  /\ past' \in Past /\ past'.rejected = past.rejected
         /\ Accounted(rejects', past'.refused, count'.rejected)
  <1>1. /\ past' \in Past /\ past'.refused = OneMore(past.refused, {})
        /\ past'.rejected = past.rejected
    BY HandledPast DEF ApiInv
  <1>2. past.refused \in [ToSet(NAMES) -> Nat]
    BY DEF ApiInv, Past
  <1>3. past'.refused = past.refused
    BY <1>1, <1>2, NoneMore, Zenon
  <1>4. Accounted(rejects, past.refused, count.rejected)
    BY DEF ApiInv
  <1> QED BY <1>1, <1>3, <1>4

\* A handshake without a slot is one of its class and no rejection.
LEMMA HandshakeFullKeeps == ASSUME ApiInv, HandshakeFull PROVE ApiInv'
  <1> DEFINE c == "HandshakeFull"
             b == [rejects EXCEPT ![Index(c)] = @ + 1]
  <1>1. /\ past' \in Past /\ past'.refused = OneMore(past.refused, {c})
        /\ past'.rejected = past.rejected
    BY HandledPast DEF ApiInv, HandshakeFull
  <1>2. /\ rejects' = b /\ count' = count /\ reply' = NoReply
        /\ table' = table /\ now' = now /\ published' = published
    BY DEF HandshakeFull
  <1>3. Accounted(rejects, past.refused, count.rejected)
    BY DEF ApiInv
  <1>4. /\ Accounted(b, OneMore(past.refused, {c}), IF c = "HandshakeFull" THEN count.rejected ELSE count.rejected + 1)
        /\ b[30] = IF c = "ActionTooLarge" THEN rejects[30] + 1 ELSE rejects[30]
    <2>1. c \in ToSet(NAMES)
      BY ClassIndex
    <2> QED BY <2>1, <1>3, BumpAccounted, Zenon
  <1>5. Accounted(rejects', past'.refused, count'.rejected) /\ rejects'[30] = rejects[30]
    BY <1>1, <1>2, <1>4
  <1>6. reply'.code # 202
    BY <1>2 DEF NoReply
  <1> QED BY <1>1, <1>2, <1>5, <1>6 DEF ApiInv

\* An INTENT of a packet is admitted; its action is measured afterwards.
LEMMA WireIntentKeeps ==
  ASSUME ApiInv, NEW i \in IntentIds, NEW name \in Resources, NEW large \in BOOLEAN,
         WireIntent(i, name, large)
  PROVE  ApiInv'
  <1>1. /\ table' \subseteq PendingEntry /\ IsFiniteSet(table')
        /\ Cardinality(table') = Cardinality(table) + 1
    BY AdmitOne, Zenon DEF WireIntent
  <1>2. now' = now /\ reply' = NoReply /\ reply'.code # 202
    BY DEF WireIntent, NoReply
  <1>3. Cardinality(table) \in Nat
    BY FS_CardinalityType DEF ApiInv
  <1>4. /\ count \in Counts /\ past \in Past /\ Accounted(rejects, past.refused, count.rejected)
        /\ published \in [{"IntentAdmitted", "RefusalApplied", "Other"} -> Nat]
        /\ rejects[30] \in Nat
    BY DEF ApiInv, Accounted
  <1>5. CASE large
    <2> DEFINE c == "ActionTooLarge"
               b == [rejects EXCEPT ![Index(c)] = @ + 1]
    <2>1. /\ Handled({c}) /\ published' = published /\ rejects' = b
          /\ count' = [count EXCEPT !.rejected = @ + 1]
      <3>1. From(<<"Dispatch", "ActionTooLarge">>) = c
        BY DEF From, Last
      <3> QED BY <1>5, <3>1 DEF WireIntent, Bump
    <2>2. /\ past' \in Past /\ past'.refused = OneMore(past.refused, {c})
          /\ past'.rejected = past.rejected
      BY <1>4, <2>1, HandledPast
    <2>3. /\ count' \in Counts /\ count'.rejected = count.rejected + 1
          /\ count'.admitted = count.admitted /\ count'.admissions = count.admissions
      BY <1>4, <2>1 DEF Counts
    <2>4. /\ Accounted(b, OneMore(past.refused, {c}), IF c = "HandshakeFull" THEN count.rejected ELSE count.rejected + 1)
          /\ b[30] = IF c = "ActionTooLarge" THEN rejects[30] + 1 ELSE rejects[30]
      <3>1. c \in ToSet(NAMES)
        BY ClassIndex
      <3> QED BY <3>1, <1>4, BumpAccounted, Zenon
    <2>5. Accounted(rejects', past'.refused, count'.rejected) /\ rejects'[30] = rejects[30] + 1
      BY <2>1, <2>2, <2>3, <2>4
    <2>6. Cardinality(table') + past'.rejected = count'.admitted + count'.admissions + rejects'[30]
      <3>1. /\ Cardinality(table) + past.rejected = count.admitted + count.admissions + rejects[30]
            /\ past.rejected \in Nat /\ count.admitted \in Nat /\ count.admissions \in Nat
        BY <1>4 DEF ApiInv, Past, Counts
      <3> QED BY <1>1, <1>3, <1>4, <2>2, <2>3, <2>5, <3>1
    <2> QED BY <1>1, <1>2, <2>1, <2>2, <2>3, <2>5, <2>6 DEF ApiInv
  <1>6. CASE ~large
    <2>1. /\ Handled({}) /\ count' = [count EXCEPT !.admissions = @ + 1] /\ rejects' = rejects
          /\ published' = [published EXCEPT !["IntentAdmitted"] = @ + 1]
      BY <1>6 DEF WireIntent
    <2>2. /\ count' \in Counts /\ count'.rejected = count.rejected
          /\ count'.admitted = count.admitted /\ count'.admissions = count.admissions + 1
      BY <1>4, <2>1 DEF Counts
    <2>3. /\ past' \in Past /\ past'.rejected = past.rejected
          /\ Accounted(rejects', past'.refused, count'.rejected)
      BY <2>1, <2>2, HandledNone
    <2>4. /\ Cardinality(table) + past.rejected = count.admitted + count.admissions + rejects[30]
          /\ past.rejected \in Nat /\ count.admitted \in Nat /\ count.admissions \in Nat
          /\ published["IntentAdmitted"] = count.admitted + count.admissions
      BY <1>4 DEF ApiInv, Past, Counts
    <2>5. Cardinality(table') + past'.rejected = count'.admitted + count'.admissions + rejects'[30]
      <3>1. rejects'[30] = rejects[30] /\ rejects[30] \in Nat
        BY <1>4, <2>1
      <3>2. count'.admitted = count.admitted /\ count'.admissions = count.admissions + 1
        BY <2>2
      <3>3. Cardinality(table') = Cardinality(table) + 1 /\ past'.rejected = past.rejected
        BY <1>1, <2>3
      <3> QED BY <1>3, <2>4, <3>1, <3>2, <3>3
    <2>6. /\ published' \in [{"IntentAdmitted", "RefusalApplied", "Other"} -> Nat]
          /\ published'["IntentAdmitted"] = count'.admitted + count'.admissions
      BY <1>4, <2>1, <2>2, <2>4
    <2> QED BY <1>1, <1>2, <2>2, <2>3, <2>5, <2>6 DEF ApiInv
  <1> QED BY <1>5, <1>6

\* POST /v1/intents admits and tells its own counter and the feed.
LEMMA HttpIntentKeeps ==
  ASSUME ApiInv, NEW i \in IntentIds, NEW name \in Resources, HttpIntent(i, name)
  PROVE  ApiInv'
  <1>1. /\ table' \subseteq PendingEntry /\ IsFiniteSet(table')
        /\ Cardinality(table') = Cardinality(table) + 1
        /\ MatchForGrant(table', i) # {}
    BY AdmitOne, Zenon DEF HttpIntent
  <1>2. now' = now /\ reply' = [code |-> 202, id |-> i] /\ rejects' = rejects /\ Handled({})
    BY DEF HttpIntent
  <1>3. MatchForGrant(table', reply'.id) # {}
    BY <1>1, <1>2
  <1>4. /\ count \in Counts /\ past \in Past /\ Accounted(rejects, past.refused, count.rejected)
        /\ published \in [{"IntentAdmitted", "RefusalApplied", "Other"} -> Nat]
        /\ rejects[30] \in Nat /\ Cardinality(table) \in Nat
    <2>1. Cardinality(table) \in Nat
      BY FS_CardinalityType DEF ApiInv
    <2> QED BY <2>1 DEF ApiInv, Accounted
  <1>5. /\ count' = [count EXCEPT !.requests = @ + 1, !.admitted = @ + 1]
        /\ published' = [published EXCEPT !["IntentAdmitted"] = @ + 1]
    BY DEF HttpIntent
  <1>6. /\ count' \in Counts /\ count'.rejected = count.rejected
        /\ count'.admitted = count.admitted + 1 /\ count'.admissions = count.admissions
    <2>1. count' = [rejected |-> count.rejected, admissions |-> count.admissions,
                    admitted |-> count.admitted + 1, requests |-> count.requests + 1,
                    authRefused |-> count.authRefused]
      BY <1>4, <1>5 DEF Counts
    <2> QED BY <1>4, <2>1 DEF Counts
  <1>7. /\ past' \in Past /\ past'.rejected = past.rejected
        /\ Accounted(rejects', past'.refused, count'.rejected)
    BY <1>2, <1>6, HandledNone
  <1>8. /\ Cardinality(table) + past.rejected = count.admitted + count.admissions + rejects[30]
        /\ past.rejected \in Nat /\ count.admitted \in Nat /\ count.admissions \in Nat
        /\ published["IntentAdmitted"] = count.admitted + count.admissions
    BY <1>4 DEF ApiInv, Past, Counts
  <1>9. Cardinality(table') + past'.rejected = count'.admitted + count'.admissions + rejects'[30]
    BY <1>1, <1>2, <1>4, <1>6, <1>7, <1>8
  <1>10. /\ published' \in [{"IntentAdmitted", "RefusalApplied", "Other"} -> Nat]
         /\ published'["IntentAdmitted"] = count'.admitted + count'.admissions
    BY <1>4, <1>5, <1>6, <1>8
  <1> QED BY <1>1, <1>2, <1>3, <1>6, <1>7, <1>9, <1>10 DEF ApiInv

\* A REFUSAL takes the PENDING intent it names, if there is one.
LEMMA WireRefusalKeeps ==
  ASSUME ApiInv, NEW i \in IntentIds, WireRefusal(i) PROVE ApiInv'
  <1> DEFINE match == MatchForGrant(table, i)
             e == CHOOSE x \in match : TRUE
             gone == IF match = {} THEN 0 ELSE 1
  <1>1. /\ table' = IF match = {} THEN table ELSE ApplyRefusal(table, e)
        /\ past' = [past EXCEPT !.handled = @ + 1, !.rejected = @ + gone]
        /\ published' = [published EXCEPT !["RefusalApplied"] = @ + 1]
        /\ reply' = NoReply /\ now' = now /\ count' = count /\ rejects' = rejects
    BY DEF WireRefusal
  <1>2. /\ table \subseteq PendingEntry /\ IsFiniteSet(table) /\ Cardinality(table) \in Nat
        /\ past \in Past /\ count \in Counts
        /\ published \in [{"IntentAdmitted", "RefusalApplied", "Other"} -> Nat]
        /\ Accounted(rejects, past.refused, count.rejected)
    BY FS_CardinalityType DEF ApiInv
  <1>3. /\ past' \in Past /\ past'.refused = past.refused
        /\ past'.rejected = past.rejected + gone /\ past.rejected \in Nat
    <2>1. gone \in Nat
      OBVIOUS
    <2> HIDE DEF gone, match
    <2>2. past' = [handled |-> past.handled + 1, refused |-> past.refused,
                   rejected |-> past.rejected + gone]
      BY <1>1, <1>2 DEF Past
    <2> QED BY <1>2, <2>1, <2>2 DEF Past
  <1>4. /\ table' \subseteq PendingEntry /\ IsFiniteSet(table')
        /\ Cardinality(table') + gone = Cardinality(table)
    <2>1. CASE match = {}
      BY <1>1, <1>2, <2>1
    <2>2. CASE match # {}
      <3>1. e \in table
        <4>1. e \in match
          BY <2>2
        <4> QED BY <4>1 DEF MatchForGrant
      <3>2. table' = table \ {e}
        <4>1. table' = Compact((table \ {e}) \cup {[e EXCEPT !.state = "Rejected"]})
          BY <1>1, <2>2 DEF ApplyRefusal
        <4>2. [e EXCEPT !.state = "Rejected"].state = "Rejected"
          BY <1>2, <3>1 DEF PendingEntry
        <4>3. \A x \in table : x.state = "Pending"
          BY <1>2 DEF PendingEntry
        <4> HIDE DEF e
        <4> QED BY <4>1, <4>2, <4>3 DEF Compact, Live
      <3>3. gone = 1
        BY <2>2
      <3> HIDE DEF e, match, gone
      <3>4. IsFiniteSet(table') /\ Cardinality(table') = Cardinality(table) - 1
        BY <1>2, <3>1, <3>2, FS_RemoveElement
      <3> QED BY <1>2, <3>2, <3>3, <3>4
    <2> QED BY <2>1, <2>2
  <1>5. /\ Cardinality(table) + past.rejected = count.admitted + count.admissions + rejects[30]
        /\ count.admitted \in Nat /\ count.admissions \in Nat /\ rejects[30] \in Nat
        /\ Cardinality(table') \in Nat
    BY <1>2, <1>4, FS_CardinalityType DEF ApiInv, Counts, Accounted
  <1>6. Cardinality(table') + past'.rejected = count'.admitted + count'.admissions + rejects'[30]
    BY <1>1, <1>2, <1>3, <1>4, <1>5
  <1>7. /\ published' \in [{"IntentAdmitted", "RefusalApplied", "Other"} -> Nat]
        /\ published'["IntentAdmitted"] = published["IntentAdmitted"]
    BY <1>1, <1>2
  <1>8. reply'.code # 202 /\ Accounted(rejects', past'.refused, count'.rejected)
    BY <1>1, <1>2, <1>3 DEF NoReply
  <1> QED BY <1>1, <1>3, <1>4, <1>6, <1>7, <1>8 DEF ApiInv

\* A request that changes nothing but its own count; 202 is for an intent that is PENDING.
LEMMA AnswerKeeps ==
  ASSUME ApiInv, Handled({}), UNCHANGED <<table, now, rejects, published>>,
         count' \in Counts, count'.rejected = count.rejected,
         count'.admitted = count.admitted, count'.admissions = count.admissions,
         reply'.code = 202 => MatchForGrant(table, reply'.id) # {}
  PROVE  ApiInv'
  <1>1. /\ past' \in Past /\ past'.rejected = past.rejected
        /\ Accounted(rejects', past'.refused, count'.rejected)
    BY HandledNone
  <1> QED BY <1>1 DEF ApiInv

\* The routes that answer by Answer.
LEMMA AnsweredKeeps ==
  ASSUME ApiInv, NEW r, Answer(r), r.code = 202 => MatchForGrant(table, r.id) # {}
  PROVE  ApiInv'
  <1>1. /\ Handled({}) /\ count' = [count EXCEPT !.requests = @ + 1] /\ reply' = r
        /\ UNCHANGED <<table, now, rejects, published>>
    BY DEF Answer
  <1>2. /\ count' \in Counts /\ count'.rejected = count.rejected
        /\ count'.admitted = count.admitted /\ count'.admissions = count.admissions
    BY <1>1 DEF ApiInv, Counts
  <1> QED BY <1>1, <1>2, AnswerKeeps

\* The books of a new process.
LEMMA NewBooks ==
  /\ {} \subseteq PendingEntry /\ IsFiniteSet({}) /\ 0 \in Nat /\ Cardinality({}) = 0
  /\ NewCount \in Counts /\ NewPast \in Past /\ NewPast.rejected = 0
  /\ Nothing \in [{"IntentAdmitted", "RefusalApplied", "Other"} -> Nat]
  /\ Nothing["IntentAdmitted"] = NewCount.admitted + NewCount.admissions
  /\ NewCount.admitted = 0 /\ NewCount.admissions = 0 /\ NewRejects[30] = 0
  /\ Accounted(NewRejects, NewPast.refused, NewCount.rejected)
  /\ NoReply.code # 202
  <1>1. NewRejects = [k \in 0 .. 44 |-> 0]
    <2>1. Len(NAMES) - 1 = 44
      BY ClassNames
    <2> QED BY <2>1 DEF NewRejects
  <1>2. NewPast.refused = [c \in ToSet(NAMES) |-> 0] /\ NewPast.rejected = 0 /\ NewPast \in Past
    BY DEF NewPast, Past
  <1>3. NewCount \in Counts /\ NewCount.rejected = 0 /\ NewCount.admitted = 0 /\ NewCount.admissions = 0
    BY DEF NewCount, Counts
  <1>4. SumFunction(NewRejects) = 0
    <2>1. IsFiniteSet(0 .. 44)
      <3>1. 0 \in Int /\ 44 \in Int
        OBVIOUS
      <3> QED BY <3>1, FS_Interval, Zenon
    <2>2. DOMAIN NewRejects = 0 .. 44 /\ \A x \in 0 .. 44 : NewRejects[x] = 0
      BY <1>1
    <2>3. SumFunctionOnSet(NewRejects, 0 .. 44) = 0
      BY <2>1, <2>2, SumZero, Zenon
    <2> QED BY <2>2, <2>3, Zenon DEF SumFunction
  <1>5. Accounted(NewRejects, NewPast.refused, NewCount.rejected)
    <2>1. \A k \in 1 .. 45 : NAMES[k] \in ToSet(NAMES) /\ k - 1 \in 0 .. 44
      BY ClassIndex
    <2> QED BY <1>1, <1>2, <1>3, <1>4, <2>1 DEF Accounted
  <1>6. /\ Nothing \in [{"IntentAdmitted", "RefusalApplied", "Other"} -> Nat]
        /\ Nothing["IntentAdmitted"] = 0
    BY DEF Nothing
  <1>7. NewRejects[30] = 0
    BY <1>1
  <1> QED BY <1>2, <1>3, <1>5, <1>6, <1>7, FS_EmptySet DEF NoReply

\* Every step of the node's counters and answers keeps the books.
LEMMA ApiStepKeeps == ApiInv /\ [ApiNext]_apiVars => ApiInv'
  <1> SUFFICES ASSUME ApiInv, [ApiNext]_apiVars PROVE ApiInv'
    OBVIOUS
  <1>1. CASE \E error \in Refusals : PacketRefused(error)
    BY <1>1, ApiAssumption, PacketRefusedKeeps
  <1>2. CASE HandshakeFull
    BY <1>2, HandshakeFullKeeps
  <1>3. CASE \E i \in IntentIds, name \in Resources, large \in BOOLEAN : WireIntent(i, name, large)
    BY <1>3, WireIntentKeeps
  <1>4. ASSUME NEW i \in IntentIds, NEW name \in Resources \cup Unresolved, WireIntentRefused(i, name)
        PROVE  ApiInv'
    <2> DEFINE error == <<"Dispatch">> \o ResolveAndAdmit(i, name)
    <2>1. ResolveAndAdmit(i, name) # <<"Ok">> /\ PacketRefused(error)
      BY <1>4 DEF WireIntentRefused
    <2>2. From(error) \in ToSet(NAMES) \ {"ActionTooLarge", "HandshakeFull"}
      BY <2>1, RefusedClass
    <2> HIDE DEF error
    <2> QED BY <2>1, <2>2, PacketRefusedKeeps
  <1>5. ASSUME NEW i \in IntentIds, NEW name \in Resources \cup Unresolved, HttpIntentRefused(i, name)
        PROVE  ApiInv'
    <2> DEFINE v == ResolveAndAdmit(i, name)
               r == [code |-> Status(v), id |-> i]
    <2>1. v # <<"Ok">> /\ Answer(r)
      BY <1>5 DEF HttpIntentRefused
    <2>2. Last(v) = "DuplicateIntentId" => MatchForGrant(table, i) # {}
      BY <2>1, RefusedClass
    <2>3. Last(v) # "DuplicateIntentId" => Status(v) # 202
      BY DEF Status
    <2>4. r.code = 202 => MatchForGrant(table, r.id) # {}
      BY <2>2, <2>3
    <2> HIDE DEF r
    <2> QED BY <2>1, <2>4, AnsweredKeeps
  <1>6. CASE \E i \in IntentIds : WireRefusal(i)
    BY <1>6, WireRefusalKeeps
  <1>7. ASSUME NEW i \in IntentIds, HttpState(i) PROVE ApiInv'
    <2>1. PICK r : Answer(r) /\ r.code # 202
      <3>1. Last(<<"NotFound">>) = "NotFound"
        BY DEF Last
      <3>2. Status(<<"NotFound">>) = 404
        BY <3>1 DEF Status
      <3> DEFINE found == {e \in table : e.id = i}
      <3>3. CASE found = {}
        <4>1. Answer([code |-> Status(<<"NotFound">>)])
          BY <1>7, <3>3 DEF HttpState
        <4> QED BY <3>2, <4>1
      <3>4. CASE found # {}
        <4>1. PICK e \in found : Answer([code |-> 200, state |-> e.state])
          BY <1>7, <3>4 DEF HttpState
        <4> QED BY <4>1
      <3> QED BY <3>3, <3>4
    <2> QED BY <2>1, AnsweredKeeps
  <1>8. CASE \E i \in IntentIds, name \in Resources : HttpIntent(i, name)
    BY <1>8, HttpIntentKeeps
  <1>9. CASE WireEvent
    <2>1. /\ Handled({}) /\ published' = [published EXCEPT !["Other"] = @ + 1]
          /\ reply' = NoReply /\ UNCHANGED <<table, now, count, rejects>>
      BY <1>9 DEF WireEvent
    <2>2. /\ past' \in Past /\ past'.rejected = past.rejected
          /\ Accounted(rejects', past'.refused, count'.rejected)
      BY <2>1, HandledNone
    <2>3. /\ published' \in [{"IntentAdmitted", "RefusalApplied", "Other"} -> Nat]
          /\ published'["IntentAdmitted"] = published["IntentAdmitted"]
      BY <2>1 DEF ApiInv
    <2>4. reply'.code # 202
      BY <2>1 DEF NoReply
    <2> QED BY <2>1, <2>2, <2>3, <2>4 DEF ApiInv
  <1>10. CASE \E healthz \in BOOLEAN : HttpForbidden(healthz)
    <2>1. /\ Handled({}) /\ reply' = [code |-> 403]
          /\ count' = [count EXCEPT !.requests = @ + 1, !.authRefused = @ + IF token THEN 1 ELSE 0]
          /\ UNCHANGED <<table, now, rejects, published>>
      BY <1>10 DEF HttpForbidden
    <2>2. /\ count' \in Counts /\ count'.rejected = count.rejected
          /\ count'.admitted = count.admitted /\ count'.admissions = count.admissions
      <3> DEFINE asked == IF token THEN 1 ELSE 0
      <3>1. asked \in Nat
        OBVIOUS
      <3>2. count \in Counts /\ count' = [count EXCEPT !.requests = @ + 1, !.authRefused = @ + asked]
        BY <2>1 DEF ApiInv
      <3> HIDE DEF asked
      <3>3. count' = [rejected |-> count.rejected, admissions |-> count.admissions,
                      admitted |-> count.admitted, requests |-> count.requests + 1,
                      authRefused |-> count.authRefused + asked]
        BY <3>2 DEF Counts
      <3> QED BY <3>1, <3>2, <3>3 DEF Counts
    <2>3. reply'.code # 202
      BY <2>1
    <2> QED BY <2>1, <2>2, <2>3, AnswerKeeps
  <1>11. CASE HttpMalformed
    BY <1>11, AnsweredKeeps DEF HttpMalformed
  <1>12. CASE HttpHealthz
    BY <1>12, AnsweredKeeps DEF HttpHealthz
  <1>13. CASE HttpBadRequest
    <2>1. Last(<<"BadRequest">>) = "BadRequest"
      BY DEF Last
    <2>2. Status(<<"BadRequest">>) = 400
      BY <2>1 DEF Status
    <2> QED BY <1>13, <2>2, AnsweredKeeps DEF HttpBadRequest
  <1>14. CASE HttpMetrics
    <2> DEFINE r == [code |-> 200, body |-> MetricsBody]
    <2>1. Answer(r) /\ r.code # 202
      BY <1>14 DEF HttpMetrics
    <2> HIDE DEF r
    <2> QED BY <2>1, AnsweredKeeps
  <1>15. CASE ApiRestart
    <2>1. /\ table' = {} /\ count' = NewCount /\ rejects' = NewRejects /\ published' = Nothing
          /\ reply' = NoReply /\ past' = NewPast /\ now' = now
      BY <1>15 DEF ApiRestart
    <2> QED BY <2>1, NewBooks DEF ApiInv
  <1>16. CASE ApiTick
    <2>1. now' = now + 1 /\ UNCHANGED <<table, count, rejects, published, reply, past>>
      BY <1>16 DEF ApiTick
    <2> QED BY <2>1 DEF ApiInv
  <1>17. CASE UNCHANGED apiVars
    BY <1>17 DEF ApiInv, apiVars
  <1> QED BY <1>1, <1>2, <1>3, <1>4, <1>5, <1>6, <1>7, <1>8, <1>9, <1>10, <1>11, <1>12,
             <1>13, <1>14, <1>15, <1>16, <1>17 DEF ApiNext

\* From the first datagram to the last request, whatever comes and however the intents
\* are named, the counters of one process stay reconciled with what it was sent.
THEOREM ApiInvariant == ApiSpec => []ApiInv
  <1>1. ApiInit => ApiInv
    BY NewBooks DEF ApiInit, ApiInv
  <1> QED BY <1>1, ApiStepKeeps, PTL DEF ApiSpec

\* "Exact accounting" (control_api.rs), for every set of intents, resources and
\* refusals and any number of them: each class counts its own refusals, the classes but
\* handshake_full add up to rejected_total, every event has its admission and every
\* admission its intent, and a 202 is an intent that is PENDING.
THEOREM CountersAlwaysReconcile == ApiSpec => []CountersReconcile
  BY ApiInvariant, BooksReconcile, PTL
=============================================================================
