---------------------------- MODULE ControlPlane ----------------------------
(***************************************************************************)
(* The HTTP front door inside the daemon's loop: control.rs and            *)
(* poll_control of daemon.rs.  One pass of the loop accepts at most one    *)
(* connection, reads once from every client, drops the ones that are done, *)
(* and answers the ones whose request is buffered.                         *)
(*                                                                         *)
(* A request is known by its lengths: where its first CRLF and its header  *)
(* block end and how many body bytes it declares.  Bytes are counted in    *)
(* units.  What the request asks for is the business of Authority.tla; the *)
(* answer is sent whatever it is.  Sockets and their peers are external.   *)
(***************************************************************************)
EXTENDS Integers, FiniteSets

CONSTANTS
    Conns,            \* connections peers may open
    Requests,         \* [crlf, head, len]; len is -1 without Content-Length, -2 if it is no number
    MAX_CLIENTS,      \* 8 in the code
    CONN_TIMEOUT,     \* CONN_TIMEOUT_MS, in ticks
    SLOWLORIS_SIZE    \* in units

ASSUME ControlAssumption ==
    /\ MAX_CLIENTS \in Nat \ {0} /\ CONN_TIMEOUT \in Nat /\ SLOWLORIS_SIZE \in Nat
    /\ Requests \subseteq [crlf : Nat, head : Nat, len : Int]

VARIABLES
    conn,    \* connection -> [st, req, sent, buf, age, gone, replies]
    up       \* run_loop has not returned

vars == <<conn, up>>

Open(st) == st \in {"ReadingHeaders", "ReadingBody", "Writing", "Closing"}

\* ControlPlane::clients
Clients == {c \in Conns : Open(conn[c].st)}

Backlog == {c \in Conns : conn[c].st = "backlog"}

\* The bytes a peer sends for a request.
Size(r) == r.head + IF r.len > 0 THEN r.len ELSE 0

Init ==
    /\ conn \in [Conns -> {[st |-> "idle", req |-> r, sent |-> 0, buf |-> 0, age |-> 0,
                            gone |-> FALSE, replies |-> 0] : r \in Requests}]
    /\ up = TRUE

-----------------------------------------------------------------------------
\* The peer: connects, sends some of what is left, goes away.
Connect(c) ==
    /\ conn[c].st = "idle"
    /\ conn' = [conn EXCEPT ![c].st = "backlog"]
    /\ UNCHANGED up

Send(c) ==
    /\ conn[c].st # "idle" /\ ~conn[c].gone
    /\ \E n \in conn[c].sent + 1 .. Size(conn[c].req) : conn' = [conn EXCEPT ![c].sent = n]
    /\ UNCHANGED up

Leave(c) ==
    /\ conn[c].st # "idle" /\ conn[c].st # "closed" /\ ~conn[c].gone
    /\ conn' = [conn EXCEPT ![c].gone = TRUE]
    /\ UNCHANGED up

-----------------------------------------------------------------------------
\* Mutant: the body is taken for complete before it is.
AfterHeadersEarly(k, n) ==
    IF n < k.req.head THEN "ReadingHeaders"
    ELSE IF k.req.len = -2 THEN "closed"
    ELSE IF k.req.len >= 0 /\ n < k.req.len THEN "ReadingBody"
    ELSE "Writing"

\* The state after the header terminator was looked for in n units.
AfterHeaders(k, n) ==
    IF n < k.req.head THEN "ReadingHeaders"
    ELSE IF k.req.len = -2 THEN "closed"
    ELSE IF k.req.len >= 0 /\ n < k.req.head + k.req.len THEN "ReadingBody"
    ELSE "Writing"

\* Mutant: without the deadline.
PolledForever(k) ==
    IF k.sent = k.buf
    THEN IF k.gone \/ k.st = "Closing" THEN [k EXCEPT !.st = "closed"] ELSE k
    ELSE [k EXCEPT !.buf = k.sent,
                   !.st = CASE k.st = "Closing" -> "closed"
                            [] k.st = "ReadingHeaders" -> AfterHeaders(k, k.sent)
                            [] OTHER -> k.st]

\* poll_readable, and the removal of the connection by poll_tick.
Polled(k) ==
    IF k.age > CONN_TIMEOUT THEN [k EXCEPT !.st = "closed"]
    ELSE IF k.sent = k.buf
    THEN IF k.gone \/ k.st = "Closing" THEN [k EXCEPT !.st = "closed"] ELSE k
    ELSE [k EXCEPT !.buf = k.sent,
                   !.st = CASE k.st = "Closing" -> "closed"
                            [] k.st = "ReadingHeaders" ->
                                   IF k.sent >= SLOWLORIS_SIZE /\ k.sent < k.req.crlf
                                   THEN "closed" ELSE AfterHeaders(k, k.sent)
                            [] OTHER -> k.st]

\* route_http and write_response.
Answered(k) ==
    IF k.st = "Writing" THEN [k EXCEPT !.st = "Closing", !.replies = @ + 1] ELSE k

\* `self.clients.len() >= MAX_CLIENTS` is false.
Room == Cardinality(Clients) < MAX_CLIENTS

\* accept: into the table, or an immediate 503.
Accepted(c) ==
    IF Room THEN [conn[c] EXCEPT !.st = "ReadingHeaders", !.age = 0]
    ELSE [conn[c] EXCEPT !.st = "closed", !.replies = 1]

\* The connections after poll_tick, when a is the one that was accepted, if any.
Ticked(a) ==
    [c \in Conns |->
        LET k == IF c \in a THEN Accepted(c) ELSE conn[c]
        IN  IF Open(k.st) THEN Polled(k) ELSE k]

\* poll_control.
PollControl ==
    /\ up
    /\ \E a \in IF Backlog = {} THEN {{}} ELSE {{c} : c \in Backlog} :
           conn' = [c \in Conns |-> Answered(Ticked(a)[c])]
    /\ UNCHANGED up

\* poll_control when a peer is gone that is to be answered: the write fails, and
\* the error goes through poll_control and run_loop to the caller.  Every
\* connection ends with the process.
WriteFails ==
    /\ up
    /\ \E a \in IF Backlog = {} THEN {{}} ELSE {{c} : c \in Backlog} :
           \/ \E c \in Conns : Ticked(a)[c].st = "Writing" /\ Ticked(a)[c].gone
           \/ ~Room /\ \E c \in a : conn[c].gone
    /\ up' = FALSE
    /\ UNCHANGED conn

Tick ==
    /\ conn' = [c \in Conns |->
           IF Open(conn[c].st) /\ conn[c].age <= CONN_TIMEOUT
           THEN [conn[c] EXCEPT !.age = @ + 1] ELSE conn[c]]
    /\ UNCHANGED up

Next ==
    \/ \E c \in Conns : Connect(c) \/ Send(c) \/ Leave(c)
    \/ PollControl
    \/ WriteFails
    \/ Tick

Spec == Init /\ [][Next]_vars

-----------------------------------------------------------------------------
\* specs/control.md, "one request per connection": no peer is answered twice, and
\* a request is routed with every byte it declared, however it was cut up.
OneWholeReply ==
    \A c \in Conns :
        /\ conn[c].replies <= 1
        /\ conn[c].st = "Closing" => conn[c].buf >= Size(conn[c].req)

\* The deadline: no connection keeps its place in the table.
ConnsEnd == \A c \in Conns : Open(conn[c].st) ~> (~Open(conn[c].st) \/ ~up)
=============================================================================
