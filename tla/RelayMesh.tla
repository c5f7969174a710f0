----------------------------- MODULE RelayMesh ------------------------------
(***************************************************************************)
(* What a relay knows of its clients: the routing table and the two frames *)
(* of relay.rs, and the registry of listener.rs under its sockets.         *)
(*                                                                         *)
(* The calls come in any order, with any of the callers' clocks, since the *)
(* service loop of the original is not ported.  A frame is known by its    *)
(* length (0 for the right one), its type, its reserved bytes and its      *)
(* fields; relay_index and the signature are carried along unread.         *)
(***************************************************************************)
EXTENDS Integers, Sequences, FiniteSets, SequencesExt

CONSTANTS
    Addrs,             \* overlay addresses
    Clients,           \* client indices
    Expiries,          \* expiry fields of registrations
    MAX_EXPIRY, TIMESTAMP_SKEW, MAX_RELAY_TABLE,
    Ports,             \* (address, port) pairs listeners are opened on
    MAX_ENDPOINTS,     \* of listener.rs
    MaxMoment          \* bound: the clock

ASSUME MeshAssumption ==
    /\ \A n \in {MAX_RELAY_TABLE, MAX_ENDPOINTS, TIMESTAMP_SKEW, MaxMoment} : n \in Nat
    /\ Expiries \subseteq Nat

VARIABLES
    entries,     \* RelayTable: a sequence of [addr, client, expiry]
    moment,      \* the caller's clock
    promised,    \* history: addr -> its last accepted registration, until a prune finds
                 \* it expired; else NoEntry
    route,       \* the last route and the answer of forward_packet
    owned,       \* EndpointRegistry: entries[..count]
    sockets      \* Ports -> "none", "claimed" (open_bind is under way) or "bound"

meshVars == <<entries, moment, promised, route, owned, sockets>>
tableVars == <<entries, moment, promised, route>>
portVars == <<owned, sockets>>

NoEntry == [expiry |-> -1]

TableInit == entries = <<>> /\ moment = 0 /\ promised = [a \in Addrs |-> NoEntry] /\ route = NoEntry

PortInit == owned = <<>> /\ sockets = [p \in Ports |-> "none"]

MeshInit == TableInit /\ PortInit

-----------------------------------------------------------------------------
\* RelayRegistration::parse and RelayRoute::parse (type 6 and type 5), in the order of
\* their checks.
Parse(frame, type) ==
    IF frame.len # 0 THEN "Truncated"
    ELSE IF frame.type # type THEN "WrongType"
    ELSE IF frame.reserved # 0 THEN "NonZeroReserved"
    ELSE IF type = 6 /\ frame.expiry > MAX_EXPIRY THEN "ExpiryTooLong"
    ELSE "Ok"

\* RelayTable::lookup: the first entry of the address.
Lookup(a) ==
    LET found == {k \in DOMAIN entries : entries[k].addr = a}
    IN  IF found = {} THEN NoEntry ELSE entries[CHOOSE k \in found : \A j \in found : k <= j]

\* Mutant: every registration is a new row.
InsertAppends(e) ==
    IF Len(entries) >= MAX_RELAY_TABLE THEN entries ELSE Append(entries, e)

\* RelayTable::insert: a known address is refreshed in place, a new one needs room.
Insert(e) ==
    IF Lookup(e.addr) # NoEntry
    THEN [k \in DOMAIN entries |-> IF entries[k] = Lookup(e.addr) THEN e ELSE entries[k]]
    ELSE IF Len(entries) >= MAX_RELAY_TABLE THEN entries ELSE Append(entries, e)

\* A registration that parses is inserted.
Register(a, c, x) ==
    LET e == [addr |-> a, client |-> c, expiry |-> x]
    IN  /\ Parse([len |-> 0, type |-> 6, reserved |-> 0, expiry |-> x], 6) = "Ok"
        /\ Lookup(a) # NoEntry \/ Len(entries) < MAX_RELAY_TABLE
        /\ entries' = Insert(e)
        /\ promised' = [promised EXCEPT ![a] = e]
        /\ route' = NoEntry
        /\ UNCHANGED <<moment, portVars>>

\* One that does not parse, or finds no room.
RegisterRefused(a, frame) ==
    /\ Parse(frame, 6) # "Ok" \/ (Lookup(a) = NoEntry /\ Len(entries) >= MAX_RELAY_TABLE)
    /\ UNCHANGED meshVars

\* Vec::retain: the rows that are not expired at t, in their order.
Retain(rows, t) ==
    LET kept[k \in 0 .. Len(rows)] ==
            IF k = 0 THEN <<>>
            ELSE IF rows[k].expiry > t THEN Append(kept[k - 1], rows[k])
            ELSE kept[k - 1]
    IN  kept[Len(rows)]

\* RelayTable::prune.
Prune ==
    /\ entries' = Retain(entries, moment)
    /\ promised' = [a \in Addrs |-> IF promised[a].expiry > moment THEN promised[a] ELSE NoEntry]
    /\ route' = NoEntry
    /\ UNCHANGED <<moment, portVars>>

\* forward_packet: the skew on both sides, then the first entry of the recipient.
ForwardPacket(c, timestamp) ==
    IF timestamp > moment + TIMESTAMP_SKEW \/ timestamp + TIMESTAMP_SKEW < moment THEN "StaleRoute"
    ELSE IF \E k \in DOMAIN entries : entries[k].client = c THEN "Packet"
    ELSE "UnknownRecipient"

Forward(c, timestamp) ==
    /\ route' = [to |-> c, answer |-> ForwardPacket(c, timestamp)]
    /\ UNCHANGED <<entries, moment, promised, portVars>>

-----------------------------------------------------------------------------
\* EndpointRegistry::owns, claim and release: the last entry moves to the free place.
Owns(p) == p \in ToSet(owned)

Claim(p) ==
    /\ ~Owns(p) /\ Len(owned) < MAX_ENDPOINTS
    /\ owned' = Append(owned, p)
    /\ sockets' = [sockets EXCEPT ![p] = "claimed"]
    /\ UNCHANGED tableVars

ClaimRefused(p) == (Owns(p) \/ Len(owned) >= MAX_ENDPOINTS) /\ UNCHANGED meshVars

Released(p) ==
    LET i == CHOOSE i \in DOMAIN owned : owned[i] = p
    IN  Front([owned EXCEPT ![i] = Last(owned)])

\* Listener::open_bind succeeds.
Bind(p) ==
    /\ sockets[p] = "claimed"
    /\ sockets' = [sockets EXCEPT ![p] = "bound"]
    /\ UNCHANGED <<tableVars, owned>>

\* BindRefused, or close of a bound listener: its owner releases the endpoint.
Release(p) ==
    /\ sockets[p] # "none"
    /\ owned' = Released(p)
    /\ sockets' = [sockets EXCEPT ![p] = "none"]
    /\ UNCHANGED tableVars

MeshTick ==
    /\ moment < MaxMoment
    /\ moment' = moment + 1 /\ route' = NoEntry
    /\ UNCHANGED <<entries, promised, portVars>>

TableNext ==
    \/ \E a \in Addrs, x \in Expiries :
           \/ \E c \in Clients : Register(a, c, x)
           \/ \E len, reserved \in 0 .. 1, type \in 5 .. 6 :
                  RegisterRefused(a, [len |-> len, type |-> type, reserved |-> reserved, expiry |-> x])
    \/ Prune
    \/ \E c \in Clients, timestamp \in 0 .. MaxMoment : Forward(c, timestamp)
    \/ MeshTick

PortNext == \E p \in Ports : Claim(p) \/ ClaimRefused(p) \/ Bind(p) \/ Release(p)

\* Routes and listeners share no state.
MeshNext == TableNext \/ PortNext

MeshSpec == MeshInit /\ [][MeshNext]_meshVars

-----------------------------------------------------------------------------
\* BE-MESH-02 and BE-EXEC-02.  A registration that was accepted holds, with its latest
\* contents, until it is replaced or a prune finds it expired, however many others come
\* and go, and no longer; a fresh packet is forwarded exactly to the clients of those;
\* the registry owns exactly the endpoints somebody is binding or has bound, once each.
MeshExact ==
    LET live == {a \in Addrs : promised[a] # NoEntry}
    IN  /\ \A a \in Addrs : Lookup(a) = promised[a]
        /\ Cardinality(live) = Len(entries) /\ Len(entries) <= MAX_RELAY_TABLE
        /\ route # NoEntry /\ route.answer # "StaleRoute" =>
               (route.answer = "Packet" <=> \E a \in live : promised[a].client = route.to)
        /\ ToSet(owned) = {p \in Ports : sockets[p] # "none"}
        /\ Len(owned) = Cardinality(ToSet(owned)) /\ Len(owned) <= MAX_ENDPOINTS
=============================================================================
