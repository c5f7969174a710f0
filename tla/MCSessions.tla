----------------------------- MODULE MCSessions -----------------------------
(***************************************************************************)
(* The life of a session, from its handshake to its packets.               *)
(*                                                                         *)
(* The tables: an agent with one static key and an approver with two,      *)
(* certified well for one of them only, on two slots.  The agent also      *)
(* presents a certificate that pairs its signing key with the approver's   *)
(* static key.                                                             *)
(*                                                                         *)
(* The Noise handshake by which a peer gets to the table: two initiators   *)
(* that know the node's static key and one that has an old one.            *)
(*                                                                         *)
(* What decides over a packet that has arrived: the filter of replay.rs    *)
(* with its words, and the mask of session.rs between two ends that rotate *)
(* their keys.                                                             *)
(*                                                                         *)
(* Sessions.tla knows a handshake by its number and a packet by its slot,  *)
(* so that a step of each is taken with the others in their initial state. *)
(***************************************************************************)
EXTENDS Sessions, NoiseIK, WindowBits, SessionChannel

MCOwnStatic == <<"s", "node">>
MCStaticOf == << <<"s", "a">>, <<"s", "b">>, <<"s", "a">> >>
MCTargetOf == << MCOwnStatic, MCOwnStatic, <<"s", "old">> >>

MCStatics == {"xa", "xp", "xp2"}

MCOwnerOf == [x \in MCStatics |-> IF x = "xa" THEN "agent" ELSE "approver"]

MCCerts ==
    {[sig |-> "agent", kex |-> "xa", roles |-> {"agent"}],
     [sig |-> "agent", kex |-> "xp", roles |-> {"agent"}],
     [sig |-> "approver", kex |-> "xp", roles |-> {"approver"}],
     [sig |-> "approver", kex |-> "xp2", roles |-> {"agent", "approver"}]}

packetVars == <<filterVars, channelVars>>

allVars == <<vars, noiseVars, packetVars>>

PacketInit == BitsInit /\ ChannelInit

\* A step of the tables, with the rest in its initial state.
Alone(A) == NoiseInit /\ PacketInit /\ A /\ UNCHANGED <<noiseVars, packetVars>>

SessionStep == Alone(Next)

NoiseStep == Init /\ PacketInit /\ NoiseNext /\ UNCHANGED <<vars, packetVars>>

FilterStep ==
    /\ Init /\ NoiseInit /\ ChannelInit
    /\ BitsNext /\ UNCHANGED <<vars, noiseVars, channelVars>>

ChannelStep ==
    /\ Init /\ NoiseInit /\ BitsInit
    /\ ChannelNext /\ UNCHANGED <<vars, noiseVars, filterVars>>

AllInit == Init /\ NoiseInit /\ PacketInit

\* The loop of run_loop keeps sweeping and the clock keeps going.
FairSessions ==
    /\ AllInit /\ [][SessionStep \/ NoiseStep \/ FilterStep \/ ChannelStep]_allVars
    /\ WF_allVars(Alone(Sweep)) /\ WF_allVars(Alone(Tick))
=============================================================================
