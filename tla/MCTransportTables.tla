-------------------------- MODULE MCTransportTables --------------------------
(***************************************************************************)
(* Bounded tables of the transport that know nothing of each other, the    *)
(* reassembler of a peer, the relay's store and routes, the sync budgets,  *)
(* and the parsers for what comes out of them.  A step of one is taken     *)
(* with the others in their initial states.                                *)
(***************************************************************************)
EXTENDS Reassembly, RateTable, RelayStore, RelayMesh, Codec

ReassemblyStep ==
    /\ RelayInit /\ RateInit /\ WireInit /\ MeshInit
    /\ Next /\ UNCHANGED <<relayVars, rateVars, wire, meshVars>>

RelayStep ==
    /\ Init /\ RateInit /\ WireInit /\ MeshInit
    /\ RelayNext /\ UNCHANGED <<vars, rateVars, wire, meshVars>>

RateStep ==
    /\ Init /\ RelayInit /\ WireInit /\ MeshInit
    /\ RateNext /\ UNCHANGED <<vars, relayVars, wire, meshVars>>

WireStep ==
    /\ Init /\ RelayInit /\ RateInit /\ MeshInit
    /\ WireNext /\ UNCHANGED <<vars, relayVars, rateVars, meshVars>>

MeshStep ==
    /\ Init /\ RelayInit /\ RateInit /\ WireInit
    /\ (PortInit /\ TableNext) \/ (TableInit /\ PortNext)
    /\ UNCHANGED <<vars, relayVars, rateVars, wire>>

TablesInit == Init /\ RelayInit /\ RateInit /\ WireInit /\ MeshInit

TablesSpec ==
    TablesInit /\ [][ReassemblyStep \/ RelayStep \/ RateStep \/ WireStep \/ MeshStep]_
                        <<vars, relayVars, rateVars, wire, meshVars>>
=============================================================================
