--------------------------- MODULE MCControlPlane ---------------------------
(***************************************************************************)
(* The control plane: its connections, with requests without a body, with  *)
(* one, with a Content-Length that is no number, and with a first line     *)
(* that is longer than the size guard; what its routes count, publish and  *)
(* answer; and the event feed.  A step of one is taken with the others in  *)
(* their initial state.                                                    *)
(***************************************************************************)
EXTENDS ControlPlane, NodeApi, EventFeed

allVars == <<vars, apiVars, feedVars>>

Get  == [crlf |-> 1, head |-> 2, len |-> -1]
Post == [crlf |-> 1, head |-> 2, len |-> 2]
Bad  == [crlf |-> 1, head |-> 2, len |-> -2]
Long == [crlf |-> 4, head |-> 4, len |-> -1]

AllRequests == {Get, Post, Bad, Long}

\* One refusal of every handler and nesting, at the ends of the families.
AllRefusals ==
    {<<"Binding">>, <<"Parse">>, <<"Verify", "BadVersion">>, <<"Verify", "Equivocation">>,
     <<"Dispatch", "BadEnvelope">>, <<"Dispatch", "Verify", "BadControlBody">>}

\* The initial state in which the connections, and the routes, wait for the others.
ConnParked == up /\ \A c \in Conns : conn[c].st = "idle" /\ conn[c].req = Get
ApiParked == token /\ now = 0 /\ past.handled = 0

\* A step of the connections alone.
Alone(A) == ApiParked /\ FeedInit /\ A /\ UNCHANGED <<apiVars, feedVars>>

ConnStep == Alone(Next)

ApiStep == ConnParked /\ FeedInit /\ ApiNext /\ UNCHANGED <<vars, feedVars>>

FeedStep == ConnParked /\ ApiParked /\ FeedNext /\ UNCHANGED <<vars, apiVars>>

ControlInit == Init /\ ApiInit /\ FeedInit /\ (ConnParked \/ ApiParked)

\* run_loop calls poll_control in every pass, and time passes.
FairControl ==
    /\ ControlInit /\ [][ConnStep \/ ApiStep \/ FeedStep]_allVars
    /\ WF_allVars(Alone(PollControl)) /\ WF_allVars(Alone(Tick))
=============================================================================
