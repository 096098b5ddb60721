--------------------------- MODULE MCControlPlane ---------------------------
(* The two tables of the runtime process that its HTTP goroutines share,   *)
(* for TLC in one run: the hub's and the gateway's.  Each behaviour is     *)
(* one's; the other stays as it begins.                                    *)
EXTENDS LiveHub, Gateway, TLC

CONSTANTS pi, hand1, t1, t2, t3
MCAgentOf == [t \in Tasks |-> IF t = t3 THEN hand1 ELSE pi]

MCPosts == {<<"lead", "lead">>, <<"channel", "worker">>}
MCDelegations == {<<"spoke", "lead", "worker">>}
MCSymmetry == Permutations(Clients)

VARIABLE part   \* the part that runs

PInit == part \in {"hub", "gateway"} /\ HInit /\ GInit
HubStep == part = "hub" /\ HNext /\ UNCHANGED <<part, gvars>>
GatewayStep == part = "gateway" /\ GNext /\ UNCHANGED <<part, hvars>>
PSpec == PInit /\ [][HubStep \/ GatewayStep]_<<part, hvars, gvars>>
=============================================================================
