------------------------- MODULE MCTwoHopForwarding -------------------------
(* Two clients with two-hop sessions and one with a one-hop session. *)
EXTENDS TwoHopForwarding

CONSTANTS c1, c2, c3

MCClients == {c1, c2, c3}
MCOneHop == {c3}
=============================================================================
