-------------------------- MODULE MCTwoHopSession ---------------------------
(* Three clients that set up sessions at the same time. *)
EXTENDS TwoHopSession

CONSTANTS c1, c2, c3

MCClients == {c1, c2, c3}
=============================================================================
