--------------------------- MODULE MCRelayRuntime ---------------------------
(* Two peers, sessions and flows against limits of one. *)
EXTENDS RelayRuntime

CONSTANTS a, b

MCIds == {a, b}
=============================================================================
