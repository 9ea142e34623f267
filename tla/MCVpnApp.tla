------------------------------ MODULE MCVpnApp ------------------------------
(* The Android environment names no destinations. *)
EXTENDS VpnApp

MCKindOf == [d \in {} |-> "unicast"]
=============================================================================
