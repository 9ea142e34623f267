----------------------------- MODULE MCNatTable -----------------------------
(* Small instances of NatTable: flows of two sessions sharing few ports. *)
EXTENDS NatTable

CONSTANTS f1, f2, f3, s1, s2

MCFlow == {f1, f2, f3}
MCSession == {s1, s2}
MCSessionOf == [k \in MCFlow |-> IF k = f3 THEN s2 ELSE s1]
=============================================================================
