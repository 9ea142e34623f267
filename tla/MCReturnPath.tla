---------------------------- MODULE MCReturnPath ----------------------------
(* Two packets answered under the bindings of two sessions. *)
EXTENDS ReturnPath

CONSTANTS p1, p2, b1, b2, s1, s2

MCPacket == {p1, p2}
MCBinding == {b1, b2}
MCReturnSession == {s1, s2}
MCSessionOfBinding == [b \in MCBinding |-> IF b = b1 THEN s1 ELSE s2]
=============================================================================
