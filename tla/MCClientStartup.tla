--------------------------- MODULE MCClientStartup --------------------------
(* ten stands for 10.0.0.0/8, one for 1.0.0.0/8 and eleven for 11.0.0.0/8. *)
EXTENDS ClientStartup, TLC

CONSTANTS ten, one, eleven, other

MCRoute == {ten, one, eleven, other}
MCWanted == <<ten, one, eleven>>
MCForeign == {ten, other}
MCOccurs == {<<r, r>> : r \in MCRoute} \cup {<<one, eleven>>}
MCSymmetry == Permutations(Key)
=============================================================================
