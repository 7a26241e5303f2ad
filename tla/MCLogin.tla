--------------------------------- MODULE MCLogin ---------------------------------
(* Two sessions from two addresses; the name is used twice.                *)
EXTENDS Login, TLC

CONSTANTS s1, s2, x1, x2

MCSessions == {s1, s2}
MCAddresses == {x1, x2}

(* Sessions are alike, and so are addresses.                               *)
Symmetry == Permutations(MCSessions) \cup Permutations(MCAddresses)
===============================================================================
