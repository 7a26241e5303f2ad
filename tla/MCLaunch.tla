-------------------------------- MODULE MCLaunch --------------------------------
(* Two launches by one user, who gives both jobs the same name.            *)
EXTENDS Launch, TLC

CONSTANTS l1, l2, slot

MCLaunches == {l1, l2}
MCSlotOf == [l \in MCLaunches |-> slot]
MCSymmetry == Permutations(MCLaunches)
===============================================================================
