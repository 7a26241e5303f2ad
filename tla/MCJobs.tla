--------------------------------- MODULE MCJobs ---------------------------------
(* Two jobs of two users, the dashboard of one of them, who is no admin,   *)
(* and the menu of the other, an admin who may drain the node.             *)
EXTENDS Jobs, TLC

CONSTANTS v1, m1, alice, root

MCJobNumbers == 1..2
MCViewers == {v1}
MCManagers == {m1}
MCOwnerOf == <<alice, root>>
MCUserOf == v1 :> alice @@ m1 :> root

MenuUsed == at[m1] # "choose"
Draining == drained \/ drain.stage # "idle"

(* The bound of the run: two refreshes, one when the admin has used the    *)
(* menu or is draining the node, and none when both.                       *)
Bound ==
    /\ MenuUsed \/ Draining => refreshes <= 1
    /\ MenuUsed /\ Draining => refreshes = 0
===============================================================================
