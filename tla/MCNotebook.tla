------------------------------- MODULE MCNotebook -------------------------------
(* Two notebooks on a node with two ports; the session of one of them      *)
(* waits for its job, that of the other has hung up.                       *)
EXTENDS Notebook, TLC

CONSTANTS j1, j2, p1, p2

MCJobs == {j1, j2}
MCWatched == {j1}
MCPorts == {p1, p2}
===============================================================================
