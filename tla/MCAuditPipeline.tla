---------------------------- MODULE MCAuditPipeline ----------------------------
(***************************************************************************)
(* Two sessions of one user: j1 is a submission of the first, j2 of the    *)
(* second, n1 is an event the second logs without waiting.                 *)
(***************************************************************************)
EXTENDS AuditPipeline

CONSTANTS j1, j2, n1, s1, s2, u1

MCSubmissions == {j1, j2}
MCEvents == {j1, j2, n1}
MCOne == {j1}
MCOneOfEach == {j1, n1}
MCSessionOf == [e \in MCEvents |-> IF e = j1 THEN s1 ELSE s2]
MCUserOf == [s \in {s1, s2} |-> u1]
===============================================================================
