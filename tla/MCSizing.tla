-------------------------------- MODULE MCSizing --------------------------------
(* Two users, two jobs at once and a node of 7 CPUs and 6 GB, which five   *)
(* pods do not fit.  One script says all there is to find; the other has   *)
(* its CPUs and memory on one line and a second kind of GPU after the      *)
(* shards, so that one number is found and another one checked.            *)
EXTENDS Sizing, TLC

CONSTANTS s1, s2, j1, j2

MCSessions == {s1, s2}
MCJobs == {j1, j2}
MCPresets == {[intent |-> "batch", pods |-> 4, cpus |-> 4, mem |-> 4, minutes |-> 0,
               env |-> "none"]}
MCScripts == {[pods |-> 3, cpus |-> 7, mem |-> 2, minutes |-> 480, env |-> "container",
               checked |-> 3, found |-> Fields],
              [pods |-> 4, cpus |-> 4, mem |-> 1, minutes |-> 0, env |-> "venv",
               checked |-> 1, found |-> {"pods", "cpus"}]}
MCSplits == {2, 4, 5}
MCMinutes == {480, 500}
Symmetry == Permutations(MCSessions) \cup Permutations(MCJobs)
===============================================================================
