----------------------------- MODULE MCSharedState -----------------------------
(* Two users, two environments and a model.                                *)
EXTENDS SharedState, TLC

CONSTANTS s1, s2, e1, e2, m1

MCSessions == {s1, s2}
MCEnvs == {e1, e2}
MCModels == {m1}
Symmetry == Permutations(MCSessions) \cup Permutations(MCEnvs)
===============================================================================
