------------------------------- MODULE MCAccounts -------------------------------
(* Two panels and two names.                                               *)
EXTENDS Accounts, TLC

CONSTANTS a1, a2, n1, n2

MCAdmins == {a1, a2}
MCOneAdmin == {a1}
MCNames == {n1, n2}

(* Panels are alike, and so are names.                                     *)
Symmetry == Permutations(MCAdmins) \cup Permutations(MCNames)
===============================================================================
