------------------------------- MODULE MCResize -------------------------------
(* Two admins whose scripts may overlap, or one.                           *)
EXTENDS Resize, TLC

CONSTANTS a1, a2

MCAdmins == {a1, a2}
MCOneAdmin == {a1}
MCSymmetry == Permutations(MCAdmins)
===============================================================================
