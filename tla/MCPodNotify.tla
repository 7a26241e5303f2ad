----------------------------- MODULE MCPodNotify -----------------------------
(* Sessions of two users; the checker runs as the account of the second.   *)
EXTENDS PodNotify, TLC

CONSTANTS t1, t2, u1, u2

MCSessions == {t1, t2}
MCOneSession == {t1}
MCAccounts == {u1, u2}
MCAccountOf == (t1 :> u1) @@ (t2 :> u2) @@ (Checker :> u2)
===============================================================================
