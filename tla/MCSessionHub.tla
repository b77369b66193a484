--------------------------- MODULE MCSessionHub ---------------------------
(* SessionHub on a small instance.                                         *)
EXTENDS SessionHub, TLC

CONSTANTS s1, s2, c1, c2, a1, a2

MCSessions == {s1, s2}
MCCallers  == {c1, c2}
MCAccounts == {a1, a2}
MCPids     == 1..2
Symmetry   == Permutations(MCCallers) \cup Permutations(MCAccounts) \cup Permutations(MCSessions)
===========================================================================
