------------------------------- MODULE MCP2P -------------------------------
(* Small instances of P2P for TLC.  At a price of two for three coins: a   *)
(* floor of one and a half coins, which can leave a tail of one; bounds of *)
(* exactly one and a half, which nobody can meet; and legacy ones that     *)
(* contradict each other.  And orders without bounds.                      *)
EXTENDS P2P, TLC

MCAny    == {[min |-> 0, max |-> MaxAmount]}
MCLegacy == {[min |-> 2, max |-> 1]}
MCTails  == {[min |-> 1, max |-> 2], [min |-> 1, max |-> 1]} \cup MCLegacy

Symmetry == Permutations(Users) \cup Permutations(Procs)
=============================================================================
