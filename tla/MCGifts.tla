------------------------------ MODULE MCGifts ------------------------------
(* A small instance of Gifts for TLC: a group and its supergroup, the       *)
(* developer who also owns the group's chat, a code once per user.          *)
EXTENDS Gifts, TLC

CONSTANTS boss, g, s

MCSpecs == {[type |-> "random", lo |-> 1, hi |-> 2, max |-> 2]}

MCOffers == {[reward |-> 1, max |-> 1, once |-> TRUE]}

MCOwnerOf  == [x \in Groups |-> boss]
MCUpgrades == {<<g, s>>}

Symmetry == Permutations(Users \ {boss}) \cup Permutations(Procs)
=============================================================================
