--------------------------- MODULE MCCommandAccess ---------------------------
(* Small instances of CommandAccess for TLC.                                *)
EXTENDS CommandAccess, TLC

Symmetry == Permutations(Readers) \cup Permutations(Admins)
=============================================================================
