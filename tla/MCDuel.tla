------------------------------- MODULE MCDuel -------------------------------
(* Small instances of Duel for TLC.                                         *)
EXTENDS Duel, TLC
=============================================================================
