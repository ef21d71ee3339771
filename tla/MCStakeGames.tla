---------------------------- MODULE MCStakeGames ----------------------------
(* Small instances of StakeGames for TLC.                                   *)
EXTENDS StakeGames, TLC
=============================================================================
