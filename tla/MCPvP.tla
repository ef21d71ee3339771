------------------------------- MODULE MCPvP -------------------------------
(* Small instances of PvP for TLC.                                          *)
EXTENDS PvP, TLC
=============================================================================
