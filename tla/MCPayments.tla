----------------------------- MODULE MCPayments -----------------------------
(* Small instances of Payments for TLC: up to three payments of one buyer, *)
(* whose inviter is the developer.                                          *)
EXTENDS Payments, TLC

CONSTANTS p1, p2, p3, buyer, owner

MCRolly   == [id \in Payments |-> "rollypay"]
MCMixed   == [id \in Payments |-> CASE id = p1 -> "stars" [] id = p2 -> "yookassa"
                                    [] OTHER -> "stripe"]
MCPayer   == [id \in Payments |-> buyer]
MCCoins   == [id \in Payments |-> IF id = p1 THEN 2 ELSE 1]
MCInviter == [u \in Users |-> IF u = buyer THEN owner ELSE None]

Symmetry == Permutations(Handlers)
=============================================================================
