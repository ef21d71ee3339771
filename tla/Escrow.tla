------------------------------- MODULE Escrow -------------------------------
(***************************************************************************)
(* What every escrow of the bot promises: a sum is taken from its owner    *)
(* once, and leaves escrow once, either to the other side of the deal or   *)
(* back to the owner, and never both.  Withdrawals, P2P trades and PvP     *)
(* offers each implement it.  A transaction may settle several items.      *)
(***************************************************************************)
CONSTANT Items

VARIABLE state

Moves == {<<"none", "held">>, <<"held", "paid">>, <<"held", "returned">>}

Init == state = [i \in Items |-> "none"]

Next ==
  /\ state' = [i \in Items |-> state'[i]]
  /\ \A i \in Items : state'[i] = state[i] \/ <<state[i], state'[i]>> \in Moves

Spec == Init /\ [][Next]_state
=============================================================================
