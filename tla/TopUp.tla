-------------------------------- MODULE TopUp -------------------------------
(***************************************************************************)
(* What the bot promises about one real-money payment: its coins are       *)
(* minted at most once; a payment the provider took back before it was     *)
(* credited is barred for good; one taken back afterwards stays marked.    *)
(***************************************************************************)
CONSTANT Payments

VARIABLE fate

Moves == {<<"none", "credited">>, <<"none", "barred">>, <<"credited", "reversed">>}

Init == fate = [i \in Payments |-> "none"]

Next == \E i \in Payments, new \in {"credited", "barred", "reversed"} :
          /\ <<fate[i], new>> \in Moves
          /\ fate' = [fate EXCEPT ![i] = new]

Spec == Init /\ [][Next]_fate
=============================================================================
