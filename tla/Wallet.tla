------------------------------- MODULE Wallet -------------------------------
(***************************************************************************)
(* One row of economy.users and the single-statement UPDATEs of            *)
(* EconomyRepo.  Every write of the repository is one guarded statement:   *)
(* when the guard fails it matches no row, returns None and changes        *)
(* nothing.  A write is therefore a pair of operators, its WHERE clause    *)
(* (CanDebit, CanCredit) and its SET clause.                               *)
(***************************************************************************)
EXTENDS Integers, FiniteSetsExt

CONSTANT MaxAmount      \* _MAX_AMOUNT, the ceiling of a balance

ASSUME MaxAmountAssumption == MaxAmount \in Nat

Wallets == [balance : 0..MaxAmount, earned : Nat, spent : Nat]

Seeded(welcome) == [balance |-> welcome, earned |-> 0, spent |-> 0]

(* WHERE clauses: debit and hold share one, credit and release the other.  *)
CanDebit(w, amount)  == w.balance >= amount
CanCredit(w, amount) == w.balance + amount <= MaxAmount

(* SET clauses: an escrow moves the balance and leaves the lifetime        *)
(* counters alone, a debit or a credit moves both.                         *)
Held(w, amount)     == [w EXCEPT !.balance = @ - amount]
Released(w, amount) == [w EXCEPT !.balance = @ + amount]
Debited(w, amount)  == [Held(w, amount) EXCEPT !.spent = @ + amount]
Credited(w, amount) == [Released(w, amount) EXCEPT !.earned = @ + amount]

(* What the lifetime counters say the user owns, in the wallet or in       *)
(* escrow.                                                                 *)
Worth(w, welcome) == welcome + w.earned - w.spent

(* The SUM of a query: f[x] over the rows of S.                            *)
SumOver(f, S) == FoldFunctionOnSet(+, 0, f, S)
=============================================================================
