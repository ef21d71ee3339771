--------------------------- MODULE PaymentsProofs ---------------------------
(***************************************************************************)
(* Theorems about Payments, for any users, payments, providers, handlers   *)
(* and percentages: type correctness, at most one credit per payment, the  *)
(* mark an acknowledged reversal leaves, the refinement of TopUp, an       *)
(* answer for every acknowledged payment, and the books to the coin.       *)
(***************************************************************************)
EXTENDS Payments, WalletProofs

USE DEF At, Finish, Settle, db, provider

LEMMA JobFields ==
  ASSUME TypeOK, NEW h \in Handlers
  PROVE  /\ job[h] = [step |-> job[h].step, id |-> job[h].id,
                      outcome |-> job[h].outcome, seen |-> job[h].seen]
         /\ job[h] \in Job
         /\ job[h].step \in Steps /\ job[h].outcome \in Outcomes
         /\ job[h].seen \in BOOLEAN
         /\ ~At(h, "idle") => job[h].id \in Payments
  BY DEF TypeOK, Job

LEMMA IdleJob == Idle \in Job /\ Idle.step = "idle" /\ ~Idle.seen
  BY DEF Idle, Job, Steps, Outcomes

-----------------------------------------------------------------------------
(* The books of a top-up: wallets, ledger and idempotency table.           *)

BooksType == [wallet : [Users -> Wallets], ledger : [Payments \X Kinds -> Nat],
              row : [Payments -> Rows]]

LEMMA MintedNat ==
  ASSUME NEW id \in Payments, NEW kind \in Kinds
  PROVE  Minted(id, kind) \in Nat
<1>1. \A c \in Nat, p \in Nat : Commission(c, p) \in Nat
  <2> SUFFICES ASSUME NEW c \in Nat, NEW p \in Nat PROVE Commission(c, p) \in Nat
    OBVIOUS
  <2>1. c * p \in Nat
    OBVIOUS
  <2>2. (c * p) \div 100 \in Int
    BY <2>1
  <2>. QED
    BY <2>2 DEF Commission
<1>. QED
  BY <1>1, PaymentsAssumption DEF Minted, Kinds

\* A minting touches one wallet and one ledger row.
LEMMA Minting ==
  ASSUME NEW b \in BooksType, NEW id \in Payments, NEW kind \in Kinds,
         Recipient(id, kind) \in Users,
         CanCredit(b.wallet[Recipient(id, kind)], Minted(id, kind))
  PROVE  /\ Mint(b, id, kind) \in BooksType
         /\ Mint(b, id, kind).row = b.row
         /\ Mint(b, id, kind).ledger = [b.ledger EXCEPT ![<<id, kind>>] = @ + 1]
<1> DEFINE to == Recipient(id, kind)
           w == [b.wallet EXCEPT ![to] = Credited(@, Minted(id, kind))]
           l == [b.ledger EXCEPT ![<<id, kind>>] = @ + 1]
<1>1. b = [wallet |-> b.wallet, ledger |-> b.ledger, row |-> b.row]
  BY DEF BooksType
<1>2. Mint(b, id, kind) = [wallet |-> w, ledger |-> l, row |-> b.row]
  BY <1>1 DEF Mint
<1>3. w \in [Users -> Wallets]
  <2>1. b.wallet[to] \in Wallets
    BY DEF BooksType
  <2>2. Credited(b.wallet[to], Minted(id, kind)) \in Wallets
    BY <2>1, MintedNat, WalletWrites
  <2>. QED
    BY <2>2 DEF BooksType
<1>4. l \in [Payments \X Kinds -> Nat]
  BY DEF BooksType
<1>. HIDE DEF w, l
<1>. QED
  BY <1>2, <1>3, <1>4 DEF BooksType, l

\* A commission never touches the purchase row or the idempotency table.
LEMMA Cutting ==
  ASSUME NEW b \in BooksType, NEW id \in Payments, NEW kind \in {"referral", "system"}
  PROVE  /\ WithCut(b, id, kind) \in BooksType
         /\ WithCut(b, id, kind).row = b.row
         /\ \A i \in Payments :
              WithCut(b, id, kind).ledger[<<i, "purchase">>] = b.ledger[<<i, "purchase">>]
<1>1. CASE PaysCut(b, id, kind)
  <2>1. Recipient(id, kind) \in Users
    BY <1>1, PaymentsAssumption DEF PaysCut, Recipient
  <2>2. kind \in Kinds
    BY DEF Kinds
  <2>3. /\ Mint(b, id, kind) \in BooksType
        /\ Mint(b, id, kind).row = b.row
        /\ Mint(b, id, kind).ledger = [b.ledger EXCEPT ![<<id, kind>>] = @ + 1]
    BY <1>1, <2>1, <2>2, Minting DEF PaysCut
  <2>4. \A i \in Payments : <<i, "purchase">> # <<id, kind>>
    OBVIOUS
  <2>. QED
    BY <1>1, <2>2, <2>3, <2>4 DEF WithCut, BooksType, Kinds
<1>. QED
  BY <1>1 DEF WithCut

\* What a committed top-up writes, with or without its commissions.
LEMMA ToppingUp ==
  ASSUME TypeOK, NEW id \in Payments, InReach(id),
         NEW b \in {WithCuts(id), CutRaised(id)}
  PROVE  /\ b \in BooksType
         /\ b.row = [row EXCEPT ![id] = Processed(id)]
         /\ \A i \in Payments :
              b.ledger[<<i, "purchase">>] = IF i = id THEN Credits(i) + 1 ELSE Credits(i)
<1> DEFINE r == [row EXCEPT ![id] = Processed(id)]
           books == [wallet |-> wallet, ledger |-> ledger, row |-> r]
<1>1. Processed(id) \in Rows
  BY PaymentsAssumption DEF Processed, Rows
<1>2. r \in [Payments -> Rows]
  BY <1>1 DEF TypeOK
<1>3. books \in BooksType
  BY <1>2 DEF BooksType, TypeOK
<1>4. TopUp(id) = Mint(books, id, "purchase")
  BY DEF TopUp, Books
<1>5. /\ TopUp(id) \in BooksType
      /\ TopUp(id).row = r
      /\ TopUp(id).ledger = [ledger EXCEPT ![<<id, "purchase">>] = @ + 1]
  <2>1. Recipient(id, "purchase") = Payer[id] /\ Minted(id, "purchase") = Coins[id]
    BY DEF Recipient, Minted
  <2>2. Recipient(id, "purchase") \in Users /\ "purchase" \in Kinds
    BY <2>1, PaymentsAssumption DEF Kinds
  <2>3. CanCredit(books.wallet[Recipient(id, "purchase")], Minted(id, "purchase"))
    BY <2>1 DEF InReach
  <2>4. books.ledger = ledger /\ books.row = r
    OBVIOUS
  <2>. HIDE DEF books, r
  <2>. QED
    BY <1>3, <1>4, <2>2, <2>3, <2>4, Minting
<1>6. TopUp(id) \in BooksType
  BY <1>5
<1>7. \A i \in Payments :
        TopUp(id).ledger[<<i, "purchase">>] = IF i = id THEN Credits(i) + 1 ELSE Credits(i)
  BY <1>5 DEF TypeOK, Credits, Kinds
<1>8. TopUp(id).row = [row EXCEPT ![id] = Processed(id)]
  BY <1>5
<1>. HIDE DEF books, r
<1>9. CASE b = CutRaised(id)
  BY <1>6, <1>7, <1>8, <1>9 DEF CutRaised
<1>10. CASE b = WithCuts(id)
  <2> DEFINE c == WithCut(TopUp(id), id, "referral")
  <2>1. /\ c \in BooksType
        /\ c.row = TopUp(id).row
        /\ \A i \in Payments :
             c.ledger[<<i, "purchase">>] = TopUp(id).ledger[<<i, "purchase">>]
    BY <1>6, Cutting
  <2>. HIDE DEF c
  <2>2. /\ b \in BooksType
        /\ b.row = c.row
        /\ \A i \in Payments : b.ledger[<<i, "purchase">>] = c.ledger[<<i, "purchase">>]
    BY <1>10, <2>1, Cutting DEF WithCuts, c
  <2>. QED
    BY <1>7, <1>8, <2>1, <2>2
<1>. QED
  BY <1>9, <1>10

-----------------------------------------------------------------------------
(* Type correctness.                                                       *)

LEMMA TypeInit == Init => TypeOK
  BY PaymentsAssumption, IdleJob
     DEF Init, TypeOK, Wallets, Seeded, Rows, NoRow

LEMMA TypeStep == TypeOK /\ [Next]_vars => TypeOK'
<1> SUFFICES ASSUME TypeOK, [Next]_vars PROVE TypeOK'
  OBVIOUS
<1> USE PaymentsAssumption, IdleJob
<1>2. ASSUME NEW h \in Handlers, NEW o \in Outcomes, ~At(h, "idle"), Settle(h, o)
      PROVE  job' \in [Handlers -> Job]
  <2>2. [job[h] EXCEPT !.step = "answer", !.outcome = o] \in Job
    BY <1>2, JobFields DEF Job, Steps
  <2>3. job' = [job EXCEPT ![h] = [job[h] EXCEPT !.step = "answer", !.outcome = o]]
    BY <1>2 DEF TypeOK
  <2>. QED
    BY <2>2, <2>3 DEF TypeOK
<1>3. ASSUME NEW h \in Handlers, ~At(h, "idle"), job' = [job EXCEPT ![h].step = "told"]
      PROVE  job' \in [Handlers -> Job]
  <2>2. [job[h] EXCEPT !.step = "told"] \in Job
    BY <1>3, JobFields DEF Job, Steps
  <2>. QED
    BY <1>3, <2>2 DEF TypeOK
<1>4. ASSUME NEW h \in Handlers, Finish(h) PROVE job' \in [Handlers -> Job]
  BY <1>4 DEF TypeOK
<1>5. ASSUME NEW id \in Payments, Pay(id) PROVE TypeOK'
  BY <1>5 DEF Pay, TypeOK
<1>6. ASSUME NEW id \in Payments, TakeBack(id) PROVE TypeOK'
  BY <1>6 DEF TakeBack, TypeOK
<1>7. ASSUME NEW h \in Handlers, NEW id \in Payments, Deliver(h, id) PROVE TypeOK'
  <2>1. [Idle EXCEPT !.step = "credit", !.id = id] \in Job
    BY DEF Idle, Job, Steps, Outcomes
  <2>2. \A o \in Outcomes :
          [Idle EXCEPT !.step = "answer", !.id = id, !.outcome = o] \in Job
    BY DEF Idle, Job, Steps, Outcomes
  <2>3. job' \in [Handlers -> Job]
    <3>1. CASE ~row[id].there
      BY <1>7, <2>1, <3>1 DEF Deliver, TypeOK
    <3>2. CASE row[id].there
      <4> DEFINE o == IF row[id].credited = 0 THEN "reversed" ELSE "idempotent"
      <4>1. o \in Outcomes
        BY DEF Outcomes
      <4>2. job' = [job EXCEPT ![h] = [Idle EXCEPT !.step = "answer", !.id = id,
                                                   !.outcome = o]]
        BY <1>7, <3>2 DEF Deliver
      <4>. HIDE DEF o
      <4>. QED
        BY <2>2, <4>1, <4>2 DEF TypeOK
    <3>. QED
      BY <3>1, <3>2
  <2>. QED
    BY <1>7, <2>3 DEF Deliver, TypeOK
<1>8. ASSUME NEW h \in Handlers, NEW id \in Payments, Reverse(h, id) PROVE TypeOK'
  <2>1. \A s \in Steps : [Idle EXCEPT !.id = id, !.step = s] \in Job
    BY DEF Idle, Job, Steps, Outcomes
  <2>2. job' \in [Handlers -> Job]
    BY <1>8, <2>1 DEF Reverse, TypeOK, Steps
  <2>. QED
    BY <1>8, <2>2 DEF Reverse, TypeOK
<1>9. ASSUME NEW h \in Handlers, Credit(h) PROVE TypeOK'
  <2> DEFINE id == job[h].id
  <2>1. id \in Payments /\ "credited" \in Outcomes
    BY <1>9, JobFields DEF Credit, Outcomes
  <2>2. PICK b \in {WithCuts(id), CutRaised(id)} :
          wallet' = b.wallet /\ ledger' = b.ledger /\ row' = b.row
    BY <1>9 DEF Credit
  <2>3. b \in BooksType
    BY <1>9, <2>1, ToppingUp DEF Credit
  <2>4. job' \in [Handlers -> Job]
    BY <1>2, <1>9, <2>1 DEF Credit
  <2>5. /\ wallet' \in [Users -> Wallets] /\ row' \in [Payments -> Rows]
        /\ ledger' \in [Payments \X Kinds -> Nat]
    BY <2>2, <2>3 DEF BooksType
  <2>. QED
    BY <1>9, <2>4, <2>5 DEF Credit, TypeOK
<1>10. ASSUME NEW h \in Handlers,
              CreditRefused(h) \/ CreditCollides(h) \/ CreditBusy(h)
       PROVE  TypeOK'
  <2>1. job' \in [Handlers -> Job]
    BY <1>2, <1>10 DEF CreditRefused, CreditCollides, CreditBusy, Outcomes
  <2>. QED
    BY <1>10, <2>1 DEF CreditRefused, CreditCollides, CreditBusy, TypeOK
<1>11. ASSUME NEW h \in Handlers, Answer(h) \/ AnswerLost(h) PROVE TypeOK'
  <2>1. job' \in [Handlers -> Job]
    BY <1>4, <1>11 DEF Answer, AnswerLost
  <2>2. alerts' \in [Payments -> SUBSET (Outcomes \cup {"reversal"})]
    <3>1. job[h].outcome \in Outcomes
      BY JobFields
    <3>. QED
      BY <1>11, <3>1 DEF Answer, AnswerLost, TypeOK
  <2>3. paid' \in [Payments -> {"unpaid", "due", "acked"}]
    BY <1>11 DEF Answer, AnswerLost, TypeOK
  <2>4. UNCHANGED <<db, writer, refund, missed, faults>>
    BY <1>11 DEF Answer, AnswerLost
  <2>. QED
    BY <2>1, <2>2, <2>3, <2>4 DEF TypeOK
<1>12. ASSUME NEW h \in Handlers, ReverseRead(h) PROVE TypeOK'
  <2> DEFINE s == row[job[h].id].there /\ IdMatches(job[h].id)
  <2>1. s \in BOOLEAN
    BY <1>12, JobFields DEF ReverseRead, TypeOK, Rows, IdMatches
  <2>. HIDE DEF s
  <2>3. [job[h] EXCEPT !.step = "stamp", !.seen = s] \in Job
    BY <1>12, <2>1, JobFields DEF Job, Steps, ReverseRead
  <2>4. job' = [job EXCEPT ![h] = [job[h] EXCEPT !.step = "stamp", !.seen = s]]
    BY <1>12 DEF ReverseRead, s, TypeOK
  <2>5. job' \in [Handlers -> Job]
    BY <2>3, <2>4 DEF TypeOK
  <2>6. UNCHANGED <<db, provider, alerts, missed, faults>> /\ writer' = h
    BY <1>12 DEF ReverseRead, TakeLock
  <2>. QED
    BY <2>5, <2>6 DEF TypeOK
<1>13. ASSUME NEW h \in Handlers, ReverseStamp(h) PROVE TypeOK'
  <2>1. job' \in [Handlers -> Job]
    BY <1>3, <1>13 DEF ReverseStamp
  <2>2. Stamped(job[h].id, job[h].seen) \in Rows
    <3>1. row[job[h].id] \in Rows
      BY <1>13, JobFields DEF ReverseStamp, TypeOK
    <3>2. /\ [there |-> TRUE, credited |-> row[job[h].id].credited, reversed |-> TRUE] \in Rows
          /\ Tombstone \in Rows
      BY <3>1 DEF Rows, Tombstone
    <3>. QED
      BY <3>1, <3>2 DEF Stamped
  <2>. QED
    BY <1>13, <2>1, <2>2 DEF ReverseStamp, Release, TypeOK
<1>14. ASSUME NEW h \in Handlers, ReverseBusy(h) PROVE TypeOK'
  <2>1. job' \in [Handlers -> Job]
    BY <1>3, <1>14 DEF ReverseBusy
  <2>. QED
    BY <1>14, <2>1, JobFields DEF ReverseBusy, TypeOK
<1>15. ASSUME NEW h \in Handlers, ReverseTold(h) PROVE TypeOK'
  <2>1. job' \in [Handlers -> Job]
    BY <1>4, <1>15 DEF ReverseTold
  <2>2. alerts' \in [Payments -> SUBSET (Outcomes \cup {"reversal"})]
    BY <1>15 DEF ReverseTold, TypeOK
  <2>3. refund' \in [Payments -> {"none", "due", "acked"}]
    BY <1>15 DEF ReverseTold, TypeOK
  <2>4. UNCHANGED <<db, writer, paid, missed, faults>>
    BY <1>15 DEF ReverseTold
  <2>. QED
    BY <2>1, <2>2, <2>3, <2>4 DEF TypeOK
<1>16. ASSUME NEW u \in Users, Spend(u) PROVE TypeOK'
  <2>1. Debited(wallet[u], 1) \in Wallets
    BY <1>16, WalletWrites DEF Spend, TypeOK
  <2>. QED
    BY <1>16, <2>1 DEF Spend, TypeOK
<1>17. CASE Crash
  BY <1>17 DEF Crash, TypeOK
<1>18. CASE UNCHANGED vars
  BY <1>18 DEF vars, TypeOK
<1>. QED
  BY <1>5, <1>6, <1>7, <1>8, <1>9, <1>10, <1>11, <1>12, <1>13, <1>14, <1>15, <1>16,
     <1>17, <1>18 DEF Next

\* Balances, books, rows and deliveries keep their types for every wiring.
THEOREM TypeCorrect == Spec => []TypeOK
<1>. QED
  BY TypeInit, TypeStep, PTL DEF Spec

-----------------------------------------------------------------------------
(* What a step may do to a handler.                                        *)

Stays(h)   == ~At(h, "idle") /\ job'[h].id = job[h].id
Kept(h)    == job'[h].seen = job[h].seen

HandlerMove(h) ==
  \/ job'[h] = job[h] \/ job'[h] = Idle
  \/ At(h, "idle") /\ job'[h].step \in {"credit", "answer"} /\ ~job'[h].seen
  \/ \E id \in Payments :
       /\ Reverse(h, id) /\ ~job'[h].seen /\ job'[h].id = id
       /\ job'[h].step = IF Authenticated(id) THEN "reverse" ELSE "told"
  \/ At(h, "credit") /\ job'[h].step = "answer" /\ Stays(h) /\ Kept(h)
  \/ /\ ReverseRead(h) /\ job'[h].step = "stamp" /\ Stays(h)
     /\ job'[h].seen = (row[job[h].id].there /\ IdMatches(job[h].id))
  \/ (ReverseStamp(h) \/ ReverseBusy(h)) /\ job'[h].step = "told" /\ Stays(h) /\ Kept(h)

LEMMA HandlerMoves ==
  ASSUME TypeOK, [Next]_vars, NEW h \in Handlers
  PROVE  HandlerMove(h)
<1>0. /\ job \in [Handlers -> Job]
      /\ job[h] = [step |-> job[h].step, id |-> job[h].id,
                    outcome |-> job[h].outcome, seen |-> job[h].seen]
  BY JobFields DEF TypeOK
<1>1. ASSUME NEW k \in Handlers, Credit(k) \/ CreditRefused(k) \/ CreditCollides(k) \/ CreditBusy(k)
      PROVE  HandlerMove(h)
  <2>1. /\ At(k, "credit")
        /\ \E o : job' = [job EXCEPT ![k].step = "answer", ![k].outcome = o]
    BY <1>1 DEF Credit, CreditRefused, CreditCollides, CreditBusy
  <2>2. CASE k # h
    BY <1>0, <2>1, <2>2 DEF HandlerMove
  <2>3. CASE k = h
    <3>1. job'[h].step = "answer" /\ job'[h].id = job[h].id /\ job'[h].seen = job[h].seen
      BY <1>0, <2>1, <2>3
    <3>. QED
      BY <2>1, <2>3, <3>1 DEF HandlerMove, Stays, Kept
  <2>. QED
    BY <2>2, <2>3
<1>2. ASSUME NEW k \in Handlers, Answer(k) \/ AnswerLost(k) \/ ReverseTold(k)
      PROVE  HandlerMove(h)
  BY <1>0, <1>2 DEF Answer, AnswerLost, ReverseTold, HandlerMove
<1>3. ASSUME NEW k \in Handlers, NEW id \in Payments, Deliver(k, id)
      PROVE  HandlerMove(h)
  <2>1. CASE k # h
    BY <1>0, <1>3, <2>1 DEF Deliver, HandlerMove
  <2>2. CASE k = h
    <3>1. At(h, "idle") /\ job'[h].step \in {"credit", "answer"} /\ ~job'[h].seen
      BY <1>0, <1>3, <2>2 DEF Deliver, Idle
    <3>. QED
      BY <3>1 DEF HandlerMove
  <2>. QED
    BY <2>1, <2>2
<1>4. ASSUME NEW k \in Handlers, NEW id \in Payments, Reverse(k, id)
      PROVE  HandlerMove(h)
  <2>1. CASE k # h
    BY <1>0, <1>4, <2>1 DEF Reverse, HandlerMove
  <2>2. CASE k = h
    <3>1. /\ ~job'[h].seen /\ job'[h].id = id
          /\ job'[h].step = IF Authenticated(id) THEN "reverse" ELSE "told"
      BY <1>0, <1>4, <2>2 DEF Reverse, Idle
    <3>. QED
      BY <1>4, <2>2, <3>1 DEF HandlerMove
  <2>. QED
    BY <2>1, <2>2
<1>5. ASSUME NEW k \in Handlers, ReverseRead(k) PROVE HandlerMove(h)
  <2>1. CASE k # h
    BY <1>0, <1>5, <2>1 DEF ReverseRead, HandlerMove
  <2>2. CASE k = h
    <3>1. /\ job'[h].step = "stamp" /\ job'[h].id = job[h].id
          /\ job'[h].seen = (row[job[h].id].there /\ IdMatches(job[h].id))
          /\ At(h, "reverse")
      BY <1>0, <1>5, <2>2 DEF ReverseRead
    <3>. QED
      BY <1>5, <2>2, <3>1 DEF HandlerMove, Stays
  <2>. QED
    BY <2>1, <2>2
<1>6. ASSUME NEW k \in Handlers, ReverseStamp(k) \/ ReverseBusy(k) PROVE HandlerMove(h)
  <2>1. /\ job' = [job EXCEPT ![k].step = "told"]
        /\ At(k, "stamp") \/ At(k, "reverse")
    BY <1>6 DEF ReverseStamp, ReverseBusy
  <2>2. CASE k # h
    BY <1>0, <2>1, <2>2 DEF HandlerMove
  <2>3. CASE k = h
    <3>1. job'[h].step = "told" /\ job'[h].id = job[h].id /\ job'[h].seen = job[h].seen
      BY <1>0, <2>1, <2>3
    <3>. QED
      BY <1>6, <2>1, <2>3, <3>1 DEF HandlerMove, Stays, Kept
  <2>. QED
    BY <2>2, <2>3
<1>7. CASE Crash
  BY <1>7 DEF Crash, HandlerMove
<1>8. ASSUME UNCHANGED job PROVE HandlerMove(h)
  BY <1>8 DEF HandlerMove
<1>9. ASSUME NEW id \in Payments, Pay(id) \/ TakeBack(id) PROVE UNCHANGED job
  BY <1>9 DEF Pay, TakeBack
<1>10. ASSUME NEW u \in Users, Spend(u) PROVE UNCHANGED job
  BY <1>10 DEF Spend
<1>11. UNCHANGED vars => UNCHANGED job
  BY DEF vars
<1>. QED
  BY <1>1, <1>2, <1>3, <1>4, <1>5, <1>6, <1>7, <1>8, <1>9, <1>10, <1>11 DEF Next

-----------------------------------------------------------------------------
(* What a step may do to a payment's row and to its purchase entries.      *)

\* A row that is not there is empty, and a reversal that saw a row is right.
RowsAreReal ==
  /\ \A id \in Payments : ~row[id].there => row[id] = NoRow
  /\ \A h \in Handlers : job[h].seen => ~At(h, "idle") /\ row[job[h].id].there

Unmoved(id) == row'[id] = row[id] /\ Credits(id)' = Credits(id)

CreditedNow(id) ==
  /\ ~row[id].there /\ row'[id] = Processed(id) /\ Credits(id)' = Credits(id) + 1

MarkedNow(id) ==
  /\ row[id].there
  /\ row'[id] = [there |-> TRUE, credited |-> row[id].credited, reversed |-> TRUE]
  /\ Credits(id)' = Credits(id)

BarredNow(id) ==
  /\ ~row[id].there /\ row'[id] = Tombstone /\ Credits(id)' = Credits(id)

\* The writer serves one payment at a time, in one of three ways.
LEMMA OneMove ==
  ASSUME TypeOK, RowsAreReal, [Next]_vars
  PROVE  \/ \A id \in Payments : Unmoved(id)
         \/ \E id \in Payments :
              /\ CreditedNow(id) \/ MarkedNow(id) \/ BarredNow(id)
              /\ \A i \in Payments \ {id} : Unmoved(i)
<1>1. CASE UNCHANGED <<ledger, row>>
  BY <1>1 DEF Unmoved, Credits
<1>2. ASSUME NEW h \in Handlers, Credit(h)
      PROVE  \E id \in Payments :
               CreditedNow(id) /\ \A i \in Payments \ {id} : Unmoved(i)
  <2>1. PICK id \in Payments : id = job[h].id
    BY <1>2, JobFields DEF Credit
  <2>2. PICK b \in {WithCuts(id), CutRaised(id)} :
          wallet' = b.wallet /\ ledger' = b.ledger /\ row' = b.row
    BY <1>2, <2>1 DEF Credit
  <2>3. /\ b.row = [row EXCEPT ![id] = Processed(id)]
        /\ \A i \in Payments :
             b.ledger[<<i, "purchase">>] = IF i = id THEN Credits(i) + 1 ELSE Credits(i)
    BY <1>2, <2>1, ToppingUp DEF Credit
  <2>4. ~row[id].there
    BY <1>2, <2>1 DEF Credit, KeyFree
  <2>5. \A i \in Payments : Credits(i)' = IF i = id THEN Credits(i) + 1 ELSE Credits(i)
    BY <2>2, <2>3 DEF Credits
  <2>6. row' = [row EXCEPT ![id] = Processed(id)]
    BY <2>2, <2>3
  <2>. QED
    BY <2>1, <2>4, <2>5, <2>6 DEF CreditedNow, Unmoved, TypeOK
<1>3. ASSUME NEW h \in Handlers, ReverseStamp(h)
      PROVE  \/ \A id \in Payments : Unmoved(id)
             \/ \E id \in Payments :
                  /\ MarkedNow(id) \/ BarredNow(id)
                  /\ \A i \in Payments \ {id} : Unmoved(i)
  <2>1. PICK id \in Payments : id = job[h].id
    BY <1>3, JobFields DEF ReverseStamp
  <2>2. /\ row' = [row EXCEPT ![id] = Stamped(id, job[h].seen)]
        /\ \A i \in Payments : Credits(i)' = Credits(i)
    BY <1>3, <2>1 DEF ReverseStamp, Credits
  <2>3. \A i \in Payments \ {id} : Unmoved(i)
    BY <2>2 DEF Unmoved, TypeOK
  <2>4. row'[id] = Stamped(id, job[h].seen)
    BY <2>1, <2>2 DEF TypeOK
  <2>5. job[h].seen => row[id].there
    BY <2>1 DEF RowsAreReal
  <2>6. Unmoved(id) \/ MarkedNow(id) \/ BarredNow(id)
    <3>1. CASE job[h].seen
      BY <2>1, <2>2, <2>4, <2>5, <3>1 DEF Stamped, MarkedNow
    <3>2. CASE ~job[h].seen /\ Stamps(id) /\ ~row[id].there
      BY <2>1, <2>2, <2>4, <3>2 DEF Stamped, BarredNow
    <3>3. CASE ~job[h].seen /\ ~(Stamps(id) /\ ~row[id].there)
      BY <2>1, <2>2, <2>4, <3>3 DEF Stamped, Unmoved
    <3>. QED
      BY <3>1, <3>2, <3>3
  <2>. QED
    BY <2>1, <2>3, <2>6
<1>4. ASSUME NEW h \in Handlers, ~Credit(h), ~ReverseStamp(h),
             \/ CreditRefused(h) \/ CreditCollides(h) \/ CreditBusy(h)
             \/ Answer(h) \/ AnswerLost(h)
             \/ ReverseRead(h) \/ ReverseBusy(h) \/ ReverseTold(h)
      PROVE  UNCHANGED <<ledger, row>>
  BY <1>4 DEF CreditRefused, CreditCollides, CreditBusy, Answer, AnswerLost,
              ReverseRead, ReverseBusy, ReverseTold
<1>5. ASSUME NEW h \in Handlers, NEW id \in Payments, Deliver(h, id) \/ Reverse(h, id)
      PROVE  UNCHANGED <<ledger, row>>
  BY <1>5 DEF Deliver, Reverse
<1>6. ASSUME NEW id \in Payments, Pay(id) \/ TakeBack(id)
      PROVE  UNCHANGED <<ledger, row>>
  BY <1>6 DEF Pay, TakeBack
<1>7. ASSUME NEW u \in Users, Spend(u) PROVE UNCHANGED <<ledger, row>>
  BY <1>7 DEF Spend
<1>8. Crash \/ UNCHANGED vars => UNCHANGED <<ledger, row>>
  BY DEF Crash, vars
<1>. QED
  BY <1>1, <1>2, <1>3, <1>4, <1>5, <1>6, <1>7, <1>8 DEF Next

LEMMA RowsInit == Init => RowsAreReal /\ CreditedOnce
<1> SUFFICES ASSUME Init PROVE RowsAreReal /\ CreditedOnce
  OBVIOUS
<1>1. \A id \in Payments : row[id] = NoRow /\ Credits(id) = 0
  BY DEF Init, Credits, Kinds
<1>2. \A h \in Handlers : ~job[h].seen
  BY IdleJob DEF Init
<1>. QED
  BY <1>1, <1>2 DEF RowsAreReal, CreditedOnce, NoRow

LEMMA RowsStep ==
  TypeOK /\ RowsAreReal /\ CreditedOnce /\ [Next]_vars => (RowsAreReal /\ CreditedOnce)'
<1> SUFFICES ASSUME TypeOK, RowsAreReal, CreditedOnce, [Next]_vars
             PROVE  (RowsAreReal /\ CreditedOnce)'
  OBVIOUS
<1> USE PaymentsAssumption
<1>1. \A id \in Payments :
        Unmoved(id) \/ CreditedNow(id) \/ MarkedNow(id) \/ BarredNow(id)
  BY OneMove
<1>2. \A id \in Payments : row[id] \in Rows /\ Credits(id) \in Nat
  BY DEF TypeOK, Credits, Kinds
<1>3. \A id \in Payments : row'[id].there \/ row'[id] = NoRow
  <2> SUFFICES ASSUME NEW id \in Payments PROVE row'[id].there \/ row'[id] = NoRow
    OBVIOUS
  <2>1. Unmoved(id) \/ MarkedNow(id) => row'[id].there \/ row'[id] = NoRow
    BY <1>2 DEF Unmoved, MarkedNow, RowsAreReal, Rows
  <2>2. CreditedNow(id) \/ BarredNow(id) => row'[id].there
    BY DEF CreditedNow, BarredNow, Processed, Tombstone
  <2>. QED
    BY <1>1, <2>1, <2>2
<1>4. \A id \in Payments : row[id].there => row'[id].there
  <2> SUFFICES ASSUME NEW id \in Payments, row[id].there PROVE row'[id].there
    OBVIOUS
  <2>1. Unmoved(id) \/ MarkedNow(id)
    BY <1>1 DEF CreditedNow, BarredNow
  <2>2. Unmoved(id) => row'[id].there
    BY DEF Unmoved
  <2>3. MarkedNow(id) => row'[id].there
    BY DEF MarkedNow
  <2>. QED
    BY <2>1, <2>2, <2>3
<1>5. CreditedOnce'
  <2> SUFFICES ASSUME NEW id \in Payments
               PROVE  /\ Credits(id)' = IF row'[id].credited > 0 THEN 1 ELSE 0
                      /\ row'[id].there =>
                           row'[id].credited = Coins[id] \/ row'[id] = Tombstone
    BY DEF CreditedOnce
  <2>1. /\ Credits(id) = IF row[id].credited > 0 THEN 1 ELSE 0
        /\ row[id].there => row[id].credited = Coins[id] \/ row[id] = Tombstone
        /\ ~row[id].there => row[id] = NoRow
        /\ Coins[id] \in Nat \ {0}
        /\ row[id] \in Rows
    BY <1>2 DEF CreditedOnce, RowsAreReal
  <2>2. CASE Unmoved(id)
    BY <2>1, <2>2 DEF Unmoved
  <2>3. CASE CreditedNow(id)
    BY <2>1, <2>3 DEF CreditedNow, Processed, NoRow
  <2>4. CASE MarkedNow(id)
    <3>1. row'[id].credited = row[id].credited
      BY <2>1, <2>4 DEF MarkedNow, Rows
    <3>2. row[id] = Tombstone => row'[id] = Tombstone
      BY <2>4 DEF MarkedNow, Tombstone
    <3>. QED
      BY <2>1, <2>4, <3>1, <3>2 DEF MarkedNow
  <2>5. CASE BarredNow(id)
    BY <2>1, <2>5 DEF BarredNow, Tombstone, NoRow
  <2>. QED
    BY <1>1, <2>2, <2>3, <2>4, <2>5
<1>6. \A h \in Handlers : job'[h].seen => job'[h].step # "idle" /\ row'[job'[h].id].there
  <2> SUFFICES ASSUME NEW h \in Handlers, job'[h].seen
               PROVE  job'[h].step # "idle" /\ row'[job'[h].id].there
    OBVIOUS
  <2>1. \/ job[h].seen /\ ~At(h, "idle") /\ job'[h].step # "idle" /\ job'[h].id = job[h].id
        \/ /\ ~At(h, "idle") /\ row[job[h].id].there
           /\ job'[h].step # "idle" /\ job'[h].id = job[h].id
    BY HandlerMoves, IdleJob DEF HandlerMove, Stays, Kept, RowsAreReal
  <2>2. job[h].id \in Payments
    BY <2>1, JobFields
  <2>. QED
    BY <1>4, <2>1, <2>2 DEF RowsAreReal
<1>. QED
  BY <1>3, <1>5, <1>6 DEF RowsAreReal

\* A payment is credited at most once, and its row says so, for any number of
\* payments, providers and concurrent deliveries, with crashes.
THEOREM CreditsOnce == Spec => []CreditedOnce
<1>1. Init => TypeOK /\ RowsAreReal /\ CreditedOnce
  BY TypeInit, RowsInit
<1>2. TypeOK /\ RowsAreReal /\ CreditedOnce /\ [Next]_vars =>
        (TypeOK /\ RowsAreReal /\ CreditedOnce)'
  BY TypeStep, RowsStep
<1>. QED
  BY <1>1, <1>2, PTL DEF Spec

\* Payments implements TopUp: no payment is credited after it was barred, or
\* twice, and a mark is never lifted.
THEOREM PaymentsImplementTopUp == Spec => CreditedOrBarred
<1> DEFINE fates == [id \in Payments |-> Fate(id)]
<1>1. Init => T!Init
  <2> SUFFICES ASSUME Init PROVE \A id \in Payments : Fate(id) = "none"
    BY DEF T!Init
  <2>. QED
    BY DEF Init, Fate, Credits, Kinds, NoRow
<1>2. TypeOK /\ RowsAreReal /\ CreditedOnce /\ [Next]_vars => [T!Next]_fates
  <2> SUFFICES ASSUME TypeOK, RowsAreReal, CreditedOnce, [Next]_vars
               PROVE  T!Next \/ fates' = fates
    OBVIOUS
  <2> USE PaymentsAssumption
  <2>1. \A id \in Payments : Unmoved(id) => Fate(id)' = Fate(id)
    BY DEF Unmoved, Fate
  <2>2. ASSUME NEW id \in Payments, \A i \in Payments \ {id} : Unmoved(i),
               NEW new \in {"credited", "barred", "reversed"}, Fate(id)' = new,
               <<Fate(id), new>> \in T!Moves
        PROVE  T!Next
    <3>1. fates' = [fates EXCEPT ![id] = new]
      BY <2>1, <2>2
    <3>2. <<fates[id], new>> \in T!Moves
      BY <2>2
    <3>. QED
      BY <3>1, <3>2 DEF T!Next
  <2>3. CASE \A id \in Payments : Unmoved(id)
    BY <2>1, <2>3
  <2>4. ASSUME NEW id \in Payments, \A i \in Payments \ {id} : Unmoved(i),
               CreditedNow(id) \/ MarkedNow(id) \/ BarredNow(id)
        PROVE  T!Next \/ fates' = fates
    <3>1. /\ row[id] \in Rows
          /\ Credits(id) = IF row[id].credited > 0 THEN 1 ELSE 0
          /\ ~row[id].there => row[id] = NoRow
          /\ row[id].there => row[id].credited = Coins[id] \/ row[id] = Tombstone
          /\ Coins[id] \in Nat \ {0}
      BY DEF TypeOK, CreditedOnce, RowsAreReal
    <3>2. CASE CreditedNow(id)
      <4>1. Fate(id) = "none" /\ Fate(id)' = "credited"
        BY <3>1, <3>2 DEF CreditedNow, Fate, Processed, NoRow
      <4>. QED
        BY <2>2, <2>4, <4>1 DEF T!Moves
    <3>3. CASE BarredNow(id)
      <4>1. Fate(id) = "none" /\ Fate(id)' = "barred"
        BY <3>1, <3>3 DEF BarredNow, Fate, Tombstone, NoRow
      <4>. QED
        BY <2>2, <2>4, <4>1 DEF T!Moves
    <3>4. CASE MarkedNow(id)
      <4>1. row'[id].there /\ row'[id].reversed
        BY <3>1, <3>4 DEF MarkedNow, Rows
      <4>2. CASE Credits(id) = 0
        <5>1. Fate(id)' = Fate(id)
          BY <3>4, <4>1, <4>2 DEF MarkedNow, Fate
        <5>. QED
          BY <2>1, <2>4, <5>1
      <4>3. CASE Credits(id) = 1
        <5>1. Fate(id)' = "reversed" /\ Fate(id) \in {"credited", "reversed"}
          BY <3>4, <4>1, <4>3 DEF MarkedNow, Fate
        <5>2. CASE Fate(id) = "reversed"
          BY <2>1, <2>4, <5>1, <5>2
        <5>3. CASE Fate(id) = "credited"
          BY <2>2, <2>4, <5>1, <5>3 DEF T!Moves
        <5>. QED
          BY <5>1, <5>2, <5>3
      <4>. QED
        BY <3>1, <4>2, <4>3
    <3>. QED
      BY <2>4, <3>2, <3>3, <3>4
  <2>. QED
    BY <2>3, <2>4, OneMove
<1>3. Init => TypeOK /\ RowsAreReal /\ CreditedOnce
  BY TypeInit, RowsInit
<1>4. TypeOK /\ RowsAreReal /\ CreditedOnce /\ [Next]_vars =>
        (TypeOK /\ RowsAreReal /\ CreditedOnce)'
  BY TypeStep, RowsStep
<1>. QED
  BY <1>1, <1>2, <1>3, <1>4, PTL DEF Spec, CreditedOrBarred, T!Spec

-----------------------------------------------------------------------------
(* The mark of an acknowledged reversal.                                   *)

\* The writer lock keeps what a reversal has read true until it stamps, and a
\* reversal that is being reported has stamped unless the database was busy.
Marked(id) == row[id].there /\ row[id].reversed

ReversalSound(h) ==
  /\ At(h, "reverse") \/ At(h, "stamp") => Authenticated(job[h].id)
  /\ At(h, "stamp") =>
       /\ writer = h
       /\ job[h].seen <=> (row[job[h].id].there /\ IdMatches(job[h].id))
  /\ At(h, "told") /\ Stamps(job[h].id) /\ job[h].id \notin missed => Marked(job[h].id)

ReversalsHold == (\A h \in Handlers : ReversalSound(h)) /\ ReturnedIsMarked

LEMMA ReversalsInit == Init => ReversalsHold
  BY IdleJob DEF Init, ReversalsHold, ReversalSound, ReturnedIsMarked, Returned

\* A mark is never lifted.
LEMMA MarksStay ==
  ASSUME TypeOK, RowsAreReal, [Next]_vars, NEW id \in Payments,
         row[id].there, row[id].reversed
  PROVE  row'[id].there /\ row'[id].reversed
<1>1. Unmoved(id) \/ MarkedNow(id)
  BY OneMove DEF CreditedNow, BarredNow
<1>2. CASE Unmoved(id)
  BY <1>2 DEF Unmoved
<1>3. CASE MarkedNow(id)
  BY <1>3 DEF MarkedNow
<1>. QED
  BY <1>1, <1>2, <1>3

\* While a reversal holds the lock only its own stamp writes a row, and nobody
\* else takes or drops the lock.
LEMMA LockHolds ==
  ASSUME TypeOK, ReversalsHold, [Next]_vars, ~Crash, NEW h \in Handlers,
         At(h, "stamp"), ~ReverseStamp(h)
  PROVE  UNCHANGED <<writer, row>>
<1>1. writer = h /\ h # None
  BY PaymentsAssumption DEF ReversalsHold, ReversalSound
<1>2. ASSUME NEW k \in Handlers, ReverseStamp(k) PROVE FALSE
  BY <1>1, <1>2 DEF ReversalsHold, ReversalSound, ReverseStamp
<1>3. ASSUME NEW k \in Handlers, Credit(k) \/ ReverseRead(k) PROVE FALSE
  BY <1>1, <1>3 DEF Credit, ReverseRead
<1>4. ASSUME NEW k \in Handlers,
             \/ CreditRefused(k) \/ CreditCollides(k) \/ CreditBusy(k)
             \/ Answer(k) \/ AnswerLost(k) \/ ReverseBusy(k) \/ ReverseTold(k)
      PROVE  UNCHANGED <<writer, row>>
  BY <1>4 DEF CreditRefused, CreditCollides, CreditBusy, Answer, AnswerLost,
              ReverseBusy, ReverseTold
<1>5. ASSUME NEW k \in Handlers, NEW id \in Payments, Deliver(k, id) \/ Reverse(k, id)
      PROVE  UNCHANGED <<writer, row>>
  BY <1>5 DEF Deliver, Reverse
<1>6. ASSUME NEW id \in Payments, Pay(id) \/ TakeBack(id) PROVE UNCHANGED <<writer, row>>
  BY <1>6 DEF Pay, TakeBack
<1>7. ASSUME NEW u \in Users, Spend(u) PROVE UNCHANGED <<writer, row>>
  BY <1>7 DEF Spend
<1>8. UNCHANGED vars => UNCHANGED <<writer, row>>
  BY DEF vars
<1>. QED
  BY <1>2, <1>3, <1>4, <1>5, <1>6, <1>7, <1>8 DEF Next

\* Only the report of a reversal acknowledges it, and missed only grows.
LEMMA Acknowledging ==
  ASSUME TypeOK, [Next]_vars
  PROVE  /\ missed \subseteq missed'
         /\ \/ refund' = refund
            \/ \E h \in Handlers : /\ At(h, "told") /\ missed' = missed
                                  /\ refund' = [refund EXCEPT ![job[h].id] = "acked"]
            \/ \E id \in Payments : refund' = [refund EXCEPT ![id] = "due"]
<1>1. ASSUME NEW k \in Handlers,
             \/ Credit(k) \/ CreditRefused(k) \/ CreditCollides(k) \/ CreditBusy(k)
             \/ Answer(k) \/ AnswerLost(k)
             \/ ReverseRead(k) \/ ReverseStamp(k)
      PROVE  UNCHANGED <<missed, refund>>
  BY <1>1 DEF Credit, CreditRefused, CreditCollides, CreditBusy, Answer, AnswerLost,
              ReverseRead, ReverseStamp
<1>2. ASSUME NEW k \in Handlers, ReverseBusy(k) PROVE missed \subseteq missed' /\ refund' = refund
  BY <1>2 DEF ReverseBusy
<1>3. ASSUME NEW k \in Handlers, ReverseTold(k)
      PROVE  /\ At(k, "told") /\ missed' = missed
             /\ refund' = [refund EXCEPT ![job[k].id] = "acked"]
  BY <1>3 DEF ReverseTold
<1>4. ASSUME NEW k \in Handlers, NEW id \in Payments, Deliver(k, id) \/ Reverse(k, id)
      PROVE  UNCHANGED <<missed, refund>>
  BY <1>4 DEF Deliver, Reverse
<1>5. ASSUME NEW id \in Payments, Pay(id) PROVE UNCHANGED <<missed, refund>>
  BY <1>5 DEF Pay
<1>6. ASSUME NEW id \in Payments, TakeBack(id)
      PROVE  UNCHANGED missed /\ refund' = [refund EXCEPT ![id] = "due"]
  BY <1>6 DEF TakeBack
<1>7. ASSUME NEW u \in Users, Spend(u) PROVE UNCHANGED <<missed, refund>>
  BY <1>7 DEF Spend
<1>8. Crash \/ UNCHANGED vars => UNCHANGED <<missed, refund>>
  BY DEF Crash, vars
<1>. QED
  BY <1>1, <1>2, <1>3, <1>4, <1>5, <1>6, <1>7, <1>8 DEF Next

LEMMA ReversalsStep ==
  TypeOK /\ RowsAreReal /\ ReversalsHold /\ [Next]_vars => ReversalsHold'
<1> SUFFICES ASSUME TypeOK, RowsAreReal, ReversalsHold, [Next]_vars PROVE ReversalsHold'
  OBVIOUS
<1>1. ReturnedIsMarked'
  <2> SUFFICES ASSUME NEW id \in Payments, refund'[id] = "acked", Stamps(id), id \notin missed'
               PROVE  row'[id].there /\ row'[id].reversed
    BY DEF ReturnedIsMarked, Returned
  <2>1. id \notin missed
    BY Acknowledging
  <2>2. \/ refund[id] = "acked"
        \/ \E h \in Handlers : At(h, "told") /\ job[h].id = id
    BY Acknowledging, JobFields DEF TypeOK
  <2>3. row[id].there /\ row[id].reversed
    BY <2>1, <2>2 DEF ReversalsHold, ReversalSound, Marked, ReturnedIsMarked, Returned
  <2>. QED
    BY <2>3, MarksStay
<1>2. ASSUME NEW h \in Handlers PROVE ReversalSound(h)'
  <2>0. /\ job[h] \in Job /\ job'[h] \in Job
        /\ ReversalSound(h)
    BY TypeStep DEF TypeOK, ReversalsHold
  <2>1. CASE job'[h] = job[h]
    <3>1. CASE At(h, "stamp")
      <4>1. ~Crash /\ ~ReverseStamp(h)
        <5>1. Crash => job'[h] = Idle
          BY DEF Crash
        <5>2. ReverseStamp(h) => job'[h].step = "told"
          BY <2>0, JobFields DEF ReverseStamp, TypeOK
        <5>. QED
          BY <2>1, <3>1, <5>1, <5>2, IdleJob
      <4>2. UNCHANGED <<writer, row>>
        BY <3>1, <4>1, LockHolds
      <4>. QED
        BY <2>0, <2>1, <3>1, <4>2 DEF ReversalSound
    <3>2. CASE At(h, "told")
      <4>1. PICK id \in Payments : id = job[h].id
        BY <3>2, JobFields
      <4>2. id \notin missed' => id \notin missed
        BY Acknowledging
      <4>3. Stamps(id) /\ id \notin missed => row[id].there /\ row[id].reversed
        BY <2>0, <3>2, <4>1 DEF ReversalSound, Marked
      <4>4. Stamps(id) /\ id \notin missed' => row'[id].there /\ row'[id].reversed
        BY <4>2, <4>3, MarksStay
      <4>. QED
        BY <2>1, <3>2, <4>1, <4>4 DEF ReversalSound, Marked
    <3>3. CASE ~At(h, "stamp") /\ ~At(h, "told")
      BY <2>0, <2>1, <3>3 DEF ReversalSound
    <3>. QED
      BY <3>1, <3>2, <3>3
  <2>2. CASE job'[h].step \in {"idle", "credit", "answer"}
    BY <2>2 DEF ReversalSound
  <2>3. ASSUME NEW id \in Payments, job'[h].id = id,
               job'[h].step = IF Authenticated(id) THEN "reverse" ELSE "told"
        PROVE  ReversalSound(h)'
    BY <2>3 DEF ReversalSound, Stamps
  <2>4. CASE /\ ReverseRead(h) /\ job'[h].step = "stamp" /\ Stays(h)
             /\ job'[h].seen = (row[job[h].id].there /\ IdMatches(job[h].id))
    <3>1. row' = row /\ writer' = h /\ At(h, "reverse")
      BY <2>4 DEF ReverseRead, TakeLock
    <3>. QED
      BY <2>0, <2>4, <3>1 DEF ReversalSound, Stays
  <2>5. CASE ReverseStamp(h) /\ job'[h].step = "told" /\ Stays(h)
    <3>1. PICK id \in Payments : id = job[h].id /\ job'[h].id = id
      BY <2>5, JobFields DEF Stays
    <3>2. row'[id] = Stamped(id, job[h].seen) /\ At(h, "stamp")
      BY <2>5, <3>1 DEF ReverseStamp, TypeOK
    <3>3. job[h].seen <=> (row[id].there /\ IdMatches(id))
      BY <2>0, <3>1, <3>2 DEF ReversalSound
    <3>4. Stamps(id) => row'[id].there /\ row'[id].reversed
      <4>1. CASE job[h].seen
        BY <3>2, <4>1 DEF Stamped
      <4>2. CASE ~job[h].seen /\ Stamps(id)
        <5>1. ~row[id].there
          BY <3>3, <4>2 DEF Stamps
        <5>. QED
          BY <3>2, <4>2, <5>1 DEF Stamped, Tombstone
      <4>. QED
        BY <4>1, <4>2
    <3>. QED
      BY <2>5, <3>1, <3>4 DEF ReversalSound, Marked
  <2>6. CASE ReverseBusy(h) /\ job'[h].step = "told" /\ Stays(h)
    <3>1. job'[h].id \in missed'
      BY <2>6 DEF ReverseBusy, Stays
    <3>. QED
      BY <2>6, <3>1 DEF ReversalSound
  <2>. QED
    BY <2>1, <2>2, <2>3, <2>4, <2>5, <2>6, HandlerMoves, IdleJob DEF HandlerMove
<1>. QED
  BY <1>1, <1>2 DEF ReversalsHold

\* A reversal of a stamping provider, once acknowledged, has left its mark, for
\* any number of concurrent deliveries: the lock closes the window between the
\* look-up and the stamp.
THEOREM ReturnsAreMarked == Spec => []ReturnedIsMarked
<1>1. Init => TypeOK /\ RowsAreReal /\ CreditedOnce /\ ReversalsHold
  BY TypeInit, RowsInit, ReversalsInit
<1>2. TypeOK /\ RowsAreReal /\ CreditedOnce /\ ReversalsHold /\ [Next]_vars =>
        (TypeOK /\ RowsAreReal /\ CreditedOnce /\ ReversalsHold)'
  BY TypeStep, RowsStep, ReversalsStep
<1>3. ReversalsHold => ReturnedIsMarked
  BY DEF ReversalsHold
<1>. QED
  BY <1>1, <1>2, <1>3, PTL DEF Spec

-----------------------------------------------------------------------------
(* Nobody is dropped in silence.                                           *)

\* What an acknowledged payment has to show.
Shown(id) == Credits(id) > 0 \/ row[id] = Tombstone \/ alerts[id] \cap {"refused", "reversed"} # {}

\* A delivery about to be answered has an outcome; where it names a row, the
\* row is there.  A payment that is due to a retrying provider is acknowledged
\* by an answer alone.
AnswerSound(h) ==
  At(h, "answer") =>
    /\ job[h].outcome # "none"
    /\ job[h].outcome \in {"credited", "idempotent", "crashed"} => row[job[h].id].there

AnswersHold == (\A h \in Handlers : AnswerSound(h)) /\ AcknowledgedIsAnswered

LEMMA RowShows ==
  ASSUME TypeOK, CreditedOnce, NEW id \in Payments, row[id].there
  PROVE  Credits(id) > 0 \/ row[id] = Tombstone
<1>1. Coins[id] \in Nat \ {0}
  BY PaymentsAssumption
<1>. QED
  BY <1>1 DEF CreditedOnce

LEMMA RowsStay ==
  ASSUME TypeOK, RowsAreReal, [Next]_vars, NEW id \in Payments, row[id].there
  PROVE  row'[id].there
<1>1. Unmoved(id) \/ MarkedNow(id)
  BY OneMove DEF CreditedNow, BarredNow
<1>. QED
  BY <1>1 DEF Unmoved, MarkedNow

\* The owner is never untold.
LEMMA AlertsGrow ==
  ASSUME TypeOK, [Next]_vars, NEW id \in Payments
  PROVE  alerts[id] \subseteq alerts'[id]
<1>1. ASSUME NEW k \in Handlers, Answer(k) \/ AnswerLost(k) PROVE alerts[id] \subseteq alerts'[id]
  BY <1>1 DEF Answer, AnswerLost, TypeOK
<1>2. ASSUME NEW k \in Handlers, ReverseTold(k) PROVE alerts[id] \subseteq alerts'[id]
  BY <1>2 DEF ReverseTold, TypeOK
<1>3. ASSUME NEW k \in Handlers,
             \/ Credit(k) \/ CreditRefused(k) \/ CreditCollides(k) \/ CreditBusy(k)
             \/ ReverseRead(k) \/ ReverseStamp(k) \/ ReverseBusy(k)
      PROVE  UNCHANGED alerts
  BY <1>3 DEF Credit, CreditRefused, CreditCollides, CreditBusy,
              ReverseRead, ReverseStamp, ReverseBusy
<1>4. ASSUME NEW k \in Handlers, NEW i \in Payments, Deliver(k, i) \/ Reverse(k, i)
      PROVE  UNCHANGED alerts
  BY <1>4 DEF Deliver, Reverse
<1>5. ASSUME NEW i \in Payments, Pay(i) \/ TakeBack(i) PROVE UNCHANGED alerts
  BY <1>5 DEF Pay, TakeBack
<1>6. ASSUME NEW u \in Users, Spend(u) PROVE UNCHANGED alerts
  BY <1>6 DEF Spend
<1>7. Crash \/ UNCHANGED vars => UNCHANGED alerts
  BY DEF Crash, vars
<1>. QED
  BY <1>1, <1>2, <1>3, <1>4, <1>5, <1>6, <1>7 DEF Next

\* How a delivery comes to be answered.
LEMMA Settling ==
  ASSUME TypeOK, [Next]_vars, NEW h \in Handlers, job'[h].step = "answer"
  PROVE  \/ job'[h] = job[h]
         \/ \E id \in Payments : Deliver(h, id)
         \/ Credit(h) \/ CreditRefused(h) \/ CreditCollides(h) \/ CreditBusy(h)
<1>0. job \in [Handlers -> Job]
  BY DEF TypeOK
<1>1. ASSUME NEW k \in Handlers, k # h,
             \/ Credit(k) \/ CreditRefused(k) \/ CreditCollides(k) \/ CreditBusy(k)
             \/ ReverseRead(k) \/ ReverseStamp(k) \/ ReverseBusy(k)
             \/ Answer(k) \/ AnswerLost(k) \/ ReverseTold(k)
      PROVE  job'[h] = job[h]
  BY <1>0, <1>1 DEF Credit, CreditRefused, CreditCollides, CreditBusy, ReverseRead,
     ReverseStamp, ReverseBusy, Answer, AnswerLost, ReverseTold
<1>2. Answer(h) \/ AnswerLost(h) \/ ReverseTold(h) => FALSE
  BY <1>0, IdleJob DEF Answer, AnswerLost, ReverseTold
<1>3. ReverseRead(h) => FALSE
  BY <1>0, JobFields DEF ReverseRead
<1>4. ReverseStamp(h) \/ ReverseBusy(h) => FALSE
  BY <1>0, JobFields DEF ReverseStamp, ReverseBusy
<1>5. ASSUME NEW k \in Handlers, NEW i \in Payments, Deliver(k, i) \/ Reverse(k, i)
      PROVE  job'[h] = job[h] \/ \E id \in Payments : Deliver(h, id)
  <2>1. k # h => job'[h] = job[h]
    BY <1>0, <1>5 DEF Deliver, Reverse
  <2>2. Reverse(h, i) => FALSE
    BY <1>0 DEF Reverse, Idle
  <2>. QED
    BY <1>5, <2>1, <2>2
<1>6. ASSUME NEW i \in Payments, Pay(i) \/ TakeBack(i) PROVE UNCHANGED job
  BY <1>6 DEF Pay, TakeBack
<1>7. ASSUME NEW u \in Users, Spend(u) PROVE UNCHANGED job
  BY <1>7 DEF Spend
<1>8. Crash => FALSE
  BY IdleJob DEF Crash
<1>9. UNCHANGED vars => UNCHANGED job
  BY DEF vars
<1>. QED
  BY <1>1, <1>2, <1>3, <1>4, <1>5, <1>6, <1>7, <1>8, <1>9 DEF Next

\* Only an answer acknowledges a payment to a provider that asks again.
LEMMA Acked ==
  ASSUME TypeOK, [Next]_vars, NEW id \in Payments, ~Once(id), paid'[id] = "acked"
  PROVE  \/ paid[id] = "acked"
         \/ \E h \in Handlers : Answer(h) /\ job[h].id = id /\ job[h].outcome \notin Retryable
<1>1. ASSUME NEW k \in Handlers, Answer(k)
      PROVE  paid[id] = "acked" \/ (job[k].id = id /\ job[k].outcome \notin Retryable)
  BY <1>1 DEF Answer, TypeOK
<1>2. ASSUME NEW k \in Handlers,
             \/ Credit(k) \/ CreditRefused(k) \/ CreditCollides(k) \/ CreditBusy(k)
             \/ AnswerLost(k)
             \/ ReverseRead(k) \/ ReverseStamp(k) \/ ReverseBusy(k) \/ ReverseTold(k)
      PROVE  UNCHANGED paid
  BY <1>2 DEF Credit, CreditRefused, CreditCollides, CreditBusy, AnswerLost,
              ReverseRead, ReverseStamp, ReverseBusy, ReverseTold
<1>3. ASSUME NEW k \in Handlers, NEW i \in Payments, Deliver(k, i) PROVE paid'[id] = paid[id]
  BY <1>3 DEF Deliver, TypeOK
<1>4. ASSUME NEW k \in Handlers, NEW i \in Payments, Reverse(k, i) PROVE UNCHANGED paid
  BY <1>4 DEF Reverse
<1>5. ASSUME NEW i \in Payments, Pay(i) PROVE paid'[id] = paid[id]
  BY <1>5 DEF Pay, TypeOK
<1>6. ASSUME NEW i \in Payments, TakeBack(i) PROVE UNCHANGED paid
  BY <1>6 DEF TakeBack
<1>7. ASSUME NEW u \in Users, Spend(u) PROVE UNCHANGED paid
  BY <1>7 DEF Spend
<1>8. Crash \/ UNCHANGED vars => UNCHANGED paid
  BY DEF Crash, vars
<1>. QED
  BY <1>1, <1>2, <1>3, <1>4, <1>5, <1>6, <1>7, <1>8 DEF Next

LEMMA AnswersInit == Init => AnswersHold
  BY IdleJob DEF Init, AnswersHold, AnswerSound, AcknowledgedIsAnswered

LEMMA AnswersStep ==
  TypeOK /\ RowsAreReal /\ CreditedOnce /\ AnswersHold /\ [Next]_vars => AnswersHold'
<1> SUFFICES ASSUME TypeOK, RowsAreReal, CreditedOnce, AnswersHold, [Next]_vars
             PROVE  AnswersHold'
  OBVIOUS
<1>1. ASSUME NEW h \in Handlers, job'[h].step = "answer"
      PROVE  /\ job'[h].outcome # "none"
             /\ job'[h].outcome \in {"credited", "idempotent", "crashed"} =>
                  row'[job'[h].id].there
  <2>0. /\ job \in [Handlers -> Job]
        /\ job[h] = [step |-> job[h].step, id |-> job[h].id,
                     outcome |-> job[h].outcome, seen |-> job[h].seen]
    BY JobFields DEF TypeOK
  <2>1. CASE job'[h] = job[h]
    <3>1. At(h, "answer") /\ job[h].id \in Payments
      BY <1>1, <2>1, JobFields
    <3>. QED
      BY <2>1, <3>1, RowsStay DEF AnswersHold, AnswerSound
  <2>2. ASSUME NEW id \in Payments, Deliver(h, id)
        PROVE  /\ job'[h].outcome # "none"
               /\ job'[h].outcome \in {"credited", "idempotent", "crashed"} =>
                    row'[job'[h].id].there
    <3>1. row[id].there
      BY <1>1, <2>0, <2>2 DEF Deliver, Idle
    <3>2. /\ job'[h].id = id
          /\ job'[h].outcome = IF row[id].credited = 0 THEN "reversed" ELSE "idempotent"
      BY <2>0, <2>2, <3>1 DEF Deliver, Idle
    <3>. QED
      BY <3>1, <3>2, RowsStay
  <2>3. CASE Credit(h)
    <3>1. PICK id \in Payments : id = job[h].id
      BY <2>3, JobFields DEF Credit
    <3>2. PICK b \in {WithCuts(id), CutRaised(id)} : row' = b.row
      BY <2>3, <3>1 DEF Credit
    <3>3. row' = [row EXCEPT ![id] = Processed(id)]
      BY <2>3, <3>1, <3>2, ToppingUp DEF Credit
    <3>4. row'[id].there
      BY <3>3 DEF Processed, TypeOK
    <3>5. job'[h].id = id /\ job'[h].outcome = "credited"
      BY <2>0, <2>3, <3>1 DEF Credit
    <3>. QED
      BY <3>4, <3>5
  <2>4. CASE CreditCollides(h)
    <3>1. PICK id \in Payments : id = job[h].id
      BY <2>4, JobFields DEF CreditCollides
    <3>2. row[id].there /\ job'[h].id = id /\ job'[h].outcome = "crashed"
      BY <2>0, <2>4, <3>1 DEF CreditCollides, KeyFree
    <3>. QED
      BY <3>2, RowsStay
  <2>5. CASE CreditRefused(h) \/ CreditBusy(h)
    <3>1. job'[h].outcome \in {"refused", "retry"}
      BY <2>0, <2>5 DEF CreditRefused, CreditBusy
    <3>. QED
      BY <3>1
  <2>. QED
    BY <1>1, <2>1, <2>2, <2>3, <2>4, <2>5, Settling
<1>2. ASSUME NEW id \in Payments, Shown(id) PROVE Shown(id)'
  <2>1. Unmoved(id) \/ CreditedNow(id) \/ MarkedNow(id) \/ BarredNow(id)
    BY OneMove
  <2>2. Credits(id) \in Nat /\ row[id] \in Rows
    BY DEF TypeOK, Credits, Kinds
  <2>3. CASE Credits(id) > 0
    BY <2>1, <2>2, <2>3 DEF Unmoved, CreditedNow, MarkedNow, BarredNow, Shown
  <2>4. CASE row[id] = Tombstone
    <3>1. row'[id] = Tombstone
      BY <2>1, <2>4 DEF Unmoved, CreditedNow, MarkedNow, BarredNow, Tombstone
    <3>. QED
      BY <3>1 DEF Shown
  <2>5. CASE alerts[id] \cap {"refused", "reversed"} # {}
    BY <2>5, AlertsGrow DEF Shown
  <2>. QED
    BY <1>2, <2>3, <2>4, <2>5 DEF Shown
<1>3. ASSUME NEW id \in Payments, ~Once(id), NEW h \in Handlers,
             Answer(h), job[h].id = id, job[h].outcome \notin Retryable
      PROVE  Shown(id) \/ Shown(id)'
  <2>1. /\ job[h].outcome \in Outcomes /\ job[h].outcome # "none"
        /\ job[h].outcome \in {"credited", "idempotent", "crashed"} => row[id].there
    BY <1>3, JobFields DEF Answer, AnswersHold, AnswerSound
  <2>2. CASE job[h].outcome \in {"credited", "idempotent", "crashed"}
    BY <2>1, <2>2, RowShows DEF Shown
  <2>3. CASE job[h].outcome \in {"refused", "reversed"}
    <3>1. job[h].outcome \in alerts'[id]
      BY <1>3, <2>3 DEF Answer, Announced, TypeOK
    <3>. QED
      BY <2>3, <3>1 DEF Shown
  <2>. QED
    BY <1>3, <2>1, <2>2, <2>3 DEF Outcomes, Retryable
<1>4. ASSUME NEW id \in Payments, ~Once(id), paid'[id] = "acked" PROVE Shown(id)'
  <2>1. CASE paid[id] = "acked"
    <3>1. Shown(id)
      BY <1>4, <2>1 DEF AnswersHold, AcknowledgedIsAnswered, Shown
    <3>. QED
      BY <1>2, <3>1
  <2>2. ASSUME NEW h \in Handlers, Answer(h), job[h].id = id, job[h].outcome \notin Retryable
        PROVE  Shown(id)'
    BY <1>2, <1>3, <1>4, <2>2
  <2>. QED
    BY <1>4, <2>1, <2>2, Acked
<1>. QED
  BY <1>1, <1>4 DEF AnswersHold, AnswerSound, AcknowledgedIsAnswered, Shown, Once

\* A payment acknowledged to a provider that would have asked again is credited,
\* barred by its reversal, or the owner was told, for any number of deliveries,
\* timeouts and crashes.
THEOREM AcknowledgedAlwaysAnswered == Spec => []AcknowledgedIsAnswered
<1>1. Init => TypeOK /\ RowsAreReal /\ CreditedOnce /\ AnswersHold
  BY TypeInit, RowsInit, AnswersInit
<1>2. TypeOK /\ RowsAreReal /\ CreditedOnce /\ AnswersHold /\ [Next]_vars =>
        (TypeOK /\ RowsAreReal /\ CreditedOnce /\ AnswersHold)'
  BY TypeStep, RowsStep, AnswersStep
<1>3. AnswersHold => AcknowledgedIsAnswered
  BY DEF AnswersHold
<1>. QED
  BY <1>1, <1>2, <1>3, PTL DEF Spec

-----------------------------------------------------------------------------
(* The books: every coin is on the ledger.                                 *)

Entries == Payments \X Kinds

LEMMA EntriesFinite == IsFiniteSet(Entries)
<1>1. IsFiniteSet({"purchase"} \cup {"referral"})
  BY FS_Singleton, FS_Union
<1>2. IsFiniteSet({"purchase"} \cup {"referral"} \cup {"system"})
  BY <1>1, FS_Singleton, FS_Union
<1>3. Kinds = {"purchase"} \cup {"referral"} \cup {"system"}
  BY DEF Kinds
<1>4. IsFiniteSet(Payments)
  BY PaymentsAssumption
<1>. QED
  BY <1>2, <1>3, <1>4, FS_Product DEF Entries

\* BooksBalance of any wallets and ledger, the ones of a step under way too.
Value(b)      == [e \in Entries |-> b.ledger[e] * Minted(e[1], e[2])]
Entered(b, u) == {e \in Entries : b.ledger[e] > 0 /\ Recipient(e[1], e[2]) = u}

Balanced(b) ==
  \A u \in Users :
    /\ b.wallet[u].balance = Worth(b.wallet[u], Welcome)
    /\ b.wallet[u].earned = SumOver(Value(b), Entered(b, u))

LEMMA ValueInt ==
  ASSUME NEW b \in BooksType
  PROVE  \A e \in Entries : Value(b)[e] \in Int /\ b.ledger[e] \in Nat
<1> SUFFICES ASSUME NEW e \in Entries PROVE Value(b)[e] \in Int /\ b.ledger[e] \in Nat
  OBVIOUS
<1>1. Minted(e[1], e[2]) \in Nat
  BY MintedNat DEF Entries
<1>2. b.ledger[e] \in Nat
  BY DEF BooksType, Entries
<1>3. b.ledger[e] * Minted(e[1], e[2]) \in Int
  BY <1>1, <1>2
<1>. QED
  BY <1>2, <1>3 DEF Value

LEMMA OneMore == \A l \in Nat, m \in Nat : (l + 1) * m = l * m + m /\ l * m \in Int /\ 0 * m = 0
  OBVIOUS

\* A minting credits a wallet with what its ledger row says.
LEMMA MintingBalances ==
  ASSUME NEW b \in BooksType, NEW id \in Payments, NEW kind \in Kinds, Balanced(b),
         Recipient(id, kind) \in Users,
         CanCredit(b.wallet[Recipient(id, kind)], Minted(id, kind))
  PROVE  Balanced(Mint(b, id, kind))
<1> DEFINE to == Recipient(id, kind)
           m == Minted(id, kind)
           c == Mint(b, id, kind)
           x == <<id, kind>>
<1>1. /\ c \in BooksType
      /\ c.ledger = [b.ledger EXCEPT ![x] = @ + 1]
  BY Minting
<1>2. c.wallet = [b.wallet EXCEPT ![to] = Credited(@, m)]
  BY DEF Mint
<1>3. m \in Nat /\ x \in Entries
  BY MintedNat DEF Entries
<1>4. /\ b.ledger \in [Entries -> Nat] /\ b.wallet \in [Users -> Wallets]
  BY DEF BooksType, Entries
<1>5. /\ c.ledger[x] = b.ledger[x] + 1
      /\ \A e \in Entries : e # x => c.ledger[e] = b.ledger[e]
  BY <1>1, <1>3, <1>4
<1>6. x[1] = id /\ x[2] = kind
  OBVIOUS
<1>7. /\ Value(b)[x] = b.ledger[x] * m /\ Value(c)[x] = (b.ledger[x] + 1) * m
      /\ \A e \in Entries : e # x => Value(c)[e] = Value(b)[e]
  <2>. HIDE DEF c, x
  <2>1. /\ Value(b)[x] = b.ledger[x] * m /\ Value(c)[x] = c.ledger[x] * m
    BY <1>3, <1>6 DEF Value
  <2>2. \A e \in Entries : e # x => Value(c)[e] = Value(b)[e]
    BY <1>5 DEF Value
  <2>. QED
    BY <1>5, <2>1, <2>2
<1> HIDE DEF c
<1>8. ASSUME NEW u \in Users
      PROVE  /\ SumOver(Value(b), Entered(b, u)) \in Int
             /\ SumOver(Value(c), Entered(c, u)) =
                  SumOver(Value(b), Entered(b, u)) + (IF u = to THEN m ELSE 0)
  <2> DEFINE A == Entered(b, u)
             B == Entered(c, u)
             f == Value(b)
             g == Value(c)
  <2>1. A \in SUBSET Entries /\ B \in SUBSET Entries
    BY DEF Entered
  <2>2. /\ \A y \in A : f[y] \in Int
        /\ \A y \in B : g[y] \in Int
        /\ \A y \in Entries : y # x => /\ y \in A <=> y \in B
                                       /\ y \in A => g[y] = f[y]
    BY <1>1, <1>5, <1>7, <2>1, ValueInt DEF Entered
  <2>3. /\ x \in A <=> (b.ledger[x] > 0 /\ u = to)
        /\ x \in B <=> u = to
    <3>1. b.ledger[x] \in Nat
      BY <1>3, <1>4
    <3>. HIDE DEF x, to
    <3>2. Recipient(x[1], x[2]) = to
      BY <1>6 DEF to
    <3>. QED
      BY <1>3, <1>5, <3>1, <3>2 DEF Entered
  <2>4. b.ledger[x] \in Nat /\ f[x] = b.ledger[x] * m /\ g[x] = (b.ledger[x] + 1) * m
    BY <1>3, <1>4, <1>7
  <2>. HIDE DEF A, B, f, g, x, m, to
  <2>5. /\ SumOver(f, A) \in Int
        /\ SumOver(g, B) = SumOver(f, A) + (IF x \in B THEN g[x] ELSE 0)
                                         - (IF x \in A THEN f[x] ELSE 0)
    BY <1>3, <2>1, <2>2, EntriesFinite, SumOfRows
  <2>6. (IF x \in B THEN g[x] ELSE 0) - (IF x \in A THEN f[x] ELSE 0)
          = IF u = to THEN m ELSE 0
    <3>1. /\ g[x] = f[x] + m /\ f[x] \in Int
          /\ b.ledger[x] = 0 => f[x] = 0
      BY <1>3, <2>4, OneMore
    <3>2. CASE u # to
      BY <2>3, <3>2
    <3>3. CASE u = to /\ b.ledger[x] > 0
      BY <1>3, <2>3, <3>1, <3>3
    <3>4. CASE u = to /\ b.ledger[x] = 0
      BY <1>3, <2>3, <3>1, <3>4
    <3>. QED
      BY <2>4, <3>2, <3>3, <3>4
  <2>7. /\ x \in B => g[x] \in Int
        /\ x \in A => f[x] \in Int
    BY <2>2
  <2>8. SumOver(g, B) = SumOver(f, A) + (IF u = to THEN m ELSE 0)
    BY <2>5, <2>6, <2>7
  <2>. QED
    BY <2>5, <2>8 DEF A, B, f, g
<1>9. ASSUME NEW u \in Users
      PROVE  /\ c.wallet[u].balance = Worth(c.wallet[u], Welcome)
             /\ c.wallet[u].earned = SumOver(Value(c), Entered(c, u))
  <2>1. /\ b.wallet[u].balance = Worth(b.wallet[u], Welcome)
        /\ b.wallet[u].earned = SumOver(Value(b), Entered(b, u))
        /\ b.wallet[u] \in Wallets
    BY <1>4 DEF Balanced
  <2>2. CASE u # to
    BY <1>2, <1>4, <1>8, <2>1, <2>2
  <2>3. CASE u = to
    <3>1. c.wallet[u] = Credited(b.wallet[u], m)
      BY <1>2, <1>4, <2>3
    <3>2. /\ c.wallet[u].balance = b.wallet[u].balance + m
          /\ c.wallet[u].earned = b.wallet[u].earned + m
          /\ c.wallet[u].spent = b.wallet[u].spent
      BY <2>1, <3>1 DEF Credited, Released, Wallets
    <3>3. /\ b.wallet[u].balance \in Nat /\ b.wallet[u].earned \in Nat
          /\ b.wallet[u].spent \in Nat /\ Welcome \in Nat
      BY <2>1, MaxAmountAssumption, PaymentsAssumption DEF Wallets
    <3>. HIDE DEF m, to
    <3>4. c.wallet[u].balance = Worth(c.wallet[u], Welcome)
      BY <1>3, <2>1, <3>2, <3>3 DEF Worth
    <3>5. c.wallet[u].earned = SumOver(Value(c), Entered(c, u))
      BY <1>8, <2>1, <2>3, <3>2
    <3>. QED
      BY <3>4, <3>5
  <2>. QED
    BY <2>2, <2>3
<1>. QED
  BY <1>9 DEF Balanced, c

\* A commission that pays leaves its row, one that does not leaves nothing.
LEMMA CuttingBalances ==
  ASSUME NEW b \in BooksType, NEW id \in Payments, NEW kind \in {"referral", "system"},
         Balanced(b)
  PROVE  Balanced(WithCut(b, id, kind))
<1>1. CASE PaysCut(b, id, kind)
  <2>1. Recipient(id, kind) \in Users
    BY <1>1, PaymentsAssumption DEF PaysCut, Recipient
  <2>2. kind \in Kinds
    BY DEF Kinds
  <2>3. Balanced(Mint(b, id, kind))
    BY <1>1, <2>1, <2>2, MintingBalances DEF PaysCut
  <2>. QED
    BY <1>1, <2>3 DEF WithCut
<1>. QED
  BY <1>1 DEF WithCut

LEMMA ToppingUpBalances ==
  ASSUME TypeOK, BooksBalance, NEW id \in Payments, InReach(id),
         NEW b \in {WithCuts(id), CutRaised(id)}
  PROVE  Balanced(b)
<1> DEFINE r == [row EXCEPT ![id] = Processed(id)]
           books == [wallet |-> wallet, ledger |-> ledger, row |-> r]
<1>1. Processed(id) \in Rows
  BY PaymentsAssumption DEF Processed, Rows
<1>2. books \in BooksType
  BY <1>1 DEF BooksType, TypeOK
<1>3. Balanced(books)
  <2>1. books.wallet = wallet /\ books.ledger = ledger
    OBVIOUS
  <2>. HIDE DEF books
  <2>. QED
    BY <2>1 DEF Balanced, BooksBalance, Value, Entered, Received, Entries
<1>4. TopUp(id) = Mint(books, id, "purchase")
  BY DEF TopUp, Books
<1>5. /\ Recipient(id, "purchase") \in Users /\ "purchase" \in Kinds
      /\ CanCredit(books.wallet[Recipient(id, "purchase")], Minted(id, "purchase"))
  BY PaymentsAssumption DEF Recipient, Minted, InReach, Kinds
<1>. HIDE DEF books
<1>6. Balanced(TopUp(id)) /\ TopUp(id) \in BooksType
  <2>1. Mint(books, id, "purchase") \in BooksType
    BY <1>2, <1>5, Minting
  <2>2. Balanced(Mint(books, id, "purchase"))
    BY <1>2, <1>3, <1>5, MintingBalances
  <2>. QED
    BY <1>4, <2>1, <2>2
<1>7. /\ WithCut(TopUp(id), id, "referral") \in BooksType
      /\ Balanced(WithCut(TopUp(id), id, "referral"))
  BY <1>6, Cutting, CuttingBalances
<1>8. Balanced(WithCuts(id))
  BY <1>7, CuttingBalances DEF WithCuts
<1>. QED
  BY <1>6, <1>8 DEF CutRaised

LEMMA BalanceInit == Init => BooksBalance
<1> SUFFICES ASSUME Init, NEW u \in Users
             PROVE  /\ wallet[u].balance = Worth(wallet[u], Welcome)
                    /\ wallet[u].earned =
                         SumOver([e \in Payments \X Kinds |-> ledger[e] * Minted(e[1], e[2])],
                                 Received(u))
  BY DEF BooksBalance
<1>1. Received(u) = {}
  BY DEF Init, Received
<1>2. wallet[u] = Seeded(Welcome) /\ Welcome \in Int
  BY PaymentsAssumption, MaxAmountAssumption DEF Init
<1>. QED
  BY <1>1, <1>2, SumEmpty DEF Seeded, Worth

LEMMA BalanceStep == TypeOK /\ BooksBalance /\ [Next]_vars => BooksBalance'
<1> SUFFICES ASSUME TypeOK, BooksBalance, [Next]_vars PROVE BooksBalance'
  OBVIOUS
<1>1. ASSUME UNCHANGED <<wallet, ledger>> PROVE BooksBalance'
  BY <1>1 DEF BooksBalance, Received
<1>2. ASSUME NEW h \in Handlers, Credit(h) PROVE BooksBalance'
  <2>1. PICK id \in Payments : id = job[h].id
    BY <1>2, JobFields DEF Credit
  <2>2. PICK b \in {WithCuts(id), CutRaised(id)} : wallet' = b.wallet /\ ledger' = b.ledger
    BY <1>2, <2>1 DEF Credit
  <2>3. Balanced(b)
    BY <1>2, <2>1, ToppingUpBalances DEF Credit
  <2>. QED
    BY <2>2, <2>3 DEF Balanced, BooksBalance, Value, Entered, Received, Entries
<1>3. ASSUME NEW v \in Users, Spend(v) PROVE BooksBalance'
  <2>1. /\ wallet' = [wallet EXCEPT ![v] = Debited(wallet[v], 1)] /\ ledger' = ledger
        /\ wallet \in [Users -> Wallets] /\ wallet[v] \in Wallets
    BY <1>3 DEF Spend, TypeOK
  <2>2. /\ wallet[v].balance \in Int /\ wallet[v].earned \in Int
        /\ wallet[v].spent \in Int /\ Welcome \in Int
    <3>1. Welcome \in Int
      BY MaxAmountAssumption, PaymentsAssumption
    <3>. QED
      BY <2>1, <3>1, MaxAmountAssumption DEF Wallets
  <2>3. /\ wallet'[v].balance = wallet[v].balance - 1
        /\ wallet'[v].earned = wallet[v].earned
        /\ wallet'[v].spent = wallet[v].spent + 1
    BY <2>1 DEF Debited, Held, Wallets
  <2>4. \A u \in Users : u # v => wallet'[u] = wallet[u]
    BY <2>1
  <2>5. \A u \in Users : wallet'[u].balance = Worth(wallet'[u], Welcome)
    <3>1. wallet[v].balance = Worth(wallet[v], Welcome)
      BY DEF BooksBalance
    <3>2. wallet'[v].balance = Worth(wallet'[v], Welcome)
      BY <2>2, <2>3, <3>1 DEF Worth
    <3>. QED
      BY <2>4, <3>2 DEF BooksBalance
  <2>6. \A u \in Users : wallet'[u].earned = wallet[u].earned
    BY <2>3, <2>4
  <2>7. \A u \in Users : Received(u)' = Received(u)
    BY <2>1 DEF Received
  <2>. QED
    BY <2>1, <2>5, <2>6, <2>7 DEF BooksBalance
<1>4. ASSUME NEW k \in Handlers,
             \/ CreditRefused(k) \/ CreditCollides(k) \/ CreditBusy(k)
             \/ Answer(k) \/ AnswerLost(k)
             \/ ReverseRead(k) \/ ReverseStamp(k) \/ ReverseBusy(k) \/ ReverseTold(k)
      PROVE  UNCHANGED <<wallet, ledger>>
  BY <1>4 DEF CreditRefused, CreditCollides, CreditBusy, Answer, AnswerLost,
              ReverseRead, ReverseStamp, ReverseBusy, ReverseTold
<1>5. ASSUME NEW k \in Handlers, NEW i \in Payments, Deliver(k, i) \/ Reverse(k, i)
      PROVE  UNCHANGED <<wallet, ledger>>
  BY <1>5 DEF Deliver, Reverse
<1>6. ASSUME NEW i \in Payments, Pay(i) \/ TakeBack(i) PROVE UNCHANGED <<wallet, ledger>>
  BY <1>6 DEF Pay, TakeBack
<1>7. Crash \/ UNCHANGED vars => UNCHANGED <<wallet, ledger>>
  BY DEF Crash, vars
<1>. QED
  BY <1>1, <1>2, <1>3, <1>4, <1>5, <1>6, <1>7 DEF Next

-----------------------------------------------------------------------------
(* The deposit figure behind the withdrawal gates.                         *)

LEMMA DepositsCount ==
  ASSUME TypeOK, RowsAreReal, CreditedOnce, ReturnedIsMarked
  PROVE  ReturnedMoneyFundsNothing
<1> SUFFICES ASSUME NEW u \in Users
             PROVE  LifetimeDeposits(u) =
                      SumOver(Coins, {id \in Payments : /\ Payer[id] = u
                                                        /\ Credits(id) > 0
                                                        /\ ~row[id].reversed
                                                        /\ ~Returned(id)})
  BY DEF ReturnedMoneyFundsNothing
<1> DEFINE P == {id \in Payments : Payer[id] = u}
           R == {id \in Payments : Payer[id] = u /\ row[id].reversed}
           G == {id \in Payments : /\ Payer[id] = u /\ Credits(id) > 0
                                   /\ ~row[id].reversed /\ ~Returned(id)}
           bought == [id \in Payments |-> Credits(id) * Coins[id]]
           credited == [id \in Payments |-> row[id].credited]
           back == [id \in P |-> IF id \in R THEN credited[id] ELSE 0]
           stays == [id \in P |-> IF id \in G THEN Coins[id] ELSE 0]
<1>1. IsFiniteSet(P) /\ R \in SUBSET P /\ G \in SUBSET P
  BY PaymentsAssumption, FS_Subset
<1>2. ASSUME NEW id \in P
      PROVE  /\ back[id] \in Nat /\ stays[id] \in Nat /\ credited[id] \in Nat
             /\ bought[id] = back[id] + stays[id]
  <2>1. /\ row[id].credited \in Nat /\ row[id].reversed \in BOOLEAN
        /\ row[id].there \in BOOLEAN
        /\ Coins[id] \in Nat \ {0}
    BY PaymentsAssumption DEF TypeOK, Rows
  <2>2. Credits(id) = IF row[id].credited > 0 THEN 1 ELSE 0
    BY DEF CreditedOnce
  <2>3. row[id].credited \in {0, Coins[id]}
    BY DEF CreditedOnce, RowsAreReal, Tombstone, NoRow
  <2>4. bought[id] = row[id].credited
    BY <2>1, <2>2, <2>3
  <2>5. CASE row[id].reversed
    BY <2>1, <2>4, <2>5
  <2>6. CASE ~row[id].reversed
    <3>1. ~Returned(id)
      BY <2>6 DEF ReturnedIsMarked
    <3>2. id \in G <=> Credits(id) > 0
      BY <2>6, <3>1
    <3>3. id \notin R
      BY <2>6
    <3>. HIDE DEF G, R
    <3>. QED
      BY <2>1, <2>2, <2>3, <2>4, <3>2, <3>3
  <2>. QED
    BY <2>5, <2>6
<1>3. /\ \A id \in R : credited[id] \in Int
      /\ \A id \in G : Coins[id] \in Int
      /\ \A id \in P : back[id] = IF id \in R THEN credited[id] ELSE 0
      /\ \A id \in P : stays[id] = IF id \in G THEN Coins[id] ELSE 0
  BY <1>2, PaymentsAssumption
<1>4. LifetimeDeposits(u) =
        IF SumOver(bought, P) > SumOver(credited, R)
        THEN SumOver(bought, P) - SumOver(credited, R) ELSE 0
  BY DEF LifetimeDeposits, Purchases, ReversedCredits
<1> HIDE DEF P, R, G, bought, credited, back, stays
<1>5. SumOver(back, P) = SumOver(credited, R) /\ SumOver(stays, P) = SumOver(Coins, G)
  BY <1>1, <1>3, SumWhere
<1>6. SumOver(bought, P) = SumOver(back, P) + SumOver(stays, P)
  BY <1>1, <1>2, SumPlus
<1>7. SumOver(back, P) \in Nat /\ SumOver(stays, P) \in Nat
  BY <1>1, <1>2, SumNat
<1>8. LifetimeDeposits(u) = SumOver(Coins, G)
  BY <1>4, <1>5, <1>6, <1>7
<1>. QED
  BY <1>8 DEF G

\* Every coin is on the ledger and returned money funds no withdrawal, for any
\* payments, wiring and percentages, however deliveries, reversals and crashes
\* interleave.
THEOREM BooksAlwaysAgree == Spec => []BooksAgree
<1>1. Init => TypeOK /\ RowsAreReal /\ CreditedOnce /\ ReversalsHold /\ BooksBalance
  BY TypeInit, RowsInit, ReversalsInit, BalanceInit
<1>2. TypeOK /\ RowsAreReal /\ CreditedOnce /\ ReversalsHold /\ BooksBalance /\ [Next]_vars =>
        (TypeOK /\ RowsAreReal /\ CreditedOnce /\ ReversalsHold /\ BooksBalance)'
  BY TypeStep, RowsStep, ReversalsStep, BalanceStep
<1>3. TypeOK /\ RowsAreReal /\ CreditedOnce /\ ReversalsHold /\ BooksBalance => BooksAgree
  BY DepositsCount DEF ReversalsHold, BooksAgree
<1>. QED
  BY <1>1, <1>2, <1>3, PTL DEF Spec
=============================================================================
