------------------------------ MODULE Payments ------------------------------
(***************************************************************************)
(* Real money into coins: PaymentsService.handle_event and the reversal    *)
(* audit behind the payment webhooks and the Telegram Stars updates, over  *)
(* the wallets, the ledger and the idempotency table processed_webhooks of *)
(* economy.db.                                                             *)
(*                                                                         *)
(* A handler is one delivery being served.  Its first read runs outside    *)
(* any transaction; the credit and everything after it is one transaction  *)
(* of the single writer, hence one action.  The reversal takes the writer  *)
(* lock first and reads and stamps under it, in two actions.               *)
(***************************************************************************)
EXTENDS Wallet, FiniteSets, FiniteSetsExt

CONSTANTS
  Users, Payments, Handlers,
  None,               \* no handler, user or payment
  ProviderOf,         \* payment -> "rollypay", "yookassa", "stripe" or "stars"
  Payer, Coins,       \* payment -> its buyer and the coins it buys
  Inviter,            \* user -> who referred him, or None
  Developer,          \* the owner's wallet (ADMIN_CHAT_ID), or None
  ReferralPercent, DeveloperPercent,
  Welcome,
  MaxSpent,           \* bound: coins a user spends elsewhere
  MaxFaults           \* bound: database timeouts and crashes together

Providers == {"rollypay", "yookassa", "stripe", "stars"}

ASSUME PaymentsAssumption ==
  /\ None \notin Users \cup Payments \cup Handlers
  /\ IsFiniteSet(Payments)
  /\ ProviderOf \in [Payments -> Providers]
  /\ Payer \in [Payments -> Users]
  /\ Coins \in [Payments -> Nat \ {0}]
  /\ Inviter \in [Users -> Users \cup {None}]
  /\ Developer \in Users \cup {None}
  /\ ReferralPercent \in Nat /\ DeveloperPercent \in Nat
  /\ Welcome \in 0..MaxAmount
  /\ MaxSpent \in Nat /\ MaxFaults \in Nat

Kinds == {"purchase", "referral", "system"}     \* ledger types of a top-up

VARIABLES
  wallet,     \* economy.users
  ledger,     \* transactions: how many rows of each kind a payment produced
  row,        \* processed_webhooks, by (provider, external_id)
  writer,     \* the handler inside BEGIN IMMEDIATE, or None
  job,        \* what each handler serves
  paid,       \* the provider's side of a payment: unpaid, due, acked
  refund,     \* the provider's side of its reversal: none, due, acked
  alerts,     \* what the owner has been told of a payment
  missed,     \* reversals whose stamp a busy database swallowed
  faults      \* bounded by MaxFaults

db       == <<wallet, ledger, row>>
provider == <<paid, refund>>
vars     == <<wallet, ledger, row, writer, job, paid, refund, alerts, missed, faults>>

Rows  == [there : BOOLEAN, credited : Nat, reversed : BOOLEAN]
NoRow == [there |-> FALSE, credited |-> 0, reversed |-> FALSE]
Tombstone == [there |-> TRUE, credited |-> 0, reversed |-> TRUE]

Outcomes == {"none", "credited", "idempotent", "reversed", "refused", "retry", "crashed"}
Steps == {"idle", "credit", "answer", "reverse", "stamp", "told"}
Job  ==
  {j \in [step : Steps, id : Payments \cup {None}, outcome : Outcomes, seen : BOOLEAN] :
     j.step # "idle" => j.id \in Payments}
Idle == [step |-> "idle", id |-> None, outcome |-> "none", seen |-> FALSE]

Once(id)          == ProviderOf[id] = "stars"           \* never redelivered
Authenticated(id) == ProviderOf[id] # "yookassa"
IdMatches(id)     == ProviderOf[id] # "stripe"          \* _REVERSAL_ID_MATCHES_CREDIT
Stamps(id)        == Authenticated(id) /\ IdMatches(id)

At(h, step)     == job[h].step = step
Finish(h)       == job' = [job EXCEPT ![h] = Idle]
Settle(h, outcome) == job' = [job EXCEPT ![h].step = "answer", ![h].outcome = outcome]

Init ==
  /\ wallet = [u \in Users |-> Seeded(Welcome)]
  /\ ledger = [entry \in Payments \X Kinds |-> 0]
  /\ row = [id \in Payments |-> NoRow]
  /\ writer = None
  /\ job = [h \in Handlers |-> Idle]
  /\ paid = [id \in Payments |-> "unpaid"]
  /\ refund = [id \in Payments |-> "none"]
  /\ alerts = [id \in Payments |-> {}]
  /\ missed = {}
  /\ faults = 0

-----------------------------------------------------------------------------
(* The provider: a payment settles, and later the money may be returned.   *)

Pay(id) ==
  /\ paid[id] = "unpaid"
  /\ paid' = [paid EXCEPT ![id] = "due"]
  /\ UNCHANGED <<db, writer, job, refund, alerts, missed, faults>>

TakeBack(id) ==
  /\ paid[id] # "unpaid" /\ refund[id] = "none"
  /\ refund' = [refund EXCEPT ![id] = "due"]
  /\ UNCHANGED <<db, writer, job, paid, alerts, missed, faults>>

-----------------------------------------------------------------------------
(* A paid delivery: the unlocked is_processed read.  A row without credit  *)
(* is the tombstone of a reversal.                                         *)

Deliver(h, id) ==
  /\ At(h, "idle") /\ paid[id] = "due"
  /\ paid' = IF Once(id) THEN [paid EXCEPT ![id] = "acked"] ELSE paid
  /\ job' = [job EXCEPT ![h] =
       IF ~row[id].there THEN [Idle EXCEPT !.step = "credit", !.id = id]
       ELSE [Idle EXCEPT !.step = "answer", !.id = id, !.outcome =
               IF row[id].credited = 0 THEN "reversed" ELSE "idempotent"]]
  /\ UNCHANGED <<db, writer, refund, alerts, missed, faults>>

(* The commissions of a top-up, each credited if it has a recipient whose  *)
(* balance can take it.                                                    *)
Commission(coins, percent) == LET cut == (coins * percent) \div 100
                              IN  IF cut > 0 THEN cut ELSE 1

Recipient(id, kind) ==
  CASE kind = "purchase" -> Payer[id]
    [] kind = "referral" -> IF ReferralPercent > 0 THEN Inviter[Payer[id]] ELSE None
    [] kind = "system"   -> IF DeveloperPercent > 0 THEN Developer ELSE None

Minted(id, kind) ==
  CASE kind = "purchase" -> Coins[id]
    [] kind = "referral" -> Commission(Coins[id], ReferralPercent)
    [] kind = "system"   -> Commission(Coins[id], DeveloperPercent)

PaysCut(books, id, kind) ==
  /\ Recipient(id, kind) \notin {None, Payer[id]}
  /\ CanCredit(books.wallet[Recipient(id, kind)], Minted(id, kind))

Mint(books, id, kind) ==
  [wallet |-> [books.wallet EXCEPT ![Recipient(id, kind)] = Credited(@, Minted(id, kind))],
   ledger |-> [books.ledger EXCEPT ![<<id, kind>>] = @ + 1],
   row    |-> books.row]

WithCutMutant(books, id, kind) ==      \* mutant: the ledger row goes first
  [(IF PaysCut(books, id, kind) THEN Mint(books, id, kind) ELSE books)
     EXCEPT !.ledger[<<id, kind>>] = 1]

WithCut(books, id, kind) ==
  IF PaysCut(books, id, kind) THEN Mint(books, id, kind) ELSE books

Books == [wallet |-> wallet, ledger |-> ledger, row |-> row]

Processed(id) == [there |-> TRUE, credited |-> Coins[id], reversed |-> FALSE]

TopUp(id) == Mint([Books EXCEPT !.row = [@ EXCEPT ![id] = Processed(id)]], id, "purchase")

(* What a commission that raised leaves behind: the SAVEPOINT unwinds the  *)
(* commission and the top-up stays.                                        *)
CutRaisedMutant(id) == Books        \* mutant: no SAVEPOINT, the top-up goes too

CutRaised(id) == TopUp(id)

WithCuts(id) == WithCut(WithCut(TopUp(id), id, "referral"), id, "system")

KeyFreeMutant(id) == TRUE                     \* mutant: no PRIMARY KEY

KeyFree(id) == ~row[id].there

InReach(id) == CanCredit(wallet[Payer[id]], Coins[id])

Credit(h) ==
  LET id == job[h].id
  IN  /\ At(h, "credit") /\ writer = None /\ InReach(id) /\ KeyFree(id)
      /\ \E books \in {WithCuts(id), CutRaised(id)} :
           /\ wallet' = books.wallet
           /\ ledger' = books.ledger
           /\ row' = books.row
      /\ Settle(h, "credited")
      /\ UNCHANGED <<writer, provider, alerts, missed, faults>>

(* The balance ceiling refuses: terminal, acknowledged, nothing written.   *)
CreditRefused(h) ==
  /\ At(h, "credit") /\ writer = None /\ ~InReach(job[h].id)
  /\ Settle(h, "refused")
  /\ UNCHANGED <<db, writer, provider, alerts, missed, faults>>

(* mark_processed collides with a row committed since the first read: the  *)
(* IntegrityError rolls the credit back and is not retryable.              *)
CreditCollides(h) ==
  /\ At(h, "credit") /\ writer = None /\ InReach(job[h].id) /\ ~KeyFree(job[h].id)
  /\ Settle(h, "crashed")
  /\ UNCHANGED <<db, writer, provider, alerts, missed, faults>>

(* OperationalError: SQLite stayed locked past busy_timeout.               *)
CreditBusy(h) ==
  /\ At(h, "credit") /\ faults < MaxFaults
  /\ faults' = faults + 1
  /\ Settle(h, "retry")
  /\ UNCHANGED <<db, writer, provider, alerts, missed>>

-----------------------------------------------------------------------------
(* The answer.  The owner is told of a terminal refusal and of a payment   *)
(* that came after its reversal; for Stars, where nobody will ask again,   *)
(* of a crash too.  A 5xx, or an answer that gets lost, leaves the webhook *)
(* due.                                                                    *)

Announced(id) == {"refused", "reversed"} \cup (IF Once(id) THEN {"retry", "crashed"} ELSE {})

RetryableMutant == {"retry", "refused"}   \* mutant: a refusal is answered 503

Retryable == {"retry"}           \* answered 503; every other outcome is a 200

Answer(h) ==
  LET id == job[h].id  outcome == job[h].outcome
  IN  /\ At(h, "answer")
      /\ alerts' = [alerts EXCEPT ![id] = @ \cup ({outcome} \cap Announced(id))]
      /\ paid' = IF outcome \in Retryable THEN paid ELSE [paid EXCEPT ![id] = "acked"]
      /\ Finish(h)
      /\ UNCHANGED <<db, writer, refund, missed, faults>>

AnswerLost(h) ==
  LET id == job[h].id
  IN  /\ At(h, "answer")
      /\ alerts' = [alerts EXCEPT ![id] = @ \cup ({job[h].outcome} \cap Announced(id))]
      /\ Finish(h)
      /\ UNCHANGED <<db, writer, provider, missed, faults>>

-----------------------------------------------------------------------------
(* A reversal: _alert_reversal looks the credit up and, when the event is  *)
(* authenticated, stamps it under the writer lock; a payment not credited  *)
(* yet gets a tombstone.  Stripe reverses under another id and finds       *)
(* nothing.  The database failing is swallowed: the alert goes out without *)
(* the stamp.                                                              *)

Reverse(h, id) ==
  /\ At(h, "idle") /\ refund[id] = "due"
  /\ job' = [job EXCEPT ![h] = [Idle EXCEPT !.id = id, !.step =
               IF Authenticated(id) THEN "reverse" ELSE "told"]]
  /\ UNCHANGED <<db, writer, provider, alerts, missed, faults>>

TakeLockMutant(h) == UNCHANGED writer    \* mutant: the read is not under the lock

TakeLock(h) == writer' = h                            \* lock_writer

ReverseRead(h) ==
  LET id == job[h].id
  IN  /\ At(h, "reverse") /\ writer = None
      /\ TakeLock(h)
      /\ job' = [job EXCEPT ![h].step = "stamp", ![h].seen = row[id].there /\ IdMatches(id)]
      /\ UNCHANGED <<db, provider, alerts, missed, faults>>

Release(h) == writer' = None

(* mark_reversed and the commit.  A row inserted since the read makes the  *)
(* tombstone collide, and the reversal is swallowed.                       *)
Stamped(id, seen) ==
  IF seen THEN [there |-> TRUE, credited |-> row[id].credited, reversed |-> TRUE]
  ELSE IF Stamps(id) /\ ~row[id].there THEN Tombstone
  ELSE row[id]

ReverseStamp(h) ==
  LET id == job[h].id
  IN  /\ At(h, "stamp")
      /\ row' = [row EXCEPT ![id] = Stamped(id, job[h].seen)]
      /\ Release(h)
      /\ job' = [job EXCEPT ![h].step = "told"]
      /\ UNCHANGED <<wallet, ledger, provider, alerts, missed, faults>>

ReverseBusy(h) ==
  LET id == job[h].id
  IN  /\ At(h, "reverse") /\ faults < MaxFaults
      /\ faults' = faults + 1
      /\ missed' = missed \cup {id}
      /\ job' = [job EXCEPT ![h].step = "told"]
      /\ UNCHANGED <<db, writer, provider, alerts>>

ReverseTold(h) ==
  LET id == job[h].id
  IN  /\ At(h, "told")
      /\ \/ alerts' = [alerts EXCEPT ![id] = @ \cup {"reversal"}]
         \/ ~Authenticated(id) /\ UNCHANGED alerts      \* hourly budget spent (#228)
      /\ refund' = [refund EXCEPT ![id] = "acked"]
      /\ Finish(h)
      /\ UNCHANGED <<db, writer, paid, missed, faults>>

-----------------------------------------------------------------------------
(* TransactionsRepo.lifetime_deposits and reversed_credits, the figure     *)
(* behind both withdrawal gates.                                           *)
Credits(id) == ledger[<<id, "purchase">>]

Purchases(u) ==
  SumOver([id \in Payments |-> Credits(id) * Coins[id]], {id \in Payments : Payer[id] = u})

ReversedCredits(u) ==
  SumOver([id \in Payments |-> row[id].credited],
          {id \in Payments : Payer[id] = u /\ row[id].reversed})

LifetimeDeposits(u) ==
  IF Purchases(u) > ReversedCredits(u) THEN Purchases(u) - ReversedCredits(u) ELSE 0

-----------------------------------------------------------------------------
(* Ordinary spending, and a crash of the process: every handler dies, an   *)
(* open transaction rolls back, the providers ask again.                   *)

Spend(u) ==
  /\ writer = None /\ CanDebit(wallet[u], 1) /\ wallet[u].spent < MaxSpent
  /\ wallet' = [wallet EXCEPT ![u] = Debited(@, 1)]
  /\ UNCHANGED <<ledger, row, writer, job, provider, alerts, missed, faults>>

Crash ==
  /\ faults < MaxFaults
  /\ faults' = faults + 1
  /\ writer' = None
  /\ job' = [h \in Handlers |-> Idle]
  /\ UNCHANGED <<db, provider, alerts, missed>>

Next ==
  \/ \E id \in Payments : Pay(id) \/ TakeBack(id)
  \/ \E h \in Handlers, id \in Payments : Deliver(h, id) \/ Reverse(h, id)
  \/ \E h \in Handlers :
       \/ Credit(h) \/ CreditRefused(h) \/ CreditCollides(h) \/ CreditBusy(h)
       \/ Answer(h) \/ AnswerLost(h)
       \/ ReverseRead(h) \/ ReverseStamp(h) \/ ReverseBusy(h) \/ ReverseTold(h)
  \/ \E u \in Users : Spend(u)
  \/ Crash

Spec == Init /\ [][Next]_vars

(* A handler's own steps run to the end (the event loop); a webhook that   *)
(* is due is delivered and answered unless that fails for ever (the        *)
(* provider's retry ladder).                                               *)
FairSpec ==
  /\ Spec
  /\ \A h \in Handlers :
       /\ SF_vars(Credit(h) \/ CreditRefused(h) \/ CreditCollides(h))
       /\ WF_vars(Answer(h) \/ AnswerLost(h))
       /\ SF_vars(ReverseRead(h)) /\ WF_vars(ReverseStamp(h)) /\ WF_vars(ReverseTold(h))
  /\ \A id \in Payments :
       /\ SF_vars(\E h \in Handlers : Deliver(h, id))
       /\ SF_vars(\E h \in Handlers : Reverse(h, id))
       /\ SF_vars(\E h \in Handlers : Answer(h) /\ job[h].id = id)

-----------------------------------------------------------------------------
(* Properties.                                                             *)

TypeOK ==
  /\ wallet \in [Users -> Wallets]
  /\ ledger \in [Payments \X Kinds -> Nat]
  /\ row \in [Payments -> Rows]
  /\ writer \in Handlers \cup {None}
  /\ job \in [Handlers -> Job]
  /\ paid \in [Payments -> {"unpaid", "due", "acked"}]
  /\ refund \in [Payments -> {"none", "due", "acked"}]
  /\ alerts \in [Payments -> SUBSET (Outcomes \cup {"reversal"})]
  /\ missed \subseteq Payments
  /\ faults \in 0..MaxFaults

\* However deliveries, reversals and crashes interleave, a payment is credited
\* at most once, and its processed_webhooks row says so: the credit and the
\* row commit together.
CreditedOnce ==
  \A id \in Payments :
    /\ Credits(id) = IF row[id].credited > 0 THEN 1 ELSE 0
    /\ row[id].there => row[id].credited = Coins[id] \/ row[id] = Tombstone

Received(u) ==
  {entry \in Payments \X Kinds : ledger[entry] > 0 /\ Recipient(entry[1], entry[2]) = u}

\* Every coin in a wallet is on the ledger: a commission that fails half-way
\* leaves no coin behind, and one that pays leaves its row.
BooksBalance ==
  \A u \in Users :
    /\ wallet[u].balance = Worth(wallet[u], Welcome)
    /\ wallet[u].earned =
         SumOver([e \in Payments \X Kinds |-> ledger[e] * Minted(e[1], e[2])], Received(u))

Returned(id) == refund[id] = "acked" /\ Stamps(id) /\ id \notin missed

\* Money a stamping provider took back counts for nothing at the withdrawal
\* gates once its reversal is acknowledged, whichever of payment and reversal
\* was served first, unless the database was busy for that reversal.
ReturnedMoneyFundsNothing ==
  \A u \in Users :
    LifetimeDeposits(u) =
      SumOver(Coins, {id \in Payments : /\ Payer[id] = u
                                        /\ Credits(id) > 0
                                        /\ ~row[id].reversed
                                        /\ ~Returned(id)})

\* Every variable in its set, every coin on the ledger, and the deposit figure
\* behind the withdrawal gates is what was paid and not returned.
BooksAgree == TypeOK /\ BooksBalance /\ ReturnedMoneyFundsNothing

\* The heart of it: an acknowledged reversal has left its mark on the row,
\* although a paid delivery of the same payment may commit at any moment of
\* the reversal's look-up.
ReturnedIsMarked ==
  \A id \in Payments : Returned(id) => row[id].there /\ row[id].reversed

\* A payment the bot acknowledged is credited, barred by its reversal, or the
\* owner was told: no payer is dropped in silence.
AcknowledgedIsAnswered ==
  \A id \in Payments :
    paid[id] = "acked" /\ ~Once(id) =>
      \/ Credits(id) > 0 \/ row[id] = Tombstone
      \/ alerts[id] \cap {"refused", "reversed"} # {}

\* #226 asks for more: a payment refused because its reversal came first is
\* announced to the owner as one ("it must never be a silent one").
BarredPaymentIsAnnounced ==
  \A id \in Payments :
    paid[id] = "acked" /\ ~Once(id) /\ row[id] = Tombstone =>
      alerts[id] \cap {"refused", "reversed"} # {}

\* A webhook that is due is in the end acknowledged, through timeouts, lost
\* answers, crashes and reversals holding the writer.
DueIsAcknowledged ==
  \A id \in Payments : paid[id] = "due" ~> paid[id] = "acked"

\* The life of a payment is that of TopUp.
Fate(id) ==
  IF Credits(id) = 0
  THEN IF row[id].there THEN "barred" ELSE "none"
  ELSE IF Credits(id) > 1 THEN "twice"
  ELSE IF row[id].reversed THEN "reversed" ELSE "credited"

T == INSTANCE TopUp WITH fate <- [id \in Payments |-> Fate(id)]

CreditedOrBarred == T!Spec
=============================================================================
