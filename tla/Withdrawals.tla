---------------------------- MODULE Withdrawals ----------------------------
(***************************************************************************)
(* The cash-out path: WithdrawService over economy.withdrawal_requests and *)
(* the wallets, driven by concurrent handlers, with Crypto Pay behind the  *)
(* automatic payout.                                                       *)
(*                                                                         *)
(* A handler of the bot is a process.  Its statements before the first     *)
(* write run outside any transaction; the first write takes the single     *)
(* writer lock of the SQLite file and everything from there to the commit  *)
(* is one transaction.  A transaction with no await on anything but the    *)
(* database is one action, enabled while nobody holds the lock.  Create    *)
(* holds the lock over several actions, because the clock may move between *)
(* its quota read and the timestamp it writes.                             *)
(***************************************************************************)
EXTENDS Wallet, FiniteSets, FiniteSetsExt

CONSTANTS
  Users, Requests,   \* users; the ids the request table will hand out
  Procs,             \* concurrent handlers
  None,              \* no process, no user, no request
  Welcome,           \* balance of a new wallet
  MinCoins, MaxCoins, DailyLimit, MonthlyLimit,  \* WithdrawService bounds
  PayoutRatio,       \* payout_ratio; 0 disarms the lifetime cap
  RequireDeposit,    \* require_deposit
  AutoPayout         \* TRUE: approve (Crypto Pay) is wired; v1 runs FALSE

CONSTANTS              \* bounds of the exploration
  Amounts, LastDay, DaysPerMonth, MaxFlow

ASSUME WithdrawalsAssumption ==
  /\ None \notin Users \cup Requests \cup Procs
  /\ IsFiniteSet(Requests)
  /\ Welcome \in 0..MaxAmount
  /\ {MinCoins, MaxCoins, DailyLimit, MonthlyLimit, PayoutRatio, MaxFlow} \subseteq Nat
  /\ MinCoins > 0
  /\ {RequireDeposit, AutoPayout} \subseteq BOOLEAN
  /\ Amounts \subseteq Nat \ {0}
  /\ LastDay \in Nat /\ DaysPerMonth \in Nat \ {0}

VARIABLES
  wallet,     \* economy.users: user -> wallet row
  deposits,   \* TransactionsRepo.lifetime_deposits of each user
  request,    \* economy.withdrawal_requests: id -> row
  writer,     \* the process inside BEGIN IMMEDIATE, or None
  today,      \* the UTC date
  job,        \* what each process is doing, with its local variables
  calls,      \* transfer calls Crypto Pay may still act on
  paid,       \* requests whose spend_id Crypto Pay has executed
  lease       \* history, read by no guard: how the last lease of a request
              \* was taken, and whether a refusal gave a shared one away

db    == <<wallet, deposits, request>>
payer == <<calls, paid, lease>>
vars  == <<wallet, deposits, request, writer, today, job, calls, paid, lease>>

Live     == {"pending", "processing", "completed"}    \* _QUOTA_STATUSES
Statuses == Live \cup {"none", "rejected"}
Row      ==
  {row \in [status : Statuses, user : Users \cup {None}, amount : Nat,
            day : Nat, tx : {"none", "manual", "transfer"}] :
     row.status # "none" => row.user \in Users}
NoRow    == [status |-> "none", user |-> None, amount |-> 0, day |-> 0, tx |-> "none"]

(* The steps a process can be at: idle; create under the lock; an approval *)
(* that holds the lease, waits for the provider or has its answer; the     *)
(* unlocked status check of approve_manual and reject behind it.           *)
PayoutSteps == {"leased", "calling", "paid", "refused"}
Steps == {"idle", "gate", "insert", "manual", "reject"} \cup PayoutSteps
Job   ==
  {j \in [step : Steps, user : Users \cup {None}, amount : Nat,
          id : Requests \cup {None}] :
     /\ j.step \in {"gate", "insert"} => j.user \in Users
     /\ j.step \in {"manual", "reject"} \cup PayoutSteps => j.id \in Requests}
Idle  == [step |-> "idle", user |-> None, amount |-> 0, id |-> None]
Call  == [id : Requests, caller : Procs \cup {None}]
Leases == {"alone", "shared", "given away"}

Month(day) == day \div DaysPerMonth

Unlocked == writer = None

At(p, step) == job[p].step = step

Finish(p) == job' = [job EXCEPT ![p] = Idle]

Init ==
  /\ wallet = [u \in Users |-> Seeded(Welcome)]
  /\ deposits = [u \in Users |-> 0]
  /\ request = [r \in Requests |-> NoRow]
  /\ writer = None
  /\ today = 0
  /\ job = [p \in Procs |-> Idle]
  /\ calls = {}
  /\ paid = {}
  /\ lease = [r \in Requests |-> "alone"]

-----------------------------------------------------------------------------
(* Usage read by the gates: the sum over the user's rows in _QUOTA_STATUSES *)
(* with a creation date in the window.                                      *)

LiveRows(u) == {r \in Requests : request[r].user = u /\ request[r].status \in Live}

Total(rows) == SumOver([r \in Requests |-> request[r].amount], rows)

LifetimeUsage(u)    == Total(LiveRows(u))
DailyUsage(u, d)    == Total({r \in LiveRows(u) : request[r].day = d})
MonthlyUsage(u, d)  == Total({r \in LiveRows(u) : Month(request[r].day) = Month(d)})

LifetimeGate(u, amount) ==
  /\ RequireDeposit => deposits[u] > 0
  /\ PayoutRatio > 0 => LifetimeUsage(u) + amount <= PayoutRatio * deposits[u]

QuotaGateMutant(u, amount) ==               \* mutant: the day is not enforced
  MonthlyUsage(u, today) + amount <= MonthlyLimit

QuotaGate(u, amount) ==
  /\ DailyUsage(u, today) + amount <= DailyLimit
  /\ MonthlyUsage(u, today) + amount <= MonthlyLimit

-----------------------------------------------------------------------------
(* WithdrawService.create.  An amount out of bounds returns before the     *)
(* lock is taken, so only amounts in bounds begin.                         *)

TakeLockMutant(p) == UNCHANGED writer      \* mutant: gates read before the lock

TakeLock(p) == writer' = p                            \* lock_writer

CreateLock(p, u, amount) ==
  /\ At(p, "idle") /\ Unlocked
  /\ amount \in MinCoins..MaxCoins
  /\ \E r \in Requests : request[r] = NoRow             \* bound: ids
  /\ TakeLock(p)
  /\ job' = [job EXCEPT ![p] = [Idle EXCEPT !.step = "gate", !.user = u,
                                            !.amount = amount]]
  /\ UNCHANGED <<db, today, payer>>

CreateGranted(p) ==
  /\ At(p, "gate")
  /\ LifetimeGate(job[p].user, job[p].amount)
  /\ QuotaGate(job[p].user, job[p].amount)
  /\ job' = [job EXCEPT ![p].step = "insert"]
  /\ UNCHANGED <<db, writer, today, payer>>

UnlockOnRefusalMutant == UNCHANGED writer   \* mutant: a refusal does not commit

\* Every refusal commits, which hands the lock back.
UnlockOnRefusal == writer' = None

CreateRefused(p) ==
  /\ At(p, "gate")
  /\ ~ (/\ LifetimeGate(job[p].user, job[p].amount)
        /\ QuotaGate(job[p].user, job[p].amount))
  /\ UnlockOnRefusal
  /\ Finish(p)
  /\ UNCHANGED <<db, today, payer>>

\* hold() and the insert; a short wallet inserts nothing and still commits.
\* The row is stamped by a clock read of its own.
CreateInsert(p) ==
  LET u == job[p].user
      amount == job[p].amount
  IN /\ At(p, "insert")
     /\ \/ /\ CanDebit(wallet[u], amount)
           /\ wallet' = [wallet EXCEPT ![u] = Held(@, amount)]
           /\ \E r \in Requests :
                /\ request[r] = NoRow
                /\ request' = [request EXCEPT ![r] =
                     [status |-> "pending", user |-> u, amount |-> amount,
                      day |-> today, tx |-> "none"]]
        \/ /\ ~ CanDebit(wallet[u], amount)
           /\ UNCHANGED <<wallet, request>>
     /\ writer' = None
     /\ Finish(p)
     /\ UNCHANGED <<deposits, today, payer>>

-----------------------------------------------------------------------------
(* WithdrawService.approve: lease, call the provider outside the           *)
(* transaction, record the outcome.                                        *)

Leasable == {"pending", "processing"}      \* claim_processing's status IN

InPayout(p, r) == job[p].step \in PayoutSteps /\ job[p].id = r

\* Another approval of r is under way, or a transfer given up on still is.
Contested(r) == (\E q \in Procs : InPayout(q, r)) \/ \E c \in calls : c.id = r

TakenLease(r) ==
  lease' = [lease EXCEPT ![r] = IF @ = "given away" THEN @
                               ELSE IF Contested(r) THEN "shared" ELSE "alone"]

GivenAway(r) ==
  lease' = [lease EXCEPT ![r] = IF request[r].status = "processing" /\ @ = "shared"
                               THEN "given away" ELSE @]

\* A second admin passes as the first did: the lease shuts out only the
\* refund and the manual payout.
ApproveLease(p, r) ==
  /\ AutoPayout
  /\ At(p, "idle") /\ Unlocked
  /\ request[r].status \in Leasable
  /\ request' = [request EXCEPT ![r].status = "processing"]
  /\ job' = [job EXCEPT ![p] = [Idle EXCEPT !.step = "leased", !.id = r]]
  /\ TakenLease(r)
  /\ UNCHANGED <<wallet, deposits, writer, today, calls, paid>>

ApproveSend(p) ==
  /\ At(p, "leased")
  /\ job' = [job EXCEPT ![p].step = "calling"]
  /\ calls' = calls \cup {[id |-> job[p].id, caller |-> p]}
  /\ UNCHANGED <<db, writer, today, paid, lease>>

RecordableMutant(r) == TRUE                 \* mutant: no from_status guard

Recordable(r) == request[r].status = "processing"   \* from_status=PROCESSING

\* claim_terminal(completed, from processing); losing the claim is ignored.
ApproveCompleted(p) ==
  LET r == job[p].id
  IN /\ At(p, "paid") /\ Unlocked
     /\ request' = IF Recordable(r)
                   THEN [request EXCEPT ![r].status = "completed", ![r].tx = "transfer"]
                   ELSE request
     /\ Finish(p)
     /\ UNCHANGED <<wallet, deposits, writer, today, payer>>

\* release_processing: back to the queue, where reject may refund it, and
\* whoever else holds the lease loses it too.
ApproveRefused(p) ==
  LET r == job[p].id
  IN /\ At(p, "refused") /\ Unlocked
     /\ request' = IF request[r].status = "processing"
                   THEN [request EXCEPT ![r].status = "pending"]
                   ELSE request
     /\ GivenAway(r)
     /\ Finish(p)
     /\ UNCHANGED <<wallet, deposits, writer, today, calls, paid>>

UnconfirmedMutant(p) ==                     \* mutant: a lost answer is a refusal
  /\ job[p].step \in {"calling", "paid", "refused"}
  /\ calls' = {[c EXCEPT !.caller = IF @ = p THEN None ELSE @] : c \in calls}
  /\ job' = [job EXCEPT ![p].step = "refused"]
  /\ UNCHANGED <<db, writer, today, paid, lease>>

\* CryptoPayUnconfirmed: the call or its answer is lost, whatever the
\* provider did or will do.  The lease stays.
Unconfirmed(p) ==
  /\ job[p].step \in {"calling", "paid", "refused"}
  /\ calls' = {[c EXCEPT !.caller = IF @ = p THEN None ELSE @] : c \in calls}
  /\ Finish(p)
  /\ UNCHANGED <<db, writer, today, paid, lease>>

-----------------------------------------------------------------------------
(* Crypto Pay, as CryptoPayClient relies on it: a spend_id is executed at  *)
(* most once, and a call for an executed one returns the first transfer.   *)

Answer(c, step) ==
  job' = IF c.caller = None THEN job ELSE [job EXCEPT ![c.caller].step = step]

ProviderExecute(c) ==
  /\ paid' = paid \cup {c.id}
  /\ calls' = calls \ {c}
  /\ Answer(c, "paid")
  /\ UNCHANGED <<db, writer, today, lease>>

ProviderRefuse(c) ==
  /\ c.id \notin paid
  /\ calls' = calls \ {c}
  /\ Answer(c, "refused")
  /\ UNCHANGED <<db, writer, today, paid, lease>>

-----------------------------------------------------------------------------
(* approve_manual and reject: an unlocked status read, then one            *)
(* conditional transaction.                                                *)

ReadPending(p, r, step) ==
  /\ At(p, "idle")
  /\ request[r].status = "pending"
  /\ job' = [job EXCEPT ![p] = [Idle EXCEPT !.step = step, !.id = r]]
  /\ UNCHANGED <<db, writer, today, payer>>

Claimable(r) == request[r].status = "pending"    \* claim_terminal's guard

ManualClaim(p) ==
  LET r == job[p].id
  IN /\ At(p, "manual") /\ Unlocked
     /\ request' = IF Claimable(r)
                   THEN [request EXCEPT ![r].status = "completed", ![r].tx = "manual"]
                   ELSE request
     /\ Finish(p)
     /\ UNCHANGED <<wallet, deposits, writer, today, payer>>

RefundFailedMutant(r) ==                    \* mutant: the claim survives
  request' = [request EXCEPT ![r].status = "rejected"] /\ UNCHANGED wallet

\* What the savepoint of reject leaves when release() is refused: nothing.
RefundFailed(r) == UNCHANGED <<wallet, request>>

RejectClaim(p) ==
  LET r == job[p].id
      u == request[r].user
      amount == request[r].amount
  IN /\ At(p, "reject") /\ Unlocked
     /\ \/ /\ Claimable(r) /\ CanCredit(wallet[u], amount)
           /\ request' = [request EXCEPT ![r].status = "rejected"]
           /\ wallet' = [wallet EXCEPT ![u] = Released(@, amount)]
        \/ /\ Claimable(r) /\ ~ CanCredit(wallet[u], amount)
           /\ RefundFailed(r)
        \/ /\ ~ Claimable(r)
           /\ UNCHANGED <<wallet, request>>
     /\ Finish(p)
     /\ UNCHANGED <<deposits, writer, today, payer>>

-----------------------------------------------------------------------------
(* Failures: a writer that waits longer than busy_timeout raises and the   *)
(* handler ends; the bot process dies and every open transaction with it.  *)

BusyTimeout(p) ==
  /\ job[p].step \in {"manual", "reject", "paid", "refused"}
  /\ ~ Unlocked
  /\ Finish(p)
  /\ UNCHANGED <<db, writer, today, payer>>

Crash ==
  /\ job # [p \in Procs |-> Idle]
  /\ job' = [p \in Procs |-> Idle]
  /\ writer' = None
  /\ calls' = {[c EXCEPT !.caller = None] : c \in calls}
  /\ UNCHANGED <<db, today, paid, lease>>

-----------------------------------------------------------------------------
(* The rest of the economy, as single transactions on the same file: a     *)
(* top-up and its reversal, and coins earned or spent in the bot.          *)

\* Bound: the coins that pass through the rest of the economy.
FlowLeft(u, amount) == wallet[u].earned + wallet[u].spent + amount <= MaxFlow

\* PaymentsService.credit: coins and the purchase_* ledger row together.
Purchase(u, amount) ==
  /\ Unlocked
  /\ CanCredit(wallet[u], amount)
  /\ FlowLeft(u, amount)
  /\ wallet' = [wallet EXCEPT ![u] = Credited(@, amount)]
  /\ deposits' = [deposits EXCEPT ![u] = @ + amount]
  /\ UNCHANGED <<request, writer, today, job, payer>>

\* mark_reversed lowers lifetime_deposits and leaves the wallet alone.
Reversal(u, amount) ==
  /\ Unlocked
  /\ amount <= deposits[u]
  /\ deposits' = [deposits EXCEPT ![u] = @ - amount]
  /\ UNCHANGED <<wallet, request, writer, today, job, payer>>

Earn(u, amount) ==
  /\ Unlocked
  /\ CanCredit(wallet[u], amount)
  /\ FlowLeft(u, amount)
  /\ wallet' = [wallet EXCEPT ![u] = Credited(@, amount)]
  /\ UNCHANGED <<deposits, request, writer, today, job, payer>>

Spend(u, amount) ==
  /\ Unlocked
  /\ CanDebit(wallet[u], amount)
  /\ FlowLeft(u, amount)
  /\ wallet' = [wallet EXCEPT ![u] = Debited(@, amount)]
  /\ UNCHANGED <<deposits, request, writer, today, job, payer>>

Midnight ==
  /\ today < LastDay                                    \* bound
  /\ today' = today + 1
  /\ UNCHANGED <<db, writer, job, payer>>

-----------------------------------------------------------------------------
Economy ==
  \E u \in Users, amount \in Amounts :
    \/ Purchase(u, amount) \/ Reversal(u, amount)
    \/ Earn(u, amount) \/ Spend(u, amount)

Create(p) ==
  \/ \E u \in Users, amount \in Amounts : CreateLock(p, u, amount)
  \/ CreateGranted(p) \/ CreateRefused(p) \/ CreateInsert(p)

Approve(p) ==
  \/ \E r \in Requests : ApproveLease(p, r)
  \/ ApproveSend(p) \/ ApproveCompleted(p) \/ ApproveRefused(p)
  \/ Unconfirmed(p)

Decide(p) ==
  \/ \E r \in Requests : ReadPending(p, r, "manual") \/ ReadPending(p, r, "reject")
  \/ ManualClaim(p) \/ RejectClaim(p)

Provider == \E c \in calls : ProviderExecute(c) \/ ProviderRefuse(c)

Next ==
  \/ \E p \in Procs : Create(p) \/ Approve(p) \/ Decide(p) \/ BusyTimeout(p)
  \/ Provider
  \/ Economy
  \/ Midnight
  \/ Crash

Spec == Init /\ [][Next]_vars

-----------------------------------------------------------------------------
\* Every variable stays in its set.
TypeOK ==
  /\ wallet \in [Users -> Wallets]
  /\ deposits \in [Users -> Nat]
  /\ request \in [Requests -> Row]
  /\ writer \in Procs \cup {None}
  /\ today \in Nat
  /\ job \in [Procs -> Job]
  /\ calls \subseteq Call
  /\ paid \subseteq Requests
  /\ lease \in [Requests -> Leases]

\* A create is alone between its lock_writer and its commit (#776), and every
\* way out of it, refusals and a crash included, hands the lock back: the lock
\* is held exactly by the process at create's gates or its insert.
CreateIsExclusive ==
  \A p \in Procs : writer = p <=> job[p].step \in {"gate", "insert"}

\* No coin is lost or made by the escrow: what the lifetime counters say a
\* user owns is in the wallet or in a request that was not refunded (create's
\* hold, reject's savepoint, approve and approve_manual moving no coins).
EscrowAccountsForEveryCoin ==
  \A u \in Users : wallet[u].balance + LifetimeUsage(u) = Worth(wallet[u], Welcome)

\* Every variable in its set, every coin in a wallet or a request.
BooksAgree == TypeOK /\ EscrowAccountsForEveryCoin

\* The daily and monthly quotas hold by the dates the rows carry, also when
\* midnight falls between create's quota read and the timestamp it writes.
QuotasHold ==
  \A u \in Users, d \in 0..LastDay :
    /\ DailyUsage(u, d) <= DailyLimit
    /\ MonthlyUsage(u, d) <= MonthlyLimit

\* A step that raises what a user has in requests leaves it within the payout
\* ratio of what the user's deposits are at that very step: no purchase,
\* reversal or other request comes between create's gate and its insert.
PayoutCapAtGrant ==
  [][\A u \in Users : LifetimeUsage(u)' > LifetimeUsage(u) =>
       LifetimeUsage(u)' <= PayoutRatio * deposits'[u]]_vars

\* "The lease means no refund could have interleaved", where it does: a
\* request Crypto Pay has paid is never refunded, nor settled by hand, nor back
\* in the queue, unless one of several transfers for it, all under way before
\* any was answered, was refused and so gave away the lease of the others.
PaidIsNeverRefunded ==
  \A r \in paid : \/ request[r].status = "processing"
                  \/ request[r].status = "completed" /\ request[r].tx = "transfer"
                  \/ lease[r] = "given away"

\* Each request is an item of escrow: held from its creation, returned by a
\* refund, paid once it is recorded as completed.
EscrowState == [r \in Requests |->
  CASE request[r].status = "none"      -> "none"
    [] request[r].status = "completed" -> "paid"
    [] request[r].status = "rejected"  -> "returned"
    [] OTHER                           -> "held"]

E == INSTANCE Escrow WITH Items <- Requests, state <- EscrowState

\* Every request leaves escrow at most once and to one side only, also where
\* two approvals, a manual payout and a reject of it overlap and one approval's
\* refusal reopens it under the other: a late claim never takes it again.
SettledOnce == E!Spec
=============================================================================
