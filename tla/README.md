# Verification of the kom17 Telegram bot

kom17 is a Telegram bot with a coin economy. Users buy coins with real money (Telegram Stars, YooKassa,
Stripe, RollyPay), move them between each other (transfers, donations, checks, a P2P market, wagered duels),
stake them in games and cash them out through Crypto Pay. This directory holds TLA+ models of the parts that keep or
move that money and of the locks, records and caches they lean on, the configurations TLC checks them with, and
theorems about them that the TLA+ proof system (TLAPS) has proved.

The models are translated from `src/src/telegram_invite_bot/` (written below without that prefix).
`PROJECT.json` gives, for each definition, the source lines it stands for.

## 1. Inventory

### How the program runs

One Python process, one asyncio event loop. A Telegram update or a provider's webhook starts a handler;
handlers interleave at every `await`. A scheduler runs periodic jobs in the same loop. State is kept in
five SQLite files (economy, users, moderation, message_stats, activity). What matters for every model:

- A session reads in autocommit mode. Its **first write statement issues `BEGIN IMMEDIATE`**
  (`db/engines.py`), which takes the only writer lock of the file until the commit or the rollback.
  `EconomyRepo.lock_writer()` takes it before a read that must not go stale.
- A session that waits longer than `busy_timeout` (5 s) for the lock gets an `OperationalError`.
- The session middleware commits when a handler returns and rolls back when it raises. Services that must
  undo part of a transaction use `SAVEPOINT`.
- So everything **before the first write runs unprotected**, everything from it to the commit is alone in
  the file, and only what an `await` on something other than the database separates (a provider's answer,
  a Telegram call, another transaction) is ever observed half-way.
- A wallet write is one guarded `UPDATE`. It matches no row if the balance is too low, or if the new one
  would pass `_MAX_AMOUNT`: **any credit or refund can be refused**, at any time, because of unrelated
  income.

### Components

| Component | State | Operations | Interacts with |
|---|---|---|---|
| Wallets (`repositories/economy_repo.py`, `services/economy_service.py`) | `users`: balance, total_earned, total_spent, referrer; `transactions` | credit, debit, hold, release, bump_totals, record_game, lock_writer, set_balance | every money service |
| Withdrawals (`services/withdraw_service.py`, `repositories/withdrawals_repo.py`) | `withdrawal_requests`: pending, processing, completed, rejected | create, approve, approve_manual, reject, stale alert | wallets, deposit total of `transactions`, Crypto Pay |
| Payments (`webhook/payments.py`, `services/payments_service.py`, `services/topup.py`) | `processed_webhooks`, `transactions` | webhook of three providers, Stars update, reversal audit | wallets, commissions, owner DMs |
| Commissions (`services/referral_commission_service.py`) | wallets, `transactions` | referral and developer cut of a top-up | called by payments in a savepoint |
| P2P market (`services/p2p_service.py`, `repositories/p2p_repo.py`) | `p2p_orders`, `p2p_trades`, `p2p_user_stats` | create, cancel, buy, express_buy, mark_paid, confirm, dispute, ruling, expiry | wallets; swept by the scheduler |
| PvP challenges (`services/pvp_service.py`, `repositories/pvp_repo.py`, `games/pot.py`) | `pvp_offers`, `escrow`, game counters, burned rake | create_offer, accept_and_resolve, cancel, expire, sweep_expired | wallets; swept by the scheduler |
| Checks (`services/check_service.py`, `repositories/checks_repo.py`) | `checks`, `check_claims` | create, claim, deactivate, deactivate_expired | wallets |
| Money sweeper (`scheduler/economy_cleanup.py`) | last-run markers | every 60 s: P2P and PvP expiry; hygiene pass: checks, stale-withdrawal alert | services above, Telegram |
| Sessions (`db/engines.py`, `db/session.py`, `db/base.py`) | transactions of five files; Checkpoint commits them in a fixed order | begin, commit, rollback, checkpoint | all |
| Transfers (`services/transfer_service.py`) | wallets, `transactions` | transfer with a tax to the administrator's wallet | wallets |
| Duel, rock-paper-scissors (`handlers/duel.py`, `services/duel_service.py`, ...) | the match in an FSM record, per-match lock; two holds at the end | challenge, accept, decline, roll, settle; `/cancel` | wallets, FSM storage, play budget, sweeper |
| Stake games and limits (`handlers/roulette.py`, `handlers/games.py`, `services/game_limit_service.py`) | `game_plays`, `PLAY_LOCKS` | check, play, record, commit; prune | wallets, `utils/keyed_locks.py` |
| Donations, treasury (`services/group_donation_service.py`, `services/treasury_service.py`, `services/group_migration_service.py`) | `groups_donations`, `group_donations` per donor, the rating | donate, the slice of a purchase, payout, change of the group's id | wallets, the shop |
| Promo codes (`services/promo_service.py`), daily bonus | codes and their uses, redemptions; last claim day, streak | mint, redeem, claim | wallets |
| Shop, inventory, privileges, VIP (`handlers/shop.py`, `services/purchase_service.py`, `services/inventory_use_service.py`) | items and stock, entries, grants with expiry, spent confirm cards in memory | buy, use, expire | wallets, moderation.db, the daily bonus |
| Locks (`utils/keyed_locks.py`) | an entry per key in use, its user count | acquire, release | play budget, matches |
| Caches (`utils/cache_generation.py`) and the command map (`handlers/command_access.py`) | a cache, its generation, the gate's copy, a snapshot file | fill, invalidate, store, deny from the copy | moderation.db, `/cmdcfg`, every command |
| FSM storage and its sweeper (`fsm/sqlite_storage.py`, `scheduler/fsm_sweeper.py`) | a record per chat and user in fsm.db; strikes in memory | set_state, set_data, clear; pass over overdue records | dialogues, duels, Telegram |
| Moderation (`handlers/moderation.py`, `repositories/moderation_repo.py`) | warnings, the log of actions | warn, mute, ban, `/fine` | wallets (`/fine`), the shop |
| Bonds, ranks, statistics, users, groups | rows without money | CRUD, counters | handlers |
| AI, voice, weather | quota counters | calls to outside services | handlers |
| Handlers, keyboards, routers, CMS, i18n, configuration, DI, server, migrations, scripts, tests | none, or text | parse, route, render | all |

### What is hard here

- **Read before the lock, act under it**: two withdrawals on one remaining quota, a paid delivery and its
  reversal, a sweep that listed a trade its buyer then paid, a claim that read an open check.
- **Half of an operation refused**: a status flip followed by a refund the ceiling refuses.
- **Answers lost**: Crypto Pay paid and the answer timed out; a webhook was committed and answered to
  nobody, so the provider sends it again.
- **Order**: a reversal before the payment it reverses.
- **Crash between two transactions**: a committed lease, no terminal write.
- **Two files**: a duel's coins and its record commit apart, and so do a fine and its log entry, an item and the warning
  it lifts; each file has a lock of its own. The command map is in a database, a cache, a copy and a file.
- **Bounded passes**: a sweep takes the 200 oldest rows, and some of them can never be freed; a pass of the FSM
  sweeper sends a bounded number of notices, and some of them raise for ever.
- **Boundaries**: the balance ceiling, remainders below a minimum, rounding of a pot or a commission.

`PROJECT.json` lists each of them under `hazards`, at the line where it bites.

### What correctness means, per component

- *Wallets*: a balance stays in `0.._MAX_AMOUNT`; coins are made only by credits and lost only by debits.
- *Withdrawals*: coins of a request are in the request or back in the wallet, never both and never neither;
  quotas and the lifetime cap hold at the moment of the grant; what Crypto Pay has paid is not refunded.
- *Payments*: at most one credit per payment; none after its reversal; acknowledged reversals leave their
  mark; no payer is dropped in silence; every payment is answered in the end.
- *P2P*: every coin has an owner; a slice is settled once, to one side; a paid trade is never timed out;
  caps hold; stale trades are freed.
- *PvP*: stakes are backed; an offer and its escrow rows agree; a pot pays for itself; the sweep makes
  progress past an offer it cannot refund.
- *Checks*: what is left plus what was claimed is what was funded; a claim and its coins come together; a
  closed check stays closed.
- *Sessions*: the writer lock is exclusive and handed back.
- *Play budget*: no rolling hour or day holds more plays than its cap; a games row says what the wallet got; every
  command gives its lock back.
- *Duels and their records*: a match moves coins once, and only while it is on the record; handlers end; what nobody
  finishes is retired.
- *Shop*: coins, stock, entries and grants tell one story; one card sells one item; two files part only by a fault; handlers
  end.
- *Transfers, treasury*: conservation, and all or nothing.
- *Locks and caches*: mutual exclusion without leaks; no value older than its invalidation.

## 2. What is modelled

### Modules

| Module | Role |
|---|---|
| `Wallet` | one `users` row; the WHERE and SET clauses of the guarded UPDATEs; used by all |
| `Escrow` | abstract promise: an item is held once, then paid or returned, once |
| `TopUp` | abstract promise: a payment is credited at most once, or barred; a mark is never lifted |
| `Withdrawals` | WithdrawService, its table, concurrent handlers, Crypto Pay; implements `Escrow` |
| `Payments` | payment webhooks, Stars, reversals, commissions, the deposit figure; implements `TopUp` |
| `P2P` | P2pService with the sweep; implements `Escrow` |
| `PvP` | PvpService with the sweep; implements `Escrow` |
| `Checks` | CheckService with the hygiene step |
| `Gifts` | transfers, donations, treasuries, promo codes and the change of a group's id; extends `Checks`, whose wallets and processes it shares |
| `KeyedLocks` | the table of locks of `utils/keyed_locks.py`, as `acquire` keeps it |
| `StakeGames` | the play budget and the single-player stake games; extends `KeyedLocks`, whose locks are its `PLAY_LOCKS` |
| `Duel` | `/duel` from challenge to settlement, `/cancel`, the FSM record and the sweeper |
| `CommandAccess` | the command map: database, cache with its generation, the gate's copy, the snapshot file |
| `Shop` | buying, using items, the daily bonus, `/fine`: two files and their two locks |
| `MC...` | instances for TLC, one module for each of the modules above that is run |
| `WalletProofs` | lemmas the other proofs share: the SET clauses of a wallet; sums and counts over finite sets of rows; the least id |
| `...Proofs` | theorems and proofs about the module of that name (`StakeGamesProofs`: and about `KeyedLocks`, and about `Duel`, whose specification is `DuelSpec`; `GiftsProofs`: and about `Checks`; `ShopProofs`: and about `CommandAccess`, whose specification is `AccessSpec`) |

### How the models represent the code

**Processes and steps.** A process (`Procs`, `Handlers`) is a running handler or a sweeper pass. `job[p]` is
where it is and its local variables. Two statements are separate steps where another handler can run
between them *and* see or change something that matters: at an unlocked read followed by a write, between
two transactions, around a provider's call. A transaction that awaits only the database, and that reads
nothing before it takes the lock, is one action.

**Transactions.** `writer` (in `Duel`: `duelWriter`) is the process inside `BEGIN IMMEDIATE`; `Unlocked` (`writer = None`) guards every
other write. `Withdrawals` and `Payments` write only in the last step of a transaction, so the committed
state is enough. `P2P` and `PvP` write over several steps: `db` is the committed file, `work` what the holder
sees; `Commit` copies `work` to `db`. `Crash` resets every `job`, the lock and `work`, and leaves `db`.
`BusyTimeout` sends a process that waits for a held lock back to idle. A savepoint is the choice between
the written and the untouched books (`RolledBack`, `RefundFailed`, `CutRaised`, `CreditFailed`, `AlreadyClaimed`, `TransferRefused`).

**Time.** `Withdrawals` counts days, because quotas are per UTC date and month and midnight may fall inside
a create. The others keep the set of rows older than their TTL (`stale`, `past`), which only grows; it may
also grow between two looks of one handler, whose `now` is fixed, which only adds behaviours.

**Data left abstract.** Ids are small ascending numbers. One currency book of P2P at one price, a ratio of two whole
numbers, so that its floats become exact fractions. Dice and coins are free choices. The commission's float percentage is an integer one rounded down.
Message texts, keyboards, parsing and signatures are left out.

### Withdrawals (`services/withdraw_service.py`)

| Action | Code |
|---|---|
| `CreateLock` | `create`: amount bounds, then `lock_writer` |
| `CreateGranted`, `CreateRefused` | deposit and lifetime gates, the quotas, read under the lock; a refusal commits to hand the lock back |
| `CreateInsert` | `hold` and the row, with the date of that moment; commit |
| `ApproveLease` | `claim_processing`, committed before the transfer |
| `ApproveSend`, `ProviderExecute`, `ProviderRefuse`, `Unconfirmed` | the call with `spend_id`; it may be executed after its answer was given up on |
| `ApproveCompleted`, `ApproveRefused` | the terminal write; release of the lease |
| `ReadPending`, `ManualClaim`, `RejectClaim` | the unlocked status read, then `claim_terminal` and, for reject, the refund in a savepoint |
| `Purchase`, `Reversal`, `Earn`, `Spend`, `Midnight` | the rest of the economy, as far as the gates read it |
| `BusyTimeout`, `Crash` | the session |

`AutoPayout` adds `approve` to the manual decisions, which alone are wired in the present release; the runs set it, as its
behaviours include the others.
The lease keeps out a refund and a manual payout, not another approval: `ApproveLease` takes a processing request as it takes a
pending one, as `claim_processing` does, so any number of approvals of a request overlap, each with a call of its own, and the refusal of one
(`ApproveRefused`) releases the lease for all of them. Crypto Pay is not in the repository, hence external: it executes a `spend_id` at most once, answers
a repeated one as the first, and may refuse one call and execute another, or execute a call whose answer was given up on.

`lease` is a history variable that no guard reads. It says how the last lease of a request was taken: `alone`, or `shared` with another approval or with a
transfer that may still be executed; and a shared lease that a refusal released was `given away`. `PaidIsNeverRefunded` needs it to say which requests the
code leaves unprotected.

### Payments (`webhook/payments.py`, `services/payments_service.py`, `services/topup.py`)

`Pay` and `TakeBack` are the provider's side; a due webhook may be delivered any number of times, to any
free handler, until acknowledged. `Deliver` is the unlocked `is_processed` read. `Credit` is the transaction
after it: the idempotency row, credit, ledger row, two commissions in a savepoint of their own.
`CreditRefused` (ceiling), `CreditCollides` (primary key) and `CreditBusy` (timeout) are its other ends.
`Answer` classifies the outcome (503 retries, everything else is 200) and tells the owner;
`AnswerLost` tells the owner and loses the answer. `Reverse`, `ReverseRead`, `ReverseStamp`, `ReverseBusy` and
`ReverseTold` are the audit: under the lock it stamps the row of the payment, or leaves a tombstone if
there is none. `LifetimeDeposits` is the figure the withdrawal gates read.
Providers differ: Stars are delivered once; YooKassa's reversals are not authenticated and stamp nothing;
Stripe's carry another id.

### P2P (`services/p2p_service.py`, `repositories/p2p_repo.py`)

`CreateLock` to `CreateInsert` count and post an order under the lock. `BuyLock` begins either purchase with
the lazy expiry (`ExpireOne`, one savepoint per trade); then `BuyGate` and `BuyFill` take one order, or `FreeSlots`,
`ExpressTake` and `ExpressDone` walk the book from the lowest id (at one price the cheapest-first order is that of the ids). `SweepList`, `SweepLock`, `ExpireOne` and `SweepDone` are a periodic
pass: an unlocked list of at most `ScanLimit` trades, a transaction, a re-check per trade. `CancelOrder`, `MarkPaid`,
`SellerConfirm`, `OpenDispute` and `ResolveDispute` are single transactions guarded by the status in their UPDATE.
`Age` passes a trade's TTL.

Bounds and budgets are fiat, amounts are coins, and every comparison goes through the price, as in `_limit_check`: `PriceFiat` for `PriceCoins` coins. To
stay in whole numbers the model counts fiat in `PriceCoins`-ths of its unit, in which a coin is worth `PriceFiat` (`FiatOf`). Fractions are exact where
the code allows `_FIAT_EPS` for its floats; only the quotient that express buy truncates has no such allowance, and `Slices` lets it come out one coin short
where it is a whole number. `EffectiveMin` clamps an order's minimum to what its rest is worth. `Sane` is `limits_are_sane` (without its
`_MAX_AMOUNT` ceiling: a large maximum, like a minimum of 0, stands for a bound that is not set). The book may begin with an order of the legacy bot whose bounds
contradict each other (`Legacy`).

### PvP (`services/pvp_service.py`, `repositories/pvp_repo.py`, `games/pot.py`)

`CreateOffer` holds the creator's stake. `AcceptRead` is the unlocked read; `AcceptClaim` takes the lock with
`claim_for_accept` and holds the opponent's stake; `AcceptResolve` plays, pays the pot less the rake, and commits,
or rolls everything back when a payout is refused. `ExpireOnAccept`, `Cancel` and the sweep (`SweepList`, `SweepLock`, `SweepOne`,
`SweepDone`) retire an offer, each refund in a savepoint.

### Checks (`services/check_service.py`, `repositories/checks_repo.py`)

`CreateCheck` debits and inserts. `ClaimRead` does the unlocked reads and draws an amount; `ClaimWrite` is the
savepoint of decrement, claim row, wallet and credit, with its three refusals. `Close` and `DeactivateExpired` close a check.
`Abandon` is a crash or a busy timeout before the write. A check's `is_active` is written as an absolute value,
computed by the UPDATE from the row it finds.

### Gifts (`services/transfer_service.py`, `group_donation_service.py`, `treasury_service.py`, `promo_service.py`, `group_migration_service.py`)

A command reads without a lock and then writes in one transaction; between the two any other command, a voucher's included,
may commit. `task[p]` is what it has read. The write looks again and unwinds its savepoint if a leg is refused.

| Action | Code |
|---|---|
| `OpenWallet` | the welcome coins of a user's first contact |
| `SendRead`, `SendWrite` | `/send`: the balance and the tax, its discounts included; debit, credit of the net sum, and the tax to the administrator, or to nobody if there is none or his wallet is full |
| `DonateRead`, `DonateWrite` | `/donate`: balance and the group's creator; debit, the two donation rows, the owner's share, which may be refused alone, and with it the developer's fee |
| `RouteSlice` | a purchase's slice for the group, in the transaction of the purchase |
| `PayoutRead`, `PayoutWrite` | `/group_pay`: the caller and the treasury, then the guarded UPDATE and the credit |
| `MintCode`, `RedeemRead`, `RedeemWrite` | a code under the mint budget; `reserve_use`, the redemption row and the credit in one savepoint |
| `Migrate` | a group's id changes, also while a command holds the old one: the row of the old id is added to that of the new |
| `Drop` | a crash or a busy timeout between read and write |

`ledger` keeps the sums of the rows of `transactions`: coins in and out of each user, and per kind. Nothing in the present code fills
a treasury; `OldGroups` are those with coins left from the old bot.

### Play budget and stake games (`handlers/roulette.py`, `handlers/games.py`, `services/*_game*`, `utils/keyed_locks.py`)

`KeyedLocks` keeps what `acquire` keeps: the table, each entry's user count, its queue, and the local variable of each call.
An entry that was thrown away may still be referenced and another may have taken its place, which is why entries are
objects (`Slots`) and not keys. `Acquire` is everything up to the await, `Release` the end of the block with the `finally`.

`StakeGames` runs a command as `Arrive` (its time is taken, then the lock asked for), `Check` (the cooldown and both caps, read
from committed stamps), `Decline`, `Stake` (debit; the write transaction begins even if no row matched), `Settle` (the draw; a win the
ceiling refuses raises), `Checkpoint` (the commit inside the lock), `Leave` and `Return` (the middleware's own commit).
`Challenge` is the part of `/duel`, `/cpc` and `/pvp` that draws on the same budget: only the stamp, and no cooldown.
`Fail` is any exception in between. `Move` is other income, `Prune` the cleanup's `delete_older_than`, `Crash` a restart.
Stamps and rows are identified with the command that wrote them. `Patience` bounds how long a command may take (a
play that waits for a day could be stamped after the cleanup's horizon); it is the one assumption about time.

### Duels and the FSM sweeper (`handlers/duel.py`, `services/duel_service.py`, `handlers/cancel.py`, `scheduler/fsm_sweeper.py`)

A match is a record under its challenger's key: `state`, `opponent`, `rolled`, `wins`, the stamp. `DuelRead` is what `/duel` reads before
any lock; `DuelState` and `DuelData` are its two writes, apart because a crash may fall between them. `AcceptLock`,
`AcceptMatch`, `AcceptFlip` take the player's lock, then the match's, check, and flip. `Decline` is one action under the match lock.
`RollStamp` stamps a roll and reads the record again; the second of a round goes on with `RollOn` (a round that decides
nothing), or `RollPlay`, `RollCommit` and `RollClear`: the settlement in economy.db, its commit, and then the clear in
fsm.db. `RollLost` is an exception on that way: a toast that cannot be answered, a commit that fails. `CancelRead`,
`CancelClear`, `CancelRaises`, `CancelWipe` are `/cancel`: the record is read before the lock, and cleared without it if the
teardown raises or the record names no chat. `SweepList` to `SweepEnd` are a pass of the sweeper, with strikes for the notices
that keep raising (`Stuck`, records of other dialogues), the budget of a pass, the match lock as its guard, and a look at the
record before and after the notice. `DuelCrash` leaves both files. Two variables only remember what happened: `wiped`, the matches that were
cleared without the match lock, and `overwritten`, two matches for each `/duel` that set its state over the record of another match.

Abstracted: one group chat and one stake; the caps of the play budget as a free refusal (they are `StakeGames`' subject);
locks as their holder (they are `KeyedLocks`' subject); the storage key's own lock, which spans one call, within the action.

### The command map (`handlers/command_access.py`, `repositories/rank_repo.py`, `utils/cache_generation.py`)

A map is its number and whether a command is switched off in it; two maps are equal if they say the same. `Cmdcfg` commits a map
and `Clear` drops the cache and bumps the generation afterwards. A reader finds the map (`Hit`) or takes the generation
and reads (`Miss`, `Read`, `Finish`); the session is closed, an await, before the gate stores it (`Keep`). `Persist` is the write from
a worker thread, which may fail. `StaleDenial` is the gate in an outage. `Expire`, `Outage`, `Restart` are the environment.
`announced` is the newest map whose `/cmdcfg` has finished.

### Shop, items, daily bonus and fines (`handlers/shop.py`, `services/purchase_service.py`, `services/inventory_use_service.py`, `handlers/daily.py`, `handlers/moderation.py`)

Two files, so `db`, `work` and `writer` are functions of the file. `Commits` and `CommitLost` are a commit that succeeds or fails;
`RolledBack` is an exception out of the handler.

| Action | Code |
|---|---|
| `SlashBuy`, `TapConfirm` | the unlocked read of the item; a tap first claims its card in `_spent_cards` |
| `BuyWrite` | `purchase`: debit and stock in a savepoint, the entry, then its use on the spot (`Redeem`) |
| `UseTap`, `UseWrite` | `InventoryUseService.use`: unlocked reads; for a buster `lock_writer` and `get_active`; `consume` and the grant |
| `Receipt` | the card is edited with the lock held, then the middleware commits; a failed edit rolls back and frees the card, a failed commit rolls back and does not |
| `UnwarnSelect`, `UnwarnRemove`, `UnwarnConsume`, `UnwarnLift`, `UnwarnCheckpoint` | `_apply_unwarn` and the checkpoint after it: SELECT, UPDATE in moderation.db, `consume` in economy.db, the two commits |
| `FineTap`, `FineDebit`, `FineLog`, `FineCharge`, `FineRecord` | `/fine`: unlocked balance, debit in economy.db, `record_action` in moderation.db, and `Checkpoint`, which commits the second file although the first commit failed |
| `DailyRead`, `DailyClaim` | the unlocked reads of cooldown and buster; mark and credit in a savepoint, the buster spent, the checkpoint |
| `BusyTimeout`, `Crash` | a wait for either lock gives up; the process dies, and with it the claimed cards |

Abstracted: one user; one day; a gift, a buster and the item that lifts a warning stand for the catalogue; grants do not expire.

## 3. What is checked

Deadlock checking is off in every run: ids are finite and processes may legitimately have nothing left to do.

| Run | Specification and instance | Shows |
|---|---|---|
| `withdrawals` | 2 handlers, 1 user, 2 requests, 2 days, manual and automatic payouts, approvals that overlap | `QuotasHold`, `PayoutCapAtGrant`: the gates hold by the dates the rows carry although midnight moves during a create; `CreateIsExclusive`: a create is alone and every end of it hands the lock back; `BooksAgree`: refused refunds lose nothing; `PaidIsNeverRefunded`: as far as the lease reaches; `SettledOnce`: the rows implement `Escrow`, however approvals, manual payouts and refunds overlap |
| `payments_mixed` | 2 handlers, one payment each by Stars, YooKassa and Stripe, a ceiling they reach together | `CreditedOnce`, `BooksAgree`; `CreditedOrBarred`: the life of a payment is that of `TopUp` |
| `payments_ack` | fair; a RollyPay payment refused until the buyer spends, 2 handlers, 1 timeout or crash | `ReturnedIsMarked`, `AcknowledgedIsAnswered`, `DueIsAcknowledged` |
| `payments_barred` | a reversal between a delivery's read and its insert | a violation, see Findings |
| `p2p_market` | 2 users with full wallets who sell to each other, 2 processes, 2 orders, 2 trades, 2 fiat for 3 coins; bounds of 1 to 2 fiat and of exactly 1, and a legacy order's of 2 to 1 | `BooksAgree`; `NoTailIsStranded`: what is left of an order can be bought, unless nobody could ever buy any of it; `MarketCapsHold`: both caps, on orders and on open slices; `PaidIsNeverTimedOut`; `SettledOnce`: the trades implement `Escrow` |
| `p2p_sweep` | fair; a pass takes 1 of 2 trades, 2 processes, an order that is cancelled under them and a seller whose wallet other income fills | `StaleIsFreed`: up to as many refused refunds as a pass takes |
| `pvp_duel` | fair; 2 players, 2 processes, 2 offers, a stake of 1 and a ceiling of 1, which other income reaches | `BooksAgree`, `StakesFollowTheOffer`, `PotPaysForItself`, `PoisonBlocksNobody`; `SettledOnce`: the creators' stakes implement `Escrow` |
| `gifts` | a user and the administrator, 2 commands at a time and 2 in all beside the vouchers, a random check of 2 claims, a tax of half or none, one code once per user, two groups of which one takes the other's place | `BooksAgree`: vouchers, ledger, codes, donations, treasuries and wallets tell one story; `OpenHasCoins`, `ClosedForGood` |
| `stake_games` | fair; 3 commands of one player, solo plays and challenges, a clock that passes every window and the retention, a wallet the ceiling reaches | `CapsHold`, `CooldownHolds`, `BooksAgree`, `LocksAreSound`, `TapIsAnswered` |
| `duel_match` | fair; 1 challenge of 1 or 2 won rounds, 2 handlers, 1 notice that always raises, a pass of 1 notice, 1 crash or failure | `MatchesPayOnce`: at most one settlement; `OnlyLiveMatchesPay`; `NothingHangs`: handlers end, and what nobody finishes is retired |
| `command_access` | 2 reading updates, 2 `/cmdcfg` calls, 3 maps, 2 outages or restarts | `CacheIsCurrent`, `StoresAreCurrent`, `FileFollowsCopy` |
| `shop_items` | fair; 2 handlers, 3 items, 1 card, 3 entries of which one is owned at first, 2 warnings, 1 fine, 1 failed commit or crash | `BooksAgree`: wallet, stock, entries, cards and the armed buster; `TearsAreFaults`: the two files part only by a fault; `HandlersEnd`: opposite lock orders do not hang |

`BooksAgree` is each component's accounting invariant, with its type invariant as a conjunct: every coin is in a wallet, an
open item or a counter (`EscrowAccountsForEveryCoin`, `BooksBalance`, `EveryCoinHasAnOwner`, `StakesAreBacked`, `WalletsAgree`,
`ProfitIsPaid`), rows that state the same thing agree (`CardMatchesTrades`, `GamesMatchOffers`, `CheckMatchesClaims`, `CodesAgree`,
`DonationsAgree`, `TreasuriesAgree`). Of `Duel`, whose coins move in one step only, `MatchesPayOnce` is what can go wrong. In `Payments` it includes the deposit figure behind the withdrawal gates
(`ReturnedMoneyFundsNothing`), in `Shop` stock, entries, cards and busters (`ItemsAreReal`).

Every property of a passing run has a mutant in `PROJECT.json`: a small change of one mapped definition, of
the kind a bug in that code would make, under which TLC finds the property violated.

### Why the bounds are enough

The interesting cases need two processes (one between its read and its write, the other committing), two
items of a kind that compete for one limit, and a ceiling that the amounts can reach. Each instance has them. `MaxAmount` is the
starting balance or one or two coins above it, so refunds and payouts are refused in many reachable states. Limits (quotas,
`MaxOrders`, `MaxOpen`, `ScanLimit`) are smaller than what the items could add up to, so they bind. A third payment is there
because the providers differ. A third process adds no new kind of overlap: at most one is ever inside a transaction, and unlocked
readers do not see each other. `p2p_market` lets a buyer hold one slice, so an express buy takes one and may skip others; that it never opens more than
the slots it counted is a theorem for any cap. At its price a minimum of 1 is one and a half coins: a purchase of 2 of 3 coins leaves one, worth
less than the minimum, and bounds of exactly 1 are met by no whole number of coins. In `p2p_sweep` the
ceiling is the whole wallet and the seller can earn 2 coins more, so that with his order cancelled neither of his stale trades may be
refundable, or only one; all three ends of `StaleIsFreed` occur. `MaxFlow`, `MaxSpent`, `MaxFaults` and the id sets bound the exploration and nothing in the code; the modules name
them as bounds. `Symmetry` permutes interchangeable users or handlers, and only in runs without liveness properties.

`gifts` lets two commands begin in all (`MaxGifts`), which is every pair of them in every interleaving, vouchers around them;
the ceiling is one coin above the welcome, so a recipient's, an owner's and the administrator's credit can each be refused.

`stake_games` allows one play per unit of time (`Hour = 0`, windows are inclusive) and two in three, with a cooldown of two, so that
each of the three limits binds where the others do not, and the cleanup deletes stamps at the last tick. It has one
player, as locks and limits are per player; the theorems cover any number. `duel_match` lets one challenge go up, which keeps its
liveness check small; both safety properties are theorems for any number. With two, a `/duel` that
read before another one was accepted writes over the accepted record, which the code does not prevent: the properties except those
two matches, and the hazard has no property of its own.

`shop_items` owns one item at first, a gift or the item that lifts a warning, and hands out two more entries, so that two
busters can wait for one slot; the gift has a stock of one; the balance starts at the ceiling, so a gift can be refused. With a single item that lifts
warnings, two taps on it race for its `consume` over two warnings; two such items on one warning (the `rowcount` check of
`remove_last_warning`) are not in the instance.

### Findings

One run checks what a comment in the code says, and TLC finds it violated.

| Run | The code says | What happens |
|---|---|---|
| `payments_barred` | a payment refused because of an earlier reversal must never be a silent one | the tombstone is committed between the delivery's read and its insert; the delivery ends as a crash answered with 200, without the card |

Remarks that came out of the modelling:

- *Withdrawals.* Two administrators approve one request: both lease it and both transfers go out. Crypto Pay refuses the first (the app's wallet
  is empty), which releases the lease; a reject refunds the request; the second transfer is executed. The request is paid and refunded, and the late
  `claim_terminal` finds it rejected and changes nothing. TLC reaches the trace with `lease[r] = "given away"`; the docstring of `approve`
  says that the lease does not exclude a second approver, but of the lease also that no refund can interleave. `spend_id` guards against
  paying twice and not against this. `approve` is not routed in the present wiring.
- *Payments.* The card that asks the owner to credit a refused payment by hand goes out before the route answers. If that
  answer is lost, the redelivery credits the payment once the ceiling permits.
- *P2P.* An expiry reopens a drained order whose seller has posted another one meanwhile: the cap holds at create only.
  `limits_are_sane` is to reject bounds "the book could not honour", and compares them with each other only: bounds between two multiples of the price
  (1 to 1 UAH at 0.45 a coin) are accepted and met by no amount, so the order stands on the book until its seller cancels it. `NoTailIsStranded` says that this
  and a contradictory legacy pair are the only ways to such an order.
  A trade that a pass leaves behind is said to be "not lost, only late" (`_EXPIRY_SCAN_LIMIT`). A timed-out slice of a cancelled order goes to its seller's wallet,
  which may be too full: the trade stays pending, at the head of the list, on every pass. 200 of those keep the sweep from all later trades until one of their
  sellers spends or somebody buys of the later trade's own order, whose lazy expiry looks at that order alone. `StaleIsFreed` names that end.
- *PvP.* A tie can be refused by the ceiling (the creator's stake was held in an earlier transaction and his wallet may have filled
  since); the accept then raises and rolls back, which `StakesFollowTheOffer` covers. A sweep passes by what it cannot
  refund only while fewer than `_EXPIRY_SCAN_LIMIT` (200) such rows head its list: `PoisonBlocksNobody` is checked for
  fewer.
- *Groups.* The row a group's change of id drops is said not to lose its accumulating columns
  (`services/group_migration_service.py`, `GroupMigrationResult`), but the coins in its treasury, which `GroupTreasuryService.payout` can still
  drain, are lost when the new id has a row already. `TreasuriesAgree` is an inequality for that reason. The merge says why: nothing
  fills a treasury any more.
- *Duels.* If the toast of the decisive roll cannot be answered, or the ceiling refuses the payout, both rolls stay on the
  record: nobody can roll again, and the match waits for the sweeper (300 s). A `/cancel` whose notice raises clears the
  record without the match lock, so a settlement under way may pay a match that is no longer there (the exception in
  `OnlyLiveMatchesPay`). A crash between `set_state` and `set_data` leaves a record without a stamp, which the sweeper skips
  for good. An accept that was caught between a lock-less clear and its flip brings back a record without an opponent.
  The busy scan is not under the play lock, so that nobody plays two matches at once is not claimed.
- *Shop and fines.* There is no two-phase commit: with a failed commit or a crash between two commits a warning is lifted and its item
  kept, a fine is taken without a log entry, and, since `Checkpoint` goes on after a failed commit, a fine may be logged that was never
  taken. `TearsAreFaults` counts exactly those. The item and `/fine` take the two locks in opposite order; only `busy_timeout` ends the wait.
  (`HandlersEnd` is checked against a wait without end. SQLite with no `busy_timeout` at all would not wait but fail at once; either way it is the bound of the wait, `PRAGMA
  busy_timeout`, that the property rests on.)
  `_spent_cards` is in memory: after a restart a used card sells again. A commit that fails after the card was edited leaves the card
  claimed, with a receipt for a sale that was rolled back.
- *Command map.* After `/cmdcfg` the gate's copy may be older until the next successful read: an outage right then is
  decided from the older map. Two overlapping writes of the snapshot may land in either order, a write may fail, and a map that is read again
  unchanged is not written again: after a restart the gate may then deny by a map that was replaced long ago. `FileFollowsCopy` bounds that by the next change that is
  written alone, which repairs the file.

### Fairness

- **Payments**: the provider's retry ladder redelivers what is not acknowledged (strong fairness on
  deliveries, reversals and answers: a delivery fails now and then, not for ever), and a handler's own steps are taken.
  A credit or a reversal's read that waits for the lock gets it if the lock is free again and again.
- **P2P, PvP** (in PvP the sweep's steps are those of whichever process runs the pass; one pass at a time): the sweeper ticks every 60 s for ever, not always into a held lock; a pass that waits for the lock gets it if
  it is free again and again; the process is not killed at the same step of every pass (strong fairness on each step of the pass, in P2P for each trade
  it expires, and there of one process only, `Sweeper`: the lazy passes of buyers owe nothing); steps under the lock are taken.

- **Stake games**: a handler that can take its next step does (weak fairness): inside the lock it awaits the database and
  Telegram calls with a timeout, both of which return or raise.
- **Duels**: handlers go on whenever they can again and again (strong fairness: a free lock is handed to a waiter; the queue is
  first come, first served), the sweeper's loop goes on, and it gets a match lock that is free again and again
  (`SweepGuard`): its wait for the guard is bounded by a timeout, but handlers leave the lock and every pass tries anew.
- **Shop**: weak fairness on a handler's own steps: an await on the database or on Telegram returns or raises, and
  `busy_timeout` ends a wait for a lock.

No fairness is assumed of users, admins or providers' payments: nobody has to accept, pay or cancel.

## 4. What is proved

TLAPS checks these theorems for every value of the constants that satisfies the named assumptions
(`MaxAmountAssumption`, `WithdrawalsAssumption`, `PaymentsAssumption`, `P2PAssumption`, `PvPAssumption`, `ChecksAssumption`, `GiftsAssumption`, `LocksAssumption`,
`StakeGamesAssumption`, `DuelAssumption`, `ShopAssumption`, `CommandAccessAssumption`). They type the constants, order the windows of the play budget (an hour and
the cooldown are no longer than the day), and say that the id sets (in `Shop` and `Duel` also the handlers) are finite where an invariant sums or counts over them: of any size, but a sum over
an infinite set means nothing. Orders and trades of `P2P` need not be: its invariant says that only finitely many are in use.

| Theorem | Statement |
|---|---|
| `WalletProofs!WalletWrites` | each SET clause keeps the row's type when its WHERE clause holds |
| `WithdrawalsProofs!TypeCorrect` | `Spec => []TypeOK`: balances stay in `0.._MAX_AMOUNT` |
| `WithdrawalsProofs!ExclusiveCreate` | `Spec => []CreateIsExclusive` |
| `WithdrawalsProofs!PaidNeverRefunded` | `Spec => []PaidIsNeverRefunded`, for any number of approvals at once |
| `WithdrawalsProofs!RequestsImplementEscrow` | `Spec => SettledOnce`, likewise |
| `WithdrawalsProofs!BooksAlwaysAgree` | `Spec => []BooksAgree`: every coin is in a wallet or an open request, for every wiring |
| `WithdrawalsProofs!QuotasAlwaysHold` | `Spec => []QuotasHold` |
| `WithdrawalsProofs!PayoutCapAlwaysHolds` | `PayoutRatio > 0` implies `Spec => PayoutCapAtGrant` (a ratio of 0 disarms the gate) |
| `PaymentsProofs!TypeCorrect` | `Spec => []TypeOK` |
| `PaymentsProofs!CreditsOnce` | `Spec => []CreditedOnce` |
| `PaymentsProofs!PaymentsImplementTopUp` | `Spec => CreditedOrBarred` |
| `PaymentsProofs!ReturnsAreMarked` | `Spec => []ReturnedIsMarked` |
| `PaymentsProofs!AcknowledgedAlwaysAnswered` | `Spec => []AcknowledgedIsAnswered` |
| `PaymentsProofs!BooksAlwaysAgree` | `Spec => []BooksAgree`, the deposit figure included |
| `P2PProofs!TypeCorrect` | `Spec => []TypeOK` |
| `P2PProofs!TailsCanBeBought` | `Spec => []NoTailIsStranded`, at every price and for all bounds |
| `P2PProofs!CapsHoldAlways` | `Spec => MarketCapsHold` |
| `P2PProofs!PaidStaysPaid` | `Spec => PaidIsNeverTimedOut` |
| `P2PProofs!TradesImplementEscrow` | `Spec => SettledOnce` |
| `P2PProofs!BooksAlwaysAgree` | `Spec => []BooksAgree` |
| `PvPProofs!TypeCorrect` | `Spec => []TypeOK` |
| `PvPProofs!StakesAlwaysFollow` | `Spec => []StakesFollowTheOffer` |
| `PvPProofs!OffersImplementEscrow` | `Spec => SettledOnce` |
| `PvPProofs!BooksAlwaysAgree` | `Spec => []BooksAgree` |
| `PvPProofs!PotsPayForThemselves` | `Spec => PotPaysForItself` |
| `GiftsProofs!TypeCorrect` | `GiftsSpec => []GiftsTypeOK` |
| `GiftsProofs!BooksAlwaysAgree` | `GiftsSpec => []BooksAgree` |
| `GiftsProofs!OpenAlwaysHasCoins` | `GiftsSpec => []OpenHasCoins` |
| `GiftsProofs!ClosedStaysClosed` | `GiftsSpec => ClosedForGood` |
| `StakeGamesProofs!TypeCorrect` | `Spec => []TypeOK` |
| `StakeGamesProofs!LocksAreAlwaysSound` | `Spec => []LocksAreSound` |
| `StakeGamesProofs!CapsAreReal` | `Spec => []CapsHold` |
| `StakeGamesProofs!BooksAlwaysAgree` | `Spec => []BooksAgree` |
| `StakeGamesProofs!CooldownAlwaysHolds` | `Spec => []CooldownHolds` |
| `StakeGamesProofs!MatchesArePaidOnce` | `DuelSpec => []MatchesPayOnce` |
| `StakeGamesProofs!OnlyLiveMatchesArePaid` | `DuelSpec => OnlyLiveMatchesPay` |
| `ShopProofs!BooksAlwaysAgree` | `Spec => []BooksAgree` |
| `ShopProofs!TearsAreAlwaysFaults` | `Spec => []TearsAreFaults` |
| `ShopProofs!CacheIsAlwaysCurrent` | `AccessSpec => []CacheIsCurrent` |
| `ShopProofs!StoresAreAlwaysCurrent` | `AccessSpec => StoresAreCurrent` |
| `ShopProofs!FileAlwaysFollows` | `AccessSpec => []FileFollowsCopy` |

**Withdrawals.** `PaidIsNeverRefunded` is not inductive: nothing in it says why a request that is not paid
*yet* cannot be refunded and then paid. `PayoutInv` adds what does, for any number of approvals of a request and without an assumption on them. Unless the
lease was given away, an approval, a call that may still be executed, and a payment each keep the request leased or recorded as paid (`LeaseHeld`). A lease
taken alone has one approval and one call, so that a refusal means no call is left and nothing was paid (`Alone`): releasing it is
safe. An answer "paid" is true (`PaidAnswer`). A refusal under a shared lease is the one step that would break the first part, and it is the step that marks
the lease as given away.

The refinement of `Escrow` needs no lease: `RequestMoves` classifies what one step may do to one row (kept, opened, or claimed while pending or
processing), whatever overlaps, so no late claim takes a row that is completed or rejected.

The coins need none of this: a step restates a request, inserts one against a hold, or refunds one against its coins (`BookStep`), and each of them leaves
wallet plus live requests equal to what the counters say. A day, a month and a lifetime are one argument, the usage over a set of days (`Usage`, `Window`), and
`QuotasEver` states the quotas for every day, not only the current one. An insert adds to the windows of the day it is stamped with, and create has looked at the day it began on. `InsertFits` says that at the insert the
quotas of *today* have room: nothing else is inserted meanwhile (`ExclusiveCreate`), and when midnight moves, no row is dated in the future
(`RowsDated`), so the new day has no rows and a new month neither. The payout cap reads off the same invariant in the step.

**Payments.** The inductive invariant is `TypeOK`, `RowsAreReal` (a row's credit is the price of its payment or 0, and
an absent row is blank), `CreditedOnce`, and for reversals `ReversalsHold`: a reversal at its stamp holds the lock, so
what it read is still true, and one past it has stamped unless the database was busy. The step is proved by classifying what a step may
do to one payment's row (`Unmoved`, `MarkedNow`, credited), from which `CreditedOnce` and the step of `TopUp` follow.

For `AcknowledgedIsAnswered`, `AnswersHold` adds that a delivery about to answer has an outcome and, where the outcome names a row, that the row is there (`AnswerSound`);
the step proves that what a payment has to show for itself (`Shown`: a credit, a tombstone, a card) is never taken back, and that only `Answer` acknowledges. For the books, the unit of the argument is one leg: `Balanced` says of
wallets and ledger that they agree, a checked credit with its ledger row takes balanced books to balanced ones, and a top-up is three legs of which the
last two may be rolled back together. The deposit figure is the sum of the positive purchases less the reversed; that it is the sum of the kept ones needs
`CreditedOnce` and `RowsAreReal`, the marks of `ReturnsAreMarked` make the returned ones a part of the reversed.

**P2P.** Buys and sweeps write their copy of the file step by step, so `P2PInv` says of the file and of the copy alike that their rows fit together
(`Linked`: a trade has its order, an order on the book has coins to sell) and that each buyer's open slices are within the cap (`Counted`);
that the copy is ahead of the file only by opened and timed-out trades (`Ahead`); and that a handler inside its transaction is the one
that holds the lock, so that what it found earlier still holds (`Ready`: a place for one more order, one more slice, or as many as an express buy
counted). The caps are not inductive without `Ready`: the count and the insert are different steps. Each step of the lock's holder keeps `Ready`
because it opens no more slices than it has counted, and an expiry opens none (`Expiring`, `Taking`, `Placing`). A step of `Next` commits or leaves the file
alone, and a commit flips statuses along `Flips` only (`Settles`); the remaining theorems read off that table.

For `NoTailIsStranded` the heart is a lemma about the bounds, `TailSells`: where the posted amount of an order has a slice that its bounds
admit, so has every smaller rest, because the minimum falls with the rest. `KeptInv` carries what connects it with the orders: what is left of an order and its open trades are together no more than was
posted, and whatever was taken from was sellable when it was posted (`Kept`); and a buyer past the gate of the bounds has shown that (`Gated`), although
the fill comes steps later.

The books are proved of the file and of the writer's copy (`Agree`): for each user the wallet, his coins on the book, and the slices he sold and did not get
back, less those he bought, are the coins he began with (`Owns`), and his card counts his trades (`Carded`). Each step changes one order, one trade or both, so the
proof gives what one order and one trade contribute (`OnBook`, `SoldIn`, `DueTo`, `Tallied`) and what a step does to it.

**PvP.** The transaction of an accept spans steps, so the invariant speaks of two copies of the file. `PvPInv` says that the
committed books are sound offer by offer (`Sound`: an escrow row's state is that of its offer); that the holder's copy is sound too, but for the one
offer it is accepting, which looks as the claim left it (`Playing`); that in a sweep the copy is ahead of the file only by refunds (`Ahead`);
and that a job's offer exists (`JobSound`). A step of `Next` either leaves the file alone or commits, and a commit settles an offer by
paying or by refunding it (`Settles`), which is the step of `Escrow`. Rollback and crash throw away the copy and need nothing else.

For the books, `Agree` says of both copies that a user's coins are in his wallet or in stakes held for him (`Backed`), and that his games and wins are the
finished offers and those he won (`Counted`). A step trades a stake for coins (`Trade`, `Exchange`) or plays the game out, where each of the two
first gets the worth of his stake back (`Due`) and the results move between them. `PotPaysForItself` compares the file before and after the
commit of an accept whose claim wrote its copy steps earlier: `Quiet` says that nothing written before that step moves a lifetime counter or
burns a coin, and the last step itself is `Even`.

**Checks and gifts.** `OpenHasCoins` is inductive with the types, provided a claim under way names a check that exists (`JobsPoint`).
`CheckMoves` classifies what a step may do to one check: kept, posted, claimed from while open, closed. `ClosedForGood` reads
off the same classification: the claim's UPDATE looks at `active` again under the lock, so its earlier read does not matter.

`GiftsInv` is `BooksAgree` with what a command has read (`Points`). Every write is a chain of purses (wallets and ledger). A purse is `Sound` if
its ledger and the vouchers explain its wallets (`Explained`); that `Minted`, `Taxed`, `OwnerPaid`, a debit and a fresh wallet each take a
sound purse to a sound one is a lemma about the operator, and the actions are compositions. The other tables (`TablesAgree`) are proved table by table: what one more redemption, donation
or payout adds to its sum, and that a change of id moves a group's sums and loses none of its score.

**Locks and play budget.** The first part of `StakeGamesProofs` proves of the lock table alone that an entry's user count is the number of calls whose variable
is that entry, that two keys never share an entry, and that an entry in the table is in use (`LockInv`); mutual exclusion
follows, as two holders of a key would be the head of one queue. `StakeGames` changes the table only by those steps. `CapsHold` is not inductive: `StakeInv`
adds that a command between its check and its stamp holds its player's lock (`Locked`), and that the windows it
read still have room, as far as committed plays of its past go (`Room`). A play enters only windows in which there was room; nobody of
the same player stamps in between; and what the cleanup deleted is older than any window a command under way can ask about (`Recorded`, from
`Patience`).

`CooldownHolds` compares stamps taken *before* the wait for the lock, and is only true because the lock is handed on in the order of the stamps. `TurnInv` says so:
a task is in its lock's queue once (`QueueInv`), in front of those that came later (`FirstCome`); no committed play of the player is newer than the stamp of one who still waits or plays (`Behind`), and a play past its check is the cooldown away from all of them
(`Cooled`). The books follow from `Stated`, what a command under way has moved but not committed, and from the sum of the committed rows (`Booking`).

**Duels.** Neither property is inductive: what the handler of the decisive roll found under the match lock must still be so at its commit, and after the
commit nobody may decide the match again. `DuelInv` says who holds which lock (`Owned`, `SweeperOwns`); that match numbers are distinct and never used twice (`Numbered`);
that a `/duel` about to write its data finds a record without an opponent, or one written over (`FindsBlank`); that a decided match is on its record, rolled by both, and decided
by one handler (`Live`); and that a paid match is decided by nobody, its record, if any is left, rolled by both, with no accept or next round on its way (`PaidIsClosed`): the rolls
can then not be cleared for another round, and a seat that has rolled cannot roll again. `Moves` is what every step but the commit and the crash does: it writes at most
one record, moves at most one handler, and takes nobody's lock; an old match leaves a record only under its lock (`Alone`) or wiped. The lemmas from `Moves` to the invariant
are proved once, and each action is shown to be such a move.

**Shop and fines.** `Sound` says of one book that it explains itself: the wallet by the entries, bonuses and fines, the stock by what was sold, the used busters by
the doubled bonuses. Each write (`Bought`, `Consumed`, `Armed`, `Gifted`, `Claimed`, a fine's debit) takes a sound book to a sound one; as the committed book and the
writer's copy are both sound, commit, rollback and crash cost nothing. What a handler read without the lock is still true when it writes because a later book
`Follows` an earlier one: an entry keeps its item, a claimed day stays claimed, and a buster is disarmed by a claim only. That is why a claim which read an armed buster and finds the day unclaimed
finds the buster armed too. `CardsHold` counts a card's sales: a card that can be tapped has sold nothing since the process last died, one whose
tap is under way is in `spent` and is held by one handler only.

`TearsAreFaults` is not inductive, because it reads the committed files and a handler's two commits are two steps. `Lead` says by what the copy is ahead of the file at each step between
the first write and the last commit: a warning fewer, one entry used, one fine more. `TearsHold` counts the handlers between their commits: one past its
first commit (`Lifting`, `Charging`) is what the files differ by, without any fault; a /fine whose first commit failed goes on to commit its record all the same
(`Uncharged`), so the fault it has counted already covers the row to come. The two files have one writer each (`LocksHold`), so there is at most one handler in
either place when the process dies, and a death costs one row.

**Command map.** `CacheIsCurrent` needs `Current`: a reader that still holds the current generation began after the last
clear, so what it read was committed by then. `FileInv` adds what is on its way to the file: unless the last write failed or was overlapped (`spoilt`), at
most one write is under way, it carries the map the gate's copy was last told to save, and with none under way that map is in the file. A write that begins alone ends `spoilt`,
which is why one bad write does not excuse the file for good.

**Sums and counts.** `SumOver` is a fold, a recursive function that has first to be shown to exist (`SumFunctionExists`), and what it gives when a row is added,
changed or removed needs induction over a finite set. The library's induction theorems take an operator as a parameter and cannot be used; `WalletProofs` goes by well-founded *minima* instead:
a set of naturals without a least element is empty (`NatSetInduction`), and hence a family of sets that has the empty one and is closed under adding an element has every
subset of a finite set (`SubsetInduction`). From these come the lemmas the books use: a sum changes as its one changed row does, sums of pointwise sums, sums over the rows with a property.

**Only model-checked.** Liveness (`DueIsAcknowledged`, `StaleIsFreed`, `PoisonBlocksNobody`, `TapIsAnswered`, `NothingHangs`,
`HandlersEnd`), as leads-to under fairness is out of the prover's reach. Every safety and action property that a passing run checks is a theorem.

## 5. What is not modelled

Inside the modelled parts: the stale-withdrawal alert; `set_balance`, referrer and
achievement columns of a wallet; `Checkpoint` over more than two files; YooKassa's re-verification call (a delivery that fails it never
begins); the alert budgets (except that an unauthenticated reversal may go untold); the floating-point rounding of a
commission near 10^15; P2P quotes, further currencies, the 50-row limit of an express buy's book; the DMs and card edits after a commit; `/cpc`, whose record, locks,
sweeper rules and settlement are those of `/duel` with other moves; the FSM storage's pruning of stateless rows; `FSMContext.clear` after a duel's last roll, two commits of fsm.db
(`set_state(None)`, then `set_data({})`), is one step, `RollClear`; the permission
matrix, rank and language caches, which follow the protocol of `CommandAccess`; the eviction of `TtlLruCache`;
in the shop the group's slice of a purchase, VIP, colour, mute-protection and XP grants, the custom-title dialogue, the expiry of a buster
(3 days) and of a spent card, further days, and the moderators' own warnings;
in gifts the cooldown of `/donate`, the rating's positions and history, and the notices.

Not at all: bonds, the rest of moderation, statistics. Handlers, keyboards, CMS and translations are parsing and layout around the services: the models
take from them only which call commits before which I/O. Migrations and scripts run once; the server's
lifespan, AI, voice and weather are I/O. `src/bot.py` and `src/translations.py`, a quarter of the repository's lines, are the
legacy program that the package replaces; `src/src/` does not run them.

## 6. Plan

Done, in this order, the money with the outside world first: `Wallet`, `Withdrawals` with `Escrow`, `Payments` with `TopUp`,
`P2P`, `PvP`, `Checks`, `KeyedLocks` with `StakeGames`, `Duel` with the FSM sweeper, `CommandAccess`,
`Shop`, `Gifts`. Every safety and action property of a run is proved.

What would come next:

1. The stale alert in `Withdrawals`; `Cashout`, composing `Payments` and `Withdrawals` through the deposit figure.
2. `set_balance`; `/cpc` over `Duel`'s record.

## 7. Running

`tlc -config MCWithdrawals_payout.cfg MCWithdrawals` checks one run (the cfg's prefix is its module; names as in
`PROJECT.json`). `tlapm WithdrawalsProofs.tla` checks the proofs of a module.
