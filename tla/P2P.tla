--------------------------------- MODULE P2P ---------------------------------
(***************************************************************************)
(* The P2P market: P2pService over the tables of p2p_repo and the wallets. *)
(* A seller's coins go into escrow with his order; a buyer carves a slice  *)
(* of the order into a trade, pays fiat outside the bot, and the slice     *)
(* ends with him, with the seller or back in the order.                    *)
(*                                                                         *)
(* Transactions are explicit: "db" is the committed file, "work" what the  *)
(* holder of the writer lock sees, equal to db while nobody holds it.  A   *)
(* commit copies work to db, a crash copies db to work.  The services that *)
(* take the lock first (create, buy, express buy, the sweep) run in several *)
(* steps; those whose only unlocked read is of immutable columns are one.  *)
(*                                                                         *)
(* One currency book is modelled, at its market price of PriceFiat for     *)
(* PriceCoins.  An order's bounds and an express budget are fiat; fiat is  *)
(* compared in PriceCoins-ths of its unit, where a coin is worth PriceFiat *)
(* of them.                                                                *)
(***************************************************************************)
EXTENDS Wallet, FiniteSets, FiniteSetsExt

CONSTANTS
  Users, Procs,        \* Telegram users; concurrent handlers and the sweeper
  None,
  Orders, Trades,      \* the ids the tables will hand out, ascending
  Sweeper,             \* the process whose passes never stop
  PriceFiat,           \* the market rate: fiat for so many coins
  PriceCoins,
  Welcome,             \* balance of a new wallet
  MaxOrders,           \* MAX_ACTIVE_ORDERS_PER_SELLER
  MaxOpen,             \* MAX_OPEN_TRADES_PER_BUYER
  ScanLimit            \* _EXPIRY_SCAN_LIMIT

CONSTANTS              \* bounds of the exploration
  Amounts, Asked,      \* coins an order is created with, a buyer asks for
  Budgets,             \* fiat an express buyer would spend, in PriceCoins-ths
  Limits,              \* per-trade bounds in fiat, typed or found; min 0: unset
  Legacy,              \* those of an order the legacy bot may have left
  Flows, MaxFlow       \* coins earned and spent elsewhere, and their sum

ASSUME P2PAssumption ==
  /\ None \notin Users \cup Procs \cup Orders \cup Trades
  /\ Orders \subseteq Nat /\ Trades \subseteq Nat
  /\ Sweeper \in Procs
  /\ PriceFiat \in Nat \ {0} /\ PriceCoins \in Nat \ {0}
  /\ Welcome \in 0..MaxAmount
  /\ {MaxOrders, MaxOpen, ScanLimit, MaxFlow} \subseteq Nat
  /\ Amounts \subseteq Nat \ {0} /\ Asked \subseteq Nat \ {0}
  /\ Budgets \subseteq Nat \ {0} /\ Flows \subseteq Nat
  /\ Limits \subseteq [min : Nat, max : Nat] /\ Legacy \subseteq Limits

VARIABLES
  db,        \* economy.db as committed
  work,      \* economy.db as the holder of the writer lock sees it
  writer,    \* the process inside BEGIN IMMEDIATE, or None
  job,       \* what each process is doing, with its local variables
  stale      \* trades older than the pending TTL

vars == <<db, work, writer, job, stale>>

OrderStatuses == {"none", "active", "completed", "cancelled"}
Order ==
  [status : OrderStatuses, seller : Users \cup {None}, amount : Nat, remaining : Nat,
   bounds : Limits \cup {None}]
NoOrder ==
  [status |-> "none", seller |-> None, amount |-> 0, remaining |-> 0, bounds |-> None]

Holding   == {"pending", "paid", "disputed"}
ToBuyer   == {"confirmed", "refund_buyer"}
ToSeller  == {"cancelled_timeout", "returned_seller"}
Trade ==
  [status : {"none"} \cup Holding \cup ToBuyer \cup ToSeller,
   order : Orders \cup {None}, buyer : Users \cup {None}, amount : Nat]
NoTrade == [status |-> "none", order |-> None, buyer |-> None, amount |-> 0]

Stats   == [trades : Nat, sold : Nat, disputes : Nat]
NoStats == [trades |-> 0, sold |-> 0, disputes |-> 0]

Books == [wallet : [Users -> Wallets], order : [Orders -> Order],
          trade : [Trades -> Trade], stats : [Users -> Stats]]

Steps == {"idle", "count", "insert",                       \* create_sell_order
          "expire", "slots", "reexpire", "fill", "walk",   \* buy, express_buy
          "listed", "sweep"}                               \* the expiry pass
Idle == [step |-> "idle", user |-> None, order |-> None, amount |-> 0,
         bounds |-> None, scan |-> {}, slots |-> 0, next |-> 0]
Job  == [step : Steps, user : Users \cup {None}, order : Orders \cup {None},
         amount : Nat, bounds : Limits \cup {None}, scan : SUBSET Trades,
         slots : Nat, next : Nat]

FreeOrders(book) == {o \in Orders : book.order[o].status = "none"}

\* hold() and create_order.
Posted(book, u, amount, bounds) ==
  LET o == Min(FreeOrders(book))
  IN [book EXCEPT
        !.wallet[u] = Held(@, amount),
        !.order[o] = [status |-> "active", seller |-> u, amount |-> amount,
                      remaining |-> amount, bounds |-> bounds]]

Fresh == [wallet |-> [u \in Users |-> Seeded(Welcome)],
          order  |-> [o \in Orders |-> NoOrder],
          trade  |-> [t \in Trades |-> NoTrade],
          stats  |-> [u \in Users |-> NoStats]]

\* An order from before limits_are_sane carries whatever bounds were typed.
Inherited ==
  {Posted(Fresh, u, amount, bounds) :
     u \in Users, amount \in {n \in Amounts : n <= Welcome /\ Orders # {}}, bounds \in Legacy}

Init ==
  /\ db \in {Fresh} \cup Inherited
  /\ work = db
  /\ writer = None
  /\ job = [p \in Procs |-> Idle]
  /\ stale = {}

-----------------------------------------------------------------------------
(* Transactions. *)

Unlocked == writer = None
At(p, step) == job[p].step = step

TakeLockMutant(p) == UNCHANGED writer     \* mutant: a read-only prologue

TakeLock(p) == writer' = p                \* lock_writer, or the first savepoint

Become(p, state) == job' = [job EXCEPT ![p] = state]
Goto(p, step)    == job' = [job EXCEPT ![p].step = step]
Write(book)      == work' = book /\ UNCHANGED <<db, writer, stale>>

\* The session of the process commits and its handler returns.
Commit(p, book) ==
  /\ db' = book /\ work' = book
  /\ writer' = None
  /\ Become(p, Idle)
  /\ UNCHANGED stale

\* A transaction no other step can come between.
Atomically(book) ==
  /\ Unlocked
  /\ db' = book /\ work' = book
  /\ UNCHANGED <<writer, job, stale>>

-----------------------------------------------------------------------------
(* Queries.  A row's id is the next one the table hands out. *)

Seller(book, t)   == book.order[book.trade[t].order].seller
Live(book, u)     == {o \in Orders : /\ book.order[o].seller = u
                                     /\ book.order[o].status = "active"
                                     /\ book.order[o].remaining > 0}
FreeTrades(book)  == {t \in Trades : book.trade[t].status = "none"}

OpenAsBuyer(book, u) ==
  Cardinality({t \in Trades : /\ book.trade[t].buyer = u
                              /\ book.trade[t].status \in Holding})

Scanned(book, t) == book.trade[t].status = "pending"

StaleTradesMutant(book, orders) ==        \* mutant: the newest first
  LET found == {t \in stale : Scanned(book, t) /\ book.trade[t].order \in orders}
  IN {t \in found : Cardinality({s \in found : s > t}) < ScanLimit}

\* list_pending_older_than: the oldest ids first, ScanLimit of them.
StaleTrades(book, orders) ==
  LET found == {t \in stale : Scanned(book, t) /\ book.trade[t].order \in orders}
  IN {t \in found : Cardinality({s \in found : s < t}) < ScanLimit}

-----------------------------------------------------------------------------
(* create_sell_order.  Currency, amount and bounds are refused before the  *)
(* lock is taken.                                                          *)

Sane(bounds) == 0 < bounds.max /\ bounds.min <= bounds.max

CreateLock(p, u, amount, bounds) ==
  /\ At(p, "idle") /\ Unlocked /\ Sane(bounds)
  /\ FreeOrders(work) # {}                              \* bound: ids
  /\ TakeLock(p)
  /\ Become(p, [Idle EXCEPT !.step = "count", !.user = u, !.amount = amount,
                            !.bounds = bounds])
  /\ UNCHANGED <<db, work, stale>>

CreateCounted(p) ==
  /\ At(p, "count")
  /\ Cardinality(Live(work, job[p].user)) < MaxOrders
  /\ Goto(p, "insert")
  /\ Write(work)

CreateRefused(p) ==
  /\ At(p, "count")
  /\ Cardinality(Live(work, job[p].user)) >= MaxOrders
  /\ Commit(p, work)

\* hold() and the insert; a short wallet inserts nothing and still commits.
CreateInsert(p) ==
  LET u == job[p].user
      amount == job[p].amount
  IN /\ At(p, "insert")
     /\ FreeOrders(work) # {}                            \* bound: ids
     /\ \/ /\ CanDebit(work.wallet[u], amount)
           /\ Commit(p, Posted(work, u, amount, job[p].bounds))
        \/ /\ ~ CanDebit(work.wallet[u], amount)
           /\ Commit(p, work)

\* What a savepoint leaves when the credit inside it is refused.
RolledBackMutant(before, after) ==        \* mutant: the status flip survives
  [before EXCEPT !.trade = after.trade, !.order = after.order]

RolledBack(before, after) == before

\* A status flip and the release that goes with it, in one savepoint.
PayOut(before, flipped, u, amount) ==
  IF CanCredit(before.wallet[u], amount)
  THEN [flipped EXCEPT !.wallet[u] = Released(@, amount)]
  ELSE RolledBack(before, flipped)

\* cancel_guard and its second statement.
Cancelled(row) == [row EXCEPT !.status = "cancelled", !.remaining = 0]

\* cancel_order: the order off the book, and the refund.
CancelOrder(o) ==
  /\ db.order[o].status = "active" /\ db.order[o].remaining > 0
  /\ Atomically(PayOut(db, [db EXCEPT !.order[o] = Cancelled(@)],
                       db.order[o].seller, db.order[o].remaining))

-----------------------------------------------------------------------------
(* The expiry of one stale trade: guard, slice back to its order, or to    *)
(* the seller if the order is cancelled.                                   *)

ExpirableMutant(book, t) == book.trade[t].status \in Holding    \* mutant: guard dropped

Expirable(book, t) == book.trade[t].status = "pending"    \* expire_pending_guard

ReturnSlice(row, amount) ==
  [row EXCEPT !.remaining = @ + amount, !.status = "active"]

Expired(book, t) ==
  LET o == book.trade[t].order
      amount == book.trade[t].amount
      flipped == [book EXCEPT !.trade[t].status = "cancelled_timeout"]
  IN IF ~ Expirable(book, t) THEN book
     ELSE IF book.order[o].status \in {"active", "completed"}
     THEN [flipped EXCEPT !.order[o] = ReturnSlice(@, amount)]
     ELSE PayOut(book, flipped, Seller(book, t), amount)

ExpireOne(p) ==
  /\ job[p].step \in {"expire", "reexpire", "sweep"}
  /\ job[p].scan # {}
  /\ Write(Expired(work, Min(job[p].scan)))
  /\ job' = [job EXCEPT ![p].scan = @ \ {Min(@)}]

-----------------------------------------------------------------------------
(* buy: the order's own stale trades first, then the gates, then the fill. *)
(* express_buy (order None) expires the whole book and has no order gate;  *)
(* the amount of its job is the budget left.                               *)

BuyLock(p, u, order, amount) ==
  /\ At(p, "idle") /\ Unlocked
  /\ FreeTrades(work) # {}                              \* bound: ids
  /\ TakeLock(p)
  /\ Become(p, [Idle EXCEPT !.step = "expire", !.user = u, !.order = order,
       !.amount = amount,
       !.scan = StaleTrades(work, IF order = None THEN Orders ELSE {order})])
  /\ UNCHANGED <<db, work, stale>>

FiatOf(coins) == coins * PriceFiat
Least(a, b)   == IF a < b THEN a ELSE b

EffectiveMinMutant(bounds, remaining) == bounds.min * PriceCoins   \* mutant: not clamped

\* The minimum, clamped to what the rest of the order is worth.
EffectiveMin(bounds, remaining) == Least(bounds.min * PriceCoins, FiatOf(remaining))

WithinBounds(bounds, remaining, amount) ==
  /\ FiatOf(amount) >= EffectiveMin(bounds, remaining)
  /\ FiatOf(amount) <= bounds.max * PriceCoins

Buyable(book, o, u, amount) ==
  LET row == book.order[o]
  IN /\ row.status = "active" /\ row.remaining > 0
     /\ row.seller # u
     /\ amount > 0 /\ amount <= row.remaining
     /\ WithinBounds(row.bounds, row.remaining, amount)

BuyGate(p) ==
  LET ok == job[p].order # None
              => Buyable(work, job[p].order, job[p].user, job[p].amount)
  IN /\ At(p, "expire") /\ job[p].scan = {}
     /\ \/ ok /\ Goto(p, "slots") /\ Write(work)
        \/ ~ok /\ Commit(p, work)

\* _free_open_slots: at the ceiling the whole book is expired and the count
\* retaken; slots are what express_buy may still open.
FreeSlots(p) ==
  LET open == OpenAsBuyer(work, job[p].user)
      go   == IF job[p].order = None THEN "walk" ELSE "fill"
  IN \/ /\ At(p, "slots") \/ (At(p, "reexpire") /\ job[p].scan = {})
        /\ open < MaxOpen
        /\ job' = [job EXCEPT ![p].step = go, ![p].slots = MaxOpen - open]
        /\ Write(work)
     \/ /\ At(p, "slots") /\ open >= MaxOpen
        /\ job' = [job EXCEPT ![p].step = "reexpire", ![p].scan = StaleTrades(work, Orders)]
        /\ Write(work)
     \/ /\ At(p, "reexpire") /\ job[p].scan = {} /\ open >= MaxOpen
        /\ Commit(p, work)

\* fill and complete_if_drained.
Filled(row, amount) ==
  [row EXCEPT !.remaining = @ - amount,
              !.status = IF row.remaining = amount THEN "completed" ELSE "active"]

\* The slice becomes a trade: create_trade.
Taken(book, o, u, amount) ==
  LET t == Min(FreeTrades(book))
  IN [book EXCEPT
        !.order[o] = Filled(@, amount),
        !.trade[t] = [status |-> "pending", order |-> o, buyer |-> u, amount |-> amount]]

CanFill(book, o, amount) ==
  book.order[o].status = "active" /\ book.order[o].remaining >= amount

BuyFill(p) ==
  LET o == job[p].order
  IN /\ At(p, "fill")
     /\ Commit(p, IF CanFill(work, o, job[p].amount)
                  THEN Taken(work, o, job[p].user, job[p].amount)
                  ELSE work)                            \* RACE_LOST

\* What express_buy takes of an order: the budget, capped by the order's worth
\* and its maximum, in whole coins.  The quotient of two floats is truncated:
\* where it is a whole number it may come out just below it, a coin less.
Slices(row, budget) ==
  LET fiat == Least(budget, Least(FiatOf(row.remaining), row.bounds.max * PriceCoins))
  IN {n \in 0..row.remaining : FiatOf(n) <= fiat /\ fiat <= FiatOf(n + 1)}

\* list_active from where the walk is; equal prices are walked by id.
Offers(p) == {o \in Orders : /\ o >= job[p].next
                             /\ work.order[o].status = "active"
                             /\ work.order[o].remaining > 0}

\* The walk goes on while there is budget and a free slot.
Walking(p) == /\ At(p, "walk") /\ Offers(p) # {}
              /\ job[p].amount > 0 /\ job[p].slots > 0
              /\ FreeTrades(work) # {}                  \* bound: ids

\* An order of the buyer's own, or whose floor the slice is below, is skipped.
ExpressTake(p) ==
  LET o == Min(Offers(p))
      u == job[p].user
  IN /\ Walking(p)
     /\ \E take \in Slices(work.order[o], job[p].amount) :
          \/ /\ Buyable(work, o, u, take)
             /\ Write(Taken(work, o, u, take))
             /\ job' = [job EXCEPT ![p].amount = @ - FiatOf(take), ![p].slots = @ - 1,
                                   ![p].next = o + 1]
          \/ /\ ~ Buyable(work, o, u, take)
             /\ Write(work)
             /\ job' = [job EXCEPT ![p].next = o + 1]

ExpressDone(p) ==
  /\ At(p, "walk") /\ ~ Walking(p)
  /\ Commit(p, work)

-----------------------------------------------------------------------------
(* The expiry pass of the money sweeper and of order_book: the list is     *)
(* read outside any transaction, the first savepoint takes the lock.       *)

SweepList(p) ==
  /\ At(p, "idle")
  /\ StaleTrades(db, Orders) # {}
  /\ Become(p, [Idle EXCEPT !.step = "listed", !.scan = StaleTrades(db, Orders)])
  /\ UNCHANGED <<db, work, writer, stale>>

SweepLock(p) ==
  /\ At(p, "listed") /\ Unlocked
  /\ TakeLock(p)
  /\ Goto(p, "sweep")
  /\ UNCHANGED <<db, work, stale>>

SweepDone(p) ==
  /\ At(p, "sweep") /\ job[p].scan = {}
  /\ Commit(p, work)

-----------------------------------------------------------------------------
(* The life of a trade, each a guarded UPDATE and what hangs on it. *)

MarkPaid(t) ==
  /\ db.trade[t].status = "pending"
  /\ Atomically([db EXCEPT !.trade[t].status = "paid"])

Sold(book, t) ==                                        \* record_successful_trade
  LET card == book.stats[Seller(book, t)]
  IN [book EXCEPT !.stats[Seller(book, t)] =
       [card EXCEPT !.trades = @ + 1, !.sold = @ + book.trade[t].amount]]

SellerConfirm(t) ==
  /\ db.trade[t].status = "paid"
  /\ Atomically(PayOut(db, Sold([db EXCEPT !.trade[t].status = "confirmed"], t),
                       db.trade[t].buyer, db.trade[t].amount))

DisputableMutant == Holding \cup ToBuyer     \* mutant: the legacy unguarded write

Disputable == {"pending", "paid"}

OpenDispute(t) ==
  /\ db.trade[t].status \in Disputable
  /\ Atomically([db EXCEPT !.trade[t].status = "disputed"])

\* The transition of resolve_dispute with the seller's counters.
Ruled(t, ruling) ==
  LET flipped == [db EXCEPT !.trade[t].status = ruling]
  IN CASE ruling = "refund_buyer"    -> [flipped EXCEPT !.stats[Seller(db, t)].disputes = @ + 1]
       [] ruling = "confirmed"       -> Sold(flipped, t)
       [] ruling = "returned_seller" -> flipped

ResolveDispute(t, ruling) ==
  /\ db.trade[t].status = "disputed"
  /\ Atomically(PayOut(db, Ruled(t, ruling),
       IF ruling \in ToBuyer THEN db.trade[t].buyer ELSE Seller(db, t),
       db.trade[t].amount))

-----------------------------------------------------------------------------
(* The clock, the rest of the economy, and failures. *)

Age(t) ==
  /\ db.trade[t].status = "pending"
  /\ stale' = stale \cup {t}
  /\ UNCHANGED <<db, work, writer, job>>

Earn(u, amount) ==
  /\ CanCredit(db.wallet[u], amount)
  /\ Atomically([db EXCEPT !.wallet[u] = Credited(@, amount)])

Spend(u, amount) ==
  /\ CanDebit(db.wallet[u], amount)
  /\ Atomically([db EXCEPT !.wallet[u] = Debited(@, amount)])

\* A pass that waits longer than busy_timeout for the lock ends.
BusyTimeout(p) ==
  /\ At(p, "listed") /\ ~ Unlocked
  /\ Become(p, Idle)
  /\ UNCHANGED <<db, work, writer, stale>>

Crash ==
  /\ job # [p \in Procs |-> Idle]
  /\ job' = [p \in Procs |-> Idle]
  /\ writer' = None
  /\ work' = db
  /\ UNCHANGED <<db, stale>>

-----------------------------------------------------------------------------
Sell(p) ==
  \/ \E u \in Users, amount \in Amounts, bounds \in Limits : CreateLock(p, u, amount, bounds)
  \/ CreateCounted(p) \/ CreateRefused(p) \/ CreateInsert(p)

Buy(p) ==
  \/ \E u \in Users, o \in Orders, amount \in Asked : BuyLock(p, u, o, amount)
  \/ \E u \in Users, budget \in Budgets : BuyLock(p, u, None, budget)
  \/ ExpireOne(p) \/ BuyGate(p) \/ FreeSlots(p) \/ BuyFill(p)
  \/ ExpressTake(p) \/ ExpressDone(p)

Sweep(p) == SweepList(p) \/ SweepLock(p) \/ SweepDone(p) \/ BusyTimeout(p)

Deal(t) ==
  \/ MarkPaid(t) \/ SellerConfirm(t) \/ OpenDispute(t) \/ Age(t)
  \/ \E ruling \in ToBuyer \cup {"returned_seller"} : ResolveDispute(t, ruling)

Elsewhere(u) ==
  \E amount \in Flows : /\ db.wallet[u].earned + db.wallet[u].spent + amount <= MaxFlow  \* bound
                        /\ Earn(u, amount) \/ Spend(u, amount)

Next ==
  \/ \E p \in Procs : Sell(p) \/ Buy(p) \/ Sweep(p)
  \/ \E o \in Orders : CancelOrder(o)
  \/ \E t \in Trades : Deal(t)
  \/ \E u \in Users : Elsewhere(u)
  \/ Crash

Spec == Init /\ [][Next]_vars

\* The steps under the lock wait for nothing but the database.
Proceed(p) ==
  \/ CreateCounted(p) \/ CreateRefused(p) \/ CreateInsert(p)
  \/ ExpireOne(p) \/ BuyGate(p) \/ FreeSlots(p) \/ BuyFill(p)
  \/ ExpressTake(p) \/ ExpressDone(p) \/ SweepDone(p)

(* The money sweeper ticks every minute for ever, and not always into a    *)
(* held lock; a pass that waits for the lock gets it before busy_timeout   *)
(* unless somebody holds it all that time; and the process is not killed   *)
(* at the same step of every pass.                                         *)
FairSpec ==
  /\ Spec
  /\ \A p \in Procs : WF_vars(Proceed(p))
  /\ SF_vars(SweepList(Sweeper) /\ Unlocked)
  /\ SF_vars(SweepLock(Sweeper))
  /\ \A t \in Trades :
       SF_vars(ExpireOne(Sweeper) /\ At(Sweeper, "sweep") /\ t = Min(job[Sweeper].scan))
  /\ SF_vars(SweepDone(Sweeper))

-----------------------------------------------------------------------------
\* Every variable stays in its set: no balance, order or slice goes negative.
TypeOK ==
  /\ db \in Books /\ work \in Books
  /\ writer \in Procs \cup {None}
  /\ job \in [Procs -> Job]
  /\ stale \subseteq Trades

InBook(u)  == SumOver([o \in Orders |-> db.order[o].remaining],
                      {o \in Orders : db.order[o].seller = u})
Amount(S)  == SumOver([t \in Trades |-> db.trade[t].amount], S)
SoldBy(u, statuses) ==
  {t \in Trades : db.trade[t].status \in statuses /\ Seller(db, t) = u}
BoughtBy(u, statuses) ==
  {t \in Trades : db.trade[t].status \in statuses /\ db.trade[t].buyer = u}

\* Every coin is somewhere, and its owner's: what a user's lifetime counters
\* say he owns, plus what he bought, is in his wallet, in his orders, in the
\* open trades of his orders or with his buyers (hold and release around
\* fill, return_slice, cancel_guard and every refused payout).
EveryCoinHasAnOwner ==
  \A u \in Users :
    db.wallet[u].balance + InBook(u) + Amount(SoldBy(u, Holding \cup ToBuyer))
      = Worth(db.wallet[u], Welcome) + Amount(BoughtBy(u, ToBuyer))

\* One buyer never freezes more than MAX_OPEN_TRADES_PER_BUYER slices of the
\* market, disputed ones included (#1503, #1685).
BuyerHoldsFewSlices ==
  \A u \in Users : Cardinality(BoughtBy(u, Holding)) <= MaxOpen

\* create never puts an order past the cap on the book (#1690).
CreateKeepsTheCap ==
  \A u \in Users, o \in Orders :
    db.order[o].status = "none" /\ db'.order[o].seller = u
      => Cardinality(Live(db', u)) <= MaxOrders

\* Both caps hold whatever creates, buys and sweeps run side by side: the count
\* and the insert are under one lock, also in an express buy that opens several.
MarketCapsHold == [][BuyerHoldsFewSlices' /\ CreateKeepsTheCap]_vars

Sellable(bounds, remaining) ==
  \E amount \in 1..remaining : WithinBounds(bounds, remaining, amount)

\* An order is on the book exactly while it has coins to sell, never more than it
\* was posted with; and if nobody can buy any of it, then nobody ever could: fills,
\* timeouts and the express walk strand no remainder below the order's own minimum.
NoTailIsStranded ==
  \A o \in Orders :
    LET row == db.order[o]
    IN IF row.status = "active"
       THEN /\ row.remaining \in 1..row.amount
            /\ Sellable(row.bounds, row.remaining) \/ row.remaining = row.amount
       ELSE row.remaining = 0

\* "The buyer asserting payment beats the sweep": a trade found stale while
\* pending and paid before its savepoint is never timed out.
PaidIsNeverTimedOut ==
  [][\A t \in Trades : db.trade[t].status = "paid" =>
       db'.trade[t].status # "cancelled_timeout"]_vars

\* A seller's public card counts exactly the trades he completed and the
\* disputes he lost: the counters ride the same savepoint as the payout.
CardMatchesTrades ==
  \A u \in Users :
    LET done == SoldBy(u, {"confirmed"})
    IN db.stats[u] = [trades |-> Cardinality(done), sold |-> Amount(done),
                      disputes |-> Cardinality(SoldBy(u, {"refund_buyer"}))]

\* Every variable in its set, every coin with its owner, every card true.
BooksAgree == TypeOK /\ EveryCoinHasAnOwner /\ CardMatchesTrades

\* Each trade is an item of escrow: held while open, then paid to the buyer or
\* returned to the order or the seller.
EscrowState == [t \in Trades |->
  IF db.trade[t].status \in Holding THEN "held"
  ELSE IF db.trade[t].status \in ToBuyer THEN "paid"
  ELSE IF db.trade[t].status \in ToSeller THEN "returned" ELSE "none"]

E == INSTANCE Escrow WITH Items <- Trades, state <- EscrowState

\* Every slice leaves escrow at most once and to one side only.
SettledOnce == E!Spec

Waits(t) == t \in stale /\ db.trade[t].status = "pending"

\* Its order was cancelled, and the seller's wallet cannot take the slice back.
Stuck(t) ==
  /\ db.order[db.trade[t].order].status = "cancelled"
  /\ ~ CanCredit(db.wallet[Seller(db, t)], db.trade[t].amount)

\* "Not lost, only late": a pending trade past its TTL is paid, disputed or freed
\* in the end, although some before it are refused their refund on every pass;
\* unless its own is refused, or ScanLimit refused ones fill the list.
StaleIsFreed ==
  \A t \in Trades :
    Waits(t) ~> \/ ~ Waits(t) \/ Stuck(t)
                \/ Cardinality({s \in Trades : s < t /\ Waits(s) /\ Stuck(s)}) >= ScanLimit
=============================================================================
