-------------------------------- MODULE Shop --------------------------------
(***************************************************************************)
(* The shop and what one user's items do: PurchaseService,                 *)
(* InventoryUseService, the daily claim that spends a buster, the item     *)
(* that lifts a warning, and /fine.  The last two write two files,         *)
(* economy.db and moderation.db, which commit one after the other and have *)
(* a writer lock each; they take the two locks in opposite order.          *)
(*                                                                         *)
(* db[f] is file f as committed, work[f] as the holder of its lock sees    *)
(* it.  A receipt is edited into the card, a call to Telegram, before the  *)
(* middleware commits: if that raises, the session is rolled back.         *)
(***************************************************************************)
EXTENDS Wallet, FiniteSets, FiniteSetsExt

CONSTANTS
  Procs, None,
  Items, Kind, Price, Stock,   \* shop_items; a stock of -1 is infinite
  Cards, Shows,                \* the confirm cards and the item each one shows
  Entries,                     \* the ids inventory will hand out, ascending
  Owned,                       \* the items of which the user has one at first
  Warnings,                    \* the user's active warnings at first, ascending
  Welcome,                     \* the balance at first
  Payouts,                     \* what a gift may hold
  Reward                       \* what a day's bonus is

CONSTANTS                      \* bounds of the exploration
  Fines, MaxFines, MaxFaults

Kinds == {"gift", "buster", "unwarn"}

ASSUME ShopAssumption ==
  /\ None \notin Procs \cup Items \cup Cards /\ None \notin Entries \cup Warnings
  /\ Kind \in [Items -> Kinds] /\ Price \in [Items -> Nat]
  /\ Stock \in [Items -> Nat \cup {-1}] /\ Shows \in [Cards -> Items]
  /\ IsFiniteSet(Procs) /\ IsFiniteSet(Items)
  /\ Entries \cup Warnings \subseteq Nat
  /\ IsFiniteSet(Entries) /\ IsFiniteSet(Warnings)
  /\ Owned \subseteq Items /\ Entries # {}
  /\ Welcome \in 0..MaxAmount /\ Payouts \cup Fines \subseteq Nat \ {0}
  /\ {Reward, MaxFines, MaxFaults} \subseteq Nat

VARIABLES
  db, work, writer,    \* the two files, and the process inside BEGIN IMMEDIATE
  job,                 \* what each handler does and has read
  spent,               \* _spent_cards, in memory
  faults, restarts     \* commits that failed; deaths of the process

env  == <<faults, restarts>>
vars == <<db, work, writer, job, spent, env>>

Files == {"economy", "moderation"}

Entry == [item : Items \cup {None}, used : BOOLEAN, card : Cards \cup {None}, paid : Nat]
NoEntry == [item |-> None, used |-> FALSE, card |-> None, paid |-> 0]

Economy ==
  [wallet : Wallets, stock : [Items -> Nat \cup {-1}], entry : [Entries -> Entry],
   armed   : BOOLEAN,                \* the double_daily row of user_privileges
   claimed : BOOLEAN,                \* last_daily is less than a day ago
   claims  : Nat, doubled : Nat,     \* the daily rows of the ledger, and those doubled
   fines   : Nat, fined : Nat]       \* the fine rows of the ledger, and their sum

Moderation == [active : SUBSET Warnings, fines : Nat]   \* moderation_log's fine rows

Idle == [step |-> "idle", card |-> None, item |-> None, entry |-> None,
         warning |-> None, amount |-> 0, double |-> FALSE, charged |-> FALSE]
Steps == {"idle", "buy", "use", "receipt", "select", "remove", "consume", "lift",
          "checkpoint", "debit", "log", "charge", "record", "claim"}
Job  == [step : Steps, card : Cards \cup {None}, item : Items \cup {None},
         entry : Entries \cup {None}, warning : Warnings \cup {None}, amount : Nat,
         double : BOOLEAN, charged : BOOLEAN]

Init ==
  /\ \E i \in Owned :
       db = [economy |->
               [wallet |-> Seeded(Welcome), stock |-> Stock,
                entry |-> [e \in Entries |-> IF e = Min(Entries) THEN [NoEntry EXCEPT !.item = i]
                                                                ELSE NoEntry],
                armed |-> FALSE, claimed |-> FALSE, claims |-> 0, doubled |-> 0,
                fines |-> 0, fined |-> 0],
             moderation |-> [active |-> Warnings, fines |-> 0]]
  /\ work = db
  /\ writer = [f \in Files |-> None]
  /\ job = [p \in Procs |-> Idle]
  /\ spent = {}
  /\ faults = 0 /\ restarts = 0

At(p, step) == job[p].step = step
Become(p, state) == job' = [job EXCEPT ![p] = state]
Goto(p, step) == Become(p, [job[p] EXCEPT !.step = step])
Free(f) == writer[f] = None

-----------------------------------------------------------------------------
(* Sessions. *)

\* The process takes the lock of the file, or has it, and writes.
Write(p, f, book) ==
  /\ work' = [work EXCEPT ![f] = book] /\ writer' = [writer EXCEPT ![f] = p]
  /\ UNCHANGED db

Committed(f, book) ==
  /\ db' = [db EXCEPT ![f] = book] /\ work' = [work EXCEPT ![f] = book]
  /\ writer' = [writer EXCEPT ![f] = None]

Commits(f) == Committed(f, work[f]) /\ UNCHANGED env

Fault ==
  /\ faults + restarts < MaxFaults                      \* bound
  /\ faults' = faults + 1
  /\ UNCHANGED restarts

\* A commit that fails leaves the file as it was.
CommitLost(f) ==
  /\ Fault
  /\ work' = [work EXCEPT ![f] = db[f]] /\ writer' = [writer EXCEPT ![f] = None]
  /\ UNCHANGED db

\* An exception leaves the handler: the sessions of both files are rolled back,
\* and a card that was claimed can be tapped again.
RolledBack(p) ==
  /\ work' = [f \in Files |-> IF writer[f] = p THEN db[f] ELSE work[f]]
  /\ writer' = [f \in Files |-> IF writer[f] = p THEN None ELSE writer[f]]
  /\ spent' = spent \ {job[p].card}
  /\ Become(p, Idle)
  /\ UNCHANGED db

Fail(p) == RolledBack(p) /\ UNCHANGED env

\* The card is edited with the lock held; then the middleware commits.
Receipt(p) ==
  /\ At(p, "receipt")
  /\ \/ Fail(p)                                         \* Telegram raises
     \/ /\ writer["economy"] = p
        /\ Commits("economy") \/ CommitLost("economy")
        /\ Become(p, Idle)
        /\ UNCHANGED spent

-----------------------------------------------------------------------------
(* Redeeming an item: InventoryUseService.use from its first write on. *)

Consumable(book, e) == ~ book.entry[e].used             \* consume, its WHERE clause

Consumed(book, e) == [book EXCEPT !.entry[e].used = TRUE]

MayArmMutant(book) == TRUE               \* mutant: a second buster is armed over the first

MayArm(book) == ~ book.armed             \* get_active, under lock_writer

Armed(book, e) == [Consumed(book, e) EXCEPT !.armed = TRUE]

Gifted(book, e, amount) ==
  [Consumed(book, e) EXCEPT !.wallet = Credited(@, amount), !.entry[e].paid = amount]

\* An item that is not redeemed here stays unused; a payout the ceiling refuses
\* raises.
Redeem(p, book, e) ==
  LET kind == Kind[book.entry[e].item]
      hold(new) == /\ Write(p, "economy", new) /\ Goto(p, "receipt")
                   /\ UNCHANGED <<spent, env>>
  IN \/ /\ \/ kind = "unwarn" \/ ~ Consumable(book, e)
           \/ kind = "buster" /\ ~ MayArm(book)
        /\ hold(book)
     \/ /\ kind = "buster" /\ MayArm(book) /\ Consumable(book, e)
        /\ hold(Armed(book, e))
     \/ /\ kind = "gift" /\ Consumable(book, e)
        /\ \E amount \in Payouts :
             \/ CanCredit(book.wallet, amount) /\ hold(Gifted(book, e, amount))
             \/ ~ CanCredit(book.wallet, amount) /\ Fail(p)

\* A tap on Use: the unlocked read of the entry and of its item.
UseTap(p, e) ==
  LET entry == db.economy.entry[e]
  IN /\ At(p, "idle") /\ entry.item # None /\ ~ entry.used
     /\ Become(p, [Idle EXCEPT !.entry = e,
                    !.step = IF Kind[entry.item] = "unwarn" THEN "select" ELSE "use"])
     /\ UNCHANGED <<db, work, writer, spent, env>>

UseWrite(p) ==
  /\ At(p, "use") /\ Free("economy")
  /\ Redeem(p, work.economy, job[p].entry)

-----------------------------------------------------------------------------
(* Buying. *)

Unsold(book) == {e \in Entries : book.entry[e].item = None}

\* The unlocked read of the item.
ItemRead(p, c, i) ==
  /\ Cardinality(Unsold(work.economy)) > Cardinality({q \in Procs : At(q, "buy")})   \* bound: ids
  /\ IF db.economy.stock[i] = 0 THEN UNCHANGED job      \* OUT_OF_STOCK
     ELSE Become(p, [Idle EXCEPT !.step = "buy", !.card = c, !.item = i])
  /\ UNCHANGED <<db, work, writer, env>>

\* /buy has no card; a tap on the confirm card claims it first.
SlashBuy(p, i) ==
  /\ At(p, "idle")
  /\ ItemRead(p, None, i)
  /\ UNCHANGED spent

TapConfirm(p, c) ==
  /\ At(p, "idle") /\ c \notin spent
  /\ spent' = spent \cup {c}
  /\ ItemRead(p, c, Shows[c])

InStock(book, i) == book.stock[i] # 0    \* the stock UPDATE, its WHERE clause

Bought(book, i, e, card) ==
  [book EXCEPT !.wallet = Debited(@, Price[i]),
               !.stock[i] = IF @ = -1 THEN -1 ELSE @ - 1,
               !.entry[e] = [NoEntry EXCEPT !.item = i, !.card = card]]

\* Debit and stock in a savepoint, the entry, and its use on the spot.
BuyWrite(p) ==
  LET i == job[p].item
      e == Min(Unsold(work.economy))
  IN /\ At(p, "buy") /\ Free("economy")
     /\ \/ /\ ~ CanDebit(work.economy.wallet, Price[i]) \* INSUFFICIENT_FUNDS, checkpoint
           /\ Become(p, Idle)
           /\ UNCHANGED <<db, work, writer, spent, env>>
        \/ /\ CanDebit(work.economy.wallet, Price[i]) /\ ~ InStock(work.economy, i)
           /\ Write(p, "economy", work.economy)         \* the savepoint is rolled back
           /\ Goto(p, "receipt")
           /\ UNCHANGED <<spent, env>>
        \/ /\ CanDebit(work.economy.wallet, Price[i]) /\ InStock(work.economy, i)
           /\ Redeem(p, Bought(work.economy, i, e, job[p].card), e)

-----------------------------------------------------------------------------
(* The item that lifts a warning: removed in moderation.db, then consumed  *)
(* in economy.db, then the two commits in that order.                      *)

\* The newest active warning, read without the lock.
UnwarnSelect(p) ==
  LET active == db.moderation.active
  IN /\ At(p, "select")
     /\ IF active = {} THEN Become(p, Idle)
        ELSE Become(p, [job[p] EXCEPT !.step = "remove", !.warning = Max(active)])
     /\ UNCHANGED <<db, work, writer, spent, env>>

UnwarnRemove(p) ==
  LET w == job[p].warning
  IN /\ At(p, "remove") /\ Free("moderation")
     /\ \/ /\ w \notin work.moderation.active           \* rowcount 0, rolled back
           /\ Become(p, Idle)
           /\ UNCHANGED <<db, work, writer>>
        \/ /\ w \in work.moderation.active
           /\ Write(p, "moderation", [work.moderation EXCEPT !.active = @ \ {w}])
           /\ Goto(p, "consume")
     /\ UNCHANGED <<spent, env>>

\* The consume decides; if it loses, the warning is put back.
UnwarnConsume(p) ==
  LET e == job[p].entry
  IN /\ At(p, "consume") /\ Free("economy")
     /\ \/ /\ Consumable(work.economy, e)
           /\ Write(p, "economy", Consumed(work.economy, e))
           /\ Goto(p, "lift")
        \/ /\ ~ Consumable(work.economy, e)
           /\ work' = [work EXCEPT !.moderation = db.moderation]
           /\ writer' = [economy |-> p, moderation |-> None]
           /\ Goto(p, "receipt")
           /\ UNCHANGED db
     /\ UNCHANGED <<spent, env>>

AfterLiftMutant == "receipt"             \* mutant: the consume is left to the middleware

AfterLift == "checkpoint"

UnwarnLift(p) ==
  /\ At(p, "lift")
  /\ \/ Commits("moderation") /\ Goto(p, AfterLift) /\ UNCHANGED spent
     \/ RolledBack(p) /\ Fault                           \* the commit raises

UnwarnCheckpoint(p) ==
  /\ At(p, "checkpoint")
  /\ Commits("economy") \/ CommitLost("economy")
  /\ Become(p, Idle)
  /\ UNCHANGED spent

-----------------------------------------------------------------------------
(* /fine: the debit in economy.db, its record in moderation.db, and a      *)
(* checkpoint that commits the first, then the second, whether or not the  *)
(* first one failed.                                                       *)

\* The unlocked read; what is taken is clamped to the balance.
FineTap(p, amount) ==
  LET deducted == Min({amount, db.economy.wallet.balance})
  IN /\ At(p, "idle") /\ deducted > 0
     /\ db.economy.fines + Cardinality({q \in Procs : job[q].step \in {"debit", "log"}})
          < MaxFines                                    \* bound
     /\ Become(p, [Idle EXCEPT !.step = "debit", !.amount = deducted])
     /\ UNCHANGED <<db, work, writer, spent, env>>

FineDebit(p) ==
  LET book == work.economy
      amount == job[p].amount
  IN /\ At(p, "debit") /\ Free("economy")
     /\ \/ /\ ~ CanDebit(book.wallet, amount)            \* a checkpoint frees the lock
           /\ Become(p, Idle)
           /\ UNCHANGED <<db, work, writer>>
        \/ /\ CanDebit(book.wallet, amount)
           /\ Write(p, "economy", [book EXCEPT !.wallet = Debited(@, amount),
                                               !.fines = @ + 1, !.fined = @ + amount])
           /\ Goto(p, "log")
     /\ UNCHANGED <<spent, env>>

FineLog(p) ==
  /\ At(p, "log") /\ Free("moderation")
  /\ Write(p, "moderation", [work.moderation EXCEPT !.fines = @ + 1])
  /\ Goto(p, "charge")
  /\ UNCHANGED <<spent, env>>

FineCharge(p) ==
  /\ At(p, "charge")
  /\ \/ Commits("economy") /\ Become(p, [job[p] EXCEPT !.step = "record", !.charged = TRUE])
     \/ CommitLost("economy") /\ Goto(p, "record")
  /\ UNCHANGED spent

FineRecord(p) ==
  /\ At(p, "record")
  /\ Commits("moderation") \/ CommitLost("moderation")
  /\ Become(p, Idle)
  /\ UNCHANGED spent

-----------------------------------------------------------------------------
(* The daily bonus: what happens within one day. *)

\* The unlocked reads: the cooldown, and whether a buster is armed.
DailyRead(p) ==
  /\ At(p, "idle") /\ ~ db.economy.claimed
  /\ Become(p, [Idle EXCEPT !.step = "claim", !.double = db.economy.armed])
  /\ UNCHANGED <<db, work, writer, spent, env>>

Claimable(book) == ~ book.claimed        \* mark_daily_claimed, its WHERE clause

Bonus(p) == IF job[p].double THEN 2 * Reward ELSE Reward

Claimed(p, book) ==
  [book EXCEPT !.claimed = TRUE, !.wallet = Credited(@, Bonus(p)), !.claims = @ + 1,
               !.doubled = IF job[p].double THEN @ + 1 ELSE @,
               !.armed   = @ /\ ~ job[p].double]          \* consume_double_daily

\* The mark and the credit in a savepoint; a buster is spent on success only.
DailyClaim(p) ==
  LET book == work.economy
  IN /\ At(p, "claim") /\ Free("economy")
     /\ \/ /\ ~ Claimable(book)                          \* RACE_LOST, checkpoint
           /\ Become(p, Idle)
           /\ UNCHANGED <<db, work, writer, env>>
        \/ /\ Claimable(book) /\ ~ CanCredit(book.wallet, Bonus(p))
           /\ Write(p, "economy", book)                 \* CREDIT_FAILED, rolled back
           /\ Goto(p, "receipt")
           /\ UNCHANGED env
        \/ /\ Claimable(book) /\ CanCredit(book.wallet, Bonus(p))
           /\ Become(p, Idle)
           /\ \/ Committed("economy", Claimed(p, book)) /\ UNCHANGED env
              \/ CommitLost("economy")
     /\ UNCHANGED spent

-----------------------------------------------------------------------------
(* The rest. *)

Waits(p, f) ==
  ~ Free(f) /\ job[p].step \in
    IF f = "economy" THEN {"buy", "use", "consume", "debit", "claim"} ELSE {"remove", "log"}

TimesOutMutant(p) == FALSE               \* mutant: no busy_timeout, a wait without end

TimesOut(p) == \E f \in Files : Waits(p, f)

BusyTimeout(p) == TimesOut(p) /\ Fail(p)

\* The process dies: the locks and the claimed cards are gone with it.
Crash ==
  /\ faults + restarts < MaxFaults                      \* bound
  /\ restarts' = restarts + 1
  /\ work' = db /\ writer' = [f \in Files |-> None]
  /\ job' = [p \in Procs |-> Idle]
  /\ spent' = {}
  /\ UNCHANGED <<db, faults>>

\* What a handler does by itself once it has begun.
Goes(p) ==
  \/ BuyWrite(p) \/ UseWrite(p) \/ Receipt(p)
  \/ UnwarnSelect(p) \/ UnwarnRemove(p) \/ UnwarnConsume(p) \/ UnwarnLift(p)
  \/ UnwarnCheckpoint(p)
  \/ FineDebit(p) \/ FineLog(p) \/ FineCharge(p) \/ FineRecord(p)
  \/ DailyClaim(p) \/ BusyTimeout(p)

Next ==
  \/ \E p \in Procs, i \in Items : SlashBuy(p, i)
  \/ \E p \in Procs, c \in Cards : TapConfirm(p, c)
  \/ \E p \in Procs, e \in Entries : UseTap(p, e)
  \/ \E p \in Procs, amount \in Fines : FineTap(p, amount)
  \/ \E p \in Procs : DailyRead(p) \/ Goes(p)
  \/ Crash

Spec == Init /\ [][Next]_vars

\* An await on the database or on Telegram returns or raises.
FairSpec == Spec /\ \A p \in Procs : WF_vars(Goes(p))

-----------------------------------------------------------------------------
TypeOK ==
  /\ {db, work} \subseteq [economy : Economy, moderation : Moderation]
  /\ writer \in [Files -> Procs \cup {None}]
  /\ job \in [Procs -> Job]
  /\ spent \subseteq Cards
  /\ {faults, restarts} \subseteq Nat

Sold(i) == {e \in Entries \ {Min(Entries)} : db.economy.entry[e].item = i}

\* Every coin of the wallet has a row that says where it came from or went: a
\* purchase, a fine, a gift, a bonus.  A gift is used when it has paid.
CoinsHaveRows ==
  LET book == db.economy
  IN /\ book.wallet.spent
          = SumOver([i \in Items |-> Price[i] * Cardinality(Sold(i))], Items) + book.fined
     /\ book.wallet.earned = SumOver([e \in Entries |-> book.entry[e].paid], Entries)
                             + Reward * (book.claims + book.doubled)
     /\ book.wallet.balance = Worth(book.wallet, Welcome)
     /\ \A e \in Entries : LET entry == book.entry[e]
                           IN entry.item # None /\ Kind[entry.item] = "gift"
                                => (entry.used <=> entry.paid > 0)

\* Stock and entries agree; every buster used has doubled a bonus or is armed; a
\* card sells one item, once more only after the process died and lost the claims it
\* keeps in memory (a claim's lapse after half an hour is left out).
ItemsAreReal ==
  LET book == db.economy
  IN /\ \A i \in Items : Stock[i] # -1 => book.stock[i] + Cardinality(Sold(i)) = Stock[i]
     /\ Cardinality({e \in Entries : book.entry[e].used /\ Kind[book.entry[e].item] = "buster"})
          = book.doubled + (IF book.armed THEN 1 ELSE 0)
     /\ \A c \in Cards :
          Cardinality({e \in Entries : book.entry[e].card = c}) <= 1 + restarts

\* Wallet, stock, inventory, armed buster and ledger tell one story, whatever taps,
\* refused receipts, lost races and timeouts come between.
BooksAgree == TypeOK /\ CoinsHaveRows /\ ItemsAreReal

\* The two files part only where a commit failed or the process died: every warning
\* lifted has its item consumed, every fine taken has its record, but for the
\* handler between the two commits.
TearsAreFaults ==
  LET lifted   == Cardinality(Warnings) - Cardinality(db.moderation.active)
      redeemed == Cardinality({e \in Entries : db.economy.entry[e].used
                                               /\ Kind[db.economy.entry[e].item] = "unwarn"})
      lifting  == Cardinality({p \in Procs : At(p, "checkpoint")})
      charging == Cardinality({p \in Procs : At(p, "record") /\ job[p].charged})
      torn     == db.economy.fines - db.moderation.fines - charging
  IN /\ lifted - redeemed - lifting \in 0 .. faults + restarts
     /\ torn \in - (faults + restarts) .. faults + restarts

\* Every handler ends, although lifting a warning and /fine take the two locks in
\* opposite order: the one that waits longest gives up.
HandlersEnd == \A p \in Procs : ~ At(p, "idle") ~> At(p, "idle")
=============================================================================
