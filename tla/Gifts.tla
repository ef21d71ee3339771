------------------------------- MODULE Gifts -------------------------------
(***************************************************************************)
(* Coins that change hands beside the vouchers of Checks, on the same      *)
(* wallets: /send with its tax (TransferService), /donate and the group's  *)
(* slice of a purchase (GroupDonationService), /group_pay from a group's   *)
(* treasury (GroupTreasuryService), promo codes (PromoService), and the    *)
(* change of a group's id (migrate_group_id).                              *)
(*                                                                         *)
(* Each command reads with no lock and writes in one transaction, whose    *)
(* savepoint unwinds when a leg is refused: two steps here, with any other *)
(* command in between.  The rating board (positions, history, names) and   *)
(* the cooldown of /donate are left out: they move no coins.               *)
(***************************************************************************)
EXTENDS Checks

CONSTANTS
  Groups, Codes,
  OwnerOf,             \* the creator of a group's chat
  Admin,               \* ADMIN_CHAT_ID: taxes and fees go to this wallet
  Offers,              \* the promo codes a developer may ask for
  PromoBudget,         \* MAX_PROMO_MINT_TOTAL
  TaxPercent,          \* COINS_TRANSFER_TAX
  Discounts,           \* what items and VIP may take off the tax, in percent
  DeveloperPercent, SlicePercent,
  Amounts, Prices,     \* sums a user types, prices of the shop
  OldGroups,           \* groups with coins in their treasury since the old bot
  Residue,             \* how many: nothing fills a treasury any more
  Upgrades,            \* <<group, supergroup>>
  MaxGifts             \* bound: commands begun

Group  == [treasury : Nat, xp : Nat]                     \* groups_donations
Promo  == [reward : Nat, max : Nat, once : BOOLEAN, used : Nat, active : BOOLEAN]

ASSUME GiftsAssumption ==
  /\ None \notin Groups \cup Codes \cup Group \cup Promo
  /\ IsFiniteSet(Groups) /\ IsFiniteSet(Codes)
  /\ OwnerOf \in [Groups -> Users]
  /\ Admin \in Users \cup {None}
  /\ Offers \subseteq [reward : Nat \ {0}, max : Nat, once : BOOLEAN]
  /\ {TaxPercent, DeveloperPercent, SlicePercent} \cup Discounts \subseteq 0..100
  /\ Amounts \cup Prices \subseteq Nat \ {0}
  /\ OldGroups \subseteq Groups /\ Residue \in Nat
  /\ \A move \in Upgrades : move \in Groups \X Groups /\ move[1] # move[2]
  /\ {PromoBudget, MaxGifts} \subseteq Nat

VARIABLES
  book,        \* the other tables of economy.db
  task         \* what each handler has read, between its reads and its write

allVars == <<db, job, past, book, task>>

Kinds == {"transfer", "tax", "burned", "donate", "share", "fee", "payout", "promo"}
Tally == [Groups -> [Users -> Nat]]

Ledger ==                                                \* transactions, summed
  [to : [Users -> Nat], from : [Users -> Nat], of : [Kinds -> Nat]]

Book ==
  [ledger : Ledger, group : [Groups -> Group \cup {None}],
   donated : Tally,                                      \* donations, summed
   top : Tally,                                          \* group_top_donators
   promo : [Codes -> Promo \cup {None}],
   redeemed : [Codes -> [Users -> Nat]],                 \* promo_redemptions, counted
   begun : Nat]

Rest == [step |-> "idle", user |-> None, to |-> None, at |-> None, amount |-> 0, tax |-> 0]
Task == [step : {"idle", "send", "donate", "payout", "redeem"}, user : Users \cup {None},
         to : Users \cup {None}, at : Groups \cup Codes \cup {None}, amount : Nat, tax : Nat]

Fresh(offer) == [reward |-> offer.reward, max |-> offer.max, once |-> offer.once,
                 used |-> 0, active |-> TRUE]

\* Codes made before may lack a cap or be over the budget.
GiftsInit ==
  /\ Init
  /\ \E promo \in [Codes -> {Fresh(offer) : offer \in Offers} \cup {None}] :
       book = [ledger  |-> [to |-> [u \in Users |-> 0], from |-> [u \in Users |-> 0],
                            of |-> [k \in Kinds |-> 0]],
               group   |-> [g \in Groups |-> IF g \in OldGroups
                                             THEN [treasury |-> Residue, xp |-> 0] ELSE None],
               donated |-> [g \in Groups |-> [u \in Users |-> 0]],
               top     |-> [g \in Groups |-> [u \in Users |-> 0]],
               promo   |-> promo,
               redeemed |-> [c \in Codes |-> [u \in Users |-> 0]],
               begun   |-> 0]
  /\ task = [p \in Procs |-> Rest]

Doing(p, step) == task[p].step = step

Begin(p, state) ==
  /\ At(p, "idle") /\ Doing(p, "idle")
  /\ book.begun < MaxGifts                               \* bound: commands
  /\ task' = [task EXCEPT ![p] = state]
  /\ book' = [book EXCEPT !.begun = @ + 1]
  /\ UNCHANGED <<db, job, past>>

\* The transaction of p commits with the wallets and ledger of purse, and the
\* other tables of b.
Commit(p, purse, b) ==
  /\ db' = [db EXCEPT !.wallet = purse.wallet]
  /\ book' = [b EXCEPT !.ledger = purse.ledger]
  /\ task' = [task EXCEPT ![p] = Rest]
  /\ UNCHANGED <<job, past>>

Purse == [wallet |-> db.wallet, ledger |-> book.ledger]

-----------------------------------------------------------------------------
(* What a transaction does to wallets and ledger.                          *)

Opening(wallet, u) ==                                    \* get_or_create
  IF wallet[u] = None THEN [wallet EXCEPT ![u] = Seeded(Welcome)] ELSE wallet

Recorded(ledger, kind, from, to, amount) ==
  [to   |-> [u \in Users |-> ledger.to[u] + (IF u = to THEN amount ELSE 0)],
   from |-> [u \in Users |-> ledger.from[u] + (IF u = from THEN amount ELSE 0)],
   of   |-> [ledger.of EXCEPT ![kind] = @ + amount]]

Paid(purse, u, amount) == CanCredit(Opening(purse.wallet, u)[u], amount)

\* A checked credit out of nothing, its ledger row only once it landed.
Minted(purse, u, amount, kind) ==
  LET wallet == Opening(purse.wallet, u)
  IN IF amount = 0 THEN purse
     ELSE IF ~ Paid(purse, u, amount) THEN [purse EXCEPT !.wallet = wallet]
     ELSE [wallet |-> [wallet EXCEPT ![u] = Credited(@, amount)],
           ledger |-> Recorded(purse.ledger, kind, None, u, amount)]

\* The tax leg of /send: balance only, and burned when the wallet is full.
Taxed(purse, from, tax) ==
  LET wallet == Opening(purse.wallet, Admin)
  IN IF tax = 0 THEN purse
     ELSE IF Admin = None
     THEN [purse EXCEPT !.ledger = Recorded(@, "burned", from, None, tax)]
     ELSE IF ~ Paid(purse, Admin, tax)
     THEN [wallet |-> wallet, ledger |-> Recorded(purse.ledger, "burned", from, None, tax)]
     ELSE [wallet |-> [wallet EXCEPT ![Admin] = Released(@, tax)],
           ledger |-> Recorded(purse.ledger, "tax", from, Admin, tax)]

Commission(amount, percent) ==                           \* purchase_commission_amount
  IF amount = 0 \/ percent = 0 THEN 0 ELSE Max({1, (amount * percent) \div 100})

\* _pay_owner: a fee may not outlive the share it is a cut of.
OwnerPaid(purse, owner, amount) ==
  LET fee   == Commission(amount, DeveloperPercent)
      share == amount - fee
      paid  == Minted(purse, owner, share, "share")
  IN IF owner = None THEN purse
     ELSE IF Admin = None \/ (share > 0 /\ ~ Paid(purse, owner, share)) THEN paid
     ELSE Minted(paid, Admin, fee, "fee")

\* record_donation; the group's first donation makes its row.
Scored(row, amount) ==
  IF row = None THEN [treasury |-> 0, xp |-> amount] ELSE [row EXCEPT !.xp = @ + amount]

Donated(b, g, u, amount) ==
  [b EXCEPT !.group[g] = Scored(@, amount),
            !.donated[g][u] = @ + amount,
            !.top[g][u] = @ + amount]

-----------------------------------------------------------------------------
(* /send.                                                                  *)

OpenWallet(u) ==                                         \* /start
  /\ db.wallet[u] = None
  /\ db' = [db EXCEPT !.wallet = Opening(@, u)]
  /\ UNCHANGED <<job, past, book, task>>

Tax(amount, discount) == (amount * TaxPercent * (100 - discount)) \div 10000

SendRead(p, u, v, amount, discount) ==
  /\ u # v
  /\ db.wallet[u] # None /\ db.wallet[v] # None
  /\ db.wallet[u].balance >= amount
  /\ Begin(p, [Rest EXCEPT !.step = "send", !.user = u, !.to = v, !.amount = amount,
                           !.tax = Tax(amount, discount)])

TransferRefusedMutant(before, debited) == debited        \* mutant: R-FIX-002

TransferRefused(before, debited) == before               \* the savepoint unwinds the debit

SendWrite(p) ==
  LET t == task[p]
      net == t.amount - t.tax
      debited == [db.wallet EXCEPT ![t.user] = Debited(@, t.amount)]
      fits == net > 0 /\ CanCredit(debited[t.to], net)
      sent == [wallet |-> [debited EXCEPT ![t.to] = Credited(@, net)],
               ledger |-> Recorded(book.ledger, "transfer", t.user, t.to, net)]
  IN /\ Doing(p, "send")
     /\ \/ /\ ~ CanDebit(db.wallet[t.user], t.amount)
           /\ Commit(p, Purse, book)
        \/ /\ CanDebit(db.wallet[t.user], t.amount) /\ ~ fits
           /\ Commit(p, [Purse EXCEPT !.wallet = TransferRefused(db.wallet, debited)], book)
        \/ /\ CanDebit(db.wallet[t.user], t.amount) /\ fits
           /\ Commit(p, Taxed(sent, t.user, t.tax), book)

-----------------------------------------------------------------------------
(* Groups: /donate, the slice of a purchase, /group_pay, the upgrade.      *)

\* Telegram may fail to name the creator: then nobody is paid.
DonateRead(p, u, g, amount, owner) ==
  /\ owner \in {OwnerOf[g], None}
  /\ Opening(db.wallet, u)[u].balance >= amount
  /\ Begin(p, [Rest EXCEPT !.step = "donate", !.user = u, !.to = owner, !.at = g,
                           !.amount = amount])

DonateWrite(p) ==
  LET t == task[p]
      wallet == Opening(db.wallet, t.user)
      debited == [wallet |-> [wallet EXCEPT ![t.user] = Debited(@, t.amount)],
                  ledger |-> Recorded(book.ledger, "donate", t.user, None, t.amount)]
  IN /\ Doing(p, "donate")
     /\ \/ /\ ~ CanDebit(wallet[t.user], t.amount)
           /\ Commit(p, Purse, book)
        \/ /\ CanDebit(wallet[t.user], t.amount)
           /\ Commit(p, OwnerPaid(debited, t.to, t.amount),
                     Donated(book, t.at, t.user, t.amount))

\* The slice of a purchase for a group is minted inside the purchase's own
\* transaction, which has charged the buyer (Shop).
RouteSlice(u, g, price, owner) ==
  LET amount == Commission(price, SlicePercent)
      purse  == OwnerPaid(Purse, owner, amount)
  IN /\ owner \in {OwnerOf[g], None}
     /\ amount > 0
     /\ book.begun < MaxGifts                            \* bound: commands
     /\ db' = [db EXCEPT !.wallet = purse.wallet]
     /\ book' = [Donated(book, g, u, amount) EXCEPT !.ledger = purse.ledger,
                                                    !.begun = @ + 1]
     /\ UNCHANGED <<job, past, task>>

Holds(g, amount) == book.group[g] # None /\ book.group[g].treasury >= amount

PayoutRead(p, u, g, amount) ==
  /\ u \in {OwnerOf[g], Admin}                           \* _caller_is_owner
  /\ Holds(g, amount)
  /\ Begin(p, [Rest EXCEPT !.step = "payout", !.user = u, !.at = g, !.amount = amount])

PayoutWrite(p) ==
  LET t == task[p]
  IN /\ Doing(p, "payout")
     /\ \/ /\ ~ Holds(t.at, t.amount) \/ ~ Paid(Purse, t.user, t.amount)
           /\ Commit(p, Purse, book)
        \/ /\ Holds(t.at, t.amount) /\ Paid(Purse, t.user, t.amount)
           /\ Commit(p, Minted(Purse, t.user, t.amount, "payout"),
                     [book EXCEPT !.group[t.at].treasury = @ - t.amount])

\* A row whose group already has one under the new id loses: its running totals
\* are added to the winner's, its treasury goes with it.
Folded(winner, loser) ==
  IF winner = None THEN loser ELSE [winner EXCEPT !.xp = @ + loser.xp]

Moved(tally, old, new) ==
  [tally EXCEPT ![new] = [u \in Users |-> tally[old][u] + tally[new][u]],
                ![old] = [u \in Users |-> 0]]

Migrate(old, new) ==
  /\ book.group[old] # None
  /\ book' = [book EXCEPT !.group = [@ EXCEPT ![new] = Folded(book.group[new], book.group[old]),
                                              ![old] = None],
                          !.donated = Moved(@, old, new),
                          !.top = Moved(@, old, new)]
  /\ UNCHANGED <<db, job, past, task>>

-----------------------------------------------------------------------------
(* Promo codes.                                                            *)

MintCode(c, offer) ==
  /\ book.promo[c] = None                                \* else DUPLICATE
  /\ offer.max > 0 /\ offer.reward * offer.max <= PromoBudget
  /\ book.begun < MaxGifts                               \* bound: commands
  /\ book' = [book EXCEPT !.promo[c] = Fresh(offer), !.begun = @ + 1]
  /\ UNCHANGED <<db, job, past, task>>

RedeemRead(p, u, c) ==
  LET promo == book.promo[c]
  IN /\ promo # None /\ promo.active
     /\ promo.once => book.redeemed[c][u] = 0            \* has_redeemed
     /\ Begin(p, [Rest EXCEPT !.step = "redeem", !.user = u, !.at = c])

Usable(promo) == promo.active /\ (promo.max > 0 => promo.used < promo.max)

Used(promo) ==                                           \* reserve_use, its SET clause
  [promo EXCEPT !.used = @ + 1,
                !.active = @ /\ (promo.max > 0 => promo.used + 1 < promo.max)]

RedeemWrite(p) ==
  LET c == task[p].at
      u == task[p].user
      promo == book.promo[c]
      lands == /\ Usable(promo)
               /\ promo.once => book.redeemed[c][u] = 0  \* insert_redemption_once
               /\ Paid(Purse, u, promo.reward)
  IN /\ Doing(p, "redeem")
     /\ \/ ~ lands /\ Commit(p, Purse, book)
        \/ /\ lands
           /\ Commit(p, Minted(Purse, u, promo.reward, "promo"),
                     [book EXCEPT !.promo[c] = Used(@), !.redeemed[c][u] = @ + 1])

-----------------------------------------------------------------------------
\* The process dies, or the wait for the writer lock times out, before it wrote.
Drop(p) == ~ Doing(p, "idle") /\ Commit(p, Purse, book)

\* A voucher command, by a handler that is not busy with a gift.
Voucher ==
  /\ Next
  /\ \A p \in Procs : ~ Doing(p, "idle") => job'[p] = job[p]
  /\ UNCHANGED <<book, task>>

Gift ==
  \/ \E u \in Users : OpenWallet(u)
  \/ \E p \in Procs, u, v \in Users, a \in Amounts, d \in Discounts : SendRead(p, u, v, a, d)
  \/ \E p \in Procs, u \in Users, g \in Groups, a \in Amounts, o \in Users \cup {None} :
       DonateRead(p, u, g, a, o)
  \/ \E u \in Users, g \in Groups, price \in Prices, o \in Users \cup {None} :
       RouteSlice(u, g, price, o)
  \/ \E p \in Procs, u \in Users, g \in Groups, a \in Amounts : PayoutRead(p, u, g, a)
  \/ \E p \in Procs, u \in Users, c \in Codes : RedeemRead(p, u, c)
  \/ \E p \in Procs : SendWrite(p) \/ DonateWrite(p) \/ PayoutWrite(p) \/ RedeemWrite(p) \/ Drop(p)
  \/ \E c \in Codes, offer \in Offers : MintCode(c, offer)
  \/ \E move \in Upgrades : Migrate(move[1], move[2])

GiftsNext == Voucher \/ Gift

GiftsSpec == GiftsInit /\ [][GiftsNext]_allVars

-----------------------------------------------------------------------------
GiftsTypeOK == TypeOK /\ book \in Book /\ task \in [Procs -> Task]

TallySum(tally) == SumOver([g \in Groups |-> SumOver(tally[g], Users)], Groups)

\* Checks, claims and the ledger explain every wallet to the coin: a refused leg
\* has taken its debit back, a tax is no income, a burned one reached nobody.
WalletsAgree ==
  \A u \in Users :
    LET claimed == SumOver([c \in Ids |-> db.claim[<<c, u>>]], Ids)
        funded  == SumOver([c \in Ids |-> db.check[c].total],
                           {c \in Ids : db.check[c].creator = u})
        income  == claimed + book.ledger.to[u]
        outlay  == funded + book.ledger.from[u]
    IN IF db.wallet[u] = None THEN income + outlay = 0
       ELSE /\ db.wallet[u].balance = Welcome + income - outlay
            /\ db.wallet[u].earned = income - (IF u = Admin THEN book.ledger.of["tax"] ELSE 0)
            /\ db.wallet[u].spent = outlay

\* A code is used as often as it was redeemed, within its cap and its once, is
\* open only below the cap, and issued its reward each time and never else.
CodesAgree ==
  LET Issued(c) == IF book.promo[c] = None THEN 0 ELSE book.promo[c].used * book.promo[c].reward
  IN /\ \A c \in Codes :
          LET promo == book.promo[c]
          IN promo # None =>
               /\ promo.used = SumOver(book.redeemed[c], Users)
               /\ promo.max > 0 => promo.used <= promo.max
               /\ promo.once => \A u \in Users : book.redeemed[c][u] <= 1
               /\ promo.active <=> (promo.max > 0 => promo.used < promo.max)
     /\ book.ledger.of["promo"] = SumOver([c \in Codes |-> Issued(c)], Codes)

\* A group's score and its donors' totals are its donations, also after its id
\* changed with a donation under way; owners and the developer never get more
\* out of donations than was donated.
DonationsAgree ==
  /\ \A g \in Groups :
       SumOver(book.donated[g], Users)
         = IF book.group[g] = None THEN 0 ELSE book.group[g].xp
  /\ book.top = book.donated
  /\ book.ledger.of["share"] + book.ledger.of["fee"] <= TallySum(book.donated)
  /\ book.ledger.of["donate"] <= TallySum(book.donated)

\* What was paid out of treasuries was in them.
TreasuriesAgree ==
  SumOver([g \in Groups |-> IF book.group[g] = None THEN 0 ELSE book.group[g].treasury], Groups)
    + book.ledger.of["payout"] <= Residue * Cardinality(OldGroups)

\* Every variable in its set; vouchers, transfers, donations, treasuries, promo
\* codes, ledger and wallets tell one story.
BooksAgree ==
  /\ GiftsTypeOK
  /\ CheckMatchesClaims
  /\ WalletsAgree
  /\ CodesAgree
  /\ DonationsAgree
  /\ TreasuriesAgree
=============================================================================
