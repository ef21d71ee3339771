----------------------------- MODULE ShopProofs -----------------------------
(***************************************************************************)
(* That the books of the shop agree and that its two files part only where *)
(* a commit failed or the process died, for any number of handlers, items, *)
(* cards, entries and warnings.  The argument:                             *)
(*  - a book is sound when it explains itself; every operation turns a     *)
(*    sound book into a sound one that follows the earlier, so what a      *)
(*    handler has read without the lock is still so when it writes;        *)
(*  - the holder of a lock is at most one row ahead of the committed file, *)
(*    and at most one handler is between two commits; what it has not      *)
(*    committed yet is what the other file is short of;                    *)
(*  - a card that can be tapped has sold nothing since the last restart.   *)
(*                                                                         *)
(* The last part is about CommandAccess, which keeps the other rows of     *)
(* moderation.db: no map that a finished /cmdcfg replaced is served from   *)
(* the cache or kept by the gate.  A read that still holds the current     *)
(* generation began after the last clear, and what it read was committed   *)
(* by then.                                                                *)
(***************************************************************************)
EXTENDS Shop, CommandAccess, WalletProofs

-----------------------------------------------------------------------------
(* Data: what one changed entry does to the sums and counts of a book.      *)

SoldIn(b, i)    == {e \in Entries \ {Min(Entries)} : b.entry[e].item = i}
UsedIn(b, kind) == {e \in Entries : b.entry[e].used /\ Kind[b.entry[e].item] = kind}
OnCard(b, c)    == {e \in Entries : b.entry[e].card = c}
Outlay(b)       == [i \in Items |-> Price[i] * Cardinality(SoldIn(b, i))]
Payout(b)       == [e \in Entries |-> b.entry[e].paid]

OnlyEntry(b, c, e) == \A d \in Entries : d # e => c.entry[d] = b.entry[d]

LEMMA FirstEntry == Min(Entries) \in Entries
<1>1. Entries \in SUBSET Nat /\ Entries # {}
  BY ShopAssumption
<1>. QED
  BY <1>1, MinOfNats

LEMMA NoneApart == None \notin Items /\ None \notin Cards /\ None \notin Entries /\ None \notin Procs
  BY ShopAssumption

LEMMA EconomyFields ==
  ASSUME NEW b \in Economy
  PROVE  /\ b = [wallet |-> b.wallet, stock |-> b.stock, entry |-> b.entry, armed |-> b.armed,
                 claimed |-> b.claimed, claims |-> b.claims, doubled |-> b.doubled,
                 fines |-> b.fines, fined |-> b.fined]
         /\ b.wallet \in Wallets /\ b.stock \in [Items -> Nat \cup {-1}]
         /\ b.entry \in [Entries -> Entry]
         /\ b.armed \in BOOLEAN /\ b.claimed \in BOOLEAN
         /\ b.claims \in Nat /\ b.doubled \in Nat /\ b.fines \in Nat /\ b.fined \in Nat
  BY DEF Economy

LEMMA EntryFields ==
  ASSUME NEW b \in Economy, NEW e \in Entries
  PROVE  /\ b.entry[e] \in Entry
         /\ b.entry[e] = [item |-> b.entry[e].item, used |-> b.entry[e].used,
                          card |-> b.entry[e].card, paid |-> b.entry[e].paid]
         /\ b.entry[e].item \in Items \cup {None} /\ b.entry[e].used \in BOOLEAN
         /\ b.entry[e].card \in Cards \cup {None} /\ b.entry[e].paid \in Nat
  BY EconomyFields DEF Entry

LEMMA SoldMoves ==
  ASSUME NEW b \in Economy, NEW c \in Economy, NEW e \in Entries, OnlyEntry(b, c, e), NEW i
  PROVE  /\ Cardinality(SoldIn(b, i)) \in Nat /\ Cardinality(SoldIn(c, i)) \in Nat
         /\ Cardinality(SoldIn(c, i))
              = Cardinality(SoldIn(b, i)) + (IF e \in SoldIn(c, i) THEN 1 ELSE 0)
                                          - (IF e \in SoldIn(b, i) THEN 1 ELSE 0)
<1>1. /\ SoldIn(b, i) \in SUBSET Entries /\ SoldIn(c, i) \in SUBSET Entries
      /\ \A d \in Entries : d # e => (d \in SoldIn(b, i) <=> d \in SoldIn(c, i))
  BY DEF SoldIn, OnlyEntry
<1>. QED
  BY <1>1, CountOfRows, ShopAssumption

LEMMA UsedMoves ==
  ASSUME NEW b \in Economy, NEW c \in Economy, NEW e \in Entries, OnlyEntry(b, c, e), NEW k
  PROVE  /\ Cardinality(UsedIn(b, k)) \in Nat /\ Cardinality(UsedIn(c, k)) \in Nat
         /\ Cardinality(UsedIn(c, k))
              = Cardinality(UsedIn(b, k)) + (IF e \in UsedIn(c, k) THEN 1 ELSE 0)
                                          - (IF e \in UsedIn(b, k) THEN 1 ELSE 0)
<1>1. /\ UsedIn(b, k) \in SUBSET Entries /\ UsedIn(c, k) \in SUBSET Entries
      /\ \A d \in Entries : d # e => (d \in UsedIn(b, k) <=> d \in UsedIn(c, k))
  BY DEF UsedIn, OnlyEntry
<1>. QED
  BY <1>1, CountOfRows, ShopAssumption

LEMMA CardMoves ==
  ASSUME NEW b \in Economy, NEW c \in Economy, NEW e \in Entries, OnlyEntry(b, c, e), NEW k
  PROVE  /\ Cardinality(OnCard(b, k)) \in Nat /\ Cardinality(OnCard(c, k)) \in Nat
         /\ Cardinality(OnCard(c, k))
              = Cardinality(OnCard(b, k)) + (IF e \in OnCard(c, k) THEN 1 ELSE 0)
                                          - (IF e \in OnCard(b, k) THEN 1 ELSE 0)
<1>1. /\ OnCard(b, k) \in SUBSET Entries /\ OnCard(c, k) \in SUBSET Entries
      /\ \A d \in Entries : d # e => (d \in OnCard(b, k) <=> d \in OnCard(c, k))
  BY DEF OnCard, OnlyEntry
<1>. QED
  BY <1>1, CountOfRows, ShopAssumption

LEMMA PayoutMoves ==
  ASSUME NEW b \in Economy, NEW c \in Economy, NEW e \in Entries, OnlyEntry(b, c, e)
  PROVE  /\ SumOver(Payout(b), Entries) \in Int
         /\ SumOver(Payout(c), Entries) = SumOver(Payout(b), Entries) + c.entry[e].paid - b.entry[e].paid
<1>0. IsFiniteSet(Entries)
  BY ShopAssumption
<1>a. \A d \in Entries : Payout(b)[d] = b.entry[d].paid /\ Payout(c)[d] = c.entry[d].paid
  BY DEF Payout
<1>b. \A x \in Economy : \A d \in Entries : x.entry[d].paid \in Nat
  BY EntryFields
<1>1. /\ \A d \in Entries : Payout(b)[d] \in Int /\ Payout(c)[d] \in Int
      /\ \A d \in Entries : d # e => Payout(c)[d] = Payout(b)[d]
      /\ Payout(c)[e] = c.entry[e].paid /\ Payout(b)[e] = b.entry[e].paid
  BY <1>a, <1>b DEF OnlyEntry
<1>2. SumOver(Payout(b), Entries) \in Int
  BY <1>0, <1>1, SumInt
<1>3. SumOver(Payout(c), Entries) = SumOver(Payout(b), Entries) + Payout(c)[e] - Payout(b)[e]
  BY <1>0, <1>1, SumUpdate
<1>. QED
  BY <1>1, <1>2, <1>3

\* What the prices of the sold entries add up to, when nothing more is sold, and
\* when one more is.
LEMMA OutlayMoves ==
  ASSUME NEW b \in Economy, NEW c \in Economy, NEW e \in Entries, OnlyEntry(b, c, e),
         e # Min(Entries)
  PROVE  /\ SumOver(Outlay(b), Items) \in Int
         /\ \A i \in Items :
              b.entry[e].item = None /\ c.entry[e].item = i
                => SumOver(Outlay(c), Items) = SumOver(Outlay(b), Items) + Price[i]
<1>0. IsFiniteSet(Items) /\ Price \in [Items -> Nat]
  BY ShopAssumption
<1>1. \A i : /\ Cardinality(SoldIn(b, i)) \in Nat /\ Cardinality(SoldIn(c, i)) \in Nat
             /\ Cardinality(SoldIn(c, i))
                  = Cardinality(SoldIn(b, i)) + (IF e \in SoldIn(c, i) THEN 1 ELSE 0)
                                              - (IF e \in SoldIn(b, i) THEN 1 ELSE 0)
  BY SoldMoves
<1>2. \A m \in Nat, n \in Nat : m * n \in Nat /\ m * (n + 1) = m * n + m
  OBVIOUS
<1>3. \A i \in Items : Outlay(b)[i] \in Int /\ Outlay(c)[i] \in Int
  BY <1>0, <1>1, <1>2 DEF Outlay
<1>4. SumOver(Outlay(b), Items) \in Int
  BY <1>0, <1>3, SumInt
<1>5. ASSUME NEW i \in Items, b.entry[e].item = None, c.entry[e].item = i
      PROVE  SumOver(Outlay(c), Items) = SumOver(Outlay(b), Items) + Price[i]
  <2>1. e \in SoldIn(c, i) /\ e \notin SoldIn(b, i)
    BY <1>5, NoneApart DEF SoldIn
  <2>2. \A j \in Items : j # i => e \notin SoldIn(c, j) /\ e \notin SoldIn(b, j)
    BY <1>5, NoneApart DEF SoldIn
  <2>3. Cardinality(SoldIn(c, i)) = Cardinality(SoldIn(b, i)) + 1
    BY <1>1, <2>1
  <2>4. \A j \in Items : j # i => Cardinality(SoldIn(c, j)) = Cardinality(SoldIn(b, j))
    BY <1>1, <2>2
  <2>5. Outlay(c)[i] = Outlay(b)[i] + Price[i]
    BY <1>0, <1>1, <1>2, <2>3 DEF Outlay
  <2>6. \A j \in Items : j # i => Outlay(c)[j] = Outlay(b)[j]
    BY <2>4 DEF Outlay
  <2>7. /\ \A j \in Items : Outlay(b)[j] \in Int
        /\ Outlay(c)[i] \in Int
    BY <1>3, <1>5
  <2>8. SumOver(Outlay(c), Items) = SumOver(Outlay(b), Items) + Outlay(c)[i] - Outlay(b)[i]
    <3> DEFINE f == Outlay(b)
               g == Outlay(c)
    <3>1. (\A j \in Items : f[j] \in Int) /\ g[i] \in Int /\ \A j \in Items : j # i => g[j] = f[j]
      BY <2>6, <2>7
    <3>. HIDE DEF f, g
    <3>2. SumOver(g, Items) = SumOver(f, Items) + g[i] - f[i]
      BY <1>0, <3>1, SumUpdate
    <3>. QED
      BY <3>2 DEF f, g
  <2>9. Outlay(b)[i] \in Int /\ Price[i] \in Nat
    BY <1>0, <1>5, <2>7
  <2>. QED
    BY <1>4, <2>5, <2>8, <2>9
<1>. QED
  BY <1>4, <1>5

\* Selling nothing leaves the counts of the sold as they are.
LEMMA SoldStays ==
  ASSUME NEW b, NEW c, \A e \in Entries : c.entry[e].item = b.entry[e].item
  PROVE  /\ \A i : SoldIn(c, i) = SoldIn(b, i)
         /\ Outlay(c) = Outlay(b)
<1>1. \A i : SoldIn(c, i) = SoldIn(b, i)
  BY DEF SoldIn
<1>. QED
  BY <1>1 DEF Outlay

-----------------------------------------------------------------------------
(* A book is sound when it explains itself; each way to write one keeps it  *)
(* so.                                                                      *)

RowsFit(b) ==
  /\ b.entry[Min(Entries)].item # None
  /\ \A e \in Entries : /\ b.entry[e].item = None => b.entry[e] = NoEntry
                        /\ b.entry[e].item # None /\ Kind[b.entry[e].item] = "gift"
                             => (b.entry[e].used <=> b.entry[e].paid > 0)
  /\ \A i \in Items : b.stock[i] = -1 <=> Stock[i] = -1

CoinsAgree(b) ==
  /\ b.wallet.spent = SumOver(Outlay(b), Items) + b.fined
  /\ b.wallet.earned = SumOver(Payout(b), Entries) + Reward * (b.claims + b.doubled)
  /\ b.wallet.balance = Worth(b.wallet, Welcome)

GoodsAgree(b) ==
  /\ \A i \in Items : Stock[i] # -1 => b.stock[i] + Cardinality(SoldIn(b, i)) = Stock[i]
  /\ Cardinality(UsedIn(b, "buster")) = b.doubled + (IF b.armed THEN 1 ELSE 0)

Sound(b) == b \in Economy /\ RowsFit(b) /\ CoinsAgree(b) /\ GoodsAgree(b)

LEMMA WalletSums ==
  ASSUME NEW w \in Wallets, NEW amount \in Nat
  PROVE  /\ CanDebit(w, amount) =>
              LET v == Debited(w, amount)
              IN /\ v \in Wallets /\ v.spent = w.spent + amount /\ v.earned = w.earned
                 /\ v.balance = w.balance - amount
         /\ CanCredit(w, amount) =>
              LET v == Credited(w, amount)
              IN /\ v \in Wallets /\ v.spent = w.spent /\ v.earned = w.earned + amount
                 /\ v.balance = w.balance + amount
<1>1. /\ w = [balance |-> w.balance, earned |-> w.earned, spent |-> w.spent]
      /\ w.balance \in Int /\ w.earned \in Nat /\ w.spent \in Nat
  BY MaxAmountAssumption DEF Wallets
<1>2. /\ Debited(w, amount) = [balance |-> w.balance - amount, earned |-> w.earned,
                               spent |-> w.spent + amount]
      /\ Credited(w, amount) = [balance |-> w.balance + amount, earned |-> w.earned + amount,
                                spent |-> w.spent]
  <2>1. /\ Held(w, amount) = [balance |-> w.balance - amount, earned |-> w.earned, spent |-> w.spent]
        /\ Released(w, amount) = [balance |-> w.balance + amount, earned |-> w.earned, spent |-> w.spent]
    BY <1>1 DEF Held, Released
  <2>. QED
    BY <2>1 DEF Debited, Credited
<1>3. /\ CanDebit(w, amount) => Debited(w, amount) \in Wallets
      /\ CanCredit(w, amount) => Credited(w, amount) \in Wallets
  BY WalletWrites
<1> DEFINE d == Debited(w, amount)
           k == Credited(w, amount)
<1>4. /\ d.spent = w.spent + amount /\ d.earned = w.earned /\ d.balance = w.balance - amount
      /\ k.spent = w.spent /\ k.earned = w.earned + amount /\ k.balance = w.balance + amount
  BY <1>2
<1>. QED
  BY <1>3, <1>4, Zenon

LEMMA SoldEntry ==
  ASSUME NEW i \in Items, NEW card \in Cards \cup {None}
  PROVE  LET x == [NoEntry EXCEPT !.item = i, !.card = card]
         IN x.item = i /\ x.used = FALSE /\ x.card = card /\ x.paid = 0 /\ x \in Entry
<1> DEFINE y == [NoEntry EXCEPT !.item = i]
           x == [NoEntry EXCEPT !.item = i, !.card = card]
<1>1. PICK u, z : u = FALSE /\ z = 0 /\ NoEntry = [item |-> None, used |-> u, card |-> None, paid |-> z]
  BY Zenon DEF NoEntry
<1>2. x = [y EXCEPT !.card = card]
  OBVIOUS
<1>3. y = [item |-> i, used |-> u, card |-> None, paid |-> z]
  BY <1>1
<1>. HIDE DEF x, y
<1>4. x = [item |-> i, used |-> u, card |-> card, paid |-> z]
  BY <1>2, <1>3
<1>5. x.item = i /\ x.used = u /\ x.card = card /\ x.paid = z
  BY <1>4
<1>6. u \in BOOLEAN /\ z \in Nat
  BY <1>1
<1>7. x \in Entry
  BY <1>4, <1>6 DEF Entry
<1>. QED
  BY <1>1, <1>5, <1>7 DEF x

\* A sale: the entry is new, the wallet and the stock pay for it.
LEMMA BoughtSound ==
  ASSUME NEW b, Sound(b), NEW i \in Items, NEW e \in Entries, b.entry[e].item = None,
         NEW card \in Cards \cup {None}, CanDebit(b.wallet, Price[i]), InStock(b, i)
  PROVE  /\ Sound(Bought(b, i, e, card))
         /\ OnlyEntry(b, Bought(b, i, e, card), e)
         /\ Bought(b, i, e, card).entry[e].item = i /\ ~ Bought(b, i, e, card).entry[e].used
         /\ Bought(b, i, e, card).entry[e].card = card
<1> DEFINE c == Bought(b, i, e, card)
           w == Debited(b.wallet, Price[i])
           x == [NoEntry EXCEPT !.item = i, !.card = card]
<1>0. b \in Economy /\ RowsFit(b) /\ CoinsAgree(b) /\ GoodsAgree(b) /\ Price[i] \in Nat
  BY ShopAssumption DEF Sound
<1>1. /\ b.wallet \in Wallets /\ b.stock \in [Items -> Nat \cup {-1}]
      /\ b.entry \in [Entries -> Entry] /\ b.fined \in Nat /\ b.claims \in Nat /\ b.doubled \in Nat
  BY <1>0, EconomyFields
<1>2. /\ w \in Wallets /\ w.spent = b.wallet.spent + Price[i] /\ w.earned = b.wallet.earned
      /\ w.balance = b.wallet.balance - Price[i]
  BY <1>0, <1>1, WalletSums
<1>3. c = [wallet |-> w, stock |-> [b.stock EXCEPT ![i] = IF b.stock[i] = -1 THEN -1 ELSE b.stock[i] - 1],
           entry |-> [b.entry EXCEPT ![e] = x], armed |-> b.armed, claimed |-> b.claimed,
           claims |-> b.claims, doubled |-> b.doubled, fines |-> b.fines, fined |-> b.fined]
  <2>1. b = [wallet |-> b.wallet, stock |-> b.stock, entry |-> b.entry, armed |-> b.armed,
             claimed |-> b.claimed, claims |-> b.claims, doubled |-> b.doubled,
             fines |-> b.fines, fined |-> b.fined]
    BY <1>0, EconomyFields
  <2>2. c = [b EXCEPT !.wallet = w,
                      !.stock = [b.stock EXCEPT ![i] = IF b.stock[i] = -1 THEN -1 ELSE b.stock[i] - 1],
                      !.entry = [b.entry EXCEPT ![e] = x]]
    BY DEF Bought
  <2>. HIDE DEF c, w, x
  <2>. QED
    BY <2>1, <2>2
<1>4. x.item = i /\ x.used = FALSE /\ x.card = card /\ x.paid = 0 /\ x \in Entry
  BY SoldEntry
<1>5. c.entry[e] = x /\ OnlyEntry(b, c, e)
  BY <1>1, <1>3 DEF OnlyEntry
<1>6. c.stock \in [Items -> Nat \cup {-1}] /\ c.entry \in [Entries -> Entry]
  <2>1. b.stock[i] \in Nat \cup {-1} /\ b.stock[i] # 0
    BY <1>1 DEF InStock
  <2>2. (IF b.stock[i] = -1 THEN -1 ELSE b.stock[i] - 1) \in Nat \cup {-1}
    BY <2>1
  <2>. QED
    BY <1>1, <1>3, <1>4, <2>2
<1>7. c \in Economy
  <2>2. b.armed \in BOOLEAN /\ b.claimed \in BOOLEAN /\ b.fines \in Nat
    BY <1>0, EconomyFields
  <2>. HIDE DEF c, w, x
  <2>. QED
    BY <1>1, <1>2, <1>3, <1>6, <2>2 DEF Economy
<1>. HIDE DEF c, w, x
<1>8. e # Min(Entries) /\ b.entry[e] = NoEntry
  BY <1>0 DEF RowsFit
<1>9. RowsFit(c)
  <2>1. c.entry[Min(Entries)].item # None
    BY <1>0, <1>5, <1>8, FirstEntry DEF RowsFit, OnlyEntry
  <2>2. ASSUME NEW d \in Entries
        PROVE  /\ c.entry[d].item = None => c.entry[d] = NoEntry
               /\ c.entry[d].item # None /\ Kind[c.entry[d].item] = "gift"
                    => (c.entry[d].used <=> c.entry[d].paid > 0)
    <3>1. CASE d = e
      BY <1>4, <1>5, <3>1, NoneApart
    <3>2. CASE d # e
      BY <1>0, <1>5, <3>2 DEF RowsFit, OnlyEntry
    <3>. QED
      BY <3>1, <3>2
  <2>3. ASSUME NEW j \in Items PROVE c.stock[j] = -1 <=> Stock[j] = -1
    <3>1. b.stock[i] \in Nat \cup {-1} /\ b.stock[i] # 0 /\ (b.stock[j] = -1 <=> Stock[j] = -1)
      BY <1>0, <1>1 DEF InStock, RowsFit
    <3>2. b.stock[i] # -1 => b.stock[i] - 1 # -1
      BY <3>1
    <3>3. c.stock[j] = IF j = i THEN IF b.stock[i] = -1 THEN -1 ELSE b.stock[i] - 1 ELSE b.stock[j]
      BY <1>1, <1>3
    <3>. QED
      BY <3>1, <3>2, <3>3
  <2>. QED
    BY <2>1, <2>2, <2>3 DEF RowsFit
<1>10. CoinsAgree(c)
  <2>1. /\ SumOver(Outlay(b), Items) \in Int
        /\ SumOver(Outlay(c), Items) = SumOver(Outlay(b), Items) + Price[i]
    BY <1>0, <1>4, <1>5, <1>7, <1>8, OutlayMoves DEF NoEntry
  <2>2. b.entry[e].paid = 0 /\ c.entry[e].paid = 0
    BY <1>4, <1>5, <1>8 DEF NoEntry
  <2>3. /\ SumOver(Payout(b), Entries) \in Int
        /\ SumOver(Payout(c), Entries) = SumOver(Payout(b), Entries) + c.entry[e].paid - b.entry[e].paid
    BY <1>0, <1>5, <1>7, PayoutMoves
  <2>4. SumOver(Payout(c), Entries) = SumOver(Payout(b), Entries)
    BY <2>2, <2>3
  <2>5. b.wallet.spent \in Nat /\ b.wallet.earned \in Nat /\ b.wallet.balance \in Int /\ Welcome \in Nat
    BY <1>1, ShopAssumption, MaxAmountAssumption DEF Wallets
  <2>. QED
    BY <1>0, <1>1, <1>2, <1>3, <2>1, <2>4, <2>5 DEF CoinsAgree, Worth
<1>11. GoodsAgree(c)
  <2>1. ASSUME NEW j \in Items, Stock[j] # -1
        PROVE  c.stock[j] + Cardinality(SoldIn(c, j)) = Stock[j]
    <3>1. /\ Cardinality(SoldIn(b, j)) \in Nat
          /\ Cardinality(SoldIn(c, j))
               = Cardinality(SoldIn(b, j)) + (IF e \in SoldIn(c, j) THEN 1 ELSE 0)
                                           - (IF e \in SoldIn(b, j) THEN 1 ELSE 0)
      BY <1>0, <1>5, <1>7, SoldMoves
    <3>2. e \notin SoldIn(b, j) /\ (e \in SoldIn(c, j) <=> j = i)
      BY <1>4, <1>5, <1>8, NoneApart DEF SoldIn
    <3>3. /\ b.stock[j] + Cardinality(SoldIn(b, j)) = Stock[j]
          /\ b.stock[j] # -1 /\ b.stock[j] \in Nat \cup {-1}
      BY <1>0, <1>1, <2>1 DEF GoodsAgree, RowsFit
    <3>4. c.stock[j] = IF j = i THEN b.stock[j] - 1 ELSE b.stock[j]
      BY <1>1, <1>3, <3>3
    <3>. QED
      BY <3>1, <3>2, <3>3, <3>4
  <2>2. e \notin UsedIn(b, "buster") /\ e \notin UsedIn(c, "buster")
    BY <1>4, <1>5, <1>8 DEF UsedIn, NoEntry
  <2>3. Cardinality(UsedIn(c, "buster")) = Cardinality(UsedIn(b, "buster"))
    BY <1>0, <1>5, <1>7, <2>2, UsedMoves
  <2>. QED
    BY <1>0, <1>3, <2>1, <2>3 DEF GoodsAgree
<1>12. c.entry[e].item = i /\ ~ c.entry[e].used /\ c.entry[e].card = card
  BY <1>4, <1>5
<1>. QED
  BY <1>5, <1>7, <1>9, <1>10, <1>11, <1>12 DEF Sound, c

\* An unused entry is redeemed: a gift pays its amount, a buster is armed.
LEMMA RedeemedSound ==
  ASSUME NEW b, Sound(b), NEW c \in Economy, NEW e \in Entries, OnlyEntry(b, c, e),
         b.entry[e].item # None, ~ b.entry[e].used,
         c.entry[e].item = b.entry[e].item, c.entry[e].used,
         NEW amount \in Nat, c.entry[e].paid = b.entry[e].paid + amount,
         c.wallet.spent = b.wallet.spent, c.wallet.earned = b.wallet.earned + amount,
         c.wallet.balance = b.wallet.balance + amount,
         c.stock = b.stock, c.fined = b.fined, c.claims = b.claims, c.doubled = b.doubled,
         Kind[b.entry[e].item] = "gift" <=> amount > 0,
         Kind[b.entry[e].item] = "buster" => ~ b.armed /\ c.armed,
         Kind[b.entry[e].item] # "buster" => c.armed = b.armed
  PROVE  Sound(c)
<1>0. b \in Economy /\ RowsFit(b) /\ CoinsAgree(b) /\ GoodsAgree(b)
  BY DEF Sound
<1>1. \A d \in Entries : c.entry[d].item = b.entry[d].item
  BY DEF OnlyEntry
<1>2. (\A i : SoldIn(c, i) = SoldIn(b, i)) /\ Outlay(c) = Outlay(b)
  BY <1>1, SoldStays
<1>3. b.entry[e].paid \in Nat /\ c.entry[e].paid \in Nat
  BY <1>0, EntryFields
<1>4. Kind[b.entry[e].item] = "gift" => b.entry[e].paid = 0
  BY <1>0, <1>3 DEF RowsFit
<1>5. RowsFit(c)
  <2>1. ASSUME NEW d \in Entries
        PROVE  /\ c.entry[d].item = None => c.entry[d] = NoEntry
               /\ c.entry[d].item # None /\ Kind[c.entry[d].item] = "gift"
                    => (c.entry[d].used <=> c.entry[d].paid > 0)
    <3>1. CASE d = e
      BY <1>3, <1>4, <3>1
    <3>2. CASE d # e
      BY <1>0, <3>2 DEF RowsFit, OnlyEntry
    <3>. QED
      BY <3>1, <3>2
  <2>2. c.entry[Min(Entries)].item # None /\ \A i \in Items : c.stock[i] = -1 <=> Stock[i] = -1
    BY <1>0, <1>1, FirstEntry DEF RowsFit
  <2>. QED
    BY <2>1, <2>2 DEF RowsFit
<1>6. CoinsAgree(c)
  <2>1. /\ SumOver(Payout(b), Entries) \in Int
        /\ SumOver(Payout(c), Entries) = SumOver(Payout(b), Entries) + c.entry[e].paid - b.entry[e].paid
    BY <1>0, PayoutMoves
  <2>2. SumOver(Payout(c), Entries) = SumOver(Payout(b), Entries) + amount
    BY <1>3, <2>1
  <2>3. /\ b.claims \in Nat /\ b.doubled \in Nat /\ Reward \in Nat /\ Welcome \in Nat
        /\ b.wallet.earned \in Nat /\ b.wallet.spent \in Nat /\ b.wallet.balance \in Int
    BY <1>0, EconomyFields, ShopAssumption, MaxAmountAssumption DEF Wallets
  <2>4. Reward * (b.claims + b.doubled) \in Int
    <3>1. \A m \in Nat, n \in Nat : m * n \in Int
      OBVIOUS
    <3>. QED
      BY <2>3, <3>1
  <2>5. c.wallet.earned = SumOver(Payout(c), Entries) + Reward * (c.claims + c.doubled)
    <3>1. b.wallet.earned = SumOver(Payout(b), Entries) + Reward * (b.claims + b.doubled)
      BY <1>0 DEF CoinsAgree
    <3> DEFINE r == Reward * (b.claims + b.doubled)
    <3>2. Reward * (c.claims + c.doubled) = r /\ r \in Int
      BY <2>4
    <3>. HIDE DEF r
    <3>. QED
      BY <2>1, <2>2, <2>3, <3>1, <3>2 DEF r
  <2>6. c.wallet.balance = Worth(c.wallet, Welcome)
    BY <1>0, <2>3 DEF CoinsAgree, Worth
  <2>. QED
    BY <1>0, <1>2, <2>5, <2>6 DEF CoinsAgree
<1>7. GoodsAgree(c)
  <2>1. /\ Cardinality(UsedIn(b, "buster")) \in Nat
        /\ Cardinality(UsedIn(c, "buster"))
             = Cardinality(UsedIn(b, "buster")) + (IF e \in UsedIn(c, "buster") THEN 1 ELSE 0)
                                                - (IF e \in UsedIn(b, "buster") THEN 1 ELSE 0)
    BY <1>0, UsedMoves
  <2>2. /\ e \notin UsedIn(b, "buster")
        /\ e \in UsedIn(c, "buster") <=> Kind[b.entry[e].item] = "buster"
    BY DEF UsedIn
  <2>3. Cardinality(UsedIn(c, "buster")) = c.doubled + (IF c.armed THEN 1 ELSE 0)
    <3>1. /\ Cardinality(UsedIn(b, "buster")) = b.doubled + (IF b.armed THEN 1 ELSE 0)
          /\ b.doubled \in Nat
      BY <1>0, EconomyFields DEF GoodsAgree
    <3>2. CASE Kind[b.entry[e].item] = "buster"
      <4>1. ~ b.armed /\ c.armed
        BY <3>2
      <4>. QED
        BY <2>1, <2>2, <3>1, <3>2, <4>1
    <3>3. CASE Kind[b.entry[e].item] # "buster"
      <4>1. (IF c.armed THEN 1 ELSE 0) = (IF b.armed THEN 1 ELSE 0)
        BY <3>3
      <4>. QED
        BY <2>1, <2>2, <3>1, <3>3, <4>1
    <3>. QED
      BY <3>2, <3>3
  <2>. QED
    BY <1>0, <1>2, <2>3 DEF GoodsAgree
<1>. QED
  BY <1>5, <1>6, <1>7 DEF Sound

LEMMA ConsumedShape ==
  ASSUME NEW b \in Economy, NEW e \in Entries
  PROVE  LET c == Consumed(b, e)
             x == b.entry[e]
             y == c.entry[e]
         IN /\ c \in Economy /\ OnlyEntry(b, c, e)
            /\ y.item = x.item /\ y.card = x.card /\ y.paid = x.paid /\ y.used = TRUE
            /\ c = [wallet |-> b.wallet, stock |-> b.stock, entry |-> c.entry, armed |-> b.armed,
                    claimed |-> b.claimed, claims |-> b.claims, doubled |-> b.doubled,
                    fines |-> b.fines, fined |-> b.fined]
<1> DEFINE x == b.entry[e]
           y == [x EXCEPT !.used = TRUE]
           c == Consumed(b, e)
<1>1. PICK yes : yes = TRUE /\ y = [x EXCEPT !.used = yes]
  BY Zenon
<1>2. x = [item |-> x.item, used |-> x.used, card |-> x.card, paid |-> x.paid] /\ x \in Entry
  BY EntryFields
<1>. HIDE DEF y
<1>3. y = [item |-> x.item, used |-> yes, card |-> x.card, paid |-> x.paid]
  BY <1>1, <1>2
<1>4. yes \in BOOLEAN
  BY <1>1
<1>5. y \in Entry
  BY <1>2, <1>3, <1>4 DEF Entry
<1>6. b.entry \in [Entries -> Entry]
  BY EconomyFields
<1>7. [b.entry EXCEPT ![e] = y] \in [Entries -> Entry]
  BY <1>5, <1>6
<1>8. c = [b EXCEPT !.entry = [b.entry EXCEPT ![e] = y]]
  BY DEF Consumed, y
<1>9. b = [wallet |-> b.wallet, stock |-> b.stock, entry |-> b.entry, armed |-> b.armed,
           claimed |-> b.claimed, claims |-> b.claims, doubled |-> b.doubled,
           fines |-> b.fines, fined |-> b.fined]
  BY EconomyFields
<1>. HIDE DEF c, x
<1>10. c = [wallet |-> b.wallet, stock |-> b.stock, entry |-> [b.entry EXCEPT ![e] = y], armed |-> b.armed,
            claimed |-> b.claimed, claims |-> b.claims, doubled |-> b.doubled,
            fines |-> b.fines, fined |-> b.fined]
  BY <1>8, <1>9
<1>11. c.entry = [b.entry EXCEPT ![e] = y]
  BY <1>10
<1>12. c.entry[e] = y /\ OnlyEntry(b, c, e)
  BY <1>6, <1>11 DEF OnlyEntry
<1>13. c \in Economy
  BY <1>7, <1>10, EconomyFields DEF Economy
<1>14. y.item = x.item /\ y.card = x.card /\ y.paid = x.paid /\ y.used = yes
  BY <1>3
<1>. QED
  BY <1>1, <1>10, <1>11, <1>12, <1>13, <1>14 DEF c, x

LEMMA PlusNothing ==
  ASSUME NEW b \in Economy, NEW e \in Entries
  PROVE  /\ b.entry[e].paid = b.entry[e].paid + 0
         /\ b.wallet.earned = b.wallet.earned + 0 /\ b.wallet.balance = b.wallet.balance + 0
<1>1. b.entry[e].paid \in Nat
  BY EntryFields
<1>2. b.wallet \in Wallets
  BY EconomyFields
<1>3. b.wallet.earned \in Nat /\ b.wallet.balance \in Int
  BY <1>2, MaxAmountAssumption DEF Wallets
<1>. QED
  BY <1>1, <1>3

LEMMA ConsumedSound ==
  ASSUME NEW b, Sound(b), NEW e \in Entries, b.entry[e].item # None, ~ b.entry[e].used,
         Kind[b.entry[e].item] = "unwarn"
  PROVE  Sound(Consumed(b, e))
<1> DEFINE c == Consumed(b, e)
<1>0. b \in Economy
  BY DEF Sound
<1>1. /\ c \in Economy /\ OnlyEntry(b, c, e)
      /\ c.entry[e].item = b.entry[e].item /\ c.entry[e].paid = b.entry[e].paid
      /\ c.entry[e].used
  BY <1>0, ConsumedShape
<1>2. c = [wallet |-> b.wallet, stock |-> b.stock, entry |-> c.entry, armed |-> b.armed,
           claimed |-> b.claimed, claims |-> b.claims, doubled |-> b.doubled,
           fines |-> b.fines, fined |-> b.fined]
  BY <1>0, ConsumedShape
<1>. HIDE DEF c
<1>3. /\ c.wallet = b.wallet /\ c.stock = b.stock /\ c.armed = b.armed
      /\ c.claims = b.claims /\ c.doubled = b.doubled /\ c.fined = b.fined
  BY <1>2
<1>4. /\ b.entry[e].paid = b.entry[e].paid + 0
      /\ b.wallet.earned = b.wallet.earned + 0 /\ b.wallet.balance = b.wallet.balance + 0
  BY <1>0, PlusNothing
<1>5. Sound(c)
  <2>1. 0 \in Nat /\ ~ (0 > 0)
    OBVIOUS
  <2>. QED
    BY <1>1, <1>3, <1>4, <2>1, RedeemedSound
<1>. QED
  BY <1>5 DEF c

LEMMA ArmedShape ==
  ASSUME NEW b \in Economy, NEW e \in Entries
  PROVE  LET c == Armed(b, e)
             x == b.entry[e]
             y == c.entry[e]
         IN /\ c \in Economy /\ OnlyEntry(b, c, e) /\ c.armed
            /\ y.item = x.item /\ y.card = x.card /\ y.paid = x.paid /\ y.used = TRUE
            /\ c.wallet = b.wallet /\ c.stock = b.stock /\ c.claimed = b.claimed
            /\ c.claims = b.claims /\ c.doubled = b.doubled
            /\ c.fines = b.fines /\ c.fined = b.fined
<1> DEFINE d == Consumed(b, e)
           c == Armed(b, e)
<1>1. d \in Economy /\ OnlyEntry(b, d, e)
  BY ConsumedShape
<1>2. /\ d.entry[e].item = b.entry[e].item /\ d.entry[e].card = b.entry[e].card
      /\ d.entry[e].paid = b.entry[e].paid /\ d.entry[e].used = TRUE
  BY ConsumedShape
<1>3. d = [wallet |-> b.wallet, stock |-> b.stock, entry |-> d.entry, armed |-> b.armed,
           claimed |-> b.claimed, claims |-> b.claims, doubled |-> b.doubled,
           fines |-> b.fines, fined |-> b.fined]
  BY ConsumedShape
<1>4. PICK yes : yes = TRUE /\ c = [d EXCEPT !.armed = yes]
  BY Zenon DEF Armed
<1>5. c = [wallet |-> b.wallet, stock |-> b.stock, entry |-> d.entry, armed |-> yes,
           claimed |-> b.claimed, claims |-> b.claims, doubled |-> b.doubled,
           fines |-> b.fines, fined |-> b.fined]
  <2>1. c = [d EXCEPT !.armed = yes]
    BY <1>4, Zenon
  <2>. HIDE DEF c, d
  <2>. QED
    BY <2>1, <1>3
<1>6. yes \in BOOLEAN
  BY <1>4
<1>7. c \in Economy
  <2>1. d.entry \in [Entries -> Entry]
    BY <1>1, EconomyFields
  <2>. HIDE DEF c, d
  <2>. QED
    BY <1>5, <1>6, <2>1, EconomyFields DEF Economy
<1>. HIDE DEF c, d
<1>8. /\ c.entry = d.entry /\ c.armed = yes /\ c.wallet = b.wallet /\ c.stock = b.stock
      /\ c.claimed = b.claimed /\ c.claims = b.claims /\ c.doubled = b.doubled
      /\ c.fines = b.fines /\ c.fined = b.fined
  BY <1>5
<1>9. OnlyEntry(b, c, e)
  BY <1>1, <1>8 DEF OnlyEntry
<1>. QED
  BY <1>2, <1>4, <1>7, <1>8, <1>9 DEF c

LEMMA ArmedSound ==
  ASSUME NEW b, Sound(b), NEW e \in Entries, b.entry[e].item # None, ~ b.entry[e].used,
         Kind[b.entry[e].item] = "buster", MayArm(b)
  PROVE  Sound(Armed(b, e))
<1> DEFINE c == Armed(b, e)
<1>0. b \in Economy /\ ~ b.armed
  BY DEF Sound, MayArm
<1>1. /\ c \in Economy /\ OnlyEntry(b, c, e)
      /\ c.entry[e].item = b.entry[e].item /\ c.entry[e].paid = b.entry[e].paid
      /\ c.entry[e].used /\ c.armed
  BY <1>0, ArmedShape
<1>2. /\ c.wallet = b.wallet /\ c.stock = b.stock
      /\ c.claims = b.claims /\ c.doubled = b.doubled /\ c.fined = b.fined
  BY <1>0, ArmedShape
<1>3. /\ b.entry[e].paid = b.entry[e].paid + 0
      /\ b.wallet.earned = b.wallet.earned + 0 /\ b.wallet.balance = b.wallet.balance + 0
  BY <1>0, PlusNothing
<1>. HIDE DEF c
<1>4. Sound(c)
  <2>1. 0 \in Nat /\ ~ (0 > 0)
    OBVIOUS
  <2>. QED
    BY <1>0, <1>1, <1>2, <1>3, <2>1, RedeemedSound
<1>. QED
  BY <1>4 DEF c

LEMMA GiftedShape ==
  ASSUME NEW b \in Economy, NEW e \in Entries, NEW amount \in Nat, CanCredit(b.wallet, amount)
  PROVE  LET c == Gifted(b, e, amount)
         IN /\ c \in Economy /\ OnlyEntry(b, c, e)
            /\ c.entry[e].item = b.entry[e].item /\ c.entry[e].card = b.entry[e].card
            /\ c.entry[e].paid = amount /\ c.entry[e].used = TRUE
            /\ c.wallet = Credited(b.wallet, amount) /\ c.stock = b.stock /\ c.claimed = b.claimed
            /\ c.claims = b.claims /\ c.doubled = b.doubled /\ c.armed = b.armed
            /\ c.fines = b.fines /\ c.fined = b.fined
<1> DEFINE d == Consumed(b, e)
           c == Gifted(b, e, amount)
           x == b.entry[e]
           z == d.entry[e]
           y == [z EXCEPT !.paid = amount]
           w == Credited(b.wallet, amount)
<1>1. d \in Economy /\ OnlyEntry(b, d, e)
  BY ConsumedShape
<1>2. z.item = x.item /\ z.card = x.card /\ z.used = TRUE
  BY ConsumedShape
<1>3. d = [wallet |-> b.wallet, stock |-> b.stock, entry |-> d.entry, armed |-> b.armed,
           claimed |-> b.claimed, claims |-> b.claims, doubled |-> b.doubled,
           fines |-> b.fines, fined |-> b.fined]
  BY ConsumedShape
<1>4. w \in Wallets
  BY EconomyFields, WalletSums
<1>5. d.wallet = b.wallet
  <2>. HIDE DEF d
  <2>. QED
    BY <1>3
<1>6. c = [d EXCEPT !.wallet = w, !.entry = [d.entry EXCEPT ![e] = y]]
  BY <1>5 DEF Gifted
<1>. HIDE DEF c, d, w, y
<1>7. c = [[d EXCEPT !.wallet = w] EXCEPT !.entry = [d.entry EXCEPT ![e] = y]]
  BY <1>3, <1>6
<1>8. [d EXCEPT !.wallet = w] =
          [wallet |-> w, stock |-> b.stock, entry |-> d.entry, armed |-> b.armed,
           claimed |-> b.claimed, claims |-> b.claims, doubled |-> b.doubled,
           fines |-> b.fines, fined |-> b.fined]
  BY <1>3
<1>9. c = [wallet |-> w, stock |-> b.stock, entry |-> [d.entry EXCEPT ![e] = y], armed |-> b.armed,
           claimed |-> b.claimed, claims |-> b.claims, doubled |-> b.doubled,
           fines |-> b.fines, fined |-> b.fined]
  BY <1>7, <1>8
<1>10. z \in Entry /\ d.entry \in [Entries -> Entry]
  BY <1>1, EconomyFields
<1>. HIDE DEF z
<1>11. z = [item |-> z.item, used |-> z.used, card |-> z.card, paid |-> z.paid]
  BY <1>10 DEF Entry
<1>12. y = [item |-> z.item, used |-> z.used, card |-> z.card, paid |-> amount]
  BY <1>11 DEF y
<1>13. y \in Entry
  BY <1>10, <1>12 DEF Entry
<1>14. c.entry = [d.entry EXCEPT ![e] = y] /\ c.entry \in [Entries -> Entry]
  BY <1>9, <1>10, <1>13
<1>15. c \in Economy
  BY <1>4, <1>9, <1>14, EconomyFields DEF Economy
<1>16. c.entry[e] = y /\ OnlyEntry(b, c, e)
  BY <1>1, <1>10, <1>14 DEF OnlyEntry
<1>17. y.item = x.item /\ y.card = x.card /\ y.paid = amount /\ y.used = TRUE
  BY <1>2, <1>12
<1>18. /\ c.wallet = w /\ c.stock = b.stock /\ c.claimed = b.claimed
       /\ c.claims = b.claims /\ c.doubled = b.doubled /\ c.armed = b.armed
       /\ c.fines = b.fines /\ c.fined = b.fined
  BY <1>9
<1>. QED
  BY <1>15, <1>16, <1>17, <1>18 DEF c, w

LEMMA GiftedSound ==
  ASSUME NEW b, Sound(b), NEW e \in Entries, b.entry[e].item # None, ~ b.entry[e].used,
         Kind[b.entry[e].item] = "gift", NEW amount \in Nat \ {0}, CanCredit(b.wallet, amount)
  PROVE  Sound(Gifted(b, e, amount))
<1> DEFINE c == Gifted(b, e, amount)
<1>0. b \in Economy /\ RowsFit(b) /\ amount \in Nat
  BY DEF Sound
<1>1. /\ c \in Economy /\ OnlyEntry(b, c, e)
      /\ c.entry[e].item = b.entry[e].item /\ c.entry[e].card = b.entry[e].card
      /\ c.entry[e].paid = amount /\ c.entry[e].used = TRUE
      /\ c.wallet = Credited(b.wallet, amount) /\ c.stock = b.stock /\ c.claimed = b.claimed
      /\ c.claims = b.claims /\ c.doubled = b.doubled /\ c.armed = b.armed
      /\ c.fines = b.fines /\ c.fined = b.fined
  BY <1>0, GiftedShape, Zenon
<1>3. b.entry[e].paid \in Nat /\ ~ (b.entry[e].paid > 0)
  BY <1>0, EntryFields DEF RowsFit
<1>4. amount = b.entry[e].paid + amount
  BY <1>3
<1>5. LET v == Credited(b.wallet, amount)
      IN /\ v.spent = b.wallet.spent /\ v.earned = b.wallet.earned + amount
         /\ v.balance = b.wallet.balance + amount
  BY <1>0, EconomyFields, WalletSums
<1>. HIDE DEF c
<1>6. Sound(c)
  BY <1>0, <1>1, <1>4, <1>5, RedeemedSound
<1>. QED
  BY <1>6 DEF c

\* What the rest of a book is explained by, when no entry changes.
LEMMA EntriesStay ==
  ASSUME NEW b, NEW c, c.entry = b.entry
  PROVE  /\ \A i : SoldIn(c, i) = SoldIn(b, i)
         /\ \A k : UsedIn(c, k) = UsedIn(b, k)
         /\ \A k : OnCard(c, k) = OnCard(b, k)
         /\ Outlay(c) = Outlay(b) /\ Payout(c) = Payout(b)
<1>1. \A i : SoldIn(c, i) = SoldIn(b, i)
  BY DEF SoldIn
<1>2. \A k : UsedIn(c, k) = UsedIn(b, k)
  BY DEF UsedIn
<1>3. \A k : OnCard(c, k) = OnCard(b, k)
  BY DEF OnCard
<1>4. Outlay(c) = Outlay(b)
  BY <1>1 DEF Outlay
<1>5. Payout(c) = Payout(b)
  BY DEF Payout
<1>. QED
  BY <1>1, <1>2, <1>3, <1>4, <1>5

LEMMA SumsAreIntegers ==
  ASSUME NEW b \in Economy
  PROVE  /\ SumOver(Outlay(b), Items) \in Int /\ SumOver(Payout(b), Entries) \in Int
         /\ b.wallet.spent \in Nat /\ b.wallet.earned \in Nat /\ b.wallet.balance \in Int
         /\ Welcome \in Nat /\ Reward \in Nat
<1>1. PICK e \in Entries : TRUE
  BY FirstEntry
<1>2. SumOver(Payout(b), Entries) \in Int
  BY <1>1, PayoutMoves DEF OnlyEntry
<1>3. SumOver(Outlay(b), Items) \in Int
  <2>1. IsFiniteSet(Items) /\ Price \in [Items -> Nat]
    BY ShopAssumption
  <2>2. \A i : Cardinality(SoldIn(b, i)) \in Nat
    BY <1>1, SoldMoves DEF OnlyEntry
  <2>3. \A m \in Nat, n \in Nat : m * n \in Nat
    OBVIOUS
  <2>4. \A i \in Items : Outlay(b)[i] \in Int
    BY <2>1, <2>2, <2>3 DEF Outlay
  <2>. QED
    BY <2>1, <2>4, SumInt
<1>4. b.wallet \in Wallets
  BY EconomyFields
<1>5. b.wallet.spent \in Nat /\ b.wallet.earned \in Nat /\ b.wallet.balance \in Int
  BY <1>4, MaxAmountAssumption DEF Wallets
<1>. QED
  BY <1>2, <1>3, <1>5, ShopAssumption, MaxAmountAssumption

Fined(b, amount) ==
  [b EXCEPT !.wallet = Debited(@, amount), !.fines = @ + 1, !.fined = @ + amount]

LEMMA FinedShape ==
  ASSUME NEW b \in Economy, NEW amount \in Nat, CanDebit(b.wallet, amount)
  PROVE  LET c == Fined(b, amount)
         IN /\ c \in Economy /\ c.entry = b.entry /\ c.stock = b.stock
            /\ c.wallet = Debited(b.wallet, amount)
            /\ c.claimed = b.claimed /\ c.claims = b.claims
            /\ c.doubled = b.doubled /\ c.armed = b.armed
            /\ c.fines = b.fines + 1 /\ c.fined = b.fined + amount
<1> DEFINE c == Fined(b, amount)
           w == Debited(b.wallet, amount)
<1>1. /\ b = [wallet |-> b.wallet, stock |-> b.stock, entry |-> b.entry, armed |-> b.armed,
              claimed |-> b.claimed, claims |-> b.claims, doubled |-> b.doubled,
              fines |-> b.fines, fined |-> b.fined]
      /\ b.wallet \in Wallets /\ b.fines \in Nat /\ b.fined \in Nat
  BY EconomyFields
<1>2. w \in Wallets
  BY <1>1, WalletSums
<1>3. c = [[[b EXCEPT !.wallet = w] EXCEPT !.fines = b.fines + 1] EXCEPT !.fined = b.fined + amount]
  BY <1>1 DEF Fined
<1>. HIDE DEF c, w
<1>4. c = [wallet |-> w, stock |-> b.stock, entry |-> b.entry, armed |-> b.armed,
           claimed |-> b.claimed, claims |-> b.claims, doubled |-> b.doubled,
           fines |-> b.fines + 1, fined |-> b.fined + amount]
  BY <1>1, <1>3
<1>5. b.fines + 1 \in Nat /\ b.fined + amount \in Nat
  BY <1>1
<1>6. c \in Economy
  BY <1>2, <1>4, <1>5, EconomyFields DEF Economy
<1>7. /\ c.entry = b.entry /\ c.stock = b.stock /\ c.wallet = w
      /\ c.claimed = b.claimed /\ c.claims = b.claims
      /\ c.doubled = b.doubled /\ c.armed = b.armed
      /\ c.fines = b.fines + 1 /\ c.fined = b.fined + amount
  BY <1>4
<1>. QED
  BY <1>6, <1>7 DEF c, w

LEMMA FinedSound ==
  ASSUME NEW b, Sound(b), NEW amount \in Nat, CanDebit(b.wallet, amount)
  PROVE  Sound(Fined(b, amount))
<1> DEFINE c == Fined(b, amount)
<1>0. b \in Economy /\ RowsFit(b) /\ CoinsAgree(b) /\ GoodsAgree(b)
  BY DEF Sound
<1>1. /\ c \in Economy /\ c.entry = b.entry /\ c.stock = b.stock
      /\ c.wallet = Debited(b.wallet, amount)
      /\ c.claimed = b.claimed /\ c.claims = b.claims
      /\ c.doubled = b.doubled /\ c.armed = b.armed
      /\ c.fines = b.fines + 1 /\ c.fined = b.fined + amount
  BY <1>0, FinedShape, Zenon
<1>2. LET v == Debited(b.wallet, amount)
      IN /\ v.spent = b.wallet.spent + amount /\ v.earned = b.wallet.earned
         /\ v.balance = b.wallet.balance - amount
  BY <1>0, EconomyFields, WalletSums
<1>. HIDE DEF c
<1>3. /\ \A i : SoldIn(c, i) = SoldIn(b, i)
      /\ \A k : UsedIn(c, k) = UsedIn(b, k)
      /\ Outlay(c) = Outlay(b) /\ Payout(c) = Payout(b)
  BY <1>1, EntriesStay
<1>4. RowsFit(c)
  BY <1>0, <1>1 DEF RowsFit
<1>5. GoodsAgree(c)
  BY <1>0, <1>1, <1>3 DEF GoodsAgree
<1>6. CoinsAgree(c)
  <2>1. b.fined \in Nat
    BY <1>0, EconomyFields
  <2>2. c.wallet.spent = SumOver(Outlay(c), Items) + c.fined
    BY <1>0, <1>1, <1>2, <1>3, <2>1, SumsAreIntegers DEF CoinsAgree
  <2>3. c.wallet.earned = SumOver(Payout(c), Entries) + Reward * (c.claims + c.doubled)
    BY <1>0, <1>1, <1>2, <1>3 DEF CoinsAgree
  <2>4. c.wallet.balance = Worth(c.wallet, Welcome)
    BY <1>0, <1>1, <1>2, SumsAreIntegers DEF CoinsAgree, Worth
  <2>. QED
    BY <2>2, <2>3, <2>4 DEF CoinsAgree
<1>7. Sound(c)
  BY <1>1, <1>4, <1>5, <1>6 DEF Sound
<1>. QED
  BY <1>7 DEF c

\* Bonus and Claimed, of a job that doubles or does not.
BonusOf(twice) == IF twice THEN 2 * Reward ELSE Reward

ClaimedBook(b, twice) ==
  [b EXCEPT !.claimed = TRUE, !.wallet = Credited(@, BonusOf(twice)), !.claims = @ + 1,
            !.doubled = IF twice THEN @ + 1 ELSE @, !.armed = @ /\ ~ twice]

LEMMA ClaimOf ==
  ASSUME NEW p, NEW b
  PROVE  /\ Bonus(p) = BonusOf(job[p].double)
         /\ Claimed(p, b) = ClaimedBook(b, job[p].double)
<1>1. Bonus(p) = BonusOf(job[p].double)
  BY DEF Bonus, BonusOf
<1>2. Claimed(p, b) = ClaimedBook(b, job[p].double)
  BY DEF Bonus, BonusOf, Claimed, ClaimedBook
<1>. QED
  BY <1>1, <1>2

LEMMA ClaimedShape ==
  ASSUME NEW b \in Economy, NEW twice \in BOOLEAN, CanCredit(b.wallet, BonusOf(twice))
  PROVE  LET c == ClaimedBook(b, twice)
         IN /\ c \in Economy /\ c.entry = b.entry /\ c.stock = b.stock
            /\ c.wallet = Credited(b.wallet, BonusOf(twice))
            /\ c.claimed = TRUE /\ c.claims = b.claims + 1
            /\ c.doubled = IF twice THEN b.doubled + 1 ELSE b.doubled
            /\ c.armed = (b.armed /\ ~ twice)
            /\ c.fines = b.fines /\ c.fined = b.fined
<1> DEFINE c == ClaimedBook(b, twice)
           w == Credited(b.wallet, BonusOf(twice))
           n == IF twice THEN b.doubled + 1 ELSE b.doubled
           a == b.armed /\ ~ twice
<1>1. /\ b = [wallet |-> b.wallet, stock |-> b.stock, entry |-> b.entry, armed |-> b.armed,
              claimed |-> b.claimed, claims |-> b.claims, doubled |-> b.doubled,
              fines |-> b.fines, fined |-> b.fined]
      /\ b.wallet \in Wallets /\ b.claims \in Nat /\ b.doubled \in Nat
  BY EconomyFields
<1>2. BonusOf(twice) \in Nat
  BY ShopAssumption DEF BonusOf
<1>3. w \in Wallets
  BY <1>1, <1>2, WalletSums
<1>4. PICK yes, k : /\ yes = TRUE /\ k = a
                    /\ c = [b EXCEPT !.claimed = yes, !.wallet = w, !.claims = b.claims + 1,
                                     !.doubled = n, !.armed = k]
  BY Zenon DEF ClaimedBook
<1>5. n \in Nat /\ k \in BOOLEAN /\ yes \in BOOLEAN
  BY <1>1, <1>4
<1>. HIDE DEF c, w, n, a
<1>6. c = [[[[[b EXCEPT !.claimed = yes] EXCEPT !.wallet = w] EXCEPT !.claims = b.claims + 1]
              EXCEPT !.doubled = n] EXCEPT !.armed = k]
  BY <1>1, <1>4
<1>7. c = [wallet |-> w, stock |-> b.stock, entry |-> b.entry, armed |-> k,
           claimed |-> yes, claims |-> b.claims + 1, doubled |-> n,
           fines |-> b.fines, fined |-> b.fined]
  BY <1>1, <1>6
<1>8. b.claims + 1 \in Nat
  BY <1>1
<1>9. c \in Economy
  BY <1>3, <1>5, <1>7, <1>8, EconomyFields DEF Economy
<1>10. /\ c.entry = b.entry /\ c.stock = b.stock /\ c.wallet = w
       /\ c.claimed = yes /\ c.claims = b.claims + 1
       /\ c.doubled = n /\ c.armed = k
       /\ c.fines = b.fines /\ c.fined = b.fined
  BY <1>7
<1>. QED
  BY <1>4, <1>9, <1>10 DEF c, w, n, a

LEMMA ClaimedSound ==
  ASSUME NEW b, Sound(b), NEW twice \in BOOLEAN, CanCredit(b.wallet, BonusOf(twice)),
         twice => b.armed
  PROVE  Sound(ClaimedBook(b, twice))
<1> DEFINE c == ClaimedBook(b, twice)
<1>0. b \in Economy /\ RowsFit(b) /\ CoinsAgree(b) /\ GoodsAgree(b)
  BY DEF Sound
<1>1. /\ c \in Economy /\ c.entry = b.entry /\ c.stock = b.stock
      /\ c.wallet = Credited(b.wallet, BonusOf(twice))
      /\ c.claimed = TRUE /\ c.claims = b.claims + 1
      /\ c.doubled = IF twice THEN b.doubled + 1 ELSE b.doubled
      /\ c.armed = (b.armed /\ ~ twice)
      /\ c.fines = b.fines /\ c.fined = b.fined
  BY <1>0, ClaimedShape, Zenon
<1>2. Reward \in Nat /\ BonusOf(twice) \in Nat
  BY ShopAssumption DEF BonusOf
<1>3. LET v == Credited(b.wallet, BonusOf(twice))
      IN /\ v.spent = b.wallet.spent /\ v.earned = b.wallet.earned + BonusOf(twice)
         /\ v.balance = b.wallet.balance + BonusOf(twice)
  BY <1>0, <1>2, EconomyFields, WalletSums
<1>. HIDE DEF c
<1>4. /\ \A i : SoldIn(c, i) = SoldIn(b, i)
      /\ \A k : UsedIn(c, k) = UsedIn(b, k)
      /\ Outlay(c) = Outlay(b) /\ Payout(c) = Payout(b)
  BY <1>1, EntriesStay
<1>5. RowsFit(c)
  BY <1>0, <1>1 DEF RowsFit
<1>6. b.claims \in Nat /\ b.doubled \in Nat /\ b.fined \in Nat /\ b.armed \in BOOLEAN
  BY <1>0, EconomyFields
<1>7. GoodsAgree(c)
  <2>1. c.doubled + (IF c.armed THEN 1 ELSE 0) = b.doubled + (IF b.armed THEN 1 ELSE 0)
    <3>1. CASE twice
      <4>1. b.armed /\ ~ c.armed /\ c.doubled = b.doubled + 1
        BY <1>1, <3>1, Zenon
      <4>. QED
        BY <1>6, <4>1
    <3>2. CASE ~ twice
      <4>1. (c.armed <=> b.armed) /\ c.doubled = b.doubled
        BY <1>1, <3>2, Zenon
      <4>. QED
        BY <4>1, Zenon
    <3>. QED
      BY <3>1, <3>2
  <2>. QED
    BY <1>0, <1>1, <1>4, <2>1 DEF GoodsAgree
<1>8. CoinsAgree(c)
  <2>1. c.wallet.spent = SumOver(Outlay(c), Items) + c.fined
    BY <1>0, <1>1, <1>3, <1>4 DEF CoinsAgree
  <2>2. c.wallet.balance = Worth(c.wallet, Welcome)
    BY <1>0, <1>1, <1>2, <1>3, SumsAreIntegers DEF CoinsAgree, Worth
  <2>3. Reward * (c.claims + c.doubled) = Reward * (b.claims + b.doubled) + BonusOf(twice)
    <3>1. \A m \in Nat, n \in Nat : m * (n + 1) = m * n + m /\ m * (n + 2) = m * n + 2 * m
      OBVIOUS
    <3>2. CASE twice
      <4>1. c.claims + c.doubled = (b.claims + b.doubled) + 2 /\ BonusOf(twice) = 2 * Reward
        BY <1>1, <1>6, <3>2 DEF BonusOf
      <4>. QED
        BY <1>2, <1>6, <3>1, <4>1
    <3>3. CASE ~ twice
      <4>1. c.claims + c.doubled = (b.claims + b.doubled) + 1 /\ BonusOf(twice) = Reward
        BY <1>1, <1>6, <3>3 DEF BonusOf
      <4>. QED
        BY <1>2, <1>6, <3>1, <4>1
    <3>. QED
      BY <3>2, <3>3
  <2>4. c.wallet.earned = SumOver(Payout(c), Entries) + Reward * (c.claims + c.doubled)
    <3> DEFINE r == Reward * (b.claims + b.doubled)
    <3>1. r \in Int
      <4>1. \A m \in Nat, n \in Nat : m * n \in Int
        OBVIOUS
      <4>. QED
        BY <1>2, <1>6, <4>1
    <3>2. b.wallet.earned = SumOver(Payout(b), Entries) + r
      BY <1>0 DEF CoinsAgree
    <3>3. Reward * (c.claims + c.doubled) = r + BonusOf(twice)
      BY <2>3
    <3>. HIDE DEF r
    <3>. QED
      BY <1>0, <1>1, <1>2, <1>3, <1>4, <3>1, <3>2, <3>3, SumsAreIntegers
  <2>. QED
    BY <2>1, <2>2, <2>4 DEF CoinsAgree
<1>9. Sound(c)
  BY <1>1, <1>5, <1>7, <1>8 DEF Sound
<1>. QED
  BY <1>9 DEF c

-----------------------------------------------------------------------------
(* The inductive invariant. *)

\* What a later book keeps of an earlier one: who sold what, that the day is
\* claimed, and, until it is, the armed buster.
Follows(b, c) ==
  /\ \A e \in Entries : b.entry[e].item # None => c.entry[e].item = b.entry[e].item
  /\ b.claimed => c.claimed
  /\ ~ c.claimed /\ b.armed => c.armed

\* What a handler has read is still so in the committed file.
Fits(j, b) ==
  /\ j.step = "buy" => j.item \in Items
  /\ j.step \in {"use", "select", "remove", "consume", "lift", "checkpoint"}
       => j.entry \in Entries /\ b.entry[j.entry].item # None
  /\ j.step \in {"select", "remove", "consume", "lift", "checkpoint"}
       => Kind[b.entry[j.entry].item] = "unwarn"
  /\ j.step = "claim" /\ j.double /\ ~ b.claimed => b.armed
  /\ j.card # None => j.step \in {"buy", "receipt"}

BooksFit ==
  /\ Sound(db.economy) /\ Sound(work.economy) /\ Follows(db.economy, work.economy)
  /\ \A p \in Procs : Fits(job[p], db.economy)

\* The steps a handler takes with the lock of a file in its hand.
Inside(f) == IF f = "economy" THEN {"receipt", "lift", "checkpoint", "log", "charge"}
             ELSE {"consume", "lift", "charge", "record"}

LocksHold ==
  /\ \A p \in Procs, f \in Files : job[p].step \in Inside(f) => writer[f] = p
  /\ \A f \in Files : Free(f) => work[f] = db[f]

\* A card that may be tapped, or whose tap is under way, has sold nothing since
\* the process last died.
Bound(b, c, n) == Cardinality(OnCard(b, c)) <= n

CardsHold ==
  /\ \A c \in Cards :
       /\ Bound(db.economy, c, 1 + restarts) /\ Bound(work.economy, c, 1 + restarts)
       /\ c \notin spent => Bound(db.economy, c, restarts) /\ Bound(work.economy, c, restarts)
  /\ \A p \in Procs : job[p].card # None =>
       /\ job[p].card \in spent /\ Bound(db.economy, job[p].card, restarts)
       /\ At(p, "buy") => Bound(work.economy, job[p].card, restarts)
       /\ \A q \in Procs : job[q].card = job[p].card => q = p

\* There is an id for every purchase under way.
Buying == {p \in Procs : At(p, "buy")}

RoomHolds == Cardinality(Unsold(work.economy)) >= Cardinality(Buying)

\* What the holder of a lock has written and not committed yet, as far as the
\* other file has to follow.
SameRows(b, c) == UsedIn(c, "unwarn") = UsedIn(b, "unwarn") /\ c.fines = b.fines

Lead(p) ==
  /\ At(p, "receipt") => SameRows(db.economy, work.economy)
  /\ job[p].step \in {"consume", "lift"} =>
       \E w \in db.moderation.active :
          work.moderation = [db.moderation EXCEPT !.active = @ \ {w}]
  /\ job[p].step \in {"lift", "checkpoint"} =>
       /\ work.economy.fines = db.economy.fines
       /\ \E e \in Entries \ UsedIn(db.economy, "unwarn") :
            UsedIn(work.economy, "unwarn") = UsedIn(db.economy, "unwarn") \cup {e}
  /\ job[p].step \in {"log", "charge"} =>
       /\ UsedIn(work.economy, "unwarn") = UsedIn(db.economy, "unwarn")
       /\ work.economy.fines = db.economy.fines + 1
  /\ job[p].step \in {"charge", "record"} =>
       work.moderation = [db.moderation EXCEPT !.fines = @ + 1]
  /\ job[p].charged => At(p, "record")

Lifting   == {p \in Procs : At(p, "checkpoint")}
Charging  == {p \in Procs : At(p, "record") /\ job[p].charged}
Uncharged == {p \in Procs : At(p, "record") /\ ~ job[p].charged}

Faults == faults + restarts

Untied == Cardinality(Warnings) - Cardinality(db.moderation.active)
            - Cardinality(UsedIn(db.economy, "unwarn")) - Cardinality(Lifting)
Torn   == db.economy.fines - db.moderation.fines - Cardinality(Charging)

TearsHold ==
  /\ Untied \in 0 .. Faults
  /\ Torn - Cardinality(Uncharged) >= - Faults /\ Torn <= Faults

CoreInv == TypeOK /\ BooksFit /\ LocksHold /\ CardsHold /\ RoomHolds
IInv == CoreInv /\ (\A p \in Procs : Lead(p)) /\ TearsHold

\* A write that redeems at most one entry: the book stays sound and later, and
\* neither the unsold entries, nor the cards, nor the lifted warnings change.
RedeemedTo(b, c) ==
  /\ Sound(c) /\ Follows(b, c) /\ SameRows(b, c)
  /\ Unsold(c) = Unsold(b) /\ \A k : OnCard(c, k) = OnCard(b, k)

LEMMA FollowsSelf == ASSUME NEW b PROVE Follows(b, b)
  BY DEF Follows

LEMMA FollowsOn ==
  ASSUME NEW a, NEW b, NEW c, Follows(a, b), Follows(b, c)
  PROVE  Follows(a, c)
<1>1. ASSUME NEW e \in Entries, a.entry[e].item # None
      PROVE  c.entry[e].item = a.entry[e].item
  BY <1>1 DEF Follows
<1>. QED
  BY <1>1 DEF Follows

LEMMA OneEntryRedeemed ==
  ASSUME NEW b \in Economy, NEW c, NEW e \in Entries, OnlyEntry(b, c, e), Sound(c),
         c.entry[e].item = b.entry[e].item, c.entry[e].card = b.entry[e].card,
         Kind[b.entry[e].item] # "unwarn",
         c.claimed = b.claimed, b.armed => c.armed, c.fines = b.fines
  PROVE  RedeemedTo(b, c)
<1>1. \A d \in Entries : c.entry[d].item = b.entry[d].item /\ c.entry[d].card = b.entry[d].card
  BY DEF OnlyEntry
<1>2. Follows(b, c)
  BY <1>1 DEF Follows
<1>3. Unsold(c) = Unsold(b)
  BY <1>1 DEF Unsold
<1>4. \A k : OnCard(c, k) = OnCard(b, k)
  BY <1>1 DEF OnCard
<1>5. \A d \in Entries : d \in UsedIn(c, "unwarn") <=> d \in UsedIn(b, "unwarn")
  BY DEF UsedIn, OnlyEntry
<1>6. UsedIn(c, "unwarn") = UsedIn(b, "unwarn")
  <2>1. UsedIn(c, "unwarn") \subseteq Entries /\ UsedIn(b, "unwarn") \subseteq Entries
    BY DEF UsedIn
  <2>. QED
    BY <1>5, <2>1
<1>. QED
  BY <1>2, <1>3, <1>4, <1>6 DEF RedeemedTo, SameRows

LEMMA RedeemedSelf == ASSUME NEW b, Sound(b) PROVE RedeemedTo(b, b)
  BY FollowsSelf DEF RedeemedTo, SameRows

LEMMA ArmedTo ==
  ASSUME NEW b, Sound(b), NEW e \in Entries, b.entry[e].item # None, ~ b.entry[e].used,
         Kind[b.entry[e].item] = "buster", MayArm(b)
  PROVE  RedeemedTo(b, Armed(b, e))
<1> DEFINE c == Armed(b, e)
<1>0. b \in Economy /\ "buster" # "unwarn"
  BY DEF Sound
<1>1. Sound(c)
  BY ArmedSound
<1>2. /\ OnlyEntry(b, c, e) /\ c.entry[e].item = b.entry[e].item
      /\ c.entry[e].card = b.entry[e].card
      /\ c.claimed = b.claimed /\ c.armed /\ c.fines = b.fines
  BY <1>0, ArmedShape
<1>. HIDE DEF c
<1>3. RedeemedTo(b, c)
  BY <1>0, <1>1, <1>2, OneEntryRedeemed
<1>. QED
  BY <1>3 DEF c

LEMMA GiftedTo ==
  ASSUME NEW b, Sound(b), NEW e \in Entries, b.entry[e].item # None, ~ b.entry[e].used,
         Kind[b.entry[e].item] = "gift", NEW amount \in Payouts, CanCredit(b.wallet, amount)
  PROVE  RedeemedTo(b, Gifted(b, e, amount))
<1> DEFINE c == Gifted(b, e, amount)
<1>0. b \in Economy /\ "gift" # "unwarn" /\ amount \in Nat /\ amount \in Nat \ {0}
  BY ShopAssumption DEF Sound
<1>1. Sound(c)
  BY <1>0, GiftedSound
<1>2. /\ c \in Economy /\ OnlyEntry(b, c, e)
      /\ c.entry[e].item = b.entry[e].item /\ c.entry[e].card = b.entry[e].card
      /\ c.entry[e].paid = amount /\ c.entry[e].used = TRUE
      /\ c.wallet = Credited(b.wallet, amount) /\ c.stock = b.stock /\ c.claimed = b.claimed
      /\ c.claims = b.claims /\ c.doubled = b.doubled /\ c.armed = b.armed
      /\ c.fines = b.fines /\ c.fined = b.fined
  <2>1. b \in Economy /\ amount \in Nat /\ CanCredit(b.wallet, amount)
    BY <1>0
  <2>. QED
    BY <2>1, GiftedShape, Zenon
<1>. HIDE DEF c
<1>3. RedeemedTo(b, c)
  BY <1>0, <1>1, <1>2, OneEntryRedeemed
<1>. QED
  BY <1>3 DEF c

\* Redeem writes such a book and goes on to the receipt, or raises.
LEMMA RedeemCases ==
  ASSUME NEW b, Sound(b), NEW e \in Entries, b.entry[e].item # None, NEW p, Redeem(p, b, e)
  PROVE  \/ Fail(p)
         \/ \E c : /\ RedeemedTo(b, c)
                   /\ Write(p, "economy", c) /\ Goto(p, "receipt") /\ UNCHANGED <<spent, env>>
<1> DEFINE hold(c) == Write(p, "economy", c) /\ Goto(p, "receipt") /\ UNCHANGED <<spent, env>>
           kind == Kind[b.entry[e].item]
<1>1. \/ hold(b)
      \/ kind = "buster" /\ MayArm(b) /\ Consumable(b, e) /\ hold(Armed(b, e))
      \/ /\ kind = "gift" /\ Consumable(b, e)
         /\ \E amount \in Payouts :
              \/ CanCredit(b.wallet, amount) /\ hold(Gifted(b, e, amount))
              \/ ~ CanCredit(b.wallet, amount) /\ Fail(p)
  BY Zenon DEF Redeem
<1>2. CASE hold(b)
  <2>. HIDE DEF hold
  <2>1. RedeemedTo(b, b) /\ hold(b)
    BY <1>2, RedeemedSelf
  <2>2. \E c : RedeemedTo(b, c) /\ hold(c)
    BY <2>1, Zenon
  <2>. QED
    BY <2>2, Zenon DEF hold
<1>3. CASE kind = "buster" /\ MayArm(b) /\ Consumable(b, e) /\ hold(Armed(b, e))
  <2>. HIDE DEF hold
  <2>0. ~ b.entry[e].used
    BY <1>3 DEF Consumable
  <2>1. RedeemedTo(b, Armed(b, e)) /\ hold(Armed(b, e))
    BY <1>3, <2>0, ArmedTo
  <2>2. \E c : RedeemedTo(b, c) /\ hold(c)
    BY <2>1, Zenon
  <2>. QED
    BY <2>2, Zenon DEF hold
<1>4. ASSUME kind = "gift", Consumable(b, e), NEW amount \in Payouts,
             CanCredit(b.wallet, amount), hold(Gifted(b, e, amount))
      PROVE  \E c : RedeemedTo(b, c) /\ hold(c)
  <2>. HIDE DEF hold
  <2>0. ~ b.entry[e].used
    BY <1>4 DEF Consumable
  <2>1. RedeemedTo(b, Gifted(b, e, amount)) /\ hold(Gifted(b, e, amount))
    BY <1>4, <2>0, GiftedTo
  <2>. QED
    BY <2>1, Zenon
<1>5. CASE Fail(p)
  BY <1>5, Zenon
<1>6. (\E c : RedeemedTo(b, c) /\ hold(c)) =>
        \E c : /\ RedeemedTo(b, c)
               /\ Write(p, "economy", c) /\ Goto(p, "receipt") /\ UNCHANGED <<spent, env>>
  BY Zenon
<1>. QED
  <2>. HIDE DEF hold, kind
  <2>. QED
    BY <1>1, <1>2, <1>3, <1>4, <1>5, <1>6, Zenon

LEMMA ConsumedTo ==
  ASSUME NEW b, Sound(b), NEW e \in Entries, b.entry[e].item # None, ~ b.entry[e].used,
         Kind[b.entry[e].item] = "unwarn"
  PROVE  LET c == Consumed(b, e)
         IN /\ Sound(c) /\ Follows(b, c) /\ Unsold(c) = Unsold(b) /\ \A k : OnCard(c, k) = OnCard(b, k)
            /\ c.fines = b.fines /\ e \notin UsedIn(b, "unwarn")
            /\ UsedIn(c, "unwarn") = UsedIn(b, "unwarn") \cup {e}
<1> DEFINE c == Consumed(b, e)
<1>0. b \in Economy
  BY DEF Sound
<1>1. Sound(c)
  BY ConsumedSound
<1>2. /\ OnlyEntry(b, c, e) /\ c.entry[e].item = b.entry[e].item
      /\ c.entry[e].card = b.entry[e].card /\ c.entry[e].used
  BY <1>0, ConsumedShape
<1>3. c = [wallet |-> b.wallet, stock |-> b.stock, entry |-> c.entry, armed |-> b.armed,
           claimed |-> b.claimed, claims |-> b.claims, doubled |-> b.doubled,
           fines |-> b.fines, fined |-> b.fined]
  BY <1>0, ConsumedShape
<1>. HIDE DEF c
<1>4. c.armed = b.armed /\ c.claimed = b.claimed /\ c.fines = b.fines
  BY <1>3
<1>5. \A d \in Entries : c.entry[d].item = b.entry[d].item /\ c.entry[d].card = b.entry[d].card
  BY <1>2 DEF OnlyEntry
<1>6. Follows(b, c)
  BY <1>4, <1>5 DEF Follows
<1>7. Unsold(c) = Unsold(b)
  BY <1>5 DEF Unsold
<1>8. \A k : OnCard(c, k) = OnCard(b, k)
  BY <1>5 DEF OnCard
<1>9. e \notin UsedIn(b, "unwarn")
  BY DEF UsedIn
<1>10. \A d \in Entries : d \in UsedIn(c, "unwarn") <=> d \in UsedIn(b, "unwarn") \/ d = e
  BY <1>2 DEF UsedIn, OnlyEntry
<1>11. UsedIn(c, "unwarn") = UsedIn(b, "unwarn") \cup {e}
  <2>1. UsedIn(c, "unwarn") \subseteq Entries /\ UsedIn(b, "unwarn") \subseteq Entries
    BY DEF UsedIn
  <2>. QED
    BY <1>10, <2>1
<1>. QED
  BY <1>1, <1>4, <1>6, <1>7, <1>8, <1>9, <1>11 DEF c

LEMMA BoughtTo ==
  ASSUME NEW b, Sound(b), NEW i \in Items, NEW e \in Entries, b.entry[e].item = None,
         NEW card \in Cards \cup {None}, CanDebit(b.wallet, Price[i]), InStock(b, i)
  PROVE  LET c == Bought(b, i, e, card)
         IN /\ Sound(c) /\ Follows(b, c) /\ SameRows(b, c) /\ c.entry[e].item # None
            /\ Unsold(c) = Unsold(b) \ {e}
            /\ \A k \in Cards : k # card => OnCard(c, k) = OnCard(b, k)
            /\ e \notin OnCard(b, card) \/ card = None
            /\ OnCard(c, card) = OnCard(b, card) \cup {e}
<1> DEFINE c == Bought(b, i, e, card)
           x == [NoEntry EXCEPT !.item = i, !.card = card]
<1>0. b \in Economy /\ RowsFit(b)
  BY DEF Sound
<1>1. Sound(c) /\ OnlyEntry(b, c, e)
  BY BoughtSound
<1>4. c.entry[e].item = i /\ ~ c.entry[e].used /\ c.entry[e].card = card
  BY BoughtSound
<1>3. c.claimed = b.claimed /\ c.armed = b.armed /\ c.fines = b.fines
  <2> DEFINE w == Debited(b.wallet, Price[i])
             s == [b.stock EXCEPT ![i] = IF b.stock[i] = -1 THEN -1 ELSE b.stock[i] - 1]
             n == [b.entry EXCEPT ![e] = x]
  <2>1. b = [wallet |-> b.wallet, stock |-> b.stock, entry |-> b.entry, armed |-> b.armed,
             claimed |-> b.claimed, claims |-> b.claims, doubled |-> b.doubled,
             fines |-> b.fines, fined |-> b.fined]
    BY <1>0, EconomyFields
  <2>2. c = [b EXCEPT !.wallet = w, !.stock = s, !.entry = n]
    BY DEF Bought
  <2>. HIDE DEF c, x, w, s, n
  <2>. QED
    BY <2>1, <2>2
<1>. HIDE DEF c
<1>5. ~ b.entry[e].used /\ b.entry[e].card = None
  BY <1>0 DEF RowsFit, NoEntry
<1>6. i # None
  BY NoneApart
<1>7. Follows(b, c)
  BY <1>1, <1>3 DEF Follows, OnlyEntry
<1>8. SameRows(b, c)
  <2>1. \A d \in Entries : d \in UsedIn(c, "unwarn") <=> d \in UsedIn(b, "unwarn")
    BY <1>1, <1>4, <1>5 DEF UsedIn, OnlyEntry
  <2>2. UsedIn(c, "unwarn") \subseteq Entries /\ UsedIn(b, "unwarn") \subseteq Entries
    BY DEF UsedIn
  <2>. QED
    BY <1>3, <2>1, <2>2 DEF SameRows
<1>9. Unsold(c) = Unsold(b) \ {e}
  BY <1>1, <1>4, <1>6 DEF Unsold, OnlyEntry
<1>10. \A k \in Cards : k # card => OnCard(c, k) = OnCard(b, k)
  <2>1. \A k \in Cards : k # None
    BY NoneApart
  <2>. QED
    BY <1>1, <1>4, <1>5, <2>1 DEF OnCard, OnlyEntry
<1>11. OnCard(c, card) = OnCard(b, card) \cup {e}
  BY <1>1, <1>4 DEF OnCard, OnlyEntry
<1>12. e \notin OnCard(b, card) \/ card = None
  BY <1>5 DEF OnCard
<1>. QED
  BY <1>1, <1>4, <1>6, <1>7, <1>8, <1>9, <1>10, <1>11, <1>12 DEF c

LEMMA FinedTo ==
  ASSUME NEW b, Sound(b), NEW amount \in Nat, CanDebit(b.wallet, amount)
  PROVE  LET c == Fined(b, amount)
         IN /\ Sound(c) /\ Follows(b, c) /\ Unsold(c) = Unsold(b) /\ \A k : OnCard(c, k) = OnCard(b, k)
            /\ \A k : UsedIn(c, k) = UsedIn(b, k) /\ c.fines = b.fines + 1
<1> DEFINE c == Fined(b, amount)
<1>0. b \in Economy
  BY DEF Sound
<1>1. Sound(c)
  BY FinedSound
<1>2. /\ c \in Economy /\ c.entry = b.entry /\ c.stock = b.stock
      /\ c.wallet = Debited(b.wallet, amount)
      /\ c.claimed = b.claimed /\ c.claims = b.claims
      /\ c.doubled = b.doubled /\ c.armed = b.armed
      /\ c.fines = b.fines + 1 /\ c.fined = b.fined + amount
  BY <1>0, FinedShape, Zenon
<1>. HIDE DEF c
<1>3. (\A k : UsedIn(c, k) = UsedIn(b, k)) /\ (\A k : OnCard(c, k) = OnCard(b, k))
  BY <1>2, EntriesStay
<1>4. Follows(b, c)
  BY <1>2 DEF Follows
<1>5. Unsold(c) = Unsold(b)
  BY <1>2 DEF Unsold
<1>. QED
  BY <1>1, <1>2, <1>3, <1>4, <1>5 DEF c

LEMMA ClaimedTo ==
  ASSUME NEW b, Sound(b), NEW twice \in BOOLEAN, CanCredit(b.wallet, BonusOf(twice)),
         twice => b.armed
  PROVE  LET c == ClaimedBook(b, twice)
         IN /\ Sound(c) /\ Follows(b, c) /\ Unsold(c) = Unsold(b) /\ \A k : OnCard(c, k) = OnCard(b, k)
            /\ SameRows(b, c)
<1> DEFINE c == ClaimedBook(b, twice)
<1>0. b \in Economy
  BY DEF Sound
<1>1. Sound(c)
  BY ClaimedSound
<1>2. /\ c \in Economy /\ c.entry = b.entry /\ c.stock = b.stock
      /\ c.wallet = Credited(b.wallet, BonusOf(twice))
      /\ c.claimed = TRUE /\ c.claims = b.claims + 1
      /\ c.doubled = IF twice THEN b.doubled + 1 ELSE b.doubled
      /\ c.armed = (b.armed /\ ~ twice)
      /\ c.fines = b.fines /\ c.fined = b.fined
  BY <1>0, ClaimedShape, Zenon
<1>. HIDE DEF c
<1>3. (\A k : UsedIn(c, k) = UsedIn(b, k)) /\ (\A k : OnCard(c, k) = OnCard(b, k))
  BY <1>2, EntriesStay
<1>4. Follows(b, c)
  BY <1>2 DEF Follows
<1>5. Unsold(c) = Unsold(b)
  BY <1>2 DEF Unsold
<1>6. SameRows(b, c)
  BY <1>2, <1>3 DEF SameRows
<1>. QED
  BY <1>1, <1>3, <1>4, <1>5, <1>6 DEF c

-----------------------------------------------------------------------------
(* What one process does to the files, whichever step it takes. *)

Both == [economy : Economy, moderation : Moderation]

Session(p) ==
  /\ db' \in Both /\ work' \in Both /\ writer' \in [Files -> Procs \cup {None}]
  /\ \A f \in Files : writer'[f] = None => work'[f] = db'[f]
  /\ \A f \in Files : writer[f] \notin {None, p} =>
        writer'[f] = writer[f] /\ db'[f] = db[f] /\ work'[f] = work[f]
  /\ Sound(db'.economy) /\ Sound(work'.economy)
  /\ Follows(db.economy, db'.economy) /\ Follows(db'.economy, work'.economy)

LEMMA FilesOf ==
  ASSUME IInv
  PROVE  /\ db \in Both /\ work \in Both /\ writer \in [Files -> Procs \cup {None}]
         /\ \A f \in Files : writer[f] = None => work[f] = db[f]
         /\ Sound(db.economy) /\ Sound(work.economy) /\ Follows(db.economy, work.economy)
         /\ "economy" \in Files /\ "moderation" \in Files
         /\ db["economy"] = db.economy /\ db["moderation"] = db.moderation
         /\ work["economy"] = work.economy /\ work["moderation"] = work.moderation
<1>1. TypeOK /\ BooksFit /\ LocksHold
  BY DEF IInv, CoreInv
<1>2. db \in Both /\ work \in Both /\ writer \in [Files -> Procs \cup {None}]
  BY <1>1 DEF TypeOK, Both
<1>. QED
  BY <1>1, <1>2 DEF BooksFit, LocksHold, Free, Files

LEMMA FilePut ==
  ASSUME NEW d \in Both, NEW x
  PROVE  /\ LET y == [d EXCEPT !["economy"] = x]
            IN y.economy = x /\ y.moderation = d.moderation /\ (x \in Economy => y \in Both)
         /\ LET y == [d EXCEPT !["moderation"] = x]
            IN y.moderation = x /\ y.economy = d.economy /\ (x \in Moderation => y \in Both)
<1>1. PICK v \in Economy, m \in Moderation : d = [economy |-> v, moderation |-> m]
  BY DEF Both
<1>2. [d EXCEPT !["economy"] = x] = [economy |-> x, moderation |-> m]
  BY <1>1
<1>3. [d EXCEPT !["moderation"] = x] = [economy |-> v, moderation |-> x]
  BY <1>1
<1>4. d.economy = v /\ d.moderation = m
  BY <1>1
<1>. QED
  BY <1>2, <1>3, <1>4 DEF Both

LEMMA StillSession ==
  ASSUME IInv, NEW p, UNCHANGED <<db, work, writer>>
  PROVE  Session(p)
<1>1. db' = db /\ work' = work /\ writer' = writer
  OBVIOUS
<1>2. Follows(db.economy, db.economy)
  BY FollowsSelf
<1>. QED
  BY <1>1, <1>2, FilesOf DEF Session

LEMMA EconomyWritten ==
  ASSUME IInv, NEW p \in Procs, NEW c, Free("economy"), Write(p, "economy", c),
         Sound(c), Follows(work.economy, c)
  PROVE  /\ Session(p) /\ db' = db /\ work'.economy = c /\ work'.moderation = work.moderation
         /\ writer'["economy"] = p /\ writer'["moderation"] = writer["moderation"]
<1>1. /\ db' = db /\ work' = [work EXCEPT !["economy"] = c]
      /\ writer' = [writer EXCEPT !["economy"] = p]
  BY DEF Write
<1>2. c \in Economy /\ writer["economy"] = None /\ p # None
  BY NoneApart DEF Sound, Free
<1>3. work'.economy = c /\ work'.moderation = work.moderation /\ work' \in Both
  <2>1. work \in Both
    BY FilesOf
  <2>2. work' = [work EXCEPT !["economy"] = c] /\ c \in Economy
    BY <1>1, <1>2
  <2>. QED
    BY <2>1, <2>2, FilePut
<1>4. /\ writer'["economy"] = p /\ writer'["moderation"] = writer["moderation"]
      /\ writer' \in [Files -> Procs \cup {None}]
  BY <1>1, FilesOf
<1>5. Follows(db.economy, db.economy) /\ Follows(db.economy, c)
  BY FilesOf, FollowsSelf, FollowsOn
<1>6. \A f \in Files : writer'[f] = None => work'[f] = db'[f]
  BY <1>1, <1>2, <1>3, <1>4, FilesOf DEF Files
<1>7. \A f \in Files : writer[f] \notin {None, p} =>
        writer'[f] = writer[f] /\ db'[f] = db[f] /\ work'[f] = work[f]
  BY <1>1, <1>2, <1>3, <1>4, FilesOf DEF Files
<1>. QED
  BY <1>1, <1>3, <1>4, <1>5, <1>6, <1>7, FilesOf DEF Session

LEMMA ModerationWritten ==
  ASSUME IInv, NEW p \in Procs, NEW m \in Moderation, Free("moderation"), Write(p, "moderation", m)
  PROVE  /\ Session(p) /\ db' = db /\ work'.economy = work.economy /\ work'.moderation = m
         /\ writer'["economy"] = writer["economy"] /\ writer'["moderation"] = p
<1>1. /\ db' = db /\ work' = [work EXCEPT !["moderation"] = m]
      /\ writer' = [writer EXCEPT !["moderation"] = p]
  BY DEF Write
<1>2. writer["moderation"] = None /\ p # None
  BY NoneApart DEF Free
<1>3. work'.economy = work.economy /\ work'.moderation = m /\ work' \in Both
  BY <1>1, FilesOf, FilePut
<1>4. /\ writer'["moderation"] = p /\ writer'["economy"] = writer["economy"]
      /\ writer' \in [Files -> Procs \cup {None}]
  BY <1>1, FilesOf
<1>5. Follows(db.economy, db.economy)
  BY FollowsSelf
<1>6. \A f \in Files : writer'[f] = None => work'[f] = db'[f]
  BY <1>1, <1>2, <1>3, <1>4, FilesOf DEF Files
<1>7. \A f \in Files : writer[f] \notin {None, p} =>
        writer'[f] = writer[f] /\ db'[f] = db[f] /\ work'[f] = work[f]
  BY <1>1, <1>2, <1>3, <1>4, FilesOf DEF Files
<1>. QED
  BY <1>1, <1>3, <1>4, <1>5, <1>6, <1>7, FilesOf DEF Session

\* A commit keeps what was written, a commit that fails what was there.
LEMMA EconomyEnded ==
  ASSUME IInv, NEW p \in Procs, writer["economy"] \in {None, p},
         Commits("economy") \/ CommitLost("economy")
  PROVE  /\ Session(p) /\ db'.moderation = db.moderation /\ work'.moderation = work.moderation
         /\ work'.economy = db'.economy
         /\ Commits("economy") => db'.economy = work.economy /\ UNCHANGED env
         /\ CommitLost("economy") => db'.economy = db.economy
         /\ writer'["economy"] = None /\ writer'["moderation"] = writer["moderation"]
<1> DEFINE x == IF Commits("economy") THEN work.economy ELSE db.economy
<1>1. /\ writer' = [writer EXCEPT !["economy"] = None]
      /\ db'.economy = work'.economy
      /\ db'.moderation = db.moderation /\ work'.moderation = work.moderation
      /\ db' \in Both /\ work' \in Both
      /\ Commits("economy") => db'.economy = work.economy /\ UNCHANGED env
      /\ CommitLost("economy") => db'.economy = db.economy
  <2>1. CASE Commits("economy")
    <3>1. /\ db' = [db EXCEPT !["economy"] = work.economy]
          /\ work' = [work EXCEPT !["economy"] = work.economy]
          /\ writer' = [writer EXCEPT !["economy"] = None] /\ UNCHANGED env
      BY <2>1, FilesOf DEF Commits, Committed
    <3>2. work.economy \in Economy
      BY FilesOf DEF Both
    <3>3. CommitLost("economy") => work' = [work EXCEPT !["economy"] = db.economy] /\ db' = db
      BY FilesOf DEF CommitLost
    <3>4. /\ db'.economy = work.economy /\ work'.economy = work.economy
          /\ db'.moderation = db.moderation /\ work'.moderation = work.moderation
          /\ db' \in Both /\ work' \in Both
      BY <3>1, <3>2, FilesOf, FilePut
    <3>. QED
      BY <3>1, <3>3, <3>4
  <2>2. CASE ~ Commits("economy")
    <3>1. /\ db' = db /\ work' = [work EXCEPT !["economy"] = db.economy]
          /\ writer' = [writer EXCEPT !["economy"] = None]
      BY <2>2, FilesOf DEF CommitLost
    <3>2. db.economy \in Economy
      BY FilesOf DEF Both
    <3>3. /\ work'.economy = db.economy /\ work'.moderation = work.moderation /\ work' \in Both
      BY <3>1, <3>2, FilesOf, FilePut
    <3>. QED
      BY <2>2, <3>1, <3>3, FilesOf
  <2>. QED
    BY <2>1, <2>2
<1>2. db'.economy = db.economy \/ db'.economy = work.economy
  BY <1>1
<1>3. /\ Sound(db'.economy) /\ Follows(db.economy, db'.economy)
      /\ Follows(db'.economy, db'.economy)
  BY <1>2, FilesOf, FollowsSelf
<1>4. /\ writer'["economy"] = None /\ writer'["moderation"] = writer["moderation"]
      /\ writer' \in [Files -> Procs \cup {None}]
  BY <1>1, FilesOf
<1>5. /\ db'["economy"] = db'.economy /\ db'["moderation"] = db'.moderation
      /\ work'["economy"] = work'.economy /\ work'["moderation"] = work'.moderation
  BY <1>1 DEF Both
<1>6. \A f \in Files : writer'[f] = None => work'[f] = db'[f]
  BY <1>1, <1>4, <1>5, FilesOf DEF Files
<1>7. \A f \in Files : writer[f] \notin {None, p} =>
        writer'[f] = writer[f] /\ db'[f] = db[f] /\ work'[f] = work[f]
  BY <1>1, <1>4, <1>5, FilesOf DEF Files
<1>. QED
  BY <1>1, <1>3, <1>4, <1>6, <1>7 DEF Session

LEMMA ModerationEnded ==
  ASSUME IInv, NEW p \in Procs, writer["moderation"] \in {None, p},
         Commits("moderation") \/ CommitLost("moderation")
  PROVE  /\ Session(p) /\ db'.economy = db.economy /\ work'.economy = work.economy
         /\ work'.moderation = db'.moderation
         /\ Commits("moderation") => db'.moderation = work.moderation /\ UNCHANGED env
         /\ CommitLost("moderation") => db'.moderation = db.moderation
         /\ writer'["moderation"] = None /\ writer'["economy"] = writer["economy"]
<1>1. /\ writer' = [writer EXCEPT !["moderation"] = None]
      /\ db'.moderation = work'.moderation
      /\ db'.economy = db.economy /\ work'.economy = work.economy
      /\ db' \in Both /\ work' \in Both
      /\ Commits("moderation") => db'.moderation = work.moderation /\ UNCHANGED env
      /\ CommitLost("moderation") => db'.moderation = db.moderation
  <2>1. CASE Commits("moderation")
    <3>1. /\ db' = [db EXCEPT !["moderation"] = work.moderation]
          /\ work' = [work EXCEPT !["moderation"] = work.moderation]
          /\ writer' = [writer EXCEPT !["moderation"] = None] /\ UNCHANGED env
      BY <2>1, FilesOf DEF Commits, Committed
    <3>2. work.moderation \in Moderation
      BY FilesOf DEF Both
    <3>3. CommitLost("moderation") => work' = [work EXCEPT !["moderation"] = db.moderation] /\ db' = db
      BY FilesOf DEF CommitLost
    <3>4. /\ db'.moderation = work.moderation /\ work'.moderation = work.moderation
          /\ db'.economy = db.economy /\ work'.economy = work.economy
          /\ db' \in Both /\ work' \in Both
      BY <3>1, <3>2, FilesOf, FilePut
    <3>. QED
      BY <3>1, <3>3, <3>4
  <2>2. CASE ~ Commits("moderation")
    <3>1. /\ db' = db /\ work' = [work EXCEPT !["moderation"] = db.moderation]
          /\ writer' = [writer EXCEPT !["moderation"] = None]
      BY <2>2, FilesOf DEF CommitLost
    <3>2. db.moderation \in Moderation
      BY FilesOf DEF Both
    <3>3. /\ work'.moderation = db.moderation /\ work'.economy = work.economy /\ work' \in Both
      BY <3>1, <3>2, FilesOf, FilePut
    <3>. QED
      BY <2>2, <3>1, <3>3, FilesOf
  <2>. QED
    BY <2>1, <2>2
<1>3. /\ Sound(db'.economy) /\ Sound(work'.economy) /\ Follows(db.economy, db'.economy)
      /\ Follows(db'.economy, work'.economy)
  BY <1>1, FilesOf, FollowsSelf
<1>4. /\ writer'["moderation"] = None /\ writer'["economy"] = writer["economy"]
      /\ writer' \in [Files -> Procs \cup {None}]
  BY <1>1, FilesOf
<1>5. /\ db'["economy"] = db'.economy /\ db'["moderation"] = db'.moderation
      /\ work'["economy"] = work'.economy /\ work'["moderation"] = work'.moderation
  BY <1>1 DEF Both
<1>6. \A f \in Files : writer'[f] = None => work'[f] = db'[f]
  BY <1>1, <1>4, <1>5, FilesOf DEF Files
<1>7. \A f \in Files : writer[f] \notin {None, p} =>
        writer'[f] = writer[f] /\ db'[f] = db[f] /\ work'[f] = work[f]
  BY <1>1, <1>4, <1>5, FilesOf DEF Files
<1>. QED
  BY <1>1, <1>3, <1>4, <1>6, <1>7 DEF Session

LEMMA RolledSession ==
  ASSUME IInv, NEW p \in Procs, RolledBack(p)
  PROVE  /\ Session(p) /\ db' = db
         /\ work'.economy = IF writer["economy"] = p THEN db.economy ELSE work.economy
<1>1. /\ db' = db
      /\ work' = [f \in Files |-> IF writer[f] = p THEN db[f] ELSE work[f]]
      /\ writer' = [f \in Files |-> IF writer[f] = p THEN None ELSE writer[f]]
  BY DEF RolledBack
<1>2. /\ work'["economy"] = (IF writer["economy"] = p THEN db.economy ELSE work.economy)
      /\ work'["moderation"] = (IF writer["moderation"] = p THEN db.moderation ELSE work.moderation)
  BY <1>1, FilesOf
<1>3. work' = [economy |-> work'["economy"], moderation |-> work'["moderation"]]
  BY <1>1 DEF Files
<1>4. work' \in Both /\ work'.economy = work'["economy"]
  BY <1>2, <1>3, FilesOf DEF Both
<1>5. writer' \in [Files -> Procs \cup {None}]
  BY <1>1, FilesOf
<1>6. \A f \in Files : writer'[f] = None => work'[f] = db'[f]
  BY <1>1, FilesOf
<1>7. \A f \in Files : writer[f] \notin {None, p} =>
        writer'[f] = writer[f] /\ db'[f] = db[f] /\ work'[f] = work[f]
  BY <1>1
<1>8. /\ Sound(work'.economy) /\ Follows(db.economy, work'.economy)
      /\ Follows(db.economy, db.economy)
  BY <1>2, <1>4, FilesOf, FollowsSelf
<1>. QED
  BY <1>1, <1>2, <1>4, <1>5, <1>6, <1>7, <1>8, FilesOf DEF Session

-----------------------------------------------------------------------------
(* What a step of one process leaves to the others. *)

Turn(p) ==
  /\ job' \in [Procs -> Job] /\ \A q \in Procs : q # p => job'[q] = job[q]
  /\ Fits(job'[p], db'.economy)
  /\ \A f \in Files : job'[p].step \in Inside(f) => writer'[f] = p
  /\ Lead(p)'

LEMMA JobPut ==
  ASSUME IInv, NEW p \in Procs, NEW j \in Job, Become(p, j)
  PROVE  job' \in [Procs -> Job] /\ job'[p] = j /\ \A q \in Procs : q # p => job'[q] = job[q]
<1>1. job \in [Procs -> Job]
  BY DEF IInv, CoreInv, TypeOK
<1>. QED
  BY <1>1 DEF Become

LEMMA JobAt ==
  ASSUME IInv, NEW p \in Procs
  PROVE  /\ job \in [Procs -> Job] /\ job[p] \in Job /\ Fits(job[p], db.economy) /\ Lead(p)
         /\ \A f \in Files : job[p].step \in Inside(f) => writer[f] = p
         /\ spent \subseteq Cards /\ faults \in Nat /\ restarts \in Nat
BY DEF IInv, CoreInv, TypeOK, BooksFit, LocksHold

LEMMA FitsOn ==
  ASSUME NEW j, NEW b, NEW c, Fits(j, b), Follows(b, c)
  PROVE  Fits(j, c)
BY DEF Fits, Follows

LEMMA LeadStays ==
  ASSUME IInv, NEW p \in Procs, Session(p), NEW q \in Procs, q # p, job'[q] = job[q]
  PROVE  Lead(q)'
<1>1. Lead(q) /\ \A f \in Files : job[q].step \in Inside(f) => writer[f] = q
  BY JobAt
<1>2. q \notin {None, p}
  BY NoneApart
<1>3. job[q].step \in {"receipt", "lift", "checkpoint", "log", "charge"}
        => db'.economy = db.economy /\ work'.economy = work.economy
  <2>1. job[q].step \in {"receipt", "lift", "checkpoint", "log", "charge"}
          => db'["economy"] = db["economy"] /\ work'["economy"] = work["economy"]
    BY <1>1, <1>2 DEF Session, Inside, Files
  <2>. QED
    BY <2>1 DEF Session, Both
<1>4. job[q].step \in {"consume", "lift", "charge", "record"}
        => db'.moderation = db.moderation /\ work'.moderation = work.moderation
  <2>1. job[q].step \in {"consume", "lift", "charge", "record"}
          => db'["moderation"] = db["moderation"] /\ work'["moderation"] = work["moderation"]
    BY <1>1, <1>2 DEF Session, Inside, Files
  <2>. QED
    BY <2>1 DEF Session, Both
<1>5. /\ job[q].step = "receipt" => SameRows(db'.economy, work'.economy)
      /\ job[q].step \in {"log", "charge"} =>
           /\ UsedIn(work'.economy, "unwarn") = UsedIn(db'.economy, "unwarn")
           /\ work'.economy.fines = db'.economy.fines + 1
  BY <1>1, <1>3 DEF Lead, At
<1>6. job[q].step \in {"lift", "checkpoint"} =>
        /\ work'.economy.fines = db'.economy.fines
        /\ \E e \in Entries \ UsedIn(db'.economy, "unwarn") :
             UsedIn(work'.economy, "unwarn") = UsedIn(db'.economy, "unwarn") \cup {e}
  BY <1>1, <1>3 DEF Lead, At
<1>7. job[q].step \in {"consume", "lift"} =>
        \E w \in db'.moderation.active :
           work'.moderation = [db'.moderation EXCEPT !.active = @ \ {w}]
  BY <1>1, <1>4 DEF Lead, At
<1>8. job[q].step \in {"charge", "record"} =>
        work'.moderation = [db'.moderation EXCEPT !.fines = @ + 1]
  BY <1>1, <1>4 DEF Lead, At
<1>9. job[q].charged => job[q].step = "record"
  BY <1>1 DEF Lead, At
<1>. QED
  BY <1>5, <1>6, <1>7, <1>8, <1>9 DEF Lead, At

LEMMA OthersStay ==
  ASSUME IInv, NEW p \in Procs, Session(p), Turn(p),
         spent' \subseteq Cards, faults' \in Nat, restarts' \in Nat
  PROVE  (TypeOK /\ BooksFit /\ LocksHold /\ \A q \in Procs : Lead(q))'
<1>1. TypeOK'
  BY DEF TypeOK, Session, Turn, Both
<1>2. BooksFit'
  <2>1. ASSUME NEW q \in Procs PROVE Fits(job'[q], db'.economy)
    <3>1. CASE q = p
      BY <3>1 DEF Turn
    <3>2. CASE q # p
      <4>1. Fits(job[q], db.economy) /\ job'[q] = job[q]
        BY <3>2, JobAt DEF Turn
      <4>. QED
        BY <4>1, FitsOn DEF Session
    <3>. QED
      BY <3>1, <3>2
  <2>. QED
    BY <2>1 DEF BooksFit, Session
<1>3. LocksHold'
  <2>1. ASSUME NEW q \in Procs, NEW f \in Files, job'[q].step \in Inside(f)
        PROVE  writer'[f] = q
    <3>1. CASE q = p
      BY <2>1, <3>1 DEF Turn
    <3>2. CASE q # p
      <4>1. job'[q] = job[q]
        BY <3>2 DEF Turn
      <4>2. writer[f] = q
        BY <2>1, <4>1, JobAt
      <4>. QED
        BY <3>2, <4>2, NoneApart DEF Session
    <3>. QED
      BY <3>1, <3>2
  <2>. QED
    BY <2>1 DEF LocksHold, Session, Free
<1>4. ASSUME NEW q \in Procs PROVE Lead(q)'
  <2>1. CASE q = p
    BY <2>1 DEF Turn
  <2>2. CASE q # p
    <3>1. job'[q] = job[q]
      BY <2>2 DEF Turn
    <3>. QED
      BY <2>2, <3>1, LeadStays
  <2>. QED
    BY <2>1, <2>2
<1>. QED
  BY <1>1, <1>2, <1>3, <1>4

-----------------------------------------------------------------------------
(* Steps that sell nothing, start nothing, or tear nothing. *)

LEMMA CountsAreNumbers ==
  ASSUME NEW b
  PROVE  /\ \A c : IsFiniteSet(OnCard(b, c)) /\ Cardinality(OnCard(b, c)) \in Nat
         /\ IsFiniteSet(Unsold(b)) /\ Cardinality(Unsold(b)) \in Nat
         /\ \A k : IsFiniteSet(UsedIn(b, k)) /\ Cardinality(UsedIn(b, k)) \in Nat
         /\ \A S \in SUBSET Procs : IsFiniteSet(S) /\ Cardinality(S) \in Nat
<1>1. \A S \in SUBSET Entries : IsFiniteSet(S) /\ Cardinality(S) \in Nat
  BY ShopAssumption, FS_Subset, FS_CardinalityType
<1>2. \A S \in SUBSET Procs : IsFiniteSet(S) /\ Cardinality(S) \in Nat
  BY ShopAssumption, FS_Subset, FS_CardinalityType
<1>. QED
  BY <1>1, <1>2 DEF OnCard, Unsold, UsedIn

CardQuiet(p) ==
  /\ spent' = spent /\ restarts' = restarts /\ job'[p].card = None
  /\ \A c \in Cards : /\ OnCard(db'.economy, c) \in {OnCard(db.economy, c), OnCard(work.economy, c)}
                      /\ OnCard(work'.economy, c) \in {OnCard(db.economy, c), OnCard(work.economy, c)}

LEMMA QuietCards ==
  ASSUME IInv, NEW p \in Procs, Session(p), Turn(p), CardQuiet(p)
  PROVE  CardsHold'
<1>0. CardsHold /\ restarts \in Nat
  BY JobAt DEF IInv, CoreInv
<1>1. ASSUME NEW c \in Cards
      PROVE  /\ Bound(db'.economy, c, 1 + restarts) /\ Bound(work'.economy, c, 1 + restarts)
             /\ c \notin spent => Bound(db'.economy, c, restarts) /\ Bound(work'.economy, c, restarts)
  BY <1>0 DEF CardsHold, CardQuiet, Bound
<1>2. ASSUME NEW q \in Procs, job'[q].card # None
      PROVE  /\ job'[q].card \in spent /\ Bound(db'.economy, job'[q].card, restarts)
             /\ job'[q].step = "buy" => Bound(work'.economy, job'[q].card, restarts)
             /\ \A r \in Procs : job'[r].card = job'[q].card => r = q
  <2>1. q # p /\ job'[q] = job[q]
    BY <1>2 DEF CardQuiet, Turn
  <2>2. job[q].step \in {"buy", "receipt"} /\ job[q].card \in Cards
    BY <1>2, <2>1, JobAt DEF Fits, Job
  <2>3. /\ job[q].card \in spent /\ Bound(db.economy, job[q].card, restarts)
        /\ At(q, "buy") => Bound(work.economy, job[q].card, restarts)
        /\ \A r \in Procs : job[r].card = job[q].card => r = q
    BY <1>0, <1>2, <2>1 DEF CardsHold
  <2>4. \A r \in Procs : job'[r].card = job'[q].card => r = q
    BY <1>2, <2>1, <2>3 DEF CardQuiet, Turn
  <2>5. CASE job[q].step = "buy"
    BY <2>1, <2>2, <2>3, <2>4, <2>5 DEF CardQuiet, Bound, At
  <2>6. CASE job[q].step = "receipt"
    <3>1. writer["economy"] = q
      BY <2>6, JobAt DEF Inside, Files
    <3>2. db'["economy"] = db["economy"]
      BY <2>1, <3>1, NoneApart DEF Session, Files
    <3>3. db'.economy = db.economy
      BY <3>2, FilesOf DEF Session, Both
    <3>. QED
      BY <2>1, <2>3, <2>4, <2>6, <3>3
  <2>. QED
    BY <2>2, <2>5, <2>6
<1>. QED
  BY <1>1, <1>2 DEF CardsHold, CardQuiet, At

RoomQuiet(p) ==
  job'[p].step # "buy" /\ Unsold(work.economy) \subseteq Unsold(work'.economy)

LEMMA QuietRoom ==
  ASSUME IInv, NEW p \in Procs, Turn(p), RoomQuiet(p)
  PROVE  RoomHolds'
<1>0. RoomHolds
  BY DEF IInv, CoreInv
<1>1. Buying' \subseteq Buying
  BY DEF RoomQuiet, Turn, Buying, At
<1>2. /\ Unsold(work'.economy) \in SUBSET Entries /\ Unsold(work.economy) \in SUBSET Unsold(work'.economy)
      /\ Buying \in SUBSET Procs
  BY DEF RoomQuiet, Unsold, Buying
<1>3. /\ Cardinality(Unsold(work.economy)) <= Cardinality(Unsold(work'.economy))
      /\ Cardinality(Unsold(work.economy)) \in Nat /\ Cardinality(Unsold(work'.economy)) \in Nat
  <2>1. IsFiniteSet(Unsold(work'.economy))
    BY CountsAreNumbers
  <2>. QED
    BY <1>2, <2>1, CountsAreNumbers, FS_Subset
<1>4. /\ Cardinality(Buying') <= Cardinality(Buying)
      /\ Cardinality(Buying') \in Nat /\ Cardinality(Buying) \in Nat
  <2>1. IsFiniteSet(Buying)
    BY <1>2, CountsAreNumbers
  <2>. QED
    BY <1>1, <1>2, <2>1, CountsAreNumbers, FS_Subset
<1>. QED
  BY <1>0, <1>3, <1>4 DEF RoomHolds

TearQuiet(p) ==
  /\ {job[p].step, job'[p].step} \cap {"checkpoint", "record"} = {}
  /\ SameRows(db.economy, db'.economy) /\ db'.moderation = db.moderation
  /\ faults' \in Nat /\ restarts' \in Nat /\ Faults' >= Faults

LEMMA TearNumbers ==
  ASSUME IInv
  PROVE  /\ Faults \in Nat
         /\ Cardinality(Lifting) \in Nat /\ Cardinality(Charging) \in Nat /\ Cardinality(Uncharged) \in Nat
         /\ db.economy.fines \in Nat /\ db.moderation.fines \in Nat
         /\ db.moderation.active \in SUBSET Warnings
         /\ Cardinality(Warnings) \in Nat /\ Cardinality(db.moderation.active) \in Nat
         /\ Cardinality(UsedIn(db.economy, "unwarn")) \in Nat
<1>1. faults \in Nat /\ restarts \in Nat /\ db \in Both
  BY FilesOf DEF IInv, CoreInv, TypeOK
<1>2. db.economy \in Economy /\ db.moderation \in Moderation
  BY <1>1 DEF Both
<1>3. /\ db.economy.fines \in Nat /\ db.moderation.fines \in Nat
      /\ db.moderation.active \in SUBSET Warnings
  BY <1>2 DEF Economy, Moderation
<1>4. /\ Cardinality(Warnings) \in Nat /\ Cardinality(db.moderation.active) \in Nat
  BY <1>3, ShopAssumption, FS_Subset, FS_CardinalityType
<1>5. /\ Lifting \in SUBSET Procs /\ Charging \in SUBSET Procs /\ Uncharged \in SUBSET Procs
  BY DEF Lifting, Charging, Uncharged
<1>. QED
  BY <1>1, <1>3, <1>4, <1>5, CountsAreNumbers DEF Faults

LEMMA QuietTears ==
  ASSUME IInv, NEW p \in Procs, Turn(p), TearQuiet(p)
  PROVE  TearsHold'
<1>0. TearsHold
  BY DEF IInv
<1>1. Lifting' = Lifting /\ Charging' = Charging /\ Uncharged' = Uncharged
  <2>1. \A q \in Procs : /\ job'[q].step = "checkpoint" <=> job[q].step = "checkpoint"
                         /\ job'[q].step = "record" <=> job[q].step = "record"
                         /\ job[q].step = "record" => job'[q] = job[q]
    BY DEF TearQuiet, Turn
  <2>. QED
    BY <2>1 DEF Lifting, Charging, Uncharged, At
<1>2. /\ UsedIn(db'.economy, "unwarn") = UsedIn(db.economy, "unwarn")
      /\ db'.economy.fines = db.economy.fines /\ db'.moderation = db.moderation
  BY DEF TearQuiet, SameRows
<1>3. Untied' = Untied /\ Torn' = Torn
  BY <1>1, <1>2 DEF Untied, Torn
<1>4. Faults' \in Nat /\ Faults' >= Faults
  BY DEF TearQuiet, Faults
<1>5. /\ Faults \in Nat /\ Untied \in Int /\ Torn \in Int /\ Cardinality(Uncharged) \in Nat
  BY TearNumbers DEF Untied, Torn
<1>. QED
  BY <1>0, <1>1, <1>3, <1>4, <1>5 DEF TearsHold

\* The case of most steps.
LEMMA QuietStep ==
  ASSUME IInv, NEW p \in Procs, Session(p), Turn(p), CardQuiet(p), RoomQuiet(p), TearQuiet(p)
  PROVE  IInv'
<1>1. spent' \subseteq Cards /\ faults' \in Nat /\ restarts' \in Nat
  BY JobAt DEF CardQuiet, TearQuiet
<1>. QED
  BY <1>1, OthersStay, QuietCards, QuietRoom, QuietTears DEF IInv, CoreInv

-----------------------------------------------------------------------------
(* What a process remembers. *)

JobLike(k, j, f) ==
  /\ f = "step"    \/ k.step = j.step
  /\ f = "card"    \/ k.card = j.card
  /\ f = "item"    \/ k.item = j.item
  /\ f = "entry"   \/ k.entry = j.entry
  /\ f = "warning" \/ k.warning = j.warning
  /\ f = "amount"  \/ k.amount = j.amount
  /\ f = "double"  \/ k.double = j.double
  /\ f = "charged" \/ k.charged = j.charged

LEMMA JobRecord ==
  ASSUME NEW j \in Job
  PROVE  /\ j = [step |-> j.step, card |-> j.card, item |-> j.item, entry |-> j.entry,
                 warning |-> j.warning, amount |-> j.amount, double |-> j.double,
                 charged |-> j.charged]
         /\ j.step \in Steps /\ j.card \in Cards \cup {None} /\ j.item \in Items \cup {None}
         /\ j.entry \in Entries \cup {None} /\ j.warning \in Warnings \cup {None}
         /\ j.amount \in Nat /\ j.double \in BOOLEAN /\ j.charged \in BOOLEAN
BY DEF Job

LEMMA PutStep ==
  ASSUME NEW j \in Job, NEW x \in Steps
  PROVE  LET k == [j EXCEPT !.step = x] IN k \in Job /\ k.step = x /\ JobLike(k, j, "step")
<1> DEFINE k == [j EXCEPT !.step = x]
<1>1. k = [step |-> x, card |-> j.card, item |-> j.item, entry |-> j.entry, warning |-> j.warning, amount |-> j.amount, double |-> j.double, charged |-> j.charged]
  BY JobRecord
<1>. HIDE DEF k
<1>2. k \in Job
  BY <1>1, JobRecord DEF Job
<1>3. k.step = x /\ JobLike(k, j, "step")
  BY <1>1 DEF JobLike
<1>. QED
  BY <1>2, <1>3 DEF k

LEMMA PutCard ==
  ASSUME NEW j \in Job, NEW x \in Cards \cup {None}
  PROVE  LET k == [j EXCEPT !.card = x] IN k \in Job /\ k.card = x /\ JobLike(k, j, "card")
<1> DEFINE k == [j EXCEPT !.card = x]
<1>1. k = [step |-> j.step, card |-> x, item |-> j.item, entry |-> j.entry, warning |-> j.warning, amount |-> j.amount, double |-> j.double, charged |-> j.charged]
  BY JobRecord
<1>. HIDE DEF k
<1>2. k \in Job
  BY <1>1, JobRecord DEF Job
<1>3. k.card = x /\ JobLike(k, j, "card")
  BY <1>1 DEF JobLike
<1>. QED
  BY <1>2, <1>3 DEF k

LEMMA PutItem ==
  ASSUME NEW j \in Job, NEW x \in Items \cup {None}
  PROVE  LET k == [j EXCEPT !.item = x] IN k \in Job /\ k.item = x /\ JobLike(k, j, "item")
<1> DEFINE k == [j EXCEPT !.item = x]
<1>1. k = [step |-> j.step, card |-> j.card, item |-> x, entry |-> j.entry, warning |-> j.warning, amount |-> j.amount, double |-> j.double, charged |-> j.charged]
  BY JobRecord
<1>. HIDE DEF k
<1>2. k \in Job
  BY <1>1, JobRecord DEF Job
<1>3. k.item = x /\ JobLike(k, j, "item")
  BY <1>1 DEF JobLike
<1>. QED
  BY <1>2, <1>3 DEF k

LEMMA PutEntry ==
  ASSUME NEW j \in Job, NEW x \in Entries \cup {None}
  PROVE  LET k == [j EXCEPT !.entry = x] IN k \in Job /\ k.entry = x /\ JobLike(k, j, "entry")
<1> DEFINE k == [j EXCEPT !.entry = x]
<1>1. k = [step |-> j.step, card |-> j.card, item |-> j.item, entry |-> x, warning |-> j.warning, amount |-> j.amount, double |-> j.double, charged |-> j.charged]
  BY JobRecord
<1>. HIDE DEF k
<1>2. k \in Job
  BY <1>1, JobRecord DEF Job
<1>3. k.entry = x /\ JobLike(k, j, "entry")
  BY <1>1 DEF JobLike
<1>. QED
  BY <1>2, <1>3 DEF k

LEMMA PutWarning ==
  ASSUME NEW j \in Job, NEW x \in Warnings \cup {None}
  PROVE  LET k == [j EXCEPT !.warning = x] IN k \in Job /\ k.warning = x /\ JobLike(k, j, "warning")
<1> DEFINE k == [j EXCEPT !.warning = x]
<1>1. k = [step |-> j.step, card |-> j.card, item |-> j.item, entry |-> j.entry, warning |-> x, amount |-> j.amount, double |-> j.double, charged |-> j.charged]
  BY JobRecord
<1>. HIDE DEF k
<1>2. k \in Job
  BY <1>1, JobRecord DEF Job
<1>3. k.warning = x /\ JobLike(k, j, "warning")
  BY <1>1 DEF JobLike
<1>. QED
  BY <1>2, <1>3 DEF k

LEMMA PutAmount ==
  ASSUME NEW j \in Job, NEW x \in Nat
  PROVE  LET k == [j EXCEPT !.amount = x] IN k \in Job /\ k.amount = x /\ JobLike(k, j, "amount")
<1> DEFINE k == [j EXCEPT !.amount = x]
<1>1. k = [step |-> j.step, card |-> j.card, item |-> j.item, entry |-> j.entry, warning |-> j.warning, amount |-> x, double |-> j.double, charged |-> j.charged]
  BY JobRecord
<1>. HIDE DEF k
<1>2. k \in Job
  BY <1>1, JobRecord DEF Job
<1>3. k.amount = x /\ JobLike(k, j, "amount")
  BY <1>1 DEF JobLike
<1>. QED
  BY <1>2, <1>3 DEF k

LEMMA PutDouble ==
  ASSUME NEW j \in Job, NEW x \in BOOLEAN
  PROVE  LET k == [j EXCEPT !.double = x] IN k \in Job /\ k.double = x /\ JobLike(k, j, "double")
<1> DEFINE k == [j EXCEPT !.double = x]
<1>1. k = [step |-> j.step, card |-> j.card, item |-> j.item, entry |-> j.entry, warning |-> j.warning, amount |-> j.amount, double |-> x, charged |-> j.charged]
  BY JobRecord
<1>. HIDE DEF k
<1>2. k \in Job
  BY <1>1, JobRecord DEF Job
<1>3. k.double = x /\ JobLike(k, j, "double")
  BY <1>1 DEF JobLike
<1>. QED
  BY <1>2, <1>3 DEF k

LEMMA PutCharged ==
  ASSUME NEW j \in Job, NEW x \in BOOLEAN
  PROVE  LET k == [j EXCEPT !.charged = x] IN k \in Job /\ k.charged = x /\ JobLike(k, j, "charged")
<1> DEFINE k == [j EXCEPT !.charged = x]
<1>1. k = [step |-> j.step, card |-> j.card, item |-> j.item, entry |-> j.entry, warning |-> j.warning, amount |-> j.amount, double |-> j.double, charged |-> x]
  BY JobRecord
<1>. HIDE DEF k
<1>2. k \in Job
  BY <1>1, JobRecord DEF Job
<1>3. k.charged = x /\ JobLike(k, j, "charged")
  BY <1>1 DEF JobLike
<1>. QED
  BY <1>2, <1>3 DEF k

LEMMA IdleJob ==
  /\ Idle \in Job /\ Idle.step = "idle" /\ Idle.card = None /\ Idle.item = None
  /\ Idle.entry = None /\ Idle.warning = None /\ ~ Idle.double /\ ~ Idle.charged
<1>1. PICK n, u : n = 0 /\ u = FALSE
                  /\ Idle = [step |-> "idle", card |-> None, item |-> None, entry |-> None,
                             warning |-> None, amount |-> n, double |-> u, charged |-> u]
  BY Zenon DEF Idle
<1>2. n \in Nat /\ u \in BOOLEAN /\ "idle" \in Steps
  BY <1>1 DEF Steps
<1>3. Idle \in Job
  BY <1>1, <1>2 DEF Job
<1>4. /\ Idle.step = "idle" /\ Idle.card = None /\ Idle.item = None
      /\ Idle.entry = None /\ Idle.warning = None /\ Idle.double = u /\ Idle.charged = u
  BY <1>1
<1>. QED
  BY <1>1, <1>3, <1>4

LEMMA MaxOfNats ==
  ASSUME NEW S \in SUBSET Nat, IsFiniteSet(S), S # {}
  PROVE  Max(S) \in S
<1> DEFINE A == {s \in SUBSET S : s = {} \/ \E x \in s : \A y \in s : x >= y}
<1>1. {} \in A
  OBVIOUS
<1>2. ASSUME NEW s \in SUBSET S, NEW z \in S, s \in A, z \notin s
      PROVE  s \cup {z} \in A
  <2>1. CASE s = {}
    BY <2>1
  <2>2. ASSUME NEW x \in s, \A y \in s : x >= y
        PROVE  s \cup {z} \in A
    <3>1. CASE x >= z
      <4>1. \A y \in s \cup {z} : x >= y
        BY <2>2, <3>1
      <4>. QED
        BY <4>1
    <3>2. CASE ~ (x >= z)
      <4>0. x \in Nat /\ z \in Nat /\ z > x /\ \A y \in s : y \in Nat
        BY <3>2
      <4>1. \A y \in s \cup {z} : z >= y
        BY <2>2, <4>0
      <4>. QED
        BY <4>1
    <3>. QED
      BY <3>1, <3>2
  <2>. QED
    BY <1>2, <2>1, <2>2
<1>. HIDE DEF A
<1>3. \A s \in SUBSET S : s \in A
  BY <1>1, <1>2, SubsetInduction
<1>4. S \in A
  BY <1>3
<1>5. \E x \in S : \A y \in S : x >= y
  BY <1>4 DEF A
<1>. QED
  BY <1>5 DEF Max

-----------------------------------------------------------------------------
(* Steps that end a handler, start one, or read. *)

LEMMA NoLead ==
  ASSUME NEW p, ~ job'[p].charged,
         job'[p].step \notin {"receipt", "consume", "lift", "checkpoint", "log", "charge", "record"}
  PROVE  Lead(p)'
BY DEF Lead, At

LEMMA IdleTurn ==
  ASSUME IInv, NEW p \in Procs, Session(p), Become(p, Idle)
  PROVE  Turn(p) /\ job'[p] = Idle
<1>1. /\ job' \in [Procs -> Job] /\ job'[p] = Idle
      /\ \A q \in Procs : q # p => job'[q] = job[q]
  BY IdleJob, JobPut
<1>2. /\ Idle.step = "idle" /\ Idle.card = None /\ ~ Idle.charged
  BY IdleJob
<1>3. Fits(Idle, db'.economy)
  BY <1>2 DEF Fits
<1>4. \A f \in Files : Idle.step \notin Inside(f)
  BY <1>2 DEF Inside
<1>5. Lead(p)'
  BY <1>1, <1>2, NoLead
<1>. QED
  BY <1>1, <1>3, <1>4, <1>5 DEF Turn

\* A handler that only reads, or gives up before it writes.
LEMMA StillStep ==
  ASSUME IInv, NEW p \in Procs, UNCHANGED <<db, work, writer, spent, env>>,
         NEW j \in Job, Become(p, j), Fits(j, db.economy), j.card = None, ~ j.charged,
         j.step \in {"idle", "use", "select", "remove", "debit", "claim"},
         job[p].step \notin {"checkpoint", "record"}
  PROVE  IInv'
<1>1. Session(p)
  BY StillSession
<1>2. /\ job' \in [Procs -> Job] /\ job'[p] = j
      /\ \A q \in Procs : q # p => job'[q] = job[q]
  BY JobPut
<1>3. /\ db' = db /\ work' = work /\ spent' = spent /\ faults' = faults /\ restarts' = restarts
  BY DEF env
<1>4. \A f \in Files : j.step \notin Inside(f)
  BY DEF Inside
<1>5. Lead(p)'
  BY <1>2, NoLead
<1>6. Turn(p)
  BY <1>2, <1>3, <1>4, <1>5 DEF Turn
<1>7. CardQuiet(p) /\ RoomQuiet(p)
  BY <1>2, <1>3 DEF CardQuiet, RoomQuiet
<1>8. TearQuiet(p)
  <2>1. faults \in Nat /\ restarts \in Nat /\ Faults' = Faults
    BY <1>3, JobAt DEF Faults
  <2>2. Faults \in Nat
    BY <2>1 DEF Faults
  <2>. QED
    BY <1>2, <1>3, <2>1, <2>2 DEF TearQuiet, SameRows
<1>. QED
  BY <1>1, <1>6, <1>7, <1>8, QuietStep

LEMMA UseTapKeeps ==
  ASSUME IInv, NEW p \in Procs, NEW e \in Entries, UseTap(p, e)
  PROVE  IInv'
<1> DEFINE s == IF Kind[db.economy.entry[e].item] = "unwarn" THEN "select" ELSE "use"
           i == [Idle EXCEPT !.entry = e]
           j == [i EXCEPT !.step = s]
<1>1. /\ job[p].step = "idle" /\ db.economy.entry[e].item # None
      /\ Become(p, j) /\ UNCHANGED <<db, work, writer, spent, env>>
  BY DEF UseTap, At
<1>2. s \in Steps /\ s \in {"use", "select"} /\ (s = "select" => Kind[db.economy.entry[e].item] = "unwarn")
  BY DEF Steps
<1>. HIDE DEF s
<1>3. i \in Job /\ i.entry = e /\ JobLike(i, Idle, "entry")
  BY IdleJob, PutEntry
<1>. HIDE DEF i
<1>4. j \in Job /\ j.step = s /\ JobLike(j, i, "step")
  BY <1>2, <1>3, PutStep
<1>. HIDE DEF j
<1>5. j.entry = e /\ j.card = None /\ ~ j.charged
  BY <1>3, <1>4, IdleJob DEF JobLike
<1>6. Fits(j, db.economy)
  BY <1>1, <1>2, <1>4, <1>5 DEF Fits
<1>. QED
  BY <1>1, <1>2, <1>4, <1>5, <1>6, StillStep

LEMMA IdleFits == \A b : Fits(Idle, b)
  BY IdleJob DEF Fits

LEMMA UnwarnSelectKeeps ==
  ASSUME IInv, NEW p \in Procs, UnwarnSelect(p)
  PROVE  IInv'
<1>1. /\ job[p].step = "select" /\ UNCHANGED <<db, work, writer, spent, env>>
      /\ \/ Become(p, Idle)
         \/ /\ db.moderation.active # {}
            /\ Become(p, [job[p] EXCEPT !.step = "remove", !.warning = Max(db.moderation.active)])
  BY DEF UnwarnSelect, At
<1>2. CASE Become(p, Idle)
  BY <1>1, <1>2, IdleJob, IdleFits, StillStep
<1>3. CASE /\ db.moderation.active # {}
           /\ Become(p, [job[p] EXCEPT !.step = "remove", !.warning = Max(db.moderation.active)])
  <2> DEFINE w == Max(db.moderation.active)
             i == [job[p] EXCEPT !.step = "remove"]
             j == [i EXCEPT !.warning = w]
  <2>1. w \in Warnings \cup {None}
    <3>1. db.moderation.active \in SUBSET Warnings
      BY TearNumbers
    <3>2. db.moderation.active \in SUBSET Nat /\ IsFiniteSet(db.moderation.active)
      BY <3>1, ShopAssumption, FS_Subset
    <3>3. w \in db.moderation.active
      BY <1>3, <3>2, MaxOfNats
    <3>. QED
      BY <3>1, <3>3
  <2>2. Become(p, j)
    BY <1>3
  <2>. HIDE DEF w
  <2>3. i \in Job /\ i.step = "remove" /\ JobLike(i, job[p], "step")
    <3>1. job[p] \in Job /\ "remove" \in Steps
      BY JobAt DEF Steps
    <3>. QED
      BY <3>1, PutStep
  <2>. HIDE DEF i
  <2>4. j \in Job /\ j.warning = w /\ JobLike(j, i, "warning")
    BY <2>1, <2>3, PutWarning
  <2>. HIDE DEF j
  <2>5. /\ j.step = "remove" /\ j.entry = job[p].entry /\ j.card = job[p].card
        /\ j.charged = job[p].charged
    BY <2>3, <2>4 DEF JobLike
  <2>6. /\ Fits(job[p], db.economy) /\ ~ job[p].charged
    BY <1>1, JobAt DEF Lead, At
  <2>7. Fits(j, db.economy) /\ j.card = None /\ ~ j.charged
    BY <1>1, <2>5, <2>6 DEF Fits
  <2>. QED
    BY <1>1, <2>2, <2>4, <2>5, <2>7, StillStep
<1>. QED
  BY <1>1, <1>2, <1>3

LEMMA FineTapKeeps ==
  ASSUME IInv, NEW p \in Procs, NEW amount \in Fines, FineTap(p, amount)
  PROVE  IInv'
<1> DEFINE d == Min({amount, db.economy.wallet.balance})
           i == [Idle EXCEPT !.step = "debit"]
           j == [i EXCEPT !.amount = d]
<1>1. /\ job[p].step = "idle" /\ Become(p, j) /\ UNCHANGED <<db, work, writer, spent, env>>
  BY DEF FineTap, At
<1>2. d \in Nat
  <2>1. amount \in Nat
    BY ShopAssumption
  <2>2. db.economy.wallet \in Wallets
    BY FilesOf DEF Both, Economy
  <2>3. db.economy.wallet.balance \in Nat
    BY <2>2, MaxAmountAssumption DEF Wallets
  <2>4. d \in {amount, db.economy.wallet.balance}
    BY <2>1, <2>3, MinOfNats
  <2>. QED
    BY <2>1, <2>3, <2>4
<1>. HIDE DEF d
<1>3. i \in Job /\ i.step = "debit" /\ JobLike(i, Idle, "step")
  <2>1. Idle \in Job /\ "debit" \in Steps
    BY IdleJob DEF Steps
  <2>. QED
    BY <2>1, PutStep
<1>. HIDE DEF i
<1>4. j \in Job /\ JobLike(j, i, "amount")
  BY <1>2, <1>3, PutAmount
<1>. HIDE DEF j
<1>5. j.step = "debit" /\ j.card = None /\ ~ j.charged
  BY <1>3, <1>4, IdleJob DEF JobLike
<1>6. Fits(j, db.economy)
  BY <1>5 DEF Fits
<1>. QED
  BY <1>1, <1>4, <1>5, <1>6, StillStep

LEMMA DailyReadKeeps ==
  ASSUME IInv, NEW p \in Procs, DailyRead(p)
  PROVE  IInv'
<1> DEFINE i == [Idle EXCEPT !.step = "claim"]
           j == [i EXCEPT !.double = db.economy.armed]
<1>1. /\ job[p].step = "idle" /\ Become(p, j) /\ UNCHANGED <<db, work, writer, spent, env>>
  BY DEF DailyRead, At
<1>2. db.economy.armed \in BOOLEAN
  BY FilesOf DEF Both, Economy
<1>3. i \in Job /\ i.step = "claim" /\ JobLike(i, Idle, "step")
  <2>1. Idle \in Job /\ "claim" \in Steps
    BY IdleJob DEF Steps
  <2>. QED
    BY <2>1, PutStep
<1>. HIDE DEF i
<1>4. j \in Job /\ j.double = db.economy.armed /\ JobLike(j, i, "double")
  BY <1>2, <1>3, PutDouble
<1>. HIDE DEF j
<1>5. j.step = "claim" /\ j.card = None /\ ~ j.charged
  BY <1>3, <1>4, IdleJob DEF JobLike
<1>6. Fits(j, db.economy)
  BY <1>4, <1>5 DEF Fits
<1>. QED
  BY <1>1, <1>4, <1>5, <1>6, StillStep

LEMMA RolledKeeps ==
  ASSUME IInv, NEW p \in Procs, RolledBack(p), restarts' = restarts,
         faults' \in Nat, faults' >= faults, job[p].step \notin {"checkpoint", "record"}
  PROVE  IInv'
<1>1. /\ Session(p) /\ db' = db
      /\ work'.economy = IF writer["economy"] = p THEN db.economy ELSE work.economy
  BY RolledSession
<1>2. Turn(p) /\ job'[p] = Idle /\ spent' = spent \ {job[p].card}
  BY <1>1, IdleTurn DEF RolledBack
<1>3. TearsHold'
  <2>1. SameRows(db.economy, db'.economy)
    BY <1>1 DEF SameRows
  <2>2. Faults' >= Faults /\ restarts' \in Nat
    BY JobAt DEF Faults
  <2>3. job'[p].step = "idle"
    BY <1>2, IdleJob
  <2>4. TearQuiet(p)
    BY <1>1, <2>1, <2>2, <2>3 DEF TearQuiet
  <2>. QED
    BY <1>2, <2>4, QuietTears
<1>4. RoomHolds'
  <2>1. Unsold(work.economy) \subseteq Unsold(db.economy)
    BY FilesOf DEF Follows, Unsold
  <2>2. RoomQuiet(p)
    BY <1>1, <1>2, <2>1, IdleJob DEF RoomQuiet
  <2>. QED
    BY <1>2, <2>2, QuietRoom
<1>5. CardsHold'
  <2>0. CardsHold /\ restarts \in Nat
    BY JobAt DEF IInv, CoreInv
  <2>1. work'.economy = db.economy \/ work'.economy = work.economy
    BY <1>1
  <2>2. ASSUME NEW c \in Cards
        PROVE  /\ Bound(db.economy, c, 1 + restarts) /\ Bound(work'.economy, c, 1 + restarts)
               /\ c \notin spent' => Bound(db.economy, c, restarts) /\ Bound(work'.economy, c, restarts)
    <3>1. Bound(db.economy, c, 1 + restarts) /\ Bound(work'.economy, c, 1 + restarts)
      BY <2>0, <2>1 DEF CardsHold
    <3>2. CASE c \notin spent
      BY <2>0, <2>1, <3>1, <3>2 DEF CardsHold
    <3>3. CASE c = job[p].card
      <4>1. job[p].card # None /\ job[p].step \in {"buy", "receipt"}
        BY <3>3, NoneApart, JobAt DEF Fits
      <4>2. /\ Bound(db.economy, c, restarts)
            /\ job[p].step = "buy" => Bound(work.economy, c, restarts)
        BY <2>0, <3>3, <4>1 DEF CardsHold, At
      <4>3. job[p].step = "receipt" => work'.economy = db.economy
        BY <1>1, JobAt DEF Inside, Files
      <4>. QED
        BY <2>1, <3>1, <4>1, <4>2, <4>3
    <3>. QED
      BY <1>2, <3>1, <3>2, <3>3
  <2>3. ASSUME NEW q \in Procs, job'[q].card # None
        PROVE  /\ job'[q].card \in spent' /\ Bound(db.economy, job'[q].card, restarts)
               /\ job'[q].step = "buy" => Bound(work'.economy, job'[q].card, restarts)
               /\ \A r \in Procs : job'[r].card = job'[q].card => r = q
    <3>1. q # p /\ job'[q] = job[q]
      BY <1>2, <2>3, IdleJob DEF Turn
    <3>2. /\ job[q].card \in spent /\ Bound(db.economy, job[q].card, restarts)
          /\ job[q].step = "buy" => Bound(work.economy, job[q].card, restarts)
          /\ \A r \in Procs : job[r].card = job[q].card => r = q
      BY <2>0, <2>3, <3>1 DEF CardsHold, At
    <3>3. job[q].card # job[p].card
      BY <3>1, <3>2
    <3>4. \A r \in Procs : job'[r].card = job'[q].card => r = q
      BY <1>2, <2>3, <3>1, <3>2, IdleJob DEF Turn
    <3>. QED
      BY <1>2, <2>1, <3>1, <3>2, <3>3, <3>4
  <2>. QED
    BY <1>1, <2>2, <2>3 DEF CardsHold, At
<1>6. spent' \subseteq Cards /\ restarts' \in Nat
  BY <1>2, JobAt
<1>. QED
  BY <1>1, <1>2, <1>3, <1>4, <1>5, <1>6, OthersStay DEF IInv, CoreInv

LEMMA FailKeeps ==
  ASSUME IInv, NEW p \in Procs, Fail(p), job[p].step \notin {"checkpoint", "record"}
  PROVE  IInv'
<1>1. RolledBack(p) /\ faults' = faults /\ restarts' = restarts
  BY DEF Fail, env
<1>2. faults \in Nat
  BY JobAt
<1>. QED
  BY <1>1, <1>2, RolledKeeps

LEMMA BusyTimeoutKeeps ==
  ASSUME IInv, NEW p \in Procs, BusyTimeout(p)
  PROVE  IInv'
<1>1. job[p].step \in {"buy", "use", "consume", "debit", "claim", "remove", "log"} /\ Fail(p)
  BY DEF BusyTimeout, TimesOut, Waits
<1>. QED
  BY <1>1, FailKeeps

\* A handler goes on to its next step and keeps what it has read.
LEMMA GotoTurn ==
  ASSUME IInv, NEW p \in Procs, NEW s \in Steps, Goto(p, s)
  PROVE  /\ job' \in [Procs -> Job] /\ \A q \in Procs : q # p => job'[q] = job[q]
         /\ job'[p] \in Job /\ job'[p].step = s /\ JobLike(job'[p], job[p], "step")
<1> DEFINE j == [job[p] EXCEPT !.step = s]
<1>1. job[p] \in Job
  BY JobAt
<1>2. j \in Job /\ j.step = s /\ JobLike(j, job[p], "step")
  BY <1>1, PutStep
<1>3. Become(p, j)
  BY DEF Goto
<1>. HIDE DEF j
<1>4. /\ job' \in [Procs -> Job] /\ job'[p] = j
      /\ \A q \in Procs : q # p => job'[q] = job[q]
  BY <1>2, <1>3, JobPut
<1>. QED
  BY <1>2, <1>4

LEMMA NotCharged ==
  ASSUME IInv, NEW p \in Procs, job[p].step # "record"
  PROVE  ~ job[p].charged
BY JobAt DEF Lead, At

\* Env unchanged: no fault is counted.
LEMMA SameFaults ==
  ASSUME IInv, UNCHANGED env
  PROVE  restarts' = restarts /\ faults' \in Nat /\ restarts' \in Nat /\ Faults' >= Faults
<1>1. faults' = faults /\ restarts' = restarts /\ faults \in Nat /\ restarts \in Nat
  BY DEF env, IInv, CoreInv, TypeOK
<1>. QED
  BY <1>1 DEF Faults

LEMMA UseWriteKeeps ==
  ASSUME IInv, NEW p \in Procs, UseWrite(p)
  PROVE  IInv'
<1>1. /\ job[p].step = "use" /\ Free("economy") /\ Redeem(p, work.economy, job[p].entry)
  BY DEF UseWrite, At
<1> DEFINE e == job[p].entry
<1>2. e \in Entries /\ work.economy.entry[e].item # None /\ Sound(work.economy)
      /\ job[p].card = None
  <2>1. Fits(job[p], db.economy)
    BY JobAt
  <2>2. e \in Entries /\ db.economy.entry[e].item # None /\ job[p].card = None
    BY <1>1, <2>1 DEF Fits
  <2>. QED
    BY <2>2, FilesOf DEF Follows
<1>3. CASE Fail(p)
  BY <1>1, <1>3, FailKeeps
<1>4. ASSUME NEW c, RedeemedTo(work.economy, c), Write(p, "economy", c), Goto(p, "receipt"),
             UNCHANGED <<spent, env>>
      PROVE  IInv'
  <2>1. /\ Session(p) /\ db' = db /\ work'.economy = c /\ work'.moderation = work.moderation
        /\ writer'["economy"] = p
    <3>1. Sound(c) /\ Follows(work.economy, c)
      BY <1>4 DEF RedeemedTo
    <3>. QED
      BY <1>1, <1>4, <3>1, EconomyWritten
  <2>2. /\ job' \in [Procs -> Job] /\ \A q \in Procs : q # p => job'[q] = job[q]
        /\ job'[p].step = "receipt" /\ JobLike(job'[p], job[p], "step")
    <3>1. "receipt" \in Steps
      BY DEF Steps
    <3>. QED
      BY <1>4, <3>1, GotoTurn
  <2>3. job'[p].card = None /\ ~ job'[p].charged
    <3>1. ~ job[p].charged
      BY <1>1, NotCharged
    <3>. QED
      BY <1>2, <2>2, <3>1 DEF JobLike
  <2>4. work.economy = db.economy
    BY <1>1, FilesOf DEF Free
  <2>5. Turn(p)
    <3>1. Fits(job'[p], db'.economy)
      BY <2>2, <2>3 DEF Fits
    <3>2. \A f \in Files : job'[p].step \in Inside(f) => writer'[f] = p
      BY <2>1, <2>2 DEF Inside
    <3>3. Lead(p)'
      BY <1>4, <2>1, <2>2, <2>3, <2>4 DEF Lead, At, RedeemedTo
    <3>. QED
      BY <2>2, <3>1, <3>2, <3>3 DEF Turn
  <2>6. CardQuiet(p)
    BY <1>4, <2>1, <2>3, <2>4, SameFaults DEF CardQuiet, RedeemedTo
  <2>7. RoomQuiet(p)
    BY <1>4, <2>1, <2>2 DEF RoomQuiet, RedeemedTo
  <2>8. TearQuiet(p)
    BY <1>1, <1>4, <2>1, <2>2, SameFaults DEF TearQuiet, SameRows
  <2>. QED
    BY <2>1, <2>5, <2>6, <2>7, <2>8, QuietStep
<1>. QED
  <2>1. \/ Fail(p)
        \/ \E c : /\ RedeemedTo(work.economy, c)
                  /\ Write(p, "economy", c) /\ Goto(p, "receipt") /\ UNCHANGED <<spent, env>>
    BY <1>1, <1>2, RedeemCases
  <2>. QED
    BY <1>3, <1>4, <2>1

-----------------------------------------------------------------------------
(* Buying. *)

\* A purchase that is written and not yet committed: only its own card counts one
\* entry more.
CardSells(p) ==
  /\ spent' = spent /\ restarts' = restarts /\ db'.economy = db.economy
  /\ job'[p].step # "buy" /\ job'[p].card = job[p].card
  /\ \A c \in Cards : \/ OnCard(work'.economy, c) \in {OnCard(db.economy, c), OnCard(work.economy, c)}
                      \/ c = job[p].card /\ Bound(work'.economy, c, 1 + restarts)

LEMMA SellingCards ==
  ASSUME IInv, NEW p \in Procs, Turn(p), CardSells(p)
  PROVE  CardsHold'
<1>0. CardsHold /\ restarts \in Nat
  BY JobAt DEF IInv, CoreInv
<1>o. ASSUME NEW q \in Procs, job[q].card # None
      PROVE  /\ job[q].card \in spent /\ Bound(db.economy, job[q].card, restarts)
             /\ job[q].step = "buy" => Bound(work.economy, job[q].card, restarts)
             /\ \A r \in Procs : job[r].card = job[q].card => r = q
             /\ job[q].card \in Cards
  BY <1>0, <1>o, JobAt DEF CardsHold, At, Job
<1>1. ASSUME NEW c \in Cards
      PROVE  /\ Bound(db'.economy, c, 1 + restarts) /\ Bound(work'.economy, c, 1 + restarts)
             /\ c \notin spent => Bound(db'.economy, c, restarts) /\ Bound(work'.economy, c, restarts)
  <2>1. CASE OnCard(work'.economy, c) \in {OnCard(db.economy, c), OnCard(work.economy, c)}
    BY <1>0, <2>1 DEF CardsHold, CardSells, Bound
  <2>2. CASE c = job[p].card /\ Bound(work'.economy, c, 1 + restarts)
    <3>1. c \in spent
      BY <1>o, <2>2, NoneApart
    <3>. QED
      BY <1>0, <2>2, <3>1 DEF CardsHold, CardSells
  <2>. QED
    BY <2>1, <2>2 DEF CardSells
<1>2. ASSUME NEW q \in Procs, job'[q].card # None
      PROVE  /\ job'[q].card \in spent /\ Bound(db'.economy, job'[q].card, restarts)
             /\ job'[q].step = "buy" => Bound(work'.economy, job'[q].card, restarts)
             /\ \A r \in Procs : job'[r].card = job'[q].card => r = q
  <2>0. \A r \in Procs : job'[r].card = job[r].card
    BY DEF CardSells, Turn
  <2>1. /\ job[q].card \in spent /\ Bound(db.economy, job[q].card, restarts)
        /\ job[q].step = "buy" => Bound(work.economy, job[q].card, restarts)
        /\ \A r \in Procs : job[r].card = job[q].card => r = q
        /\ job[q].card \in Cards
    BY <1>2, <2>0, <1>o
  <2>2. ASSUME job'[q].step = "buy"
        PROVE  Bound(work'.economy, job[q].card, restarts)
    <3>1. q # p /\ job[q].step = "buy"
      BY <2>2 DEF CardSells, Turn
    <3>2. job[q].card # job[p].card
      BY <2>1, <3>1
    <3>. QED
      BY <2>1, <3>1, <3>2 DEF CardSells, Bound
  <2>. QED
    BY <2>0, <2>1, <2>2 DEF CardSells
<1>. QED
  BY <1>1, <1>2 DEF CardsHold, CardSells, At

LEMMA BuyWriteKeeps ==
  ASSUME IInv, NEW p \in Procs, BuyWrite(p)
  PROVE  IInv'
<1> DEFINE i == job[p].item
           k == job[p].card
           b == work.economy
           e == Min(Unsold(b))
<1>1. /\ job[p].step = "buy" /\ Free("economy")
      /\ \/ Become(p, Idle) /\ UNCHANGED <<db, work, writer, spent, env>>
         \/ Write(p, "economy", b) /\ Goto(p, "receipt") /\ UNCHANGED <<spent, env>>
         \/ /\ CanDebit(b.wallet, Price[i]) /\ InStock(b, i)
            /\ Redeem(p, Bought(b, i, e, k), e)
  BY DEF BuyWrite, At
<1>2. /\ i \in Items /\ k \in Cards \cup {None} /\ Sound(b) /\ b = db.economy
      /\ k # None => Bound(b, k, restarts)
  <2>1. /\ Fits(job[p], db.economy) /\ job[p] \in Job /\ Sound(b) /\ b = db.economy
    BY <1>1, JobAt, FilesOf DEF Free
  <2>2. CardsHold
    BY DEF IInv, CoreInv
  <2>. QED
    BY <1>1, <2>1, <2>2, JobRecord DEF Fits, CardsHold, At
<1>3. e \in Entries /\ b.entry[e].item = None
  <2>1. Unsold(b) \in SUBSET Nat
    BY ShopAssumption DEF Unsold
  <2>2. Unsold(b) # {}
    <3>1. Buying # {} /\ Buying \in SUBSET Procs
      BY <1>1 DEF Buying, At
    <3>2. Cardinality(Buying) \in Nat /\ Cardinality(Buying) # 0 /\ IsFiniteSet(Buying)
      BY <3>1, CountsAreNumbers, FS_EmptySet
    <3>3. Cardinality(Unsold(b)) >= Cardinality(Buying) /\ Cardinality(Unsold(b)) \in Nat
      BY CountsAreNumbers DEF IInv, CoreInv, RoomHolds
    <3>. QED
      BY <3>2, <3>3, FS_EmptySet
  <2>3. e \in Unsold(b)
    BY <2>1, <2>2, MinOfNats
  <2>. QED
    BY <2>3 DEF Unsold
<1>4. CASE Become(p, Idle) /\ UNCHANGED <<db, work, writer, spent, env>>
  BY <1>1, <1>4, IdleJob, IdleFits, StillStep
\* A book that is written and waits for the receipt.
<1>5. ASSUME NEW c, Sound(c), Follows(b, c), SameRows(b, c),
             Write(p, "economy", c), Goto(p, "receipt"), UNCHANGED <<spent, env>>,
             \A x \in Cards : \/ OnCard(c, x) = OnCard(b, x)
                              \/ x = k /\ Bound(c, x, 1 + restarts),
             Unsold(c) = Unsold(b) \/ Unsold(c) = Unsold(b) \ {e}
      PROVE  IInv'
  <2>1. /\ Session(p) /\ db' = db /\ work'.economy = c /\ work'.moderation = work.moderation
        /\ writer'["economy"] = p
    BY <1>1, <1>5, EconomyWritten
  <2>2. /\ job' \in [Procs -> Job] /\ \A q \in Procs : q # p => job'[q] = job[q]
        /\ job'[p].step = "receipt" /\ JobLike(job'[p], job[p], "step")
    <3>1. "receipt" \in Steps
      BY DEF Steps
    <3>. QED
      BY <1>5, <3>1, GotoTurn
  <2>3. job'[p].card = k /\ ~ job'[p].charged
    <3>1. ~ job[p].charged
      BY <1>1, NotCharged
    <3>. QED
      BY <2>2, <3>1 DEF JobLike
  <2>4. Turn(p)
    <3>1. Fits(job'[p], db'.economy)
      BY <2>2 DEF Fits
    <3>2. \A f \in Files : job'[p].step \in Inside(f) => writer'[f] = p
      BY <2>1, <2>2 DEF Inside
    <3>3. Lead(p)'
      BY <1>2, <1>5, <2>1, <2>2, <2>3 DEF Lead, At
    <3>. QED
      BY <2>2, <3>1, <3>2, <3>3 DEF Turn
  <2>5. CardsHold'
    <3>1. CardSells(p)
      BY <1>5, <2>1, <2>2, <2>3, SameFaults DEF CardSells
    <3>. QED
      BY <2>4, <3>1, SellingCards
  <2>6. TearsHold'
    <3>1. TearQuiet(p)
      BY <1>1, <1>5, <2>1, <2>2, SameFaults DEF TearQuiet, SameRows
    <3>. QED
      BY <2>4, <3>1, QuietTears
  <2>7. RoomHolds'
    <3>1. Cardinality(Unsold(b)) >= Cardinality(Buying)
      BY DEF IInv, CoreInv, RoomHolds
    <3>2. Buying' = Buying \ {p} /\ p \in Buying /\ Buying \in SUBSET Procs
      BY <1>1, <2>2 DEF Buying, At
    <3>3. /\ Cardinality(Buying') = Cardinality(Buying) - 1
          /\ Cardinality(Buying) \in Nat
      <4>1. IsFiniteSet(Buying) /\ Cardinality(Buying) \in Nat
        BY <3>2, CountsAreNumbers
      <4>. QED
        BY <3>2, <4>1, FS_RemoveElement
    <3>4. /\ Cardinality(Unsold(c)) >= Cardinality(Unsold(b)) - 1
          /\ Cardinality(Unsold(c)) \in Nat /\ Cardinality(Unsold(b)) \in Nat
      <4>1. e \in Unsold(b) /\ IsFiniteSet(Unsold(b))
        BY <1>3, CountsAreNumbers DEF Unsold
      <4>2. /\ Cardinality(Unsold(b) \ {e}) = Cardinality(Unsold(b)) - 1
            /\ Cardinality(Unsold(b)) \in Nat /\ Cardinality(Unsold(c)) \in Nat
        BY <4>1, CountsAreNumbers, FS_RemoveElement
      <4>3. CASE Unsold(c) = Unsold(b)
        BY <4>2, <4>3
      <4>4. CASE Unsold(c) = Unsold(b) \ {e}
        BY <4>2, <4>4
      <4>. QED
        BY <1>5, <4>3, <4>4
    <3>. QED
      BY <2>1, <3>1, <3>3, <3>4 DEF RoomHolds
  <2>8. spent' \subseteq Cards /\ faults' \in Nat /\ restarts' \in Nat
    BY <1>5, JobAt, SameFaults
  <2>. QED
    BY <2>1, <2>4, <2>5, <2>6, <2>7, <2>8, OthersStay DEF IInv, CoreInv
<1>6. CASE Write(p, "economy", b) /\ Goto(p, "receipt") /\ UNCHANGED <<spent, env>>
  <2>1. Follows(b, b) /\ SameRows(b, b)
    BY FollowsSelf DEF SameRows
  <2>. QED
    BY <1>2, <1>5, <1>6, <2>1
<1>7. CASE /\ CanDebit(b.wallet, Price[i]) /\ InStock(b, i)
           /\ Redeem(p, Bought(b, i, e, k), e)
  <2> DEFINE g == Bought(b, i, e, k)
  <2>1. /\ Sound(g) /\ Follows(b, g) /\ SameRows(b, g) /\ g.entry[e].item # None
        /\ Unsold(g) = Unsold(b) \ {e}
        /\ \A x \in Cards : x # k => OnCard(g, x) = OnCard(b, x)
        /\ e \notin OnCard(b, k) \/ k = None
        /\ OnCard(g, k) = OnCard(b, k) \cup {e}
    <3>. HIDE DEF i, k, b, e
    <3>. QED
      BY <1>2, <1>3, <1>7, BoughtTo
  <2>2. k # None => Bound(g, k, 1 + restarts)
    <3>1. ASSUME k # None PROVE Cardinality(OnCard(g, k)) = Cardinality(OnCard(b, k)) + 1
      <4>1. IsFiniteSet(OnCard(b, k)) /\ e \notin OnCard(b, k)
        BY <2>1, <3>1, CountsAreNumbers
      <4>. QED
        BY <2>1, <4>1, FS_AddElement
    <3>2. Cardinality(OnCard(b, k)) \in Nat /\ restarts \in Nat
      BY CountsAreNumbers, JobAt
    <3>. QED
      BY <1>2, <3>1, <3>2 DEF Bound
  <2>3. Redeem(p, g, e)
    BY <1>7
  <2>. HIDE DEF g
  <2>4. CASE Fail(p)
    BY <1>1, <2>4, FailKeeps
  <2>5. ASSUME NEW c, RedeemedTo(g, c), Write(p, "economy", c), Goto(p, "receipt"),
               UNCHANGED <<spent, env>>
        PROVE  IInv'
    <3>1. Sound(c) /\ Follows(b, c)
      BY <2>1, <2>5, FollowsOn DEF RedeemedTo
    <3>2. SameRows(b, c)
      BY <2>1, <2>5 DEF RedeemedTo, SameRows
    <3>3. \A x \in Cards : OnCard(c, x) = OnCard(b, x) \/ (x = k /\ Bound(c, x, 1 + restarts))
      BY <2>1, <2>2, <2>5, NoneApart DEF RedeemedTo, Bound
    <3>4. Unsold(c) = Unsold(b) \ {e}
      BY <2>1, <2>5 DEF RedeemedTo
    <3>. QED
      BY <1>5, <2>5, <3>1, <3>2, <3>3, <3>4
  <2>6. \/ Fail(p)
        \/ \E c : /\ RedeemedTo(g, c)
                  /\ Write(p, "economy", c) /\ Goto(p, "receipt") /\ UNCHANGED <<spent, env>>
    BY <1>3, <2>1, <2>3, RedeemCases
  <2>. QED
    BY <2>4, <2>5, <2>6
<1>. QED
  BY <1>1, <1>4, <1>6, <1>7

LEMMA OneMore ==
  ASSUME NEW S, IsFiniteSet(S), NEW x
  PROVE  /\ IsFiniteSet(S \cup {x}) /\ Cardinality(S \cup {x}) \in Nat
         /\ Cardinality(S \cup {x}) <= Cardinality(S) + 1
<1>1. Cardinality(S) \in Nat
  BY FS_CardinalityType
<1>2. CASE x \in S
  <2>1. S \cup {x} = S
    BY <1>2
  <2> DEFINE n == Cardinality(S)
  <2>2. n \in Nat /\ n <= n + 1
    BY <1>1
  <2>3. Cardinality(S \cup {x}) = n
    BY <2>1, Zenon
  <2>. HIDE DEF n
  <2>. QED
    BY <2>2, <2>3, FS_AddElement DEF n
<1>3. CASE x \notin S
  BY <1>1, <1>3, FS_AddElement
<1>. QED
  BY <1>2, <1>3

LEMMA ItemReadKeeps ==
  ASSUME IInv, NEW p \in Procs, NEW i \in Items, NEW c \in Cards \cup {None}, job[p].step = "idle",
         ItemRead(p, c, i), c \notin spent, spent' = IF c = None THEN spent ELSE spent \cup {c}
  PROVE  IInv'
<1> DEFINE h == [Idle EXCEPT !.step = "buy"]
           g == [h EXCEPT !.card = c]
           j == [g EXCEPT !.item = i]
<1>1. /\ UNCHANGED <<db, work, writer, env>>
      /\ Cardinality(Unsold(work.economy)) > Cardinality(Buying)
      /\ job' = job \/ Become(p, j)
  BY DEF ItemRead, Buying
<1>2. Session(p)
  BY <1>1, StillSession
<1>3. job[p].card = None /\ ~ job[p].charged /\ job \in [Procs -> Job] /\ Fits(job[p], db.economy)
  BY JobAt, NotCharged DEF Fits
<1>4. j \in Job /\ j.step = "buy" /\ j.card = c /\ j.item = i /\ ~ j.charged
  <2>1. Idle \in Job /\ "buy" \in Steps
    BY IdleJob DEF Steps
  <2>2. h \in Job /\ h.step = "buy" /\ JobLike(h, Idle, "step")
    BY <2>1, PutStep
  <2>. HIDE DEF h
  <2>3. g \in Job /\ g.card = c /\ JobLike(g, h, "card")
    BY <2>2, PutCard
  <2>. HIDE DEF g
  <2>4. j \in Job /\ j.item = i /\ JobLike(j, g, "item")
    BY <2>3, PutItem
  <2>. HIDE DEF j
  <2>. QED
    BY <2>2, <2>3, <2>4, IdleJob DEF JobLike
<1>. HIDE DEF h, g, j
<1>5. /\ job' \in [Procs -> Job] /\ \A q \in Procs : q # p => job'[q] = job[q]
      /\ job'[p] = job[p] \/ job'[p] = j
  <2>1. CASE job' = job
    BY <1>3, <2>1
  <2>2. CASE Become(p, j)
    BY <1>4, <2>2, JobPut
  <2>. QED
    BY <1>1, <2>1, <2>2
<1>6. job'[p].step \in {"idle", "buy"} /\ job'[p].card \in {None, c} /\ ~ job'[p].charged
  BY <1>3, <1>4, <1>5
<1>7. Turn(p)
  <2>1. Fits(job'[p], db'.economy)
    <3>1. db' = db
      BY <1>1
    <3>2. Fits(j, db.economy)
      BY <1>4 DEF Fits
    <3>. QED
      BY <1>3, <1>5, <3>1, <3>2
  <2>2. \A f \in Files : job'[p].step \notin Inside(f)
    BY <1>6 DEF Inside
  <2>3. Lead(p)'
    BY <1>6, NoLead
  <2>. QED
    BY <1>5, <2>1, <2>2, <2>3 DEF Turn
<1>8. TearsHold'
  <2>1. TearQuiet(p)
    BY <1>1, <1>6, SameFaults DEF TearQuiet, SameRows
  <2>. QED
    BY <1>7, <2>1, QuietTears
<1>9. RoomHolds'
  <2>1. Buying \in SUBSET Procs /\ Buying' \in SUBSET (Buying \cup {p})
    BY <1>5 DEF Buying, At
  <2>2. IsFiniteSet(Buying) /\ Cardinality(Buying) \in Nat
    BY <2>1, CountsAreNumbers
  <2>3. /\ IsFiniteSet(Buying \cup {p}) /\ Cardinality(Buying \cup {p}) <= Cardinality(Buying) + 1
    BY <2>2, OneMore
  <2>4. /\ Cardinality(Buying \cup {p}) \in Nat /\ Cardinality(Buying') \in Nat
        /\ Cardinality(Buying') <= Cardinality(Buying \cup {p})
    BY <2>1, <2>3, FS_Subset, FS_CardinalityType
  <2>5. Cardinality(Unsold(work.economy)) \in Nat /\ work' = work
    BY <1>1, CountsAreNumbers
  <2>. QED
    BY <1>1, <2>2, <2>3, <2>4, <2>5 DEF RoomHolds
<1>10. CardsHold'
  <2>0. CardsHold /\ restarts' = restarts /\ db' = db /\ work' = work
    BY <1>1, SameFaults DEF IInv, CoreInv
  <2>1. ASSUME NEW x \in Cards
        PROVE  /\ Bound(db.economy, x, 1 + restarts) /\ Bound(work.economy, x, 1 + restarts)
               /\ x \notin spent' => Bound(db.economy, x, restarts) /\ Bound(work.economy, x, restarts)
    BY <2>0 DEF CardsHold
  <2>2. ASSUME NEW q \in Procs, job'[q].card # None
        PROVE  /\ job'[q].card \in spent' /\ Bound(db.economy, job'[q].card, restarts)
               /\ job'[q].step = "buy" => Bound(work.economy, job'[q].card, restarts)
               /\ \A r \in Procs : job'[r].card = job'[q].card => r = q
    <3>0. \A r \in Procs : job[r].card # None => job[r].card \in spent /\ job[r].card # c
      BY <2>0 DEF CardsHold
    <3>1. CASE q = p
      <4>1. job'[q].card = c /\ c \in Cards /\ c \in spent'
        BY <1>6, <2>2, <3>1
      <4>2. \A r \in Procs : r # p => job'[r].card # c
        BY <1>5, <2>2, <3>0, <4>1
      <4>3. Bound(db.economy, c, restarts) /\ Bound(work.economy, c, restarts)
        BY <2>0, <4>1 DEF CardsHold
      <4>. QED
        BY <3>1, <4>1, <4>2, <4>3
    <3>2. CASE q # p
      <4>1. job'[q] = job[q]
        BY <1>5, <3>2
      <4>2. /\ job[q].card \in spent /\ Bound(db.economy, job[q].card, restarts)
            /\ job[q].step = "buy" => Bound(work.economy, job[q].card, restarts)
            /\ \A r \in Procs : job[r].card = job[q].card => r = q
        BY <2>0, <2>2, <4>1 DEF CardsHold, At
      <4>3. \A r \in Procs : job'[r].card = job'[q].card => r = q
        BY <1>5, <1>6, <2>2, <3>0, <4>1, <4>2
      <4>. QED
        BY <4>1, <4>2, <4>3
    <3>. QED
      BY <3>1, <3>2
  <2>. QED
    BY <2>0, <2>1, <2>2 DEF CardsHold, At
<1>11. spent' \subseteq Cards /\ faults' \in Nat /\ restarts' \in Nat
  BY <1>1, JobAt, SameFaults
<1>. QED
  BY <1>2, <1>7, <1>8, <1>9, <1>10, <1>11, OthersStay DEF IInv, CoreInv

LEMMA SlashBuyKeeps ==
  ASSUME IInv, NEW p \in Procs, NEW i \in Items, SlashBuy(p, i)
  PROVE  IInv'
<1>1. job[p].step = "idle" /\ ItemRead(p, None, i) /\ spent' = spent
  BY DEF SlashBuy, At
<1>2. None \notin spent
  BY JobAt, NoneApart
<1>. QED
  BY <1>1, <1>2, ItemReadKeeps

LEMMA TapConfirmKeeps ==
  ASSUME IInv, NEW p \in Procs, NEW c \in Cards, TapConfirm(p, c)
  PROVE  IInv'
<1>1. /\ job[p].step = "idle" /\ c \notin spent /\ spent' = spent \cup {c}
      /\ ItemRead(p, c, Shows[c])
  BY DEF TapConfirm, At
<1>2. Shows[c] \in Items /\ c # None
  BY ShopAssumption, NoneApart
<1>. QED
  BY <1>1, <1>2, ItemReadKeeps

\* What the end of an economy session leaves of the cards and of the room.
LEMMA EndedQuiet ==
  ASSUME IInv, NEW p \in Procs, writer["economy"] \in {None, p},
         Commits("economy") \/ CommitLost("economy"), spent' = spent,
         job'[p].card = None, job'[p].step # "buy"
  PROVE  /\ CardQuiet(p) /\ RoomQuiet(p)
         /\ faults' \in Nat /\ restarts' \in Nat /\ restarts' = restarts /\ Faults' >= Faults
         /\ CommitLost("economy") => Faults' = Faults + 1
         /\ Commits("economy") => Faults' = Faults
<1>1. /\ work'.economy = db'.economy
      /\ db'.economy = work.economy \/ db'.economy = db.economy
  BY EconomyEnded
<1>2. /\ faults \in Nat /\ restarts \in Nat
  BY JobAt
<1>3. /\ faults' \in Nat /\ restarts' = restarts /\ Faults' >= Faults
      /\ CommitLost("economy") => Faults' = Faults + 1
      /\ Commits("economy") => Faults' = Faults
  <2>1. Commits("economy") => faults' = faults /\ restarts' = restarts
    BY DEF Commits, env
  <2>2. CommitLost("economy") => faults' = faults + 1 /\ restarts' = restarts
    BY DEF CommitLost, Fault
  <2>. QED
    BY <1>2, <2>1, <2>2 DEF Faults
<1>4. CardQuiet(p)
  BY <1>1, <1>3 DEF CardQuiet
<1>5. RoomQuiet(p)
  <2>1. Unsold(work.economy) \subseteq Unsold(db.economy)
    BY FilesOf DEF Follows, Unsold
  <2>. QED
    BY <1>1, <2>1 DEF RoomQuiet
<1>. QED
  BY <1>2, <1>3, <1>4, <1>5

LEMMA ReceiptKeeps ==
  ASSUME IInv, NEW p \in Procs, Receipt(p)
  PROVE  IInv'
<1>1. /\ job[p].step = "receipt"
      /\ \/ Fail(p)
         \/ /\ writer["economy"] = p /\ (Commits("economy") \/ CommitLost("economy"))
            /\ Become(p, Idle) /\ spent' = spent
  BY DEF Receipt, At
<1>2. CASE Fail(p)
  BY <1>1, <1>2, FailKeeps
<1>3. CASE /\ writer["economy"] = p /\ (Commits("economy") \/ CommitLost("economy"))
           /\ Become(p, Idle) /\ spent' = spent
  <2>1. /\ Session(p) /\ db'.moderation = db.moderation
        /\ db'.economy = work.economy \/ db'.economy = db.economy
    BY <1>3, EconomyEnded
  <2>2. Turn(p) /\ job'[p].card = None /\ job'[p].step = "idle"
    BY <1>3, <2>1, IdleTurn, IdleJob
  <2>3. /\ CardQuiet(p) /\ RoomQuiet(p)
        /\ faults' \in Nat /\ restarts' \in Nat /\ Faults' >= Faults
    BY <1>3, <2>2, EndedQuiet
  <2>4. SameRows(db.economy, work.economy)
    BY <1>1, JobAt DEF Lead, At
  <2>5. TearQuiet(p)
    BY <1>1, <2>1, <2>2, <2>3, <2>4 DEF TearQuiet, SameRows
  <2>. QED
    BY <2>1, <2>2, <2>3, <2>5, QuietStep
<1>. QED
  BY <1>1, <1>2, <1>3

-----------------------------------------------------------------------------
(* Lifting a warning. *)

LEMMA ModerationPut ==
  ASSUME NEW m \in Moderation
  PROVE  /\ \A w : LET n == [m EXCEPT !.active = @ \ {w}]
                   IN n \in Moderation /\ n.active = m.active \ {w} /\ n.fines = m.fines
         /\ LET n == [m EXCEPT !.fines = @ + 1]
            IN n \in Moderation /\ n.active = m.active /\ n.fines = m.fines + 1
<1>1. m = [active |-> m.active, fines |-> m.fines] /\ m.active \in SUBSET Warnings /\ m.fines \in Nat
  BY DEF Moderation
<1>2. \A w : [m EXCEPT !.active = @ \ {w}] = [active |-> m.active \ {w}, fines |-> m.fines]
  BY <1>1
<1>3. [m EXCEPT !.fines = @ + 1] = [active |-> m.active, fines |-> m.fines + 1]
  BY <1>1
<1>. QED
  BY <1>1, <1>2, <1>3 DEF Moderation

LEMMA UnwarnRemoveKeeps ==
  ASSUME IInv, NEW p \in Procs, UnwarnRemove(p)
  PROVE  IInv'
<1> DEFINE w == job[p].warning
           m == [work.moderation EXCEPT !.active = @ \ {w}]
<1>1. /\ job[p].step = "remove" /\ Free("moderation") /\ UNCHANGED <<spent, env>>
      /\ \/ Become(p, Idle) /\ UNCHANGED <<db, work, writer>>
         \/ /\ w \in work.moderation.active
            /\ Write(p, "moderation", m) /\ Goto(p, "consume")
  BY DEF UnwarnRemove, At
<1>2. CASE Become(p, Idle) /\ UNCHANGED <<db, work, writer>>
  BY <1>1, <1>2, IdleJob, IdleFits, StillStep
<1>3. CASE /\ w \in work.moderation.active
           /\ Write(p, "moderation", m) /\ Goto(p, "consume")
  <2>1. work.moderation = db.moderation /\ work.moderation \in Moderation
    BY <1>1, FilesOf DEF Free, Both
  <2>2. m \in Moderation
    BY <2>1, ModerationPut
  <2>3. m = [db.moderation EXCEPT !.active = @ \ {w}] /\ w \in db.moderation.active
    BY <1>3, <2>1
  <2>. HIDE DEF w, m
  <2>4. /\ Session(p) /\ db' = db /\ work'.economy = work.economy /\ work'.moderation = m
        /\ writer'["moderation"] = p
    BY <1>1, <1>3, <2>2, ModerationWritten
  <2>5. /\ job' \in [Procs -> Job] /\ \A q \in Procs : q # p => job'[q] = job[q]
        /\ job'[p].step = "consume" /\ JobLike(job'[p], job[p], "step")
    <3>1. "consume" \in Steps
      BY DEF Steps
    <3>. QED
      BY <1>3, <3>1, GotoTurn
  <2>6. /\ job'[p].card = None /\ ~ job'[p].charged /\ job'[p].entry = job[p].entry
        /\ Fits(job[p], db.economy)
    <3>1. ~ job[p].charged /\ Fits(job[p], db.economy)
      BY <1>1, JobAt, NotCharged
    <3>. QED
      BY <1>1, <2>5, <3>1 DEF JobLike, Fits
  <2>7. Turn(p)
    <3>1. Fits(job'[p], db'.economy)
      BY <1>1, <2>4, <2>5, <2>6 DEF Fits
    <3>2. \A f \in Files : job'[p].step \in Inside(f) => writer'[f] = p
      BY <2>4, <2>5 DEF Inside, Files
    <3>3. Lead(p)'
      BY <2>3, <2>4, <2>5, <2>6 DEF Lead, At
    <3>. QED
      BY <2>5, <3>1, <3>2, <3>3 DEF Turn
  <2>8. CardQuiet(p) /\ RoomQuiet(p)
    BY <1>1, <2>4, <2>5, <2>6, SameFaults DEF CardQuiet, RoomQuiet
  <2>9. TearQuiet(p)
    BY <1>1, <2>4, <2>5, SameFaults DEF TearQuiet, SameRows
  <2>. QED
    BY <2>4, <2>7, <2>8, <2>9, QuietStep
<1>. QED
  BY <1>1, <1>2, <1>3

LEMMA UnwarnConsumeKeeps ==
  ASSUME IInv, NEW p \in Procs, UnwarnConsume(p)
  PROVE  IInv'
<1> DEFINE e == job[p].entry
           b == work.economy
<1>1. /\ job[p].step = "consume" /\ Free("economy") /\ UNCHANGED <<spent, env>>
      /\ \/ /\ Consumable(b, e) /\ Write(p, "economy", Consumed(b, e)) /\ Goto(p, "lift")
         \/ /\ work' = [work EXCEPT !["moderation"] = db.moderation]
            /\ writer' = [economy |-> p, moderation |-> None]
            /\ Goto(p, "receipt") /\ db' = db
  BY DEF UnwarnConsume, At
<1>2. /\ e \in Entries /\ b.entry[e].item # None /\ Kind[b.entry[e].item] = "unwarn"
      /\ Sound(b) /\ b = db.economy /\ job[p].card = None
      /\ writer["moderation"] = p /\ writer["economy"] = None
      /\ ~ job[p].charged /\ Lead(p)
  <2>1. /\ Fits(job[p], db.economy) /\ Sound(b) /\ b = db.economy /\ writer["economy"] = None
    BY <1>1, JobAt, FilesOf DEF Free
  <2>2. writer["moderation"] = p
    BY <1>1, JobAt DEF Inside, Files
  <2>3. ~ job[p].charged /\ Lead(p)
    BY <1>1, NotCharged, JobAt
  <2>4. e \in Entries /\ b.entry[e].item # None /\ Kind[b.entry[e].item] = "unwarn" /\ job[p].card = None
    BY <1>1, <2>1 DEF Fits
  <2>. QED
    BY <2>1, <2>2, <2>3, <2>4
<1>3. CASE Consumable(b, e) /\ Write(p, "economy", Consumed(b, e)) /\ Goto(p, "lift")
  <2> DEFINE c == Consumed(b, e)
  <2>0. ~ b.entry[e].used
    BY <1>3 DEF Consumable
  <2>1. /\ Sound(c) /\ Follows(b, c) /\ Unsold(c) = Unsold(b) /\ \A k : OnCard(c, k) = OnCard(b, k)
        /\ c.fines = b.fines /\ e \notin UsedIn(b, "unwarn")
        /\ UsedIn(c, "unwarn") = UsedIn(b, "unwarn") \cup {e}
    <3>. HIDE DEF b, e
    <3>. QED
      BY <1>2, <2>0, ConsumedTo
  <2>2. Write(p, "economy", c)
    BY <1>3
  <2>. HIDE DEF c
  <2>4. /\ Session(p) /\ db' = db /\ work'.economy = c /\ work'.moderation = work.moderation
        /\ writer'["economy"] = p /\ writer'["moderation"] = writer["moderation"]
    BY <1>1, <2>1, <2>2, EconomyWritten
  <2>5. /\ job' \in [Procs -> Job] /\ \A q \in Procs : q # p => job'[q] = job[q]
        /\ job'[p].step = "lift" /\ JobLike(job'[p], job[p], "step")
    <3>1. "lift" \in Steps
      BY DEF Steps
    <3>. QED
      BY <1>3, <3>1, GotoTurn
  <2>6. job'[p].card = None /\ ~ job'[p].charged /\ job'[p].entry = e
    BY <1>2, <2>5 DEF JobLike
  <2>7. Turn(p)
    <3>1. Fits(job'[p], db'.economy)
      BY <1>2, <2>4, <2>5, <2>6 DEF Fits
    <3>2. \A f \in Files : job'[p].step \in Inside(f) => writer'[f] = p
      BY <1>2, <2>4, <2>5 DEF Inside, Files
    <3>3. \E x \in db'.moderation.active :
             work'.moderation = [db'.moderation EXCEPT !.active = @ \ {x}]
      BY <1>1, <1>2, <2>4 DEF Lead
    <3>4. /\ work'.economy.fines = db'.economy.fines
          /\ \E x \in Entries \ UsedIn(db'.economy, "unwarn") :
               UsedIn(work'.economy, "unwarn") = UsedIn(db'.economy, "unwarn") \cup {x}
      BY <1>2, <2>1, <2>4
    <3>5. Lead(p)'
      BY <2>5, <2>6, <3>3, <3>4 DEF Lead, At
    <3>. QED
      BY <2>5, <3>1, <3>2, <3>5 DEF Turn
  <2>8. CardQuiet(p) /\ RoomQuiet(p)
    BY <1>1, <2>1, <2>4, <2>5, <2>6, SameFaults DEF CardQuiet, RoomQuiet
  <2>9. TearQuiet(p)
    BY <1>1, <2>4, <2>5, SameFaults DEF TearQuiet, SameRows
  <2>. QED
    BY <2>4, <2>7, <2>8, <2>9, QuietStep
<1>4. CASE /\ work' = [work EXCEPT !["moderation"] = db.moderation]
           /\ writer' = [economy |-> p, moderation |-> None]
           /\ Goto(p, "receipt") /\ db' = db
  <2>1. /\ work'.moderation = db.moderation /\ work'.economy = b /\ work' \in Both
    <3>1. work \in Both /\ db.moderation \in Moderation
      BY FilesOf DEF Both
    <3>. QED
      BY <1>4, <3>1, FilePut
  <2>2. /\ writer'["economy"] = p /\ writer'["moderation"] = None
        /\ writer' \in [Files -> Procs \cup {None}]
    BY <1>4 DEF Files
  <2>3. Session(p)
    <3>1. /\ work'["economy"] = work'.economy /\ work'["moderation"] = work'.moderation
      BY <2>1 DEF Both
    <3>2. \A f \in Files : writer'[f] = None => work'[f] = db'[f]
      BY <1>4, <2>1, <2>2, <3>1, FilesOf, NoneApart DEF Files
    <3>3. \A f \in Files : writer[f] \notin {None, p} =>
            writer'[f] = writer[f] /\ db'[f] = db[f] /\ work'[f] = work[f]
      BY <1>2 DEF Files
    <3>. QED
      BY <1>2, <1>4, <2>1, <2>2, <3>2, <3>3, FilesOf, FollowsSelf DEF Session
  <2>5. /\ job' \in [Procs -> Job] /\ \A q \in Procs : q # p => job'[q] = job[q]
        /\ job'[p].step = "receipt" /\ JobLike(job'[p], job[p], "step")
    <3>1. "receipt" \in Steps
      BY DEF Steps
    <3>. QED
      BY <1>4, <3>1, GotoTurn
  <2>6. job'[p].card = None /\ ~ job'[p].charged
    BY <1>2, <2>5 DEF JobLike
  <2>7. Turn(p)
    <3>1. Fits(job'[p], db'.economy)
      BY <2>5, <2>6 DEF Fits
    <3>2. \A f \in Files : job'[p].step \in Inside(f) => writer'[f] = p
      BY <2>2, <2>5 DEF Inside, Files
    <3>3. Lead(p)'
      BY <1>2, <1>4, <2>1, <2>5, <2>6 DEF Lead, At, SameRows
    <3>. QED
      BY <2>5, <3>1, <3>2, <3>3 DEF Turn
  <2>8. CardQuiet(p) /\ RoomQuiet(p)
    BY <1>1, <1>4, <2>1, <2>5, <2>6, SameFaults DEF CardQuiet, RoomQuiet
  <2>9. TearQuiet(p)
    BY <1>1, <1>4, <2>5, SameFaults DEF TearQuiet, SameRows
  <2>. QED
    BY <2>3, <2>7, <2>8, <2>9, QuietStep
<1>. QED
  BY <1>1, <1>3, <1>4

LEMMA OneMoves ==
  ASSUME NEW S \in SUBSET Procs, NEW p \in Procs
  PROVE  /\ p \notin S => Cardinality(S \cup {p}) = Cardinality(S) + 1
         /\ p \in S => Cardinality(S \ {p}) = Cardinality(S) - 1
<1>1. IsFiniteSet(S) /\ Cardinality(S) \in Nat
  BY CountsAreNumbers
<1>. QED
  BY <1>1, FS_AddElement, FS_RemoveElement

\* How the counts of TearsHold move with the step of one handler.
LEMMA TearsMove ==
  ASSUME IInv, NEW p \in Procs, Turn(p)
  PROVE  /\ Lifting \in SUBSET Procs /\ Charging \in SUBSET Procs /\ Uncharged \in SUBSET Procs
         /\ Lifting'   = IF job'[p].step = "checkpoint" THEN Lifting \cup {p} ELSE Lifting \ {p}
         /\ Charging'  = IF job'[p].step = "record" /\ job'[p].charged
                         THEN Charging \cup {p} ELSE Charging \ {p}
         /\ Uncharged' = IF job'[p].step = "record" /\ ~ job'[p].charged
                         THEN Uncharged \cup {p} ELSE Uncharged \ {p}
         /\ p \in Lifting <=> job[p].step = "checkpoint"
         /\ p \in Charging <=> job[p].step = "record" /\ job[p].charged
         /\ p \in Uncharged <=> job[p].step = "record" /\ ~ job[p].charged
<1>1. \A q \in Procs : q # p => job'[q] = job[q]
  BY DEF Turn
<1>2. Lifting' = IF job'[p].step = "checkpoint" THEN Lifting \cup {p} ELSE Lifting \ {p}
  BY <1>1 DEF Lifting, At
<1>3. Charging' = IF job'[p].step = "record" /\ job'[p].charged
                  THEN Charging \cup {p} ELSE Charging \ {p}
  BY <1>1 DEF Charging, At
<1>4. Uncharged' = IF job'[p].step = "record" /\ ~ job'[p].charged
                   THEN Uncharged \cup {p} ELSE Uncharged \ {p}
  BY <1>1 DEF Uncharged, At
<1>. QED
  BY <1>2, <1>3, <1>4 DEF Lifting, Charging, Uncharged, At

LEMMA UnwarnLiftKeeps ==
  ASSUME IInv, NEW p \in Procs, UnwarnLift(p)
  PROVE  IInv'
<1>1. /\ job[p].step = "lift"
      /\ \/ Commits("moderation") /\ Goto(p, "checkpoint") /\ spent' = spent
         \/ RolledBack(p) /\ Fault
  BY DEF UnwarnLift, At, AfterLift
<1>2. CASE RolledBack(p) /\ Fault
  <2>1. faults \in Nat /\ faults' = faults + 1 /\ restarts' = restarts
    BY <1>2, JobAt DEF Fault
  <2>2. faults' \in Nat /\ faults' >= faults
    BY <2>1
  <2>. QED
    BY <1>1, <1>2, <2>1, <2>2, RolledKeeps
<1>3. CASE Commits("moderation") /\ Goto(p, "checkpoint") /\ spent' = spent
  <2>1. /\ writer["economy"] = p /\ writer["moderation"] = p /\ Lead(p)
        /\ Fits(job[p], db.economy) /\ ~ job[p].charged
    BY <1>1, JobAt, NotCharged DEF Inside, Files
  <2>2. /\ Session(p) /\ db'.economy = db.economy /\ work'.economy = work.economy
        /\ db'.moderation = work.moderation /\ UNCHANGED env
        /\ writer'["economy"] = p
    BY <1>3, <2>1, ModerationEnded
  <2>3. /\ job' \in [Procs -> Job] /\ \A q \in Procs : q # p => job'[q] = job[q]
        /\ job'[p].step = "checkpoint" /\ JobLike(job'[p], job[p], "step")
    <3>1. "checkpoint" \in Steps
      BY DEF Steps
    <3>. QED
      BY <1>3, <3>1, GotoTurn
  <2>4. /\ job'[p].card = None /\ ~ job'[p].charged /\ job'[p].entry = job[p].entry
    BY <1>1, <2>1, <2>3 DEF JobLike, Fits
  <2>5. Turn(p)
    <3>1. Fits(job'[p], db'.economy)
      BY <1>1, <2>1, <2>2, <2>3, <2>4 DEF Fits
    <3>2. \A f \in Files : job'[p].step \in Inside(f) => writer'[f] = p
      BY <2>2, <2>3 DEF Inside, Files
    <3>3. Lead(p)'
      BY <1>1, <2>1, <2>2, <2>3, <2>4 DEF Lead, At
    <3>. QED
      BY <2>3, <3>1, <3>2, <3>3 DEF Turn
  <2>6. CardsHold' /\ RoomHolds'
    <3>1. CardQuiet(p) /\ RoomQuiet(p)
      BY <1>3, <2>2, <2>3, <2>4, SameFaults DEF CardQuiet, RoomQuiet
    <3>. QED
      BY <2>2, <2>5, <3>1, QuietCards, QuietRoom
  <2>7. TearsHold'
    <3>1. PICK w \in db.moderation.active :
            work.moderation = [db.moderation EXCEPT !.active = @ \ {w}]
      BY <1>1, <2>1 DEF Lead
    <3>2. db.moderation \in Moderation
      BY FilesOf DEF Both
    <3>3. db'.moderation.active = db.moderation.active \ {w} /\ db'.moderation.fines = db.moderation.fines
      BY <2>2, <3>1, <3>2, ModerationPut
    <3>4. Cardinality(db'.moderation.active) = Cardinality(db.moderation.active) - 1
      <4>1. IsFiniteSet(db.moderation.active)
        BY TearNumbers, ShopAssumption, FS_Subset
      <4>. QED
        BY <3>1, <3>3, <4>1, FS_RemoveElement
    <3>5. /\ Lifting \in SUBSET Procs /\ p \notin Lifting /\ Lifting' = Lifting \cup {p}
          /\ Charging' = Charging /\ Uncharged' = Uncharged
      BY <1>1, <2>3, <2>5, TearsMove
    <3>6. Cardinality(Lifting') = Cardinality(Lifting) + 1
      BY <3>5, OneMoves
    <3>7. Untied' = Untied
      BY <2>2, <3>4, <3>6, TearNumbers DEF Untied
    <3>8. Torn' = Torn
      BY <2>2, <3>3, <3>5 DEF Torn
    <3>9. Faults' = Faults
      BY <2>2 DEF Faults, env
    <3>. QED
      BY <3>5, <3>7, <3>8, <3>9 DEF TearsHold, IInv
  <2>8. spent' \subseteq Cards /\ faults' \in Nat /\ restarts' \in Nat
    BY <1>3, <2>2, JobAt, SameFaults
  <2>. QED
    BY <2>2, <2>5, <2>6, <2>7, <2>8, OthersStay DEF IInv, CoreInv
<1>. QED
  BY <1>1, <1>2, <1>3

LEMMA UnwarnCheckpointKeeps ==
  ASSUME IInv, NEW p \in Procs, UnwarnCheckpoint(p)
  PROVE  IInv'
<1>1. /\ job[p].step = "checkpoint" /\ (Commits("economy") \/ CommitLost("economy"))
      /\ Become(p, Idle) /\ spent' = spent
  BY DEF UnwarnCheckpoint, At
<1>2. writer["economy"] = p /\ Lead(p)
  BY <1>1, JobAt DEF Inside, Files
<1>3. /\ Session(p) /\ db'.moderation = db.moderation
      /\ Commits("economy") => db'.economy = work.economy
      /\ CommitLost("economy") => db'.economy = db.economy
  BY <1>1, <1>2, EconomyEnded
<1>4. Turn(p) /\ job'[p].card = None /\ job'[p].step = "idle"
  BY <1>1, <1>3, IdleTurn, IdleJob
<1>5. /\ CardQuiet(p) /\ RoomQuiet(p) /\ faults' \in Nat /\ restarts' \in Nat
      /\ CommitLost("economy") => Faults' = Faults + 1
      /\ Commits("economy") => Faults' = Faults
  BY <1>1, <1>2, <1>4, EndedQuiet
<1>6. TearsHold'
  <2>0. TearsHold
    BY DEF IInv
  <2>1. /\ work.economy.fines = db.economy.fines
        /\ \E e \in Entries \ UsedIn(db.economy, "unwarn") :
             UsedIn(work.economy, "unwarn") = UsedIn(db.economy, "unwarn") \cup {e}
    BY <1>1, <1>2 DEF Lead
  <2>2. Cardinality(UsedIn(work.economy, "unwarn")) = Cardinality(UsedIn(db.economy, "unwarn")) + 1
    <3>1. IsFiniteSet(UsedIn(db.economy, "unwarn"))
      BY CountsAreNumbers
    <3>. QED
      BY <2>1, <3>1, FS_AddElement
  <2>3. /\ Lifting \in SUBSET Procs /\ p \in Lifting /\ Lifting' = Lifting \ {p}
        /\ Charging' = Charging /\ Uncharged' = Uncharged
    BY <1>1, <1>4, TearsMove
  <2>4. Cardinality(Lifting') = Cardinality(Lifting) - 1
    BY <2>3, OneMoves
  <2>5. db'.economy.fines = db.economy.fines
    BY <1>1, <1>3, <2>1
  <2>6. Torn' = Torn
    BY <1>3, <2>3, <2>5 DEF Torn
  <2>7. CASE Commits("economy")
    <3>1. Untied' = Untied
      BY <1>3, <2>2, <2>4, <2>7, TearNumbers DEF Untied
    <3>2. Faults' = Faults
      BY <1>5, <2>7
    <3>. QED
      BY <2>0, <2>3, <2>6, <3>1, <3>2 DEF TearsHold
  <2>8. CASE CommitLost("economy")
    <3>1. Untied' = Untied + 1
      BY <1>3, <2>4, <2>8, TearNumbers DEF Untied
    <3>2. Faults' = Faults + 1
      BY <1>5, <2>8
    <3>3. Faults \in Nat /\ Torn \in Int /\ Cardinality(Uncharged) \in Nat
      BY TearNumbers DEF Torn
    <3>. QED
      BY <2>0, <2>3, <2>6, <3>1, <3>2, <3>3 DEF TearsHold
  <2>. QED
    BY <1>1, <2>7, <2>8
<1>7. CardsHold' /\ RoomHolds' /\ spent' \subseteq Cards
  BY <1>1, <1>3, <1>4, <1>5, JobAt, QuietCards, QuietRoom
<1>. QED
  BY <1>3, <1>4, <1>5, <1>6, <1>7, OthersStay DEF IInv, CoreInv

-----------------------------------------------------------------------------
(* /fine. *)

LEMMA FineDebitKeeps ==
  ASSUME IInv, NEW p \in Procs, FineDebit(p)
  PROVE  IInv'
<1> DEFINE b == work.economy
           a == job[p].amount
<1>1. /\ job[p].step = "debit" /\ Free("economy") /\ UNCHANGED <<spent, env>>
      /\ \/ Become(p, Idle) /\ UNCHANGED <<db, work, writer>>
         \/ /\ CanDebit(b.wallet, a) /\ Write(p, "economy", Fined(b, a)) /\ Goto(p, "log")
  BY DEF FineDebit, At, Fined
<1>2. CASE Become(p, Idle) /\ UNCHANGED <<db, work, writer>>
  BY <1>1, <1>2, IdleJob, IdleFits, StillStep
<1>3. CASE CanDebit(b.wallet, a) /\ Write(p, "economy", Fined(b, a)) /\ Goto(p, "log")
  <2> DEFINE c == Fined(b, a)
  <2>0. /\ a \in Nat /\ Sound(b) /\ b = db.economy /\ Fits(job[p], db.economy) /\ ~ job[p].charged
    <3>1. job[p] \in Job /\ Fits(job[p], db.economy) /\ ~ job[p].charged
      BY <1>1, JobAt, NotCharged
    <3>2. Sound(b) /\ b = db.economy
      BY <1>1, FilesOf DEF Free
    <3>. QED
      BY <3>1, <3>2, JobRecord
  <2>1. /\ Sound(c) /\ Follows(b, c) /\ Unsold(c) = Unsold(b) /\ \A k : OnCard(c, k) = OnCard(b, k)
        /\ \A k : UsedIn(c, k) = UsedIn(b, k) /\ c.fines = b.fines + 1
    <3>1. CanDebit(b.wallet, a)
      BY <1>3
    <3>. HIDE DEF b, a
    <3>. QED
      BY <2>0, <3>1, FinedTo
  <2>2. Write(p, "economy", c)
    BY <1>3
  <2>. HIDE DEF c
  <2>4. /\ Session(p) /\ db' = db /\ work'.economy = c /\ work'.moderation = work.moderation
        /\ writer'["economy"] = p
    BY <1>1, <2>1, <2>2, EconomyWritten
  <2>5. /\ job' \in [Procs -> Job] /\ \A q \in Procs : q # p => job'[q] = job[q]
        /\ job'[p].step = "log" /\ JobLike(job'[p], job[p], "step")
    <3>1. "log" \in Steps
      BY DEF Steps
    <3>. QED
      BY <1>3, <3>1, GotoTurn
  <2>6. job'[p].card = None /\ ~ job'[p].charged
    BY <1>1, <2>0, <2>5 DEF JobLike, Fits
  <2>7. Turn(p)
    <3>1. Fits(job'[p], db'.economy)
      BY <2>5, <2>6 DEF Fits
    <3>2. \A f \in Files : job'[p].step \in Inside(f) => writer'[f] = p
      BY <2>4, <2>5 DEF Inside, Files
    <3>3. Lead(p)'
      BY <2>0, <2>1, <2>4, <2>5, <2>6 DEF Lead, At
    <3>. QED
      BY <2>5, <3>1, <3>2, <3>3 DEF Turn
  <2>8. CardQuiet(p) /\ RoomQuiet(p)
    BY <1>1, <2>1, <2>4, <2>5, <2>6, SameFaults DEF CardQuiet, RoomQuiet
  <2>9. TearQuiet(p)
    BY <1>1, <2>4, <2>5, SameFaults DEF TearQuiet, SameRows
  <2>. QED
    BY <2>4, <2>7, <2>8, <2>9, QuietStep
<1>. QED
  BY <1>1, <1>2, <1>3

LEMMA FineLogKeeps ==
  ASSUME IInv, NEW p \in Procs, FineLog(p)
  PROVE  IInv'
<1> DEFINE m == [work.moderation EXCEPT !.fines = @ + 1]
<1>1. /\ job[p].step = "log" /\ Free("moderation") /\ UNCHANGED <<spent, env>>
      /\ Write(p, "moderation", m) /\ Goto(p, "charge")
  BY DEF FineLog, At
<1>2. /\ work.moderation = db.moderation /\ work.moderation \in Moderation
      /\ writer["economy"] = p /\ Lead(p) /\ Fits(job[p], db.economy) /\ ~ job[p].charged
  <2>1. work.moderation = db.moderation /\ work.moderation \in Moderation
    BY <1>1, FilesOf DEF Free, Both
  <2>. QED
    BY <1>1, <2>1, JobAt, NotCharged DEF Inside, Files
<1>3. m \in Moderation
  BY <1>2, ModerationPut
<1>4. m = [db.moderation EXCEPT !.fines = @ + 1]
  BY <1>2
<1>. HIDE DEF m
<1>5. /\ Session(p) /\ db' = db /\ work'.economy = work.economy /\ work'.moderation = m
      /\ writer'["economy"] = p /\ writer'["moderation"] = p
  BY <1>1, <1>2, <1>3, ModerationWritten
<1>6. /\ job' \in [Procs -> Job] /\ \A q \in Procs : q # p => job'[q] = job[q]
      /\ job'[p].step = "charge" /\ JobLike(job'[p], job[p], "step")
  <2>1. "charge" \in Steps
    BY DEF Steps
  <2>. QED
    BY <1>1, <2>1, GotoTurn
<1>7. job'[p].card = None /\ ~ job'[p].charged
  BY <1>1, <1>2, <1>6 DEF JobLike, Fits
<1>8. Turn(p)
  <2>1. Fits(job'[p], db'.economy)
    BY <1>6, <1>7 DEF Fits
  <2>2. \A f \in Files : job'[p].step \in Inside(f) => writer'[f] = p
    BY <1>5, <1>6 DEF Inside, Files
  <2>3. Lead(p)'
    BY <1>1, <1>2, <1>4, <1>5, <1>6, <1>7 DEF Lead, At
  <2>. QED
    BY <1>6, <2>1, <2>2, <2>3 DEF Turn
<1>9. CardQuiet(p) /\ RoomQuiet(p)
  BY <1>1, <1>5, <1>6, <1>7, SameFaults DEF CardQuiet, RoomQuiet
<1>10. TearQuiet(p)
  BY <1>1, <1>5, <1>6, SameFaults DEF TearQuiet, SameRows
<1>. QED
  BY <1>5, <1>8, <1>9, <1>10, QuietStep

LEMMA FineChargeKeeps ==
  ASSUME IInv, NEW p \in Procs, FineCharge(p)
  PROVE  IInv'
<1> DEFINE h == [job[p] EXCEPT !.step = "record"]
           g == [h EXCEPT !.charged = TRUE]
<1>1. /\ job[p].step = "charge" /\ spent' = spent
      /\ \/ Commits("economy") /\ Become(p, g)
         \/ CommitLost("economy") /\ Goto(p, "record")
  BY DEF FineCharge, At
<1>2. /\ writer["economy"] = p /\ writer["moderation"] = p /\ Lead(p)
      /\ Fits(job[p], db.economy) /\ job[p] \in Job /\ ~ job[p].charged
  BY <1>1, JobAt, NotCharged DEF Inside, Files
<1>3. /\ Session(p) /\ db'.moderation = db.moderation /\ work'.moderation = work.moderation
      /\ Commits("economy") => db'.economy = work.economy
      /\ CommitLost("economy") => db'.economy = db.economy
      /\ writer'["moderation"] = p
  <2>1. Commits("economy") \/ CommitLost("economy")
    BY <1>1
  <2>. QED
    BY <1>2, <2>1, EconomyEnded
<1>4. h \in Job /\ h.step = "record" /\ JobLike(h, job[p], "step")
  <2>1. "record" \in Steps
    BY DEF Steps
  <2>. QED
    BY <1>2, <2>1, PutStep
<1>5. g \in Job /\ g.charged = TRUE /\ JobLike(g, h, "charged")
  <2>1. TRUE \in BOOLEAN
    OBVIOUS
  <2>. HIDE DEF h
  <2>. QED
    BY <1>4, <2>1, PutCharged
<1>6. /\ job' \in [Procs -> Job] /\ \A q \in Procs : q # p => job'[q] = job[q]
      /\ job'[p].step = "record" /\ job'[p].card = job[p].card
      /\ \/ Commits("economy") /\ job'[p].charged
         \/ CommitLost("economy") /\ ~ job'[p].charged
  <2>1. CASE Commits("economy") /\ Become(p, g)
    <3>. HIDE DEF g, h
    <3>1. /\ job' \in [Procs -> Job] /\ job'[p] = g
          /\ \A q \in Procs : q # p => job'[q] = job[q]
      BY <1>5, <2>1, JobPut
    <3>. QED
      BY <1>4, <1>5, <2>1, <3>1 DEF JobLike
  <2>2. CASE CommitLost("economy") /\ Goto(p, "record")
    <3>1. "record" \in Steps
      BY DEF Steps
    <3>. QED
      BY <1>2, <2>2, <3>1, GotoTurn DEF JobLike
  <2>. QED
    BY <1>1, <2>1, <2>2
<1>. HIDE DEF g, h
<1>7. job'[p].card = None
  BY <1>1, <1>2, <1>6 DEF Fits
<1>8. Turn(p)
  <2>1. Fits(job'[p], db'.economy)
    BY <1>6, <1>7 DEF Fits
  <2>2. \A f \in Files : job'[p].step \in Inside(f) => writer'[f] = p
    BY <1>3, <1>6 DEF Inside, Files
  <2>3. Lead(p)'
    BY <1>1, <1>2, <1>3, <1>6 DEF Lead, At
  <2>. QED
    BY <1>6, <2>1, <2>2, <2>3 DEF Turn
<1>9. /\ CardQuiet(p) /\ RoomQuiet(p) /\ faults' \in Nat /\ restarts' \in Nat
      /\ CommitLost("economy") => Faults' = Faults + 1
      /\ Commits("economy") => Faults' = Faults
  <2>1. Commits("economy") \/ CommitLost("economy")
    BY <1>1
  <2>. QED
    BY <1>1, <1>2, <1>6, <1>7, <2>1, EndedQuiet
<1>10. TearsHold'
  <2>0. TearsHold
    BY DEF IInv
  <2>1. /\ UsedIn(work.economy, "unwarn") = UsedIn(db.economy, "unwarn")
        /\ work.economy.fines = db.economy.fines + 1
    BY <1>1, <1>2 DEF Lead
  <2>2. /\ Lifting \in SUBSET Procs /\ Charging \in SUBSET Procs /\ Uncharged \in SUBSET Procs
        /\ p \notin Lifting /\ p \notin Charging /\ p \notin Uncharged
        /\ Lifting' = Lifting
    BY <1>1, <1>6, <1>8, TearsMove
  <2>3. UsedIn(db'.economy, "unwarn") = UsedIn(db.economy, "unwarn")
    BY <1>3, <1>6, <2>1
  <2>4. Untied' = Untied
    BY <1>3, <2>2, <2>3 DEF Untied
  <2>n. /\ Faults \in Nat /\ Untied \in Int /\ Torn \in Int
        /\ Cardinality(Uncharged) \in Nat /\ Cardinality(Charging) \in Nat
        /\ db.economy.fines \in Nat /\ db.moderation.fines \in Nat
    BY TearNumbers DEF Untied, Torn
  <2>5. CASE Commits("economy") /\ job'[p].charged
    <3>1. Charging' = Charging \cup {p} /\ Uncharged' = Uncharged
      BY <1>6, <1>8, <2>2, <2>5, TearsMove
    <3>2. Cardinality(Charging') = Cardinality(Charging) + 1
      BY <2>2, <3>1, OneMoves
    <3>3. db'.economy.fines = db.economy.fines + 1
      BY <1>3, <2>1, <2>5
    <3>4. Torn' = Torn /\ Faults' = Faults
      BY <1>3, <1>9, <2>5, <2>n, <3>2, <3>3 DEF Torn
    <3>. QED
      BY <2>0, <2>4, <3>1, <3>4 DEF TearsHold
  <2>6. CASE CommitLost("economy") /\ ~ job'[p].charged
    <3>1. Uncharged' = Uncharged \cup {p} /\ Charging' = Charging
      BY <1>6, <1>8, <2>2, <2>6, TearsMove
    <3>2. Cardinality(Uncharged') = Cardinality(Uncharged) + 1
      BY <2>2, <3>1, OneMoves
    <3>3. Torn' = Torn
      BY <1>3, <2>6, <3>1 DEF Torn
    <3>4. Faults' = Faults + 1
      BY <1>9, <2>6
    <3>. QED
      BY <2>0, <2>4, <2>n, <3>2, <3>3, <3>4 DEF TearsHold
  <2>. QED
    BY <1>6, <2>5, <2>6
<1>11. CardsHold' /\ RoomHolds' /\ spent' \subseteq Cards
  BY <1>1, <1>3, <1>8, <1>9, JobAt, QuietCards, QuietRoom
<1>. QED
  BY <1>3, <1>8, <1>9, <1>10, <1>11, OthersStay DEF IInv, CoreInv

LEMMA FineRecordKeeps ==
  ASSUME IInv, NEW p \in Procs, FineRecord(p)
  PROVE  IInv'
<1>1. /\ job[p].step = "record" /\ (Commits("moderation") \/ CommitLost("moderation"))
      /\ Become(p, Idle) /\ spent' = spent
  BY DEF FineRecord, At
<1>2. writer["moderation"] = p /\ Lead(p)
  BY <1>1, JobAt DEF Inside, Files
<1>3. /\ Session(p) /\ db'.economy = db.economy /\ work'.economy = work.economy
      /\ Commits("moderation") => db'.moderation = work.moderation
      /\ CommitLost("moderation") => db'.moderation = db.moderation
  BY <1>1, <1>2, ModerationEnded
<1>4. Turn(p) /\ job'[p].card = None /\ job'[p].step = "idle"
  BY <1>1, <1>3, IdleTurn, IdleJob
<1>5. /\ faults' \in Nat /\ restarts' \in Nat /\ restarts' = restarts
      /\ CommitLost("moderation") => Faults' = Faults + 1
      /\ Commits("moderation") => Faults' = Faults
  <2>1. faults \in Nat /\ restarts \in Nat
    BY JobAt
  <2>2. Commits("moderation") => faults' = faults /\ restarts' = restarts
    BY DEF Commits, env
  <2>3. CommitLost("moderation") => faults' = faults + 1 /\ restarts' = restarts
    BY DEF CommitLost, Fault
  <2>. QED
    BY <1>1, <2>1, <2>2, <2>3 DEF Faults
<1>6. CardsHold' /\ RoomHolds' /\ spent' \subseteq Cards
  <2>1. CardQuiet(p) /\ RoomQuiet(p)
    BY <1>1, <1>3, <1>4, <1>5 DEF CardQuiet, RoomQuiet
  <2>. QED
    BY <1>1, <1>3, <1>4, <2>1, JobAt, QuietCards, QuietRoom
<1>7. TearsHold'
  <2>0. TearsHold
    BY DEF IInv
  <2>1. work.moderation = [db.moderation EXCEPT !.fines = @ + 1] /\ db.moderation \in Moderation
    BY <1>1, <1>2, FilesOf DEF Lead, Both
  <2>2. work.moderation.fines = db.moderation.fines + 1 /\ work.moderation.active = db.moderation.active
    BY <2>1, ModerationPut
  <2>3. /\ Lifting \in SUBSET Procs /\ Charging \in SUBSET Procs /\ Uncharged \in SUBSET Procs
        /\ Lifting' = Lifting /\ Charging' = Charging \ {p} /\ Uncharged' = Uncharged \ {p}
        /\ p \in Charging <=> job[p].charged
        /\ p \in Uncharged <=> ~ job[p].charged
    BY <1>1, <1>4, TearsMove
  <2>4. db'.moderation.active = db.moderation.active
    BY <1>1, <1>3, <2>2
  <2>5. Untied' = Untied
    BY <1>3, <2>3, <2>4 DEF Untied
  <2>n. /\ Faults \in Nat /\ Untied \in Int /\ Torn \in Int
        /\ Cardinality(Uncharged) \in Nat /\ Cardinality(Charging) \in Nat
        /\ db.economy.fines \in Nat /\ db.moderation.fines \in Nat
    BY TearNumbers DEF Untied, Torn
  <2>6. /\ db'.economy.fines = db.economy.fines
        /\ Commits("moderation") => db'.moderation.fines = db.moderation.fines + 1
        /\ CommitLost("moderation") => db'.moderation.fines = db.moderation.fines
    BY <1>3, <2>2
  <2>7. CASE job[p].charged
    <3>1. Uncharged' = Uncharged /\ Cardinality(Charging') = Cardinality(Charging) - 1
      BY <2>3, <2>7, OneMoves
    <3>2. Commits("moderation") => Torn' = Torn /\ Faults' = Faults
      BY <1>5, <2>6, <2>n, <3>1 DEF Torn
    <3>3. CommitLost("moderation") => Torn' = Torn + 1 /\ Faults' = Faults + 1
      BY <1>5, <2>6, <2>n, <3>1 DEF Torn
    <3>. QED
      BY <1>1, <2>0, <2>5, <2>n, <3>1, <3>2, <3>3 DEF TearsHold
  <2>8. CASE ~ job[p].charged
    <3>1. Charging' = Charging /\ Cardinality(Uncharged') = Cardinality(Uncharged) - 1
      BY <2>3, <2>8, OneMoves
    <3>2. Commits("moderation") => Torn' = Torn - 1 /\ Faults' = Faults
      BY <1>5, <2>6, <2>n, <3>1 DEF Torn
    <3>3. CommitLost("moderation") => Torn' = Torn /\ Faults' = Faults + 1
      BY <1>5, <2>6, <2>n, <3>1 DEF Torn
    <3>. QED
      BY <1>1, <2>0, <2>5, <2>n, <3>1, <3>2, <3>3 DEF TearsHold
  <2>. QED
    BY <2>7, <2>8
<1>. QED
  BY <1>3, <1>4, <1>5, <1>6, <1>7, OthersStay DEF IInv, CoreInv

-----------------------------------------------------------------------------
(* The daily bonus. *)

\* A book that replaces the economy in one go: written and committed.
LEMMA EconomyReplaced ==
  ASSUME IInv, NEW p \in Procs, NEW c, Free("economy"), Committed("economy", c),
         Sound(c), Follows(work.economy, c)
  PROVE  /\ Session(p) /\ db'.economy = c /\ work'.economy = c
         /\ db'.moderation = db.moderation
<1>1. /\ db' = [db EXCEPT !["economy"] = c] /\ work' = [work EXCEPT !["economy"] = c]
      /\ writer' = [writer EXCEPT !["economy"] = None]
  BY DEF Committed
<1>2. c \in Economy /\ db \in Both /\ work \in Both
  BY FilesOf DEF Sound
<1>3. /\ db'.economy = c /\ db'.moderation = db.moderation /\ db' \in Both
      /\ work'.economy = c /\ work'.moderation = work.moderation /\ work' \in Both
  BY <1>1, <1>2, FilePut
<1>4. /\ writer'["economy"] = None /\ writer'["moderation"] = writer["moderation"]
      /\ writer' \in [Files -> Procs \cup {None}]
  BY <1>1, FilesOf
<1>5. /\ db'["economy"] = db'.economy /\ db'["moderation"] = db'.moderation
      /\ work'["economy"] = work'.economy /\ work'["moderation"] = work'.moderation
  BY <1>3 DEF Both
<1>6. \A f \in Files : writer'[f] = None => work'[f] = db'[f]
  BY <1>3, <1>4, <1>5, FilesOf DEF Files
<1>7. \A f \in Files : writer[f] \notin {None, p} =>
        writer'[f] = writer[f] /\ db'[f] = db[f] /\ work'[f] = work[f]
  BY <1>3, <1>4, <1>5, FilesOf DEF Files, Free
<1>8. Follows(db.economy, c) /\ Follows(c, c)
  BY FilesOf, FollowsSelf, FollowsOn
<1>. QED
  BY <1>3, <1>4, <1>6, <1>7, <1>8 DEF Session

LEMMA DailyClaimKeeps ==
  ASSUME IInv, NEW p \in Procs, DailyClaim(p)
  PROVE  IInv'
<1> DEFINE b == work.economy
           t == job[p].double
<1>1. /\ job[p].step = "claim" /\ Free("economy") /\ spent' = spent
      /\ \/ Become(p, Idle) /\ UNCHANGED <<db, work, writer, env>>
         \/ Write(p, "economy", b) /\ Goto(p, "receipt") /\ UNCHANGED env
         \/ /\ Claimable(b) /\ CanCredit(b.wallet, Bonus(p)) /\ Become(p, Idle)
            /\ \/ Committed("economy", Claimed(p, b)) /\ UNCHANGED env
               \/ CommitLost("economy")
  BY DEF DailyClaim, At
<1>2. /\ Fits(job[p], db.economy) /\ t \in BOOLEAN /\ ~ job[p].charged
      /\ Sound(b) /\ b = db.economy /\ job[p].card = None /\ writer["economy"] = None
  <2>1. Fits(job[p], db.economy) /\ job[p] \in Job /\ ~ job[p].charged
    BY <1>1, JobAt, NotCharged
  <2>2. Sound(b) /\ b = db.economy /\ writer["economy"] = None
    BY <1>1, FilesOf DEF Free
  <2>3. job[p].card = None
    BY <1>1, <2>1 DEF Fits
  <2>. QED
    BY <2>1, <2>2, <2>3, JobRecord
<1>3. CASE Become(p, Idle) /\ UNCHANGED <<db, work, writer, env>>
  BY <1>1, <1>3, IdleJob, IdleFits, StillStep
<1>4. CASE Write(p, "economy", b) /\ Goto(p, "receipt") /\ UNCHANGED env
  <2>1. /\ Session(p) /\ db' = db /\ work'.economy = b /\ work'.moderation = work.moderation
        /\ writer'["economy"] = p
    BY <1>1, <1>2, <1>4, EconomyWritten, FollowsSelf
  <2>2. /\ job' \in [Procs -> Job] /\ \A q \in Procs : q # p => job'[q] = job[q]
        /\ job'[p].step = "receipt" /\ JobLike(job'[p], job[p], "step")
    <3>1. "receipt" \in Steps
      BY DEF Steps
    <3>. QED
      BY <1>4, <3>1, GotoTurn
  <2>3. job'[p].card = None /\ ~ job'[p].charged
    BY <1>2, <2>2 DEF JobLike
  <2>4. Turn(p)
    <3>1. Fits(job'[p], db'.economy)
      BY <2>2, <2>3 DEF Fits
    <3>2. \A f \in Files : job'[p].step \in Inside(f) => writer'[f] = p
      BY <2>1, <2>2 DEF Inside
    <3>3. Lead(p)'
      BY <1>2, <2>1, <2>2, <2>3 DEF Lead, At, SameRows
    <3>. QED
      BY <2>2, <3>1, <3>2, <3>3 DEF Turn
  <2>5. CardQuiet(p) /\ RoomQuiet(p)
    BY <1>1, <1>4, <2>1, <2>2, <2>3, SameFaults DEF CardQuiet, RoomQuiet
  <2>6. TearQuiet(p)
    BY <1>1, <1>4, <2>1, <2>2, SameFaults DEF TearQuiet, SameRows
  <2>. QED
    BY <2>1, <2>4, <2>5, <2>6, QuietStep
<1>5. CASE /\ Claimable(b) /\ CanCredit(b.wallet, Bonus(p)) /\ Become(p, Idle)
           /\ Committed("economy", Claimed(p, b)) /\ UNCHANGED env
  <2> DEFINE c == ClaimedBook(b, t)
  <2>1. Committed("economy", c) /\ CanCredit(b.wallet, BonusOf(t))
    BY <1>5, ClaimOf
  <2>2. t => b.armed
    BY <1>1, <1>2, <1>5 DEF Fits, Claimable
  <2>3. /\ Sound(c) /\ Follows(b, c) /\ Unsold(c) = Unsold(b) /\ \A k : OnCard(c, k) = OnCard(b, k)
        /\ SameRows(b, c)
    <3>. HIDE DEF b, t
    <3>. QED
      BY <1>2, <2>1, <2>2, ClaimedTo
  <2>. HIDE DEF c, t
  <2>4. /\ Session(p) /\ db'.economy = c /\ work'.economy = c /\ db'.moderation = db.moderation
    BY <1>1, <2>1, <2>3, EconomyReplaced
  <2>5. Turn(p) /\ job'[p].card = None /\ job'[p].step = "idle"
    BY <1>5, <2>4, IdleTurn, IdleJob
  <2>6. CardQuiet(p) /\ RoomQuiet(p)
    BY <1>1, <1>5, <2>3, <2>4, <2>5, SameFaults DEF CardQuiet, RoomQuiet
  <2>7. TearQuiet(p)
    BY <1>1, <1>2, <1>5, <2>3, <2>4, <2>5, SameFaults DEF TearQuiet
  <2>. QED
    BY <2>4, <2>5, <2>6, <2>7, QuietStep
<1>6. CASE CommitLost("economy") /\ Become(p, Idle)
  <2>1. /\ Session(p) /\ db'.moderation = db.moderation /\ db'.economy = db.economy
    BY <1>2, <1>6, EconomyEnded
  <2>2. Turn(p) /\ job'[p].card = None /\ job'[p].step = "idle"
    BY <1>6, <2>1, IdleTurn, IdleJob
  <2>3. /\ CardQuiet(p) /\ RoomQuiet(p)
        /\ faults' \in Nat /\ restarts' \in Nat /\ Faults' >= Faults
    BY <1>1, <1>2, <1>6, <2>2, EndedQuiet
  <2>4. TearQuiet(p)
    BY <1>1, <2>1, <2>2, <2>3 DEF TearQuiet, SameRows
  <2>. QED
    BY <2>1, <2>2, <2>3, <2>4, QuietStep
<1>. QED
  BY <1>1, <1>3, <1>4, <1>5, <1>6

\* The process dies: every handler with it, and what they had not committed.
LEMMA CrashKeeps ==
  ASSUME IInv, Crash
  PROVE  IInv'
<1>1. /\ work' = db /\ db' = db /\ writer' = [f \in Files |-> None]
      /\ job' = [p \in Procs |-> Idle] /\ spent' = {}
      /\ restarts' = restarts + 1 /\ faults' = faults
  BY DEF Crash
<1>2. /\ db \in Both /\ Sound(db.economy) /\ restarts \in Nat /\ faults \in Nat
      /\ writer \in [Files -> Procs \cup {None}]
  BY FilesOf DEF IInv, CoreInv, TypeOK
<1>3. \A p \in Procs : job'[p] = Idle
  BY <1>1
<1>4. TypeOK'
  <2>1. db \in [economy : Economy, moderation : Moderation]
    BY DEF IInv, CoreInv, TypeOK
  <2>2. job' \in [Procs -> Job] /\ writer' \in [Files -> Procs \cup {None}]
    BY <1>1, IdleJob
  <2>3. faults' \in Nat /\ restarts' \in Nat
    BY <1>1, <1>2
  <2>. QED
    BY <1>1, <2>1, <2>2, <2>3 DEF TypeOK
<1>5. BooksFit'
  BY <1>1, <1>2, <1>3, FollowsSelf, IdleFits DEF BooksFit
<1>6. LocksHold'
  BY <1>1, <1>3, IdleJob DEF LocksHold, Inside, Free
<1>7. CardsHold'
  <2>1. \A c \in Cards : Bound(db.economy, c, 1 + restarts)
    BY DEF IInv, CoreInv, CardsHold
  <2>2. \A c \in Cards : Bound(db.economy, c, restarts') /\ Bound(db.economy, c, 1 + restarts')
    BY <1>1, <1>2, <2>1, CountsAreNumbers DEF Bound
  <2>. QED
    BY <1>1, <1>3, <2>2, IdleJob DEF CardsHold
<1>8. RoomHolds'
  <2>1. Buying' = {}
    BY <1>3, IdleJob DEF Buying, At
  <2>2. Cardinality({}) = 0 /\ Cardinality(Unsold(db.economy)) \in Nat
    BY FS_EmptySet, CountsAreNumbers
  <2>. QED
    BY <1>1, <2>1, <2>2 DEF RoomHolds
<1>9. \A p \in Procs : Lead(p)'
  BY <1>3, IdleJob DEF Lead, At
<1>10. TearsHold'
  <2>1. Lifting' = {} /\ Charging' = {} /\ Uncharged' = {}
    BY <1>3, IdleJob DEF Lifting, Charging, Uncharged, At
  <2>2. \A p \in Procs : /\ p \in Lifting => p = writer["economy"]
                         /\ p \in Charging \cup Uncharged => p = writer["moderation"]
    BY JobAt DEF Lifting, Charging, Uncharged, At, Inside, Files
  <2>3. \A S \in SUBSET Procs : (\E x : S \subseteq {x}) => Cardinality(S) \in {0, 1}
    <3> SUFFICES ASSUME NEW S, NEW x, S \subseteq {x} PROVE Cardinality(S) \in {0, 1}
      OBVIOUS
    <3>1. S = {} \/ S = {x}
      OBVIOUS
    <3>2. Cardinality({}) = 0 /\ Cardinality({x}) = 1
      BY FS_EmptySet, FS_Singleton
    <3>. QED
      BY <3>1, <3>2
  <2>4. /\ Cardinality(Lifting) \in {0, 1}
        /\ Cardinality(Charging) + Cardinality(Uncharged) \in {0, 1}
    <3>1. Lifting \in SUBSET Procs /\ Lifting \subseteq {writer["economy"]}
      BY <2>2 DEF Lifting
    <3>2. /\ Charging \in SUBSET Procs /\ Charging \subseteq {writer["moderation"]}
          /\ Uncharged \in SUBSET Procs /\ Uncharged \subseteq {writer["moderation"]}
      BY <2>2 DEF Charging, Uncharged
    <3>3. Charging = {} \/ Uncharged = {}
      BY <3>2 DEF Charging, Uncharged
    <3>4. /\ Cardinality(Lifting) \in {0, 1} /\ Cardinality(Charging) \in {0, 1}
          /\ Cardinality(Uncharged) \in {0, 1}
      BY <2>3, <3>1, <3>2
    <3>. QED
      BY <3>3, <3>4, FS_EmptySet
  <2>5. Cardinality({}) = 0
    BY FS_EmptySet
  <2>6. Faults' = Faults + 1 /\ Faults \in Nat
    BY <1>1, <1>2 DEF Faults
  <2>7. Untied' = Untied + Cardinality(Lifting) /\ Torn' = Torn + Cardinality(Charging)
        /\ Untied \in Int /\ Torn \in Int
    BY <1>1, <2>1, <2>4, <2>5, TearNumbers DEF Untied, Torn
  <2>8. TearsHold
    BY DEF IInv
  <2>9. Cardinality(Charging) \in Nat /\ Cardinality(Uncharged) \in Nat
    BY TearNumbers
  <2>. HIDE DEF Untied, Torn, Faults
  <2>. QED
    BY <2>1, <2>4, <2>5, <2>6, <2>7, <2>8, <2>9 DEF TearsHold
<1>. QED
  BY <1>4, <1>5, <1>6, <1>7, <1>8, <1>9, <1>10 DEF IInv, CoreInv

LEMMA StutterKeeps == ASSUME IInv, UNCHANGED vars PROVE IInv'
<1>1. UNCHANGED <<db, work, writer, job, spent, faults, restarts>>
  BY DEF vars, env
<1>2. (TypeOK /\ BooksFit /\ LocksHold)'
  BY <1>1 DEF IInv, CoreInv, TypeOK, BooksFit, LocksHold, Free
<1>3. (CardsHold /\ RoomHolds)'
  BY <1>1 DEF IInv, CoreInv, CardsHold, RoomHolds, Buying, At
<1>4. \A p \in Procs : Lead(p)'
  BY <1>1 DEF IInv, Lead, At
<1>5. TearsHold'
  BY <1>1 DEF IInv, TearsHold, Untied, Torn, Lifting, Charging, Uncharged, Faults, At
<1>. QED
  BY <1>2, <1>3, <1>4, <1>5 DEF IInv, CoreInv

\* One step of the shop keeps the invariant.
LEMMA StepKeeps == IInv /\ [Next]_vars => IInv'
<1> SUFFICES ASSUME IInv, [Next]_vars PROVE IInv'
  OBVIOUS
<1>1. ASSUME NEW p \in Procs, NEW i \in Items, SlashBuy(p, i) PROVE IInv'
  BY <1>1, SlashBuyKeeps
<1>2. ASSUME NEW p \in Procs, NEW c \in Cards, TapConfirm(p, c) PROVE IInv'
  BY <1>2, TapConfirmKeeps
<1>3. ASSUME NEW p \in Procs, NEW e \in Entries, UseTap(p, e) PROVE IInv'
  BY <1>3, UseTapKeeps
<1>4. ASSUME NEW p \in Procs, NEW amount \in Fines, FineTap(p, amount) PROVE IInv'
  BY <1>4, FineTapKeeps
<1>5. ASSUME NEW p \in Procs, DailyRead(p) PROVE IInv'
  BY <1>5, DailyReadKeeps
<1>6. ASSUME NEW p \in Procs, Goes(p) PROVE IInv'
  <2>1. CASE BuyWrite(p)         BY <2>1, BuyWriteKeeps
  <2>2. CASE UseWrite(p)         BY <2>2, UseWriteKeeps
  <2>3. CASE Receipt(p)          BY <2>3, ReceiptKeeps
  <2>4. CASE UnwarnSelect(p)     BY <2>4, UnwarnSelectKeeps
  <2>5. CASE UnwarnRemove(p)     BY <2>5, UnwarnRemoveKeeps
  <2>6. CASE UnwarnConsume(p)    BY <2>6, UnwarnConsumeKeeps
  <2>7. CASE UnwarnLift(p)       BY <2>7, UnwarnLiftKeeps
  <2>8. CASE UnwarnCheckpoint(p) BY <2>8, UnwarnCheckpointKeeps
  <2>9. CASE FineDebit(p)        BY <2>9, FineDebitKeeps
  <2>10. CASE FineLog(p)         BY <2>10, FineLogKeeps
  <2>11. CASE FineCharge(p)      BY <2>11, FineChargeKeeps
  <2>12. CASE FineRecord(p)      BY <2>12, FineRecordKeeps
  <2>13. CASE DailyClaim(p)      BY <2>13, DailyClaimKeeps
  <2>14. CASE BusyTimeout(p)     BY <2>14, BusyTimeoutKeeps
  <2>. QED
    BY <1>6, <2>1, <2>2, <2>3, <2>4, <2>5, <2>6, <2>7, <2>8, <2>9, <2>10, <2>11, <2>12, <2>13,
       <2>14 DEF Goes
<1>7. CASE Crash
  BY <1>7, CrashKeeps
<1>8. CASE UNCHANGED vars
  BY <1>8, StutterKeeps
<1>. QED
  BY <1>1, <1>2, <1>3, <1>4, <1>5, <1>6, <1>7, <1>8 DEF Next

-----------------------------------------------------------------------------
(* The first state.                                                         *)

\* The entry the user has at first.
LEMMA FirstItem ==
  ASSUME NEW i \in Items
  PROVE  LET x == [NoEntry EXCEPT !.item = i]
         IN x.item = i /\ ~ x.used /\ x.card = None /\ x.paid = 0 /\ x \in Entry
<1> DEFINE x == [NoEntry EXCEPT !.item = i]
<1>1. PICK u, z : u = FALSE /\ z = 0 /\ NoEntry = [item |-> None, used |-> u, card |-> None, paid |-> z]
  BY Zenon DEF NoEntry
<1>2. x = [item |-> i, used |-> u, card |-> None, paid |-> z]
  BY <1>1
<1>. HIDE DEF x
<1>3. x.item = i /\ x.used = u /\ x.card = None /\ x.paid = z
  BY <1>2
<1>4. u \in BOOLEAN /\ z \in Nat
  BY <1>1
<1>5. x \in Entry
  BY <1>2, <1>4 DEF Entry
<1>. QED
  BY <1>1, <1>3, <1>5 DEF x

FirstEntries(i) ==
  [e \in Entries |-> IF e = Min(Entries) THEN [NoEntry EXCEPT !.item = i] ELSE NoEntry]

LEMMA EntriesAtFirst ==
  ASSUME NEW i \in Items
  PROVE  LET r == FirstEntries(i)
         IN /\ r \in [Entries -> Entry] /\ r[Min(Entries)].item = i
            /\ \A e \in Entries : ~ r[e].used /\ r[e].card = None /\ r[e].paid = 0
            /\ \A e \in Entries : e # Min(Entries) => r[e] = NoEntry /\ r[e].item = None
<1> DEFINE x == [NoEntry EXCEPT !.item = i]
           r == FirstEntries(i)
<1>1. x.item = i /\ ~ x.used /\ x.card = None /\ x.paid = 0 /\ x \in Entry
  BY FirstItem
<1>2. PICK u, z : u = FALSE /\ z = 0 /\ NoEntry = [item |-> None, used |-> u, card |-> None, paid |-> z]
  BY Zenon DEF NoEntry
<1>3. NoEntry \in Entry /\ NoEntry.item = None /\ NoEntry.used = u /\ NoEntry.card = None /\ NoEntry.paid = z
  <2>1. u \in BOOLEAN /\ z \in Nat
    BY <1>2
  <2>. QED
    BY <1>2, <2>1 DEF Entry
<1>4. r = [e \in Entries |-> IF e = Min(Entries) THEN x ELSE NoEntry]
  BY DEF FirstEntries
<1>. HIDE DEF x, r
<1>5. r[Min(Entries)] = x /\ \A e \in Entries : e # Min(Entries) => r[e] = NoEntry
  BY <1>4, FirstEntry
<1>6. r \in [Entries -> Entry]
  BY <1>1, <1>3, <1>4
<1>7. \A e \in Entries : ~ r[e].used /\ r[e].card = None /\ r[e].paid = 0
  BY <1>1, <1>2, <1>3, <1>5
<1>. QED
  BY <1>1, <1>3, <1>5, <1>6, <1>7 DEF r

LEMMA FirstBook ==
  ASSUME Init
  PROVE  LET b == db.economy
         IN /\ Sound(b) /\ b.fines = 0
            /\ \A k : UsedIn(b, k) = {}
            /\ \A c \in Cards : OnCard(b, c) = {}
<1> DEFINE b == db.economy
<1>1. PICK i \in Owned :
         db = [economy |-> [wallet |-> Seeded(Welcome), stock |-> Stock, entry |-> FirstEntries(i),
                            armed |-> FALSE, claimed |-> FALSE, claims |-> 0, doubled |-> 0,
                            fines |-> 0, fined |-> 0],
               moderation |-> [active |-> Warnings, fines |-> 0]]
  BY Zenon DEF Init, FirstEntries
<1>2. PICK u, z : u = FALSE /\ z = 0 /\
         b = [wallet |-> Seeded(Welcome), stock |-> Stock, entry |-> FirstEntries(i),
              armed |-> u, claimed |-> u, claims |-> z, doubled |-> z, fines |-> z, fined |-> z]
  BY <1>1, Zenon
<1>3. /\ b.wallet = Seeded(Welcome) /\ b.stock = Stock /\ b.entry = FirstEntries(i)
      /\ b.armed = u /\ b.claims = z /\ b.doubled = z /\ b.fines = z /\ b.fined = z
  BY <1>2
<1>4. i \in Items /\ i # None
  BY ShopAssumption, NoneApart
<1>5. /\ Seeded(Welcome) \in Wallets /\ Seeded(Welcome).spent = 0 /\ Seeded(Welcome).earned = 0
      /\ Seeded(Welcome).balance = Welcome
  BY ShopAssumption DEF Seeded, Wallets
<1>6. /\ FirstEntries(i) \in [Entries -> Entry] /\ FirstEntries(i)[Min(Entries)].item = i
      /\ \A e \in Entries : /\ ~ FirstEntries(i)[e].used /\ FirstEntries(i)[e].card = None
                            /\ FirstEntries(i)[e].paid = 0
      /\ \A e \in Entries : e # Min(Entries)
           => FirstEntries(i)[e] = NoEntry /\ FirstEntries(i)[e].item = None
  BY <1>4, EntriesAtFirst
<1>7. b \in Economy
  <2>1. u \in BOOLEAN /\ z \in Nat /\ Stock \in [Items -> Nat \cup {-1}]
    BY <1>2, ShopAssumption
  <2>. HIDE DEF b
  <2>. QED
    BY <1>2, <1>5, <1>6, <2>1 DEF Economy
<1>. HIDE DEF b
<1>8. /\ b.entry[Min(Entries)].item = i
      /\ \A e \in Entries : ~ b.entry[e].used /\ b.entry[e].card = None /\ b.entry[e].paid = 0
      /\ \A e \in Entries : e # Min(Entries) => b.entry[e] = NoEntry /\ b.entry[e].item = None
  BY <1>3, <1>6
<1>9. /\ \A k : UsedIn(b, k) = {}
      /\ \A c \in Cards : OnCard(b, c) = {}
      /\ \A j \in Items : SoldIn(b, j) = {}
  BY <1>8, NoneApart DEF UsedIn, OnCard, SoldIn
<1>10. RowsFit(b)
  BY <1>3, <1>4, <1>8 DEF RowsFit
<1>11. GoodsAgree(b)
  <2>1. Cardinality({}) = 0
    BY FS_EmptySet
  <2>2. Stock \in [Items -> Nat \cup {-1}]
    BY ShopAssumption
  <2>3. \A j \in Items : Stock[j] # -1 => b.stock[j] + Cardinality(SoldIn(b, j)) = Stock[j]
    BY <1>3, <1>9, <2>1, <2>2
  <2>4. Cardinality(UsedIn(b, "buster")) = 0
    BY <1>9, <2>1
  <2>5. b.doubled = 0 /\ ~ b.armed
    BY <1>2, <1>3
  <2>. QED
    BY <2>3, <2>4, <2>5 DEF GoodsAgree
<1>12. CoinsAgree(b)
  <2>1. \A j \in Items : Outlay(b)[j] = 0
    <3>1. \A n \in Nat : n * 0 = 0
      OBVIOUS
    <3>2. \A j \in Items : Cardinality(SoldIn(b, j)) = 0 /\ Price[j] \in Nat
      BY <1>9, FS_EmptySet, ShopAssumption
    <3>. QED
      BY <3>1, <3>2 DEF Outlay
  <2>2. \A e \in Entries : Payout(b)[e] = 0
    BY <1>8 DEF Payout
  <2>3. IsFiniteSet(Items) /\ IsFiniteSet(Entries) /\ Reward \in Nat /\ Welcome \in Nat
    BY ShopAssumption
  <2>4. SumOver(Outlay(b), Items) = 0 /\ SumOver(Payout(b), Entries) = 0
    <3> DEFINE f == Outlay(b)
               g == Payout(b)
    <3>1. (\A j \in Items : f[j] = 0) /\ \A e \in Entries : g[e] = 0
      BY <2>1, <2>2
    <3>. HIDE DEF f, g
    <3>2. SumOver(f, Items) = 0 /\ SumOver(g, Entries) = 0
      BY <2>3, <3>1, SumZero
    <3>. QED
      BY <3>2 DEF f, g
  <2>5. b.fined = 0 /\ b.claims = 0 /\ b.doubled = 0 /\ b.wallet.spent = 0
        /\ b.wallet.earned = 0 /\ b.wallet.balance = Welcome
    BY <1>2, <1>3, <1>5
  <2>. QED
    BY <2>3, <2>4, <2>5 DEF CoinsAgree, Worth
<1>13. b.fines = 0
  BY <1>2, <1>3
<1>. QED
  BY <1>7, <1>9, <1>10, <1>11, <1>12, <1>13 DEF Sound, b

LEMMA InitHolds == Init => IInv
<1> SUFFICES ASSUME Init PROVE IInv
  OBVIOUS
<1>1. /\ Sound(db.economy) /\ db.economy.fines = 0
      /\ \A k : UsedIn(db.economy, k) = {}
      /\ \A c \in Cards : OnCard(db.economy, c) = {}
  BY FirstBook
<1>2. /\ work = db /\ writer = [f \in Files |-> None] /\ job = [p \in Procs |-> Idle]
      /\ spent = {} /\ faults = 0 /\ restarts = 0
  BY DEF Init
<1>3. /\ db = [economy |-> db.economy, moderation |-> db.moderation]
      /\ db.moderation = [active |-> Warnings, fines |-> 0]
  <2>1. PICK x, z : z = 0 /\ db = [economy |-> x, moderation |-> [active |-> Warnings, fines |-> z]]
    BY Zenon DEF Init
  <2>. QED
    BY <2>1
<1>4. /\ db.moderation.active = Warnings /\ db.moderation.fines = 0 /\ db.moderation \in Moderation
  BY <1>3 DEF Moderation
<1>5. \A p \in Procs : job[p] = Idle
  BY <1>2
<1>6. TypeOK
  <2>1. db \in [economy : Economy, moderation : Moderation]
    BY <1>1, <1>3, <1>4 DEF Sound
  <2>2. job \in [Procs -> Job] /\ writer \in [Files -> Procs \cup {None}]
    BY <1>2, IdleJob
  <2>. QED
    BY <1>2, <2>1, <2>2 DEF TypeOK
<1>7. BooksFit
  BY <1>1, <1>2, <1>5, FollowsSelf, IdleFits DEF BooksFit
<1>8. LocksHold
  BY <1>2, <1>5, IdleJob DEF LocksHold, Inside, Free
<1>9. Cardinality({}) = 0
  BY FS_EmptySet
<1>10. CardsHold
  <2>1. \A c \in Cards : Bound(db.economy, c, restarts) /\ Bound(db.economy, c, 1 + restarts)
    BY <1>1, <1>2, <1>9 DEF Bound
  <2>. QED
    BY <1>2, <1>5, <2>1, IdleJob DEF CardsHold
<1>11. RoomHolds
  <2>1. Buying = {}
    BY <1>5, IdleJob DEF Buying, At
  <2>2. Cardinality(Unsold(work.economy)) \in Nat
    BY CountsAreNumbers
  <2>. QED
    BY <1>9, <2>1, <2>2 DEF RoomHolds
<1>12. \A p \in Procs : Lead(p)
  BY <1>5, IdleJob DEF Lead, At
<1>13. TearsHold
  <2>1. Lifting = {} /\ Charging = {} /\ Uncharged = {}
    BY <1>5, IdleJob DEF Lifting, Charging, Uncharged, At
  <2>2. Cardinality(Warnings) \in Nat
    BY ShopAssumption, FS_CardinalityType
  <2>3. Untied = 0 /\ Torn = 0 /\ Faults = 0
    BY <1>1, <1>2, <1>4, <1>9, <2>1, <2>2 DEF Untied, Torn, Faults
  <2>. QED
    BY <1>9, <2>1, <2>3 DEF TearsHold
<1>. QED
  BY <1>6, <1>7, <1>8, <1>10, <1>11, <1>12, <1>13 DEF IInv, CoreInv

-----------------------------------------------------------------------------
(* What the invariant says of the shop.                                     *)

\* The invariant holds of every behaviour.
LEMMA InvariantHolds == Spec => []IInv
<1>. QED
  BY InitHolds, StepKeeps, PTL DEF Spec

\* The books of the committed file are those the invariant calls sound.
LEMMA BooksFollow == IInv => BooksAgree
<1> SUFFICES ASSUME IInv PROVE BooksAgree
  OBVIOUS
<1>1. TypeOK /\ Sound(db.economy) /\ CardsHold
  BY DEF IInv, CoreInv, BooksFit
<1>2. \A i : Sold(i) = SoldIn(db.economy, i)
  BY DEF Sold, SoldIn
<1>3. CoinsHaveRows
  <2>1. CoinsAgree(db.economy) /\ RowsFit(db.economy)
    BY <1>1 DEF Sound
  <2>2. [i \in Items |-> Price[i] * Cardinality(Sold(i))] = Outlay(db.economy)
    BY <1>2 DEF Outlay
  <2>3. [e \in Entries |-> db.economy.entry[e].paid] = Payout(db.economy)
    BY DEF Payout
  <2>. QED
    BY <2>1, <2>2, <2>3 DEF CoinsHaveRows, CoinsAgree, RowsFit
<1>4. ItemsAreReal
  <2>1. GoodsAgree(db.economy)
    BY <1>1 DEF Sound
  <2>2. \A c \in Cards : Cardinality({e \in Entries : db.economy.entry[e].card = c}) <= 1 + restarts
    BY <1>1 DEF CardsHold, Bound, OnCard
  <2>. QED
    BY <1>2, <2>1, <2>2 DEF ItemsAreReal, GoodsAgree, UsedIn
<1>. QED
  BY <1>1, <1>3, <1>4 DEF BooksAgree

\* What Untied and Torn bound is what the two files differ by.
LEMMA TearsFollow == IInv => TearsAreFaults
<1> SUFFICES ASSUME IInv PROVE TearsAreFaults
  OBVIOUS
<1>1. /\ Untied \in 0 .. Faults
      /\ Torn - Cardinality(Uncharged) >= - Faults /\ Torn <= Faults
  BY DEF IInv, TearsHold
<1>2. Faults \in Nat /\ Cardinality(Uncharged) \in Nat /\ Torn \in Int
  BY TearNumbers DEF Torn
<1>3. Torn \in - Faults .. Faults
  BY <1>1, <1>2
<1>. QED
  BY <1>1, <1>3 DEF TearsAreFaults, Untied, Torn, Faults, UsedIn, Lifting, Charging

\* Every coin of the wallet has its row, stock and inventory agree, a buster doubles
\* one bonus and a card sells one item, whatever is bought, used, claimed and fined
\* at once and wherever a commit fails or the process dies.
THEOREM BooksAlwaysAgree == Spec => []BooksAgree
<1>. QED
  BY InvariantHolds, BooksFollow, PTL

\* economy.db and moderation.db part by one row for each commit that failed and each
\* death of the process, and never otherwise: a warning is lifted with its item
\* consumed, a fine is taken with its record.
THEOREM TearsAreAlwaysFaults == Spec => []TearsAreFaults
<1>. QED
  BY InvariantHolds, TearsFollow, PTL

-----------------------------------------------------------------------------
(* CommandAccess: the map of per-command ranks, its cache and the gate's    *)
(* copy.                                                                    *)

Maps == [version : Nat, off : BOOLEAN]
Places == [step : {"idle", "missed", "read", "held", "saving"}, gate : BOOLEAN,
           snapshot : Nat, map : Maps \cup {Nothing}]

\* Every variable stays in its set.
Typed ==
  /\ rows \in Maps /\ announced \in Nat /\ generation \in Nat
  /\ cache \in Maps \cup {Nothing}
  /\ reader \in [Readers -> Places] /\ admin \in [Admins -> Nat]

\* What was announced, or is about to be, is committed.
AnnouncedIsCommitted ==
  /\ announced <= rows.version
  /\ \A a \in Admins : admin[a] <= rows.version

\* A snapshot is of the past; a read that still holds the current generation is
\* current.
Current(r) ==
  /\ reader[r].snapshot <= generation
  /\ reader[r].step \in {"read", "held"} =>
       /\ reader[r].map \in Maps
       /\ reader[r].snapshot = generation => reader[r].map.version >= announced

AccessInv == Typed /\ AnnouncedIsCommitted /\ CacheIsCurrent /\ \A r \in Readers : Current(r)

\* What Store leaves in the gate's copy and in the record of its reader.
LEMMA StoreKeeps ==
  ASSUME NEW r \in Readers, NEW map \in Maps, map = reader[r].map, Typed, Store(r)
  PROVE  /\ last' # last => generation = reader[r].snapshot /\ last' = map
         /\ reader' \in [Readers -> Places]
         /\ \A q \in Readers : q # r => reader'[q] = reader[q]
         /\ reader'[r].step \notin {"read", "held"} /\ reader'[r].snapshot = 0
PROOF
<1>0. NoRead \in Places /\ [NoRead EXCEPT !.step = "saving", !.map = map] \in Places
  BY DEF NoRead, Places
<1>1. CASE reader' = [reader EXCEPT ![r] = NoRead]
  <2>1. reader'[r] = NoRead BY <1>1 DEF Typed
  <2>2. NoRead.step \notin {"read", "held"} /\ NoRead.snapshot = 0 BY DEF NoRead
  <2> QED BY <1>0, <1>1, <2>1, <2>2 DEF Store, Typed
<1>2. CASE /\ generation = reader[r].snapshot
           /\ reader' = [reader EXCEPT ![r] = [NoRead EXCEPT !.step = "saving", !.map = map]]
  <2>1. reader'[r] = [NoRead EXCEPT !.step = "saving", !.map = map] BY <1>2 DEF Typed
  <2>2. reader'[r].step \notin {"read", "held"} /\ reader'[r].snapshot = 0 BY <2>1 DEF NoRead
  <2> QED BY <1>0, <1>2, <2>2 DEF Store, Typed
<1> QED BY <1>1, <1>2 DEF Store

LEMMA AccessStarts == AccessInit => AccessInv
PROOF
<1> SUFFICES ASSUME AccessInit PROVE AccessInv
  OBVIOUS
<1>1. NoRead \in Places /\ NoRead.snapshot = 0 /\ NoRead.step = "idle"
  BY DEF NoRead, Places
<1> QED BY <1>1 DEF AccessInit, AccessInv, Typed, AnnouncedIsCommitted, Current, CacheIsCurrent, Map, Maps

\* One step of the system keeps the invariant.
LEMMA AccessStep == AccessInv /\ [AccessNext]_accessVars => AccessInv'
PROOF
<1> SUFFICES ASSUME AccessInv, [AccessNext]_accessVars PROVE AccessInv'
  OBVIOUS
<1> USE DEF AccessInv
<1>1. ASSUME NEW a \in Admins, NEW off \in BOOLEAN, Cmdcfg(a, off) PROVE AccessInv'
  <2>1. Typed'
    BY <1>1 DEF Cmdcfg, Typed, Map, Maps, memoryVars, fileVars
  <2>2. AnnouncedIsCommitted'
    BY <1>1 DEF Cmdcfg, AnnouncedIsCommitted, Typed, Map, Maps
  <2> QED BY <2>1, <2>2, <1>1 DEF Cmdcfg, Current, CacheIsCurrent, memoryVars, fileVars
<1>2. ASSUME NEW a \in Admins, Clear(a) PROVE AccessInv'
  <2>1. Typed' /\ AnnouncedIsCommitted'
    BY <1>2 DEF Clear, Typed, AnnouncedIsCommitted, Maps
  <2>2. \A r \in Readers : Current(r)'
    BY <1>2 DEF Clear, Current, Typed, Places
  <2> QED BY <2>1, <2>2, <1>2 DEF Clear, CacheIsCurrent
<1>3. ASSUME NEW r \in Readers, Hit(r) PROVE AccessInv'
  <2>1. cache \in Maps /\ cache.version >= announced
    BY <1>3 DEF Hit, Typed, CacheIsCurrent
  <2>2. [step |-> "held", gate |-> TRUE, snapshot |-> generation, map |-> cache] \in Places
    BY <2>1 DEF Typed, Places
  <2>3. Typed'
    BY <1>3, <2>2 DEF Hit, Typed, memoryVars
  <2>4. \A q \in Readers : Current(q)'
    BY <1>3, <2>1 DEF Hit, Typed, Current, memoryVars
  <2> QED BY <2>3, <2>4, <1>3 DEF Hit, AnnouncedIsCommitted, CacheIsCurrent, memoryVars
<1>4. ASSUME NEW r \in Readers, NEW gate \in BOOLEAN, Miss(r, gate) PROVE AccessInv'
  <2>1. [NoRead EXCEPT !.step = "missed", !.gate = gate, !.snapshot = generation] \in Places
    BY DEF NoRead, Places, Typed
  <2>2. Typed' /\ \A q \in Readers : Current(q)'
    BY <1>4, <2>1 DEF Miss, Typed, Current, NoRead, memoryVars
  <2> QED BY <2>2, <1>4 DEF Miss, AnnouncedIsCommitted, CacheIsCurrent, memoryVars
<1>5. ASSUME NEW r \in Readers, Read(r) PROVE AccessInv'
  <2>1. Typed' /\ reader'[r].map = rows /\ reader'[r].snapshot = reader[r].snapshot
    BY <1>5 DEF Read, Typed, Places, memoryVars
  <2>2. \A q \in Readers : Current(q)'
    BY <2>1, <1>5 DEF Read, Typed, Current, AnnouncedIsCommitted, Maps, memoryVars
  <2> QED BY <2>1, <2>2, <1>5 DEF Read, AnnouncedIsCommitted, CacheIsCurrent, memoryVars
<1>6. ASSUME NEW r \in Readers, Finish(r) PROVE AccessInv'
  <2>0. NoRead \in Places /\ NoRead.step = "idle" /\ NoRead.snapshot = 0
    BY DEF NoRead, Places
  <2>1. reader[r].map \in Maps
    BY <1>6 DEF Finish, Current
  <2>2. reader' \in [Readers -> Places] /\ \A q \in Readers : Current(q)'
    <3>1. CASE reader[r].gate
      <4>1. /\ reader' = [reader EXCEPT ![r] = [reader[r] EXCEPT !.step = "held"]]
            /\ UNCHANGED <<generation, announced>>
        BY <1>6, <3>1 DEF Finish
      <4>2. [reader[r] EXCEPT !.step = "held"] \in Places BY DEF Typed, Places
      <4>3. /\ reader'[r].map = reader[r].map /\ reader'[r].snapshot = reader[r].snapshot
            /\ reader[r].step = "read"
        BY <1>6, <4>1 DEF Finish, Typed, Places
      <4>4. Current(r)' BY <4>1, <4>3 DEF Current
      <4>5. \A q \in Readers : q # r => reader'[q] = reader[q] BY <4>1 DEF Typed
      <4> QED BY <4>1, <4>2, <4>4, <4>5 DEF Typed, Current
    <3>2. CASE ~ reader[r].gate
      BY <1>6, <2>0, <3>2 DEF Finish, Typed, Current
    <3> QED BY <3>1, <3>2
  <2>3. cache' \in Maps \cup {Nothing} /\ CacheIsCurrent'
    BY <1>6, <2>1 DEF Finish, Fill, Typed, Current, CacheIsCurrent
  <2> QED BY <2>2, <2>3, <1>6 DEF Finish, Typed, AnnouncedIsCommitted
<1>13. ASSUME NEW r \in Readers, Keep(r) PROVE AccessInv'
  <2>1. reader[r].map \in Maps /\ Store(r)
    BY <1>13 DEF Keep, Current
  <2>2. Typed' /\ \A q \in Readers : Current(q)'
    BY <1>13, <2>1, StoreKeeps DEF Keep, Typed, Current
  <2> QED BY <2>2, <1>13 DEF Keep, AnnouncedIsCommitted, CacheIsCurrent
<1>7. ASSUME NEW r \in Readers, StaleDenial(r) PROVE AccessInv'
  <2>1. NoRead \in Places /\ NoRead.step = "idle" /\ NoRead.snapshot = 0
    BY DEF NoRead, Places
  <2> QED BY <2>1, <1>7 DEF StaleDenial, Typed, AnnouncedIsCommitted, Current, CacheIsCurrent, fileVars
<1>8. ASSUME NEW r \in Readers, NEW written \in BOOLEAN, Persist(r, written) PROVE AccessInv'
  <2>1. NoRead \in Places /\ NoRead.step = "idle" /\ NoRead.snapshot = 0
    BY DEF NoRead, Places
  <2> QED BY <2>1, <1>8 DEF Persist, Typed, AnnouncedIsCommitted, Current, CacheIsCurrent, memoryVars
<1>9. CASE Expire
  BY <1>9 DEF Expire, Typed, AnnouncedIsCommitted, Current, CacheIsCurrent, fileVars
<1>10. CASE Outage
  BY <1>10 DEF Outage, Typed, AnnouncedIsCommitted, Current, CacheIsCurrent, fileVars, memoryVars
<1>11. CASE Restart
  <2>1. NoRead \in Places /\ NoRead.step = "idle" /\ NoRead.snapshot = 0
    BY DEF NoRead, Places
  <2> QED BY <2>1, <1>11 DEF Restart, Typed, AnnouncedIsCommitted, Current, CacheIsCurrent, Maps
<1>12. CASE UNCHANGED accessVars
  BY <1>12 DEF accessVars, Typed, AnnouncedIsCommitted, Current, CacheIsCurrent, fileVars, memoryVars
<1> QED BY <1>1, <1>2, <1>3, <1>4, <1>5, <1>6, <1>7, <1>8, <1>9, <1>10, <1>11, <1>12, <1>13 DEF AccessNext

\* The invariant holds of every behaviour.
LEMMA AccessAlways == AccessSpec => []AccessInv
PROOF
<1> QED BY AccessStarts, AccessStep, PTL DEF AccessSpec

\* No map older than that of a finished /cmdcfg is in the cache (#1942), for any
\* number of readers and commands.
THEOREM CacheIsAlwaysCurrent == AccessSpec => []CacheIsCurrent
PROOF
<1>1. AccessInv => CacheIsCurrent BY DEF AccessInv
<1> QED BY <1>1, AccessAlways, PTL

\* The copy that the kill switch is enforced from never takes a map that a
\* finished /cmdcfg replaced (#1977).
THEOREM StoresAreAlwaysCurrent == AccessSpec => StoresAreCurrent
PROOF
<1> DEFINE Kept == last' # last /\ last' # Nothing =>
                     last'.version >= announced \/ (loaded' /\ ~ loaded)
<1>1. ASSUME AccessInv, [AccessNext]_accessVars PROVE [Kept]_accessVars
  <2>1. ASSUME NEW r \in Readers, Keep(r) PROVE Kept
    BY <2>1, <1>1, StoreKeeps DEF Keep, AccessInv, Current
  <2>3. ASSUME NEW r \in Readers, StaleDenial(r) PROVE Kept
    BY <2>3 DEF StaleDenial
  <2>4. CASE Restart BY <2>4 DEF Restart
  <2>5. CASE UNCHANGED last BY <2>5
  <2> QED BY <1>1, <2>1, <2>3, <2>4, <2>5
       DEF AccessNext, Cmdcfg, Clear, Hit, Finish, Miss, Read, Persist, Expire, Outage, memoryVars, accessVars
<1> QED BY <1>1, AccessAlways, PTL DEF AccessSpec, StoresAreCurrent

-----------------------------------------------------------------------------
Saving(r) == reader[r].step = "saving"

\* What is on its way to the file is what the copy says, one write at a time; with
\* none on its way the file says it already.
FileInv ==
  /\ last \in Maps \cup {Nothing} /\ disk \in Maps \cup {Nothing}
  /\ \A r \in Readers : Saving(r) => last # Nothing /\ reader[r].map \in Maps
  /\ ~ spoilt /\ last # Nothing =>
       /\ \A r \in Readers : Saving(r) => Same(reader[r].map, last)
       /\ \A r, q \in Readers : Saving(r) /\ Saving(q) => r = q
       /\ (\A r \in Readers : ~ Saving(r)) => Same(disk, last)

\* Steps that move no write keep it.
NoWriteMoves ==
  /\ disk' = disk /\ (spoilt' <=> spoilt)
  /\ last' = last \/ (last = Nothing /\ last' = disk)
  /\ \A q \in Readers :
       /\ reader'[q].step = "saving" <=> reader[q].step = "saving"
       /\ reader[q].step = "saving" => reader'[q] = reader[q]

LEMMA FileKept == FileInv /\ NoWriteMoves => FileInv'
PROOF
<1> SUFFICES ASSUME FileInv, NoWriteMoves PROVE FileInv'
  OBVIOUS
<1>0. /\ disk' = disk /\ (spoilt' <=> spoilt)
      /\ last' = last \/ (last = Nothing /\ last' = disk)
      /\ \A q \in Readers : Saving(q)' <=> Saving(q)
  BY DEF NoWriteMoves, Saving
<1>1. \A q \in Readers : Saving(q)' => Saving(q) /\ reader'[q] = reader[q]
  BY DEF NoWriteMoves, Saving
<1>2. CASE last' = last
  <2>1. \A r \in Readers : Saving(r)' => last' # Nothing /\ reader'[r].map \in Maps
    BY <1>0, <1>1, <1>2 DEF FileInv
  <2>2. ASSUME ~ spoilt', last' # Nothing
        PROVE  /\ \A r \in Readers : Saving(r)' => Same(reader'[r].map, last')
               /\ \A r, q \in Readers : Saving(r)' /\ Saving(q)' => r = q
    BY <1>0, <1>1, <1>2, <2>2 DEF FileInv
  <2>3. ASSUME ~ spoilt', last' # Nothing, \A r \in Readers : ~ Saving(r)'
        PROVE  Same(disk', last')
    <3>1. \A r \in Readers : ~ Saving(r) BY <1>0, <2>3
    <3> QED BY <1>0, <3>1, <1>2, <2>3 DEF FileInv
  <2> QED BY <1>0, <2>1, <2>2, <2>3, <1>2 DEF FileInv
<1>3. CASE last = Nothing /\ last' = disk
  <2>1. \A r \in Readers : ~ Saving(r)' BY <1>0, <1>1, <1>3 DEF FileInv
  <2>2. last' # Nothing => Same(disk', last') BY <1>0, <1>3 DEF Same
  <2> QED BY <1>0, <2>1, <2>2, <1>3 DEF FileInv
<1> QED BY <1>0, <1>2, <1>3

\* A read that ends keeps it.
LEMMA StoreFile ==
  ASSUME NEW r \in Readers, NEW map \in Maps, map = reader[r].map, Typed, FileInv,
         ~ Saving(r), UNCHANGED disk, Store(r)
  PROVE  FileInv'
PROOF
<1>0. NoRead.step = "idle" /\ map # Nothing
  BY CommandAccessAssumption DEF NoRead, Maps
<1>1. CASE generation # reader[r].snapshot
  <2>1. \A q \in Readers : Saving(q)' => Saving(q) /\ reader'[q] = reader[q]
    BY <1>0, <1>1 DEF Store, Typed, Saving
  <2>2. \A q \in Readers : Saving(q) => Saving(q)'
    BY <1>1 DEF Store, Typed, Saving
  <2> QED BY <1>1, <2>1, <2>2 DEF Store, FileInv
<1>2. CASE generation = reader[r].snapshot /\ Changed(map)
  <2>1. /\ last' = map
        /\ spoilt' = \E q \in Readers : Saving(q)
        /\ reader' = [reader EXCEPT ![r] = [NoRead EXCEPT !.step = "saving", !.map = map]]
    BY <1>2 DEF Store, Saving
  <2>2. Saving(r)' /\ reader'[r].map = map
    BY <2>1 DEF Typed, Saving, NoRead
  <2>3. \A q \in Readers : q # r => reader'[q] = reader[q]
    BY <2>1 DEF Typed
  <2>4. \A q \in Readers : Saving(q)' => reader'[q].map \in Maps
    BY <2>2, <2>3 DEF Saving, FileInv
  <2>5. ~ spoilt' => \A q \in Readers : Saving(q)' => q = r
    BY <2>1, <2>3 DEF Saving
  <2> QED BY <1>0, <2>1, <2>2, <2>4, <2>5 DEF FileInv, Same
<1>3. CASE generation = reader[r].snapshot /\ ~ Changed(map)
  <2>1. last' = map /\ UNCHANGED spoilt /\ reader' = [reader EXCEPT ![r] = NoRead]
    BY <1>3 DEF Store
  <2>2. \A q \in Readers : Saving(q)' => Saving(q) /\ reader'[q] = reader[q]
    BY <1>0, <2>1 DEF Typed, Saving
  <2>3. \A q \in Readers : Saving(q) => Saving(q)'
    BY <2>1 DEF Typed, Saving
  <2>4. last # Nothing /\ map.off = last.off
    BY <1>3 DEF Changed, Same
  <2> QED BY <1>0, <2>1, <2>2, <2>3, <2>4 DEF FileInv, Same
<1> QED BY <1>1, <1>2, <1>3

LEMMA FileStep == AccessInv /\ FileInv /\ [AccessNext]_accessVars => FileInv'
PROOF
<1> SUFFICES ASSUME AccessInv, FileInv, [AccessNext]_accessVars PROVE FileInv'
  OBVIOUS
<1>0. NoRead.step = "idle" BY DEF NoRead
<1>1. ASSUME NEW r \in Readers, Hit(r) PROVE FileInv'
  <2>1. NoWriteMoves
    BY <1>1 DEF Hit, AccessInv, Typed, NoWriteMoves, memoryVars, fileVars
  <2> QED BY <2>1, FileKept
<1>2. ASSUME NEW r \in Readers, Finish(r) PROVE FileInv'
  <2>1. \A q \in Readers : q # r => reader'[q] = reader[q]
    BY <1>2 DEF Finish, AccessInv, Typed
  <2>2. reader[r].step # "saving" /\ reader'[r].step # "saving"
    BY <1>0, <1>2 DEF Finish, AccessInv, Typed, Places
  <2>3. NoWriteMoves
    BY <1>2, <2>1, <2>2 DEF Finish, NoWriteMoves, fileVars
  <2> QED BY <2>3, FileKept
<1>9. ASSUME NEW r \in Readers, Keep(r) PROVE FileInv'
  <2>1. reader[r].map \in Maps /\ ~ Saving(r) /\ Store(r) /\ UNCHANGED disk
    BY <1>9 DEF Keep, AccessInv, Current, Saving
  <2> QED BY <2>1, StoreFile DEF AccessInv
<1>3. ASSUME NEW r \in Readers, NEW gate \in BOOLEAN, Miss(r, gate) PROVE FileInv'
  <2>1. NoWriteMoves
    BY <1>3 DEF Miss, AccessInv, Typed, NoRead, NoWriteMoves, memoryVars, fileVars
  <2> QED BY <2>1, FileKept
<1>4. ASSUME NEW r \in Readers, Read(r) PROVE FileInv'
  <2>1. NoWriteMoves
    BY <1>4 DEF Read, AccessInv, Typed, Places, NoWriteMoves, memoryVars, fileVars
  <2> QED BY <2>1, FileKept
<1>5. ASSUME NEW r \in Readers, StaleDenial(r) PROVE FileInv'
  <2>1. NoWriteMoves
    BY <1>0, <1>5 DEF StaleDenial, AccessInv, Typed, NoWriteMoves, fileVars
  <2> QED BY <2>1, FileKept
<1>6. ASSUME NEW r \in Readers, NEW written \in BOOLEAN, Persist(r, written) PROVE FileInv'
  <2>1. /\ Saving(r) /\ ~ Saving(r)'
        /\ \A q \in Readers : q # r => reader'[q] = reader[q]
    BY <1>0, <1>6 DEF Persist, AccessInv, Typed, Saving
  <2>2. \A q \in Readers : Saving(q)' => Saving(q) /\ reader'[q] = reader[q]
    BY <2>1 DEF Saving
  <2>3. last' = last /\ last # Nothing /\ disk' \in Maps \cup {Nothing}
    BY <1>6, <2>1 DEF Persist, FileInv, memoryVars
  <2>4. ASSUME ~ spoilt' PROVE Same(disk', last') /\ ~ spoilt
    BY <1>6, <2>1, <2>3, <2>4 DEF Persist, FileInv
  <2> QED BY <2>2, <2>3, <2>4 DEF FileInv
<1>7. CASE Restart
  <2>1. \A r \in Readers : ~ Saving(r)' BY <1>0, <1>7 DEF Restart, Saving
  <2> QED BY <2>1, <1>7 DEF Restart, FileInv
<1>8. CASE UNCHANGED <<last, disk, spoilt, reader>>
  BY <1>8, FileKept DEF NoWriteMoves
<1> QED BY <1>1, <1>2, <1>3, <1>4, <1>5, <1>6, <1>7, <1>8, <1>9
     DEF AccessNext, Cmdcfg, Clear, Expire, Outage, memoryVars, fileVars, accessVars

\* Writing only what changes the copy is enough: the file says what the copy says
\* (#1917), and a write that failed or overlapped another spoils it only until the
\* next change of the map is written alone.
THEOREM FileAlwaysFollows == AccessSpec => []FileFollowsCopy
PROOF
<1>1. AccessInit => FileInv
  BY DEF AccessInit, FileInv, Saving, NoRead
<1>2. FileInv => FileFollowsCopy
  BY DEF FileInv, FileFollowsCopy, Saving
<1> QED BY <1>1, <1>2, FileStep, AccessAlways, PTL DEF AccessSpec
=============================================================================
