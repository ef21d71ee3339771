------------------------------ MODULE P2PProofs ------------------------------
(***************************************************************************)
(* Theorems about P2P, for any users, handlers, orders, trades, bounds,    *)
(* market price and caps: type correctness, the two caps of the market,    *)
(* the agreement of the books (every coin has an owner, every card is      *)
(* true), the remainders of the orders on the book and the refinement of   *)
(* Escrow, under creates, buys, express buys, sweeps, rulings, busy        *)
(* timeouts and crashes.                                                   *)
(***************************************************************************)
EXTENDS P2P, WalletProofs

-----------------------------------------------------------------------------
(* Data. *)

LEMMA PriceParts == PriceFiat \in Nat /\ PriceFiat > 0 /\ PriceCoins \in Nat /\ PriceCoins > 0
BY P2PAssumption

LEMMA FiatParts ==
  ASSUME NEW n \in Nat
  PROVE  FiatOf(n) \in Nat /\ n * PriceCoins \in Nat
BY PriceParts DEF FiatOf

\* An express buy takes no more than its budget.
LEMMA SliceFits ==
  ASSUME NEW row, NEW budget \in Nat, NEW take \in Slices(row, budget),
         row.remaining \in Nat, row.bounds.max \in Nat
  PROVE  take \in Nat /\ FiatOf(take) \in Nat /\ FiatOf(take) <= budget
<1> DEFINE a == FiatOf(row.remaining)
           b == row.bounds.max * PriceCoins
<1>1. take \in Nat /\ FiatOf(take) \in Nat /\ a \in Nat /\ b \in Nat
  <2>1. take \in Nat
    BY DEF Slices
  <2>. QED
    BY <2>1, FiatParts
<1>2. FiatOf(take) <= Least(budget, Least(a, b))
  BY DEF Slices
<1>. HIDE DEF a, b
<1>. QED
  BY <1>1, <1>2 DEF Least

LEMMA BookParts ==
  ASSUME NEW b \in Books
  PROVE  /\ b = [wallet |-> b.wallet, order |-> b.order, trade |-> b.trade, stats |-> b.stats]
         /\ b.wallet \in [Users -> Wallets]
         /\ b.order \in [Orders -> Order]
         /\ b.trade \in [Trades -> Trade]
         /\ b.stats \in [Users -> Stats]
  BY DEF Books

LEMMA RowParts ==
  ASSUME NEW b \in Books
  PROVE  /\ \A o \in Orders : /\ b.order[o] \in Order
                              /\ b.order[o].status \in OrderStatuses
                              /\ b.order[o].amount \in Nat
                              /\ b.order[o].remaining \in Nat
                              /\ b.order[o].seller \in Users \cup {None}
         /\ \A t \in Trades : /\ b.trade[t] \in Trade
                              /\ b.trade[t].status \in
                                   {"none"} \cup Holding \cup ToBuyer \cup ToSeller
                              /\ b.trade[t].amount \in Nat
                              /\ b.trade[t].buyer \in Users \cup {None}
  BY BookParts DEF Order, Trade

\* What a wallet becomes is a wallet, and no other is touched.
LEMMA WalletParts ==
  ASSUME NEW b \in Books, NEW u \in Users, NEW amount \in Nat
  PROVE  /\ CanDebit(b.wallet[u], amount) =>
              [b.wallet EXCEPT ![u] = Held(@, amount)] \in [Users -> Wallets]
         /\ CanDebit(b.wallet[u], amount) =>
              [b.wallet EXCEPT ![u] = Debited(@, amount)] \in [Users -> Wallets]
         /\ CanCredit(b.wallet[u], amount) =>
              [b.wallet EXCEPT ![u] = Released(@, amount)] \in [Users -> Wallets]
         /\ CanCredit(b.wallet[u], amount) =>
              [b.wallet EXCEPT ![u] = Credited(@, amount)] \in [Users -> Wallets]
<1>1. b.wallet \in [Users -> Wallets] /\ b.wallet[u] \in Wallets
  BY BookParts
<1>. QED
  BY <1>1, WalletWrites

-----------------------------------------------------------------------------
(* What is true of the books between two statements. *)

\* An order and its seller, a trade and its order exist together; what is for
\* sale is on the book.
Linked(b) ==
  /\ \A o \in Orders :
       LET row == b.order[o]
       IN /\ row.status = "none" => row.seller = None
          /\ row.status # "none" => row.seller \in Users /\ row.bounds \in Limits
          /\ row.status = "active" <=> row.remaining > 0
  /\ \A t \in Trades :
       LET row == b.trade[t]
       IN row.status # "none" => /\ row.order \in Orders /\ b.order[row.order].status # "none"
                                 /\ row.buyer \in Users /\ row.amount > 0

Placed(b) == {o \in Orders : b.order[o].status # "none"}
OpenOf(b, u) == {t \in Trades : b.trade[t].buyer = u /\ b.trade[t].status \in Holding}

\* Of the ids, however many there are, finitely many are used.
Counted(b) ==
  /\ IsFiniteSet(Placed(b))
  /\ \A u \in Users : IsFiniteSet(OpenOf(b, u)) /\ Cardinality(OpenOf(b, u)) <= MaxOpen

Good(b) == b \in Books /\ Linked(b) /\ Counted(b)

\* The books c come after b by a change of statuses and remainders alone.
Follows(b, c) ==
  /\ \A o \in Orders : /\ c.order[o].seller = b.order[o].seller
                       /\ c.order[o].bounds = b.order[o].bounds
                       /\ c.order[o].amount = b.order[o].amount
                       /\ c.order[o].status = "none" <=> b.order[o].status = "none"
  /\ \A t \in Trades : /\ c.trade[t].order = b.trade[t].order
                       /\ c.trade[t].buyer = b.trade[t].buyer
                       /\ c.trade[t].amount = b.trade[t].amount
                       /\ c.trade[t].status = "none" <=> b.trade[t].status = "none"
                       /\ c.trade[t].status \in Holding => b.trade[t].status \in Holding

\* An open transaction has opened trades, or timed some out.
Ahead(b, c) ==
  /\ \A o \in Orders : c.order[o].seller = b.order[o].seller
  /\ \A t \in Trades :
       LET before == b.trade[t].status
           after  == c.trade[t].status
       IN \/ before = after
          \/ before = "none" /\ after = "pending"
          \/ before = "pending" /\ after = "cancelled_timeout"

\* What a committed transaction may have done to a trade.
Flips == {<<"none", "pending">>, <<"pending", "cancelled_timeout">>,
          <<"pending", "paid">>, <<"pending", "disputed">>, <<"paid", "disputed">>,
          <<"paid", "confirmed">>, <<"disputed", "confirmed">>,
          <<"disputed", "refund_buyer">>, <<"disputed", "returned_seller">>}

Flipped(b, c) ==
  \A t \in Trades : \/ c.trade[t].status = b.trade[t].status
                    \/ <<b.trade[t].status, c.trade[t].status>> \in Flips

Capped(b, c) ==
  \A u \in Users, o \in Orders :
    b.order[o].status = "none" /\ c.order[o].seller = u => Cardinality(Live(c, u)) <= MaxOrders

Settles(b, c) == Flipped(b, c) /\ Capped(b, c)

-----------------------------------------------------------------------------
(* What each operator on the books does to them. *)

LEMMA Following ==
  ASSUME NEW b, Good(b), NEW c \in Books, Follows(b, c),
         \A o \in Orders : c.order[o].status = "active" <=> c.order[o].remaining > 0
  PROVE  /\ Good(c)
         /\ FreeTrades(c) = FreeTrades(b) /\ FreeOrders(c) = FreeOrders(b)
         /\ \A u \in Users : Cardinality(OpenOf(c, u)) <= Cardinality(OpenOf(b, u))
<1>1. Linked(c)
  <2>1. \A o \in Orders : /\ c.order[o].status = "none" => c.order[o].seller = None
                          /\ c.order[o].status # "none" =>
                               c.order[o].seller \in Users /\ c.order[o].bounds \in Limits
    BY DEF Good, Linked, Follows
  <2>2. \A t \in Trades : c.trade[t].status # "none" =>
          /\ c.trade[t].order \in Orders /\ c.order[c.trade[t].order].status # "none"
          /\ c.trade[t].buyer \in Users /\ c.trade[t].amount > 0
    BY DEF Good, Linked, Follows
  <2>. QED
    BY <2>1, <2>2 DEF Linked
<1>2. Placed(c) = Placed(b)
  BY DEF Follows, Placed
<1>3. ASSUME NEW u \in Users
      PROVE  /\ IsFiniteSet(OpenOf(c, u))
             /\ Cardinality(OpenOf(c, u)) <= Cardinality(OpenOf(b, u))
             /\ Cardinality(OpenOf(c, u)) <= MaxOpen
  <2>1. OpenOf(c, u) \subseteq OpenOf(b, u)
    BY DEF Follows, OpenOf
  <2>2. IsFiniteSet(OpenOf(b, u)) /\ Cardinality(OpenOf(b, u)) <= MaxOpen
    BY DEF Good, Counted
  <2>3. IsFiniteSet(OpenOf(c, u)) /\ Cardinality(OpenOf(c, u)) <= Cardinality(OpenOf(b, u))
    BY <2>1, <2>2, FS_Subset
  <2>4. Cardinality(OpenOf(c, u)) \in Nat /\ Cardinality(OpenOf(b, u)) \in Nat /\ MaxOpen \in Nat
    BY <2>2, <2>3, FS_CardinalityType, P2PAssumption
  <2>. QED
    BY <2>2, <2>3, <2>4
<1>4. Counted(c)
  BY <1>2, <1>3 DEF Counted, Good
<1>5. FreeTrades(c) = FreeTrades(b) /\ FreeOrders(c) = FreeOrders(b)
  BY DEF Follows, FreeTrades, FreeOrders
<1>. QED
  BY <1>1, <1>3, <1>4, <1>5 DEF Good

\* PayOut keeps the rows of the flip, or nothing of it.
LEMMA Paying ==
  ASSUME NEW b \in Books, NEW c \in Books, c.wallet = b.wallet,
         NEW u \in Users, NEW amount \in Nat
  PROVE  \/ PayOut(b, c, u, amount) = b
         \/ /\ PayOut(b, c, u, amount) \in Books
            /\ PayOut(b, c, u, amount).order = c.order
            /\ PayOut(b, c, u, amount).trade = c.trade
<1>1. CASE ~ CanCredit(b.wallet[u], amount)
  BY <1>1 DEF PayOut, RolledBack
<1>2. CASE CanCredit(b.wallet[u], amount)
  <2> DEFINE ws == [c.wallet EXCEPT ![u] = Released(@, amount)]
  <2>1. ws \in [Users -> Wallets]
    BY <1>2, WalletParts
  <2>2. PayOut(b, c, u, amount) = [c EXCEPT !.wallet = ws]
    BY <1>2, BookParts DEF PayOut
  <2>. HIDE DEF ws
  <2>. QED
    BY <2>1, <2>2, BookParts DEF Books
<1>. QED
  BY <1>1, <1>2

\* The rows after are those before, but for one status.
FlipOf(before, after, t, s) ==
  /\ after[t].status = s /\ after[t].order = before[t].order
  /\ after[t].buyer = before[t].buyer /\ after[t].amount = before[t].amount
  /\ \A q \in Trades \ {t} : after[q] = before[q]

LEMMA FlipsOneRow ==
  ASSUME NEW before \in [Trades -> Trade], NEW t \in Trades,
         NEW s \in Holding \cup ToBuyer \cup ToSeller
  PROVE  LET after == [before EXCEPT ![t].status = s]
         IN after \in [Trades -> Trade] /\ FlipOf(before, after, t, s)
BY DEF Trade, FlipOf

\* A flip alone leaves everything else in order.
LEMMA Flipping ==
  ASSUME NEW b, Good(b), NEW t \in Trades, NEW c \in Books,
         b.trade[t].status # "none",
         NEW s \in Holding \cup ToBuyer \cup ToSeller,
         s \in Holding => b.trade[t].status \in Holding,
         FlipOf(b.trade, c.trade, t, s),
         c.order = b.order
  PROVE  Good(c) /\ Follows(b, c)
<1>1. s # "none"
  BY DEF Holding, ToBuyer, ToSeller
<1>2. Follows(b, c)
  BY <1>1 DEF Follows, FlipOf
<1>3. \A o \in Orders : c.order[o].status = "active" <=> c.order[o].remaining > 0
  BY DEF Good, Linked
<1>. QED
  BY <1>2, <1>3, Following

LEMMA Returning ==
  ASSUME NEW row \in Order, NEW amount \in Nat, amount > 0
  PROVE  LET new == ReturnSlice(row, amount)
         IN /\ new \in Order /\ new.seller = row.seller /\ new.bounds = row.bounds
            /\ new.amount = row.amount
            /\ new.status = "active" /\ new.remaining > 0
<1> DEFINE n == row.remaining + amount
<1>1. n \in Nat /\ n > 0
  BY DEF Order
<1>2. ReturnSlice(row, amount) = [row EXCEPT !.remaining = n, !.status = "active"]
  BY DEF ReturnSlice
<1>. HIDE DEF n
<1>. QED
  BY <1>1, <1>2 DEF Order, OrderStatuses

\* What a try to time a trade out does.
TimesOut(b, c, t) ==
  /\ Good(c)
  /\ FreeTrades(c) = FreeTrades(b) /\ FreeOrders(c) = FreeOrders(b)
  /\ \A o \in Orders : /\ c.order[o].seller = b.order[o].seller
                       /\ c.order[o].bounds = b.order[o].bounds
                       /\ c.order[o].amount = b.order[o].amount
  /\ \A u \in Users : Cardinality(OpenOf(c, u)) <= Cardinality(OpenOf(b, u))
  /\ \A q \in Trades \ {t} : c.trade[q].status = b.trade[q].status
  /\ \/ c.trade[t].status = b.trade[t].status
     \/ b.trade[t].status = "pending" /\ c.trade[t].status = "cancelled_timeout"

\* expire_pending: a slice that is timed out is back on the book or with its seller.
LEMMA Expiring ==
  ASSUME NEW b, Good(b), NEW t \in Trades
  PROVE  TimesOut(b, Expired(b, t), t)
<1> DEFINE c == Expired(b, t)
           o == b.trade[t].order
           amount == b.trade[t].amount
<1>1. b \in Books
  BY DEF Good
<1>2. TimesOut(b, b, t)
  <2>1. Follows(b, b)
    BY DEF Follows
  <2>. QED
    BY <1>1, <2>1, Following DEF Good, Linked, TimesOut
<1>3. ASSUME NEW d \in Books, Follows(b, d), b.trade[t].status = "pending",
             \A q \in Orders : d.order[q].status = "active" <=> d.order[q].remaining > 0,
             d.trade[t].status = "cancelled_timeout",
             \A q \in Trades \ {t} : d.trade[q].status = b.trade[q].status
      PROVE  TimesOut(b, d, t)
  <2>1. /\ Good(d)
        /\ FreeTrades(d) = FreeTrades(b) /\ FreeOrders(d) = FreeOrders(b)
        /\ \A u \in Users : Cardinality(OpenOf(d, u)) <= Cardinality(OpenOf(b, u))
    BY <1>3, Following
  <2>. QED
    BY <1>3, <2>1 DEF Follows, TimesOut
<1>4. CASE ~ Expirable(b, t)
  BY <1>2, <1>4 DEF Expired
<1>5. CASE Expirable(b, t)
  <2> DEFINE ts  == [b.trade EXCEPT ![t].status = "cancelled_timeout"]
             f   == [b EXCEPT !.trade[t].status = "cancelled_timeout"]
             row == ReturnSlice(b.order[o], amount)
             os  == [b.order EXCEPT ![o] = row]
             g   == [f EXCEPT !.order[o] = ReturnSlice(@, amount)]
  <2>1. /\ b.trade[t].status = "pending" /\ o \in Orders /\ amount \in Nat /\ amount > 0
        /\ b.order[o].status # "none" /\ b.order[o].seller \in Users
    BY <1>1, <1>5, RowParts DEF Expirable, Good, Linked
  <2>2. f = [wallet |-> b.wallet, order |-> b.order, trade |-> ts, stats |-> b.stats]
    BY <1>1, BookParts
  <2>3. ts \in [Trades -> Trade] /\ FlipOf(b.trade, ts, t, "cancelled_timeout")
    BY <1>1, BookParts, FlipsOneRow DEF ToSeller
  <2>. HIDE DEF o, amount
  <2>4. b.order[o] \in Order
    BY <1>1, <2>1, BookParts
  <2>14. g = [wallet |-> b.wallet, order |-> os, trade |-> ts, stats |-> b.stats]
    <3>. HIDE DEF f, ts
    <3>. QED
      BY <2>2
  <2>5. /\ row \in Order /\ row.seller = b.order[o].seller /\ row.bounds = b.order[o].bounds
        /\ row.amount = b.order[o].amount
        /\ row.status = "active" /\ row.remaining > 0
    BY <2>1, <2>4, Returning
  <2>6. c = IF b.order[o].status \in {"active", "completed"} THEN g
            ELSE PayOut(b, f, b.order[o].seller, amount)
    BY <1>5 DEF Expired, Seller, o, amount
  <2>7. /\ os \in [Orders -> Order] /\ os[o] = row
        /\ \A q \in Orders \ {o} : os[q] = b.order[q]
    BY <1>1, <2>1, <2>5, BookParts
  <2>. HIDE DEF c, f, g, row, os
  <2>8. f \in Books /\ f.trade = ts /\ f.order = b.order /\ f.wallet = b.wallet
    BY <1>1, <2>2, <2>3, BookParts DEF Books
  <2>9. g \in Books /\ g.trade = ts /\ g.order = os
    BY <1>1, <2>3, <2>14, <2>7, BookParts DEF Books
  <2>10. /\ "cancelled_timeout" \in ToSeller /\ "cancelled_timeout" \notin Holding
    BY DEF Holding, ToSeller
  <2>11. /\ Follows(b, f) /\ f.trade[t].status = "cancelled_timeout"
         /\ \A q \in Trades \ {t} : f.trade[q] = b.trade[q]
    <3>1. FlipOf(b.trade, f.trade, t, "cancelled_timeout")
      BY <2>3, <2>8
    <3>2. Follows(b, f)
      BY <2>1, <2>8, <2>10, <3>1, Flipping
    <3>. QED
      BY <3>1, <3>2 DEF FlipOf
  <2>. HIDE DEF ts
  <2>12. CASE b.order[o].status \in {"active", "completed"}
    <3>1. Follows(b, g)
      BY <2>1, <2>5, <2>7, <2>8, <2>9, <2>11 DEF Follows
    <3>2. \A q \in Orders : g.order[q].status = "active" <=> g.order[q].remaining > 0
      BY <2>5, <2>7, <2>9 DEF Good, Linked
    <3>3. TimesOut(b, g, t)
      BY <1>3, <2>1, <2>8, <2>9, <2>11, <3>1, <3>2
    <3>. QED
      BY <2>6, <2>12, <3>3 DEF c
  <2>13. CASE b.order[o].status \notin {"active", "completed"}
    <3>1. c = b \/ (c \in Books /\ c.order = f.order /\ c.trade = f.trade)
      BY <1>1, <2>1, <2>6, <2>8, <2>13, Paying
    <3>2. ASSUME c \in Books, c.order = f.order, c.trade = f.trade
          PROVE  TimesOut(b, c, t)
      <4>1. Follows(b, c)
        BY <2>11, <3>2 DEF Follows
      <4>. QED
        BY <1>3, <2>1, <2>8, <2>11, <3>2, <4>1 DEF Good, Linked
    <3>. QED
      BY <1>2, <3>1, <3>2 DEF c
  <2>. QED
    BY <2>12, <2>13
<1>. QED
  BY <1>4, <1>5

LEMMA Filling ==
  ASSUME NEW row \in Order, NEW amount \in Nat, amount > 0, row.remaining >= amount
  PROVE  LET new == Filled(row, amount)
         IN /\ new \in Order /\ new.seller = row.seller /\ new.bounds = row.bounds
            /\ new.amount = row.amount
            /\ new.status \in {"active", "completed"}
            /\ new.status = "active" <=> new.remaining > 0
<1> DEFINE n == row.remaining - amount
           s == IF row.remaining = amount THEN "completed" ELSE "active"
<1>1. n \in Nat /\ s \in {"active", "completed"} /\ (s = "active" <=> n > 0)
  BY DEF Order
<1>2. Filled(row, amount) = [row EXCEPT !.remaining = n, !.status = s]
  BY DEF Filled
<1>. HIDE DEF n, s
<1>. QED
  BY <1>1, <1>2 DEF Order, OrderStatuses

\* What carving a slice out of an order does.
Opens(b, c, u) ==
  /\ Good(c)
  /\ FreeOrders(c) = FreeOrders(b)
  /\ \A o \in Orders : c.order[o].seller = b.order[o].seller
  /\ \A t \in Trades : \/ c.trade[t].status = b.trade[t].status
                       \/ b.trade[t].status = "none" /\ c.trade[t].status = "pending"
  /\ Cardinality(OpenOf(c, u)) = Cardinality(OpenOf(b, u)) + 1

\* fill and create_trade: the buyer has one slice more, nobody else has.
LEMMA Taking ==
  ASSUME NEW b, Good(b), NEW o \in Orders, NEW u \in Users, NEW amount \in Nat, amount > 0,
         CanFill(b, o, amount), FreeTrades(b) # {}, Cardinality(OpenOf(b, u)) < MaxOpen
  PROVE  Opens(b, Taken(b, o, u, amount), u)
<1> DEFINE t   == Min(FreeTrades(b))
           c   == Taken(b, o, u, amount)
           row == Filled(b.order[o], amount)
           new == [status |-> "pending", order |-> o, buyer |-> u, amount |-> amount]
           os  == [b.order EXCEPT ![o] = row]
           ts  == [b.trade EXCEPT ![t] = new]
<1>1. b \in Books /\ t \in Trades /\ b.trade[t].status = "none"
  <2>1. FreeTrades(b) \in SUBSET Nat
    BY P2PAssumption DEF FreeTrades
  <2>2. t \in FreeTrades(b)
    BY <2>1, MinOfNats
  <2>. HIDE DEF t
  <2>. QED
    BY <2>2 DEF FreeTrades, Good
<1>2. c = [wallet |-> b.wallet, order |-> os, trade |-> ts, stats |-> b.stats]
  <2>1. c = [b EXCEPT !.order[o] = row, !.trade[t] = new]
    BY DEF Taken
  <2>. HIDE DEF t, c, row, new
  <2>2. c = [wallet |-> c.wallet, order |-> c.order, trade |-> c.trade, stats |-> c.stats]
    BY <1>1, <2>1, BookParts
  <2>3. c.wallet = b.wallet /\ c.stats = b.stats
    BY <1>1, <2>1, BookParts
  <2>4. c.order = os
    BY <1>1, <2>1, BookParts
  <2>5. c.trade = ts
    BY <1>1, <2>1, BookParts
  <2>. QED
    BY <2>2, <2>3, <2>4, <2>5
<1>. HIDE DEF t, c
<1>3. b.order[o] \in Order /\ b.order[o].remaining >= amount /\ b.order[o].status = "active"
  BY <1>1, BookParts DEF CanFill
<1>4. /\ row \in Order /\ row.seller = b.order[o].seller /\ row.bounds = b.order[o].bounds
      /\ row.status \in {"active", "completed"}
      /\ row.status = "active" <=> row.remaining > 0
  BY <1>3, Filling
<1>. HIDE DEF row
<1>5. /\ os \in [Orders -> Order] /\ os[o] = row
      /\ \A q \in Orders \ {o} : os[q] = b.order[q]
  BY <1>1, <1>4, BookParts
<1>6. new \in Trade
  BY DEF Trade, Holding
<1>7. /\ ts \in [Trades -> Trade] /\ ts[t] = new
      /\ \A q \in Trades \ {t} : ts[q] = b.trade[q]
  BY <1>1, <1>6, BookParts
<1>. HIDE DEF os, ts
<1>8. c \in Books /\ c.order = os /\ c.trade = ts
  BY <1>1, <1>2, <1>5, <1>7, BookParts DEF Books
<1>9. Linked(c)
  <2>1. b.order[o].status # "none"
    BY <1>3
  <2>2. \A q \in Orders : /\ c.order[q].status = "none" => c.order[q].seller = None
                          /\ c.order[q].status # "none" => c.order[q].seller \in Users
                                                           /\ c.order[q].bounds \in Limits
                          /\ c.order[q].status = "active" <=> c.order[q].remaining > 0
    BY <1>4, <1>5, <1>8, <2>1 DEF Good, Linked
  <2>3. \A q \in Orders : b.order[q].status # "none" => c.order[q].status # "none"
    BY <1>4, <1>5, <1>8
  <2>4. \A q \in Trades \ {t} : c.trade[q].status # "none" =>
          /\ c.trade[q].order \in Orders /\ c.order[c.trade[q].order].status # "none"
          /\ c.trade[q].buyer \in Users /\ c.trade[q].amount > 0
    BY <1>7, <1>8, <2>3 DEF Good, Linked
  <2>5. /\ c.trade[t].order \in Orders /\ c.order[c.trade[t].order].status # "none"
        /\ c.trade[t].buyer \in Users /\ c.trade[t].amount > 0
    BY <1>7, <1>8, <2>1, <2>3
  <2>. QED
    BY <2>2, <2>4, <2>5 DEF Linked
<1>10. Placed(c) = Placed(b) /\ FreeOrders(c) = FreeOrders(b)
  <2>1. \A q \in Orders : c.order[q].status = "none" <=> b.order[q].status = "none"
    BY <1>3, <1>4, <1>5, <1>8
  <2>. QED
    BY <2>1 DEF Placed, FreeOrders
<1>11. OpenOf(c, u) = OpenOf(b, u) \cup {t} /\ t \notin OpenOf(b, u)
  BY <1>1, <1>7, <1>8 DEF OpenOf, Holding
<1>12. ASSUME NEW v \in Users, v # u PROVE OpenOf(c, v) = OpenOf(b, v)
  BY <1>1, <1>7, <1>8, <1>12 DEF OpenOf, Holding
<1>13. /\ IsFiniteSet(OpenOf(c, u))
       /\ Cardinality(OpenOf(c, u)) = Cardinality(OpenOf(b, u)) + 1
       /\ Cardinality(OpenOf(b, u)) \in Nat
  BY <1>11, FS_AddElement, FS_CardinalityType DEF Good, Counted
<1>14. Counted(c)
  <2>1. Cardinality(OpenOf(c, u)) <= MaxOpen
    BY <1>13, P2PAssumption
  <2>. QED
    BY <1>10, <1>12, <1>13, <2>1 DEF Good, Counted
<1>15. \A q \in Orders : c.order[q].seller = b.order[q].seller
  BY <1>4, <1>5, <1>8
<1>16. \A q \in Trades : \/ c.trade[q].status = b.trade[q].status
                         \/ b.trade[q].status = "none" /\ c.trade[q].status = "pending"
  BY <1>1, <1>7, <1>8
<1>. QED
  BY <1>8, <1>9, <1>10, <1>13, <1>14, <1>15, <1>16 DEF Good, Opens, c

LEMMA LiveIsFinite ==
  ASSUME NEW b, Good(b), NEW u \in Users
  PROVE  IsFiniteSet(Live(b, u)) /\ Cardinality(Live(b, u)) \in Nat
<1>1. Live(b, u) \subseteq Placed(b)
  BY DEF Live, Placed
<1>. QED
  BY <1>1, FS_Subset, FS_CardinalityType DEF Good, Counted

\* What putting an order of u on the book does.
Places(b, c, u) ==
  /\ Good(c) /\ c.trade = b.trade
  /\ Cardinality(Live(c, u)) <= MaxOrders
  /\ \A o \in Orders : c.order[o].seller \in {b.order[o].seller, u}

\* hold and create_order: the seller has one order more.
LEMMA Placing ==
  ASSUME NEW b, Good(b), NEW u \in Users, NEW amount \in Nat, amount > 0,
         NEW bounds \in Limits, CanDebit(b.wallet[u], amount), FreeOrders(b) # {}
  PROVE  /\ Good(Posted(b, u, amount, bounds))
         /\ Cardinality(Live(b, u)) < MaxOrders => Places(b, Posted(b, u, amount, bounds), u)
<1> DEFINE o   == Min(FreeOrders(b))
           w   == Held(b.wallet[u], amount)
           row == [status |-> "active", seller |-> u, amount |-> amount,
                   remaining |-> amount, bounds |-> bounds]
           ws  == [b.wallet EXCEPT ![u] = w]
           os  == [b.order EXCEPT ![o] = row]
           c   == [b EXCEPT !.wallet[u] = w, !.order[o] = row]
<1>0. Posted(b, u, amount, bounds) = c
  BY DEF Posted
<1>1. b \in Books /\ o \in Orders /\ b.order[o].status = "none"
  <2>1. FreeOrders(b) \in SUBSET Nat
    BY P2PAssumption DEF FreeOrders
  <2>2. o \in FreeOrders(b)
    BY <2>1, MinOfNats
  <2>. HIDE DEF o
  <2>. QED
    BY <2>2 DEF FreeOrders, Good
<1>2. ws \in [Users -> Wallets]
  BY <1>1, WalletParts
<1>3. row \in Order
  BY DEF Order, OrderStatuses
<1>. HIDE DEF o, w
<1>4. /\ os \in [Orders -> Order] /\ os[o] = row
      /\ \A q \in Orders \ {o} : os[q] = b.order[q]
  BY <1>1, <1>3, BookParts
<1>5. c \in Books /\ c.order = os /\ c.trade = b.trade
  <2>0. c = [b EXCEPT !.wallet[u] = w, !.order[o] = row]
    OBVIOUS
  <2>. HIDE DEF row, c
  <2>1. c = [wallet |-> c.wallet, order |-> c.order, trade |-> c.trade, stats |-> c.stats]
    BY <1>1, <2>0, BookParts
  <2>2. c.wallet = ws
    BY <1>1, <2>0, BookParts
  <2>3. c.order = os
    BY <1>1, <2>0, BookParts
  <2>4. c.trade = b.trade /\ c.stats = b.stats
    BY <1>1, <2>0, BookParts
  <2>. HIDE DEF ws, os
  <2>. QED
    BY <1>1, <1>2, <1>4, <2>1, <2>2, <2>3, <2>4, BookParts DEF Books
<1>. HIDE DEF c, os
<1>6. Linked(c)
  <2>1. \A q \in Orders : /\ c.order[q].status = "none" => c.order[q].seller = None
                          /\ c.order[q].status # "none" => c.order[q].seller \in Users
                                                           /\ c.order[q].bounds \in Limits
                          /\ c.order[q].status = "active" <=> c.order[q].remaining > 0
    BY <1>4, <1>5 DEF Good, Linked
  <2>2. \A q \in Orders : b.order[q].status # "none" => c.order[q].status # "none"
    BY <1>1, <1>4, <1>5
  <2>3. \A q \in Trades : c.trade[q].status # "none" =>
          /\ c.trade[q].order \in Orders /\ c.order[c.trade[q].order].status # "none"
          /\ c.trade[q].buyer \in Users /\ c.trade[q].amount > 0
    BY <1>5, <2>2 DEF Good, Linked
  <2>. QED
    BY <2>1, <2>3 DEF Linked
<1>7. Counted(c)
  <2>1. Placed(c) \subseteq Placed(b) \cup {o}
    BY <1>4, <1>5 DEF Placed
  <2>2. IsFiniteSet(Placed(b) \cup {o})
    BY FS_AddElement DEF Good, Counted
  <2>3. IsFiniteSet(Placed(c))
    BY <2>1, <2>2, FS_Subset
  <2>4. \A v \in Users : OpenOf(c, v) = OpenOf(b, v)
    BY <1>5 DEF OpenOf
  <2>. QED
    BY <2>3, <2>4 DEF Good, Counted
<1>8. ASSUME Cardinality(Live(b, u)) < MaxOrders
      PROVE  Cardinality(Live(c, u)) <= MaxOrders
  <2>1. Live(c, u) \subseteq Live(b, u) \cup {o}
    BY <1>4, <1>5 DEF Live
  <2>2. o \notin Live(b, u)
    BY <1>1 DEF Live
  <2>3. IsFiniteSet(Live(b, u)) /\ Cardinality(Live(b, u)) \in Nat
    BY LiveIsFinite
  <2>4. /\ IsFiniteSet(Live(b, u) \cup {o})
        /\ Cardinality(Live(b, u) \cup {o}) = Cardinality(Live(b, u)) + 1
    BY <2>2, <2>3, FS_AddElement
  <2>5. /\ Cardinality(Live(c, u)) <= Cardinality(Live(b, u) \cup {o})
        /\ Cardinality(Live(c, u)) \in Nat
    BY <2>1, <2>4, FS_Subset, FS_CardinalityType
  <2>. QED
    BY <1>8, <2>3, <2>4, <2>5, P2PAssumption
<1>9. \A q \in Orders : c.order[q].seller \in {b.order[q].seller, u}
  BY <1>4, <1>5
<1>10. Good(c) /\ (Cardinality(Live(b, u)) < MaxOrders => Places(b, c, u))
  BY <1>5, <1>6, <1>7, <1>8, <1>9 DEF Good, Places
<1>. QED
  BY <1>0, <1>10

\* Books that follow the ones before put no new order on the book.
LEMMA FollowingSettles ==
  ASSUME NEW b, Good(b), NEW c, Follows(b, c), Flipped(b, c)
  PROVE  Settles(b, c)
<1>1. \A u \in Users, o \in Orders : b.order[o].status = "none" => c.order[o].seller # u
  <2>1. \A u \in Users : u # None
    BY P2PAssumption
  <2>2. \A o \in Orders : b.order[o].status = "none" => c.order[o].seller = None
    BY DEF Follows, Good, Linked
  <2>. QED
    BY <2>1, <2>2
<1>. QED
  BY <1>1 DEF Settles, Capped

\* A guarded UPDATE of a trade, whatever else of wallets and cards goes with it.
LEMMA Ruling ==
  ASSUME NEW b, Good(b), NEW t \in Trades, NEW c \in Books,
         NEW s \in Holding \cup ToBuyer \cup ToSeller,
         b.trade[t].status # "none", <<b.trade[t].status, s>> \in Flips,
         FlipOf(b.trade, c.trade, t, s), c.order = b.order
  PROVE  Good(c) /\ Settles(b, c)
<1>1. s \in Holding => b.trade[t].status \in Holding
  BY DEF Flips, Holding
<1>2. Good(c) /\ Follows(b, c)
  BY <1>1, Flipping
<1>3. Flipped(b, c)
  BY DEF FlipOf, Flipped
<1>. QED
  BY <1>2, <1>3, FollowingSettles

LEMMA Same ==
  ASSUME NEW b, Good(b)
  PROVE  Settles(b, b)
<1>1. Follows(b, b) /\ Flipped(b, b)
  BY DEF Follows, Flipped
<1>. QED
  BY <1>1, FollowingSettles

-----------------------------------------------------------------------------
(* The inductive invariant. *)

Inside == {"count", "insert", "expire", "slots", "reexpire", "fill", "walk", "sweep"}

\* What a handler in the middle of its transaction has found, still holds: nobody
\* else writes.
Ready(p) ==
  LET j == job[p]
  IN /\ j.step \in {"count", "insert"} =>
          /\ j.user \in Users /\ j.bounds \in Limits /\ j.amount > 0
          /\ FreeOrders(work) # {}
     /\ j.step = "insert" => Cardinality(Live(work, j.user)) < MaxOrders
     /\ j.step \in {"expire", "slots", "reexpire", "fill"} =>
          j.user \in Users /\ j.amount > 0 /\ FreeTrades(work) # {}
     /\ j.step \in {"expire", "slots", "reexpire", "sweep"} =>
          FreeTrades(db) \subseteq FreeTrades(work)
     /\ j.step = "fill" => j.order \in Orders /\ Cardinality(OpenOf(work, j.user)) < MaxOpen
     /\ j.step = "walk" => /\ j.user \in Users
                           /\ Cardinality(OpenOf(work, j.user)) + j.slots <= MaxOpen

JobSound(p) == job[p].step \in Inside => writer = p /\ Ready(p)

P2PInv ==
  /\ TypeOK
  /\ Unlocked => work = db
  /\ Good(db) /\ Good(work) /\ Ahead(db, work)
  /\ \A p \in Procs : JobSound(p)

\* A step keeps the invariant and does to the file what one transaction may.
StepSound == P2PInv' /\ Settles(db, db')

-----------------------------------------------------------------------------
(* The ways a step can write. *)

LEMMA JobParts ==
  ASSUME TypeOK, NEW p \in Procs
  PROVE  /\ job[p] \in Job /\ job[p].step \in Steps
         /\ job[p].user \in Users \cup {None} /\ job[p].order \in Orders \cup {None}
         /\ job[p].amount \in Nat /\ job[p].bounds \in Limits \cup {None}
         /\ job[p].scan \in SUBSET Trades /\ job[p].slots \in Nat /\ job[p].next \in Nat
  BY DEF TypeOK, Job

LEMMA IdleJob == Idle \in Job /\ Idle.step = "idle"
BY DEF Idle, Job, Steps

LEMMA NobodyIsNone ==
  /\ \A p \in Procs : p # None
  /\ \A u \in Users : u # None
  /\ \A o \in Orders : o # None
BY P2PAssumption

\* Only the writer is inside a transaction.
LEMMA OneInside ==
  ASSUME P2PInv, NEW p \in Procs, writer \in {None, p}, NEW q \in Procs, q # p
  PROVE  job[q].step \notin Inside
BY NobodyIsNone DEF P2PInv, JobSound

LEMMA NobodyInside ==
  ASSUME P2PInv, Unlocked, NEW q \in Procs
  PROVE  job[q].step \notin Inside
BY NobodyIsNone DEF P2PInv, JobSound, Unlocked

LEMMA AheadSettles ==
  ASSUME NEW b, Good(b), NEW c, Ahead(b, c)
  PROVE  Settles(b, c)
<1>1. Flipped(b, c)
  BY DEF Ahead, Flipped, Flips
<1>2. \A u \in Users, o \in Orders : b.order[o].status = "none" => c.order[o].seller # u
  BY NobodyIsNone DEF Ahead, Good, Linked
<1>. QED
  BY <1>1, <1>2 DEF Settles, Capped

LEMMA AheadSame == \A b : Ahead(b, b)
BY DEF Ahead

\* The books c become the file, and no process is inside a transaction.
LEMMA Committing ==
  ASSUME P2PInv, NEW c, Good(c), Settles(db, c),
         db' = c, work' = c, writer' = None, stale' = stale,
         job' \in [Procs -> Job], \A q \in Procs : job'[q].step \notin Inside
  PROVE  StepSound
<1>1. TypeOK'
  BY DEF P2PInv, TypeOK, Good
<1>2. Good(db') /\ Good(work') /\ Ahead(db', work')
  BY AheadSame
<1>3. Good(db)' /\ Good(work)' /\ Ahead(db, work)'
  BY <1>2 DEF Good, Linked, Counted, Placed, OpenOf, Ahead
<1>4. \A q \in Procs : JobSound(q)'
  BY DEF JobSound
<1>. QED
  BY <1>1, <1>3, <1>4 DEF StepSound, P2PInv

LEMMA CommitStep ==
  ASSUME P2PInv, NEW p \in Procs, job[p].step \in Inside, NEW c, Good(c), Settles(db, c),
         Commit(p, c)
  PROVE  StepSound
<1>1. /\ db' = c /\ work' = c /\ writer' = None /\ stale' = stale
      /\ job' = [job EXCEPT ![p] = Idle]
  BY DEF Commit, Become
<1>2. writer = p
  BY DEF P2PInv, JobSound
<1>3. job \in [Procs -> Job]
  BY DEF P2PInv, TypeOK
<1>4. job' \in [Procs -> Job] /\ \A q \in Procs : job'[q].step \notin Inside
  BY <1>1, <1>2, <1>3, IdleJob, OneInside DEF Inside
<1>. QED
  BY <1>1, <1>4, Committing

LEMMA AtomicStep ==
  ASSUME P2PInv, NEW c, Good(c), Settles(db, c), Atomically(c)
  PROVE  StepSound
<1>1. /\ db' = c /\ work' = c /\ writer' = None /\ stale' = stale /\ job' = job
  BY DEF Atomically, Unlocked
<1>2. \A q \in Procs : job[q].step \notin Inside
  BY NobodyInside DEF Atomically
<1>3. job \in [Procs -> Job]
  BY DEF P2PInv, TypeOK
<1>. QED
  BY <1>1, <1>2, <1>3, Committing

\* The process has the lock, or takes it, and goes on with the books c.
LEMMA Working ==
  ASSUME P2PInv, NEW p \in Procs, writer \in {None, p}, NEW c, Good(c), Ahead(db, c),
         db' = db, work' = c, writer' = p, stale' = stale,
         NEW r \in Job, job' = [job EXCEPT ![p] = r], Ready(p)'
  PROVE  StepSound
<1>1. job \in [Procs -> Job]
  BY DEF P2PInv, TypeOK
<1>2. job' \in [Procs -> Job] /\ job'[p] = r /\ \A q \in Procs \ {p} : job'[q] = job[q]
  BY <1>1
<1>3. TypeOK'
  BY <1>2 DEF P2PInv, TypeOK, Good
<1>4. Good(db') /\ Good(work') /\ Ahead(db', work')
  BY DEF P2PInv
<1>5. Good(db)' /\ Good(work)' /\ Ahead(db, work)'
  BY <1>4 DEF Good, Linked, Counted, Placed, OpenOf, Ahead
<1>6. \A q \in Procs : JobSound(q)'
  BY <1>2, OneInside DEF JobSound
<1>7. P2PInv'
  BY <1>3, <1>5, <1>6, NobodyIsNone DEF P2PInv, Unlocked
<1>8. Settles(db, db')
  BY Same DEF P2PInv
<1>. QED
  BY <1>7, <1>8 DEF StepSound

\* A process outside a transaction, that stays outside, disturbs nobody.
LEMMA Outside ==
  ASSUME P2PInv, NEW p \in Procs, NEW r \in Job, r.step \notin Inside,
         UNCHANGED <<db, work, writer>>, stale' \subseteq Trades,
         job' = [job EXCEPT ![p] = r]
  PROVE  StepSound
<1>1. job \in [Procs -> Job]
  BY DEF P2PInv, TypeOK
<1>2. job' \in [Procs -> Job] /\ job'[p] = r /\ \A q \in Procs \ {p} : job'[q] = job[q]
  BY <1>1
<1>3. TypeOK'
  BY <1>2 DEF P2PInv, TypeOK
<1>4. Good(db)' /\ Good(work)' /\ Ahead(db, work)'
  BY DEF P2PInv, Good, Linked, Counted, Placed, OpenOf, Ahead
<1>5. ASSUME NEW q \in Procs PROVE JobSound(q)'
  <2>1. CASE q = p
    BY <1>2, <2>1 DEF JobSound
  <2>2. CASE q # p
    <3>1. job'[q] = job[q] /\ JobSound(q)
      BY <1>2, <2>2 DEF P2PInv
    <3>. QED
      BY <3>1 DEF JobSound, Ready, FreeOrders, FreeTrades, Live, OpenOf
  <2>. QED
    BY <2>1, <2>2
<1>6. P2PInv'
  BY <1>3, <1>4, <1>5 DEF P2PInv, Unlocked
<1>7. Settles(db, db')
  BY Same DEF P2PInv
<1>. QED
  BY <1>6, <1>7 DEF StepSound

-----------------------------------------------------------------------------
(* create_sell_order. *)

\* The process changes its record alone, inside a transaction.
LEMMA Moving ==
  ASSUME P2PInv, NEW p \in Procs, writer = p, Write(work),
         NEW r \in Job, job' = [job EXCEPT ![p] = r], Ready(p)'
  PROVE  StepSound
<1>1. /\ work' = work /\ db' = db /\ writer' = p /\ stale' = stale
  BY DEF Write
<1>2. Good(work) /\ Ahead(db, work)
  BY DEF P2PInv
<1>. QED
  BY <1>1, <1>2, Working

LEMMA CreateLockStep ==
  ASSUME P2PInv, NEW p \in Procs, NEW u \in Users, NEW amount \in Amounts,
         NEW bounds \in Limits, CreateLock(p, u, amount, bounds)
  PROVE  StepSound
<1> DEFINE r == [Idle EXCEPT !.step = "count", !.user = u, !.amount = amount,
                             !.bounds = bounds]
<1>1. /\ Unlocked /\ FreeOrders(work) # {} /\ writer' = p
      /\ job' = [job EXCEPT ![p] = r] /\ UNCHANGED <<db, work, stale>>
  BY DEF CreateLock, TakeLock, Become
<1>2. amount \in Nat /\ amount > 0
  BY P2PAssumption
<1>3. /\ r \in Job /\ r.step = "count" /\ r.user = u /\ r.amount = amount /\ r.bounds = bounds
  BY <1>2 DEF Idle, Job, Steps
<1>. HIDE DEF r
<1>4. job'[p] = r
  BY <1>1 DEF P2PInv, TypeOK
<1>5. Ready(p)'
  <2>1. work' = work /\ db' = db
    BY <1>1
  <2>2. FreeOrders(work)' # {}
    BY <1>1, <2>1 DEF FreeOrders
  <2>. QED
    BY <1>2, <1>3, <1>4, <2>2 DEF Ready
<1>6. Good(work) /\ Ahead(db, work)
  BY DEF P2PInv
<1>. QED
  BY <1>1, <1>3, <1>5, <1>6, Working DEF Unlocked

LEMMA CreateCountedStep ==
  ASSUME P2PInv, NEW p \in Procs, CreateCounted(p)
  PROVE  StepSound
<1> DEFINE r == [job[p] EXCEPT !.step = "insert"]
<1>1. /\ job[p].step = "count" /\ Cardinality(Live(work, job[p].user)) < MaxOrders
      /\ job' = [job EXCEPT ![p] = r] /\ Write(work)
  BY DEF CreateCounted, At, Goto
<1>2. writer = p /\ Ready(p)
  BY <1>1 DEF P2PInv, JobSound, Inside
<1>3. job[p] \in Job
  BY JobParts DEF P2PInv
<1>4. /\ r \in Job /\ r.step = "insert" /\ r.user = job[p].user
      /\ r.amount = job[p].amount /\ r.bounds = job[p].bounds
  BY <1>3 DEF Job, Steps
<1>. HIDE DEF r
<1>5. job'[p] = r
  BY <1>1 DEF P2PInv, TypeOK
<1>6. Ready(p)'
  <2>1. work' = work
    BY <1>1 DEF Write
  <2>. QED
    BY <1>1, <1>2, <1>4, <1>5, <2>1 DEF Ready
<1>. QED
  BY <1>1, <1>2, <1>4, <1>6, Moving

LEMMA CommitsWork ==
  ASSUME P2PInv, NEW p \in Procs, job[p].step \in Inside, Commit(p, work)
  PROVE  StepSound
BY AheadSettles, CommitStep DEF P2PInv

LEMMA CreateInsertStep ==
  ASSUME P2PInv, NEW p \in Procs, CreateInsert(p)
  PROVE  StepSound
<1> DEFINE u == job[p].user
           amount == job[p].amount
           c == Posted(work, u, amount, job[p].bounds)
<1>1. /\ job[p].step = "insert"
      /\ \/ CanDebit(work.wallet[u], amount) /\ Commit(p, c)
         \/ Commit(p, work)
  BY DEF CreateInsert, At
<1>2. job[p].step \in Inside /\ Ready(p)
  BY <1>1 DEF P2PInv, JobSound, Inside
<1>3. CASE CanDebit(work.wallet[u], amount) /\ Commit(p, c)
  <2>1. /\ u \in Users /\ job[p].bounds \in Limits /\ amount > 0 /\ FreeOrders(work) # {}
        /\ Cardinality(Live(work, u)) < MaxOrders
    BY <1>1, <1>2 DEF Ready
  <2>2. amount \in Nat
    BY JobParts DEF P2PInv
  <2>3. Good(work) /\ Ahead(db, work) /\ Good(db)
    BY DEF P2PInv
  <2>4. Places(work, c, u)
    BY <1>3, <2>1, <2>2, <2>3, Placing
  <2>. HIDE DEF c, u
  <2>5. Flipped(db, c)
    BY <2>3, <2>4 DEF Ahead, Flipped, Flips, Places
  <2>6. ASSUME NEW v \in Users, NEW q \in Orders, db.order[q].status = "none",
               c.order[q].seller = v
        PROVE  Cardinality(Live(c, v)) <= MaxOrders
    <3>1. work.order[q].seller = None
      BY <2>3, <2>6 DEF Ahead, Good, Linked
    <3>2. v = u
      BY <2>4, <2>6, <3>1, NobodyIsNone DEF Places
    <3>. QED
      BY <2>4, <3>2 DEF Places
  <2>7. Good(c) /\ Settles(db, c)
    BY <2>4, <2>5, <2>6 DEF Places, Settles, Capped
  <2>. QED
    BY <1>2, <1>3, <2>7, CommitStep
<1>4. CASE Commit(p, work)
  BY <1>2, <1>4, CommitsWork
<1>. QED
  BY <1>1, <1>3, <1>4

LEMMA SellStep ==
  ASSUME P2PInv, NEW p \in Procs, Sell(p)
  PROVE  StepSound
<1>1. ASSUME CreateRefused(p) PROVE StepSound
  BY <1>1, CommitsWork DEF CreateRefused, At, Inside
<1>. QED
  BY <1>1, CreateLockStep, CreateCountedStep, CreateInsertStep DEF Sell

-----------------------------------------------------------------------------
(* cancel_order. *)

LEMMA Cancelling ==
  ASSUME NEW row \in Order
  PROVE  LET new == Cancelled(row)
         IN /\ new \in Order /\ new.seller = row.seller /\ new.bounds = row.bounds
            /\ new.amount = row.amount
            /\ new.status = "cancelled" /\ new.remaining = 0
BY DEF Order, OrderStatuses, Cancelled

LEMMA CancelStep ==
  ASSUME P2PInv, NEW o \in Orders, CancelOrder(o)
  PROVE  StepSound
<1> DEFINE row == Cancelled(db.order[o])
           os  == [db.order EXCEPT ![o] = row]
           f   == [db EXCEPT !.order[o] = Cancelled(@)]
           c   == PayOut(db, f, db.order[o].seller, db.order[o].remaining)
<1>1. db.order[o].status = "active" /\ Atomically(c)
  BY DEF CancelOrder
<1>2. db \in Books /\ Good(db) /\ db.order[o] \in Order
  BY BookParts DEF P2PInv, Good
<1>3. /\ row \in Order /\ row.seller = db.order[o].seller /\ row.bounds = db.order[o].bounds
      /\ row.amount = db.order[o].amount
      /\ row.status = "cancelled" /\ row.remaining = 0
  BY <1>2, Cancelling
<1>4. f = [wallet |-> db.wallet, order |-> os, trade |-> db.trade, stats |-> db.stats]
  BY <1>2, BookParts
<1>. HIDE DEF f, row
<1>5. /\ os \in [Orders -> Order] /\ os[o] = row
      /\ \A q \in Orders \ {o} : os[q] = db.order[q]
  BY <1>2, <1>3, BookParts
<1>. HIDE DEF os
<1>6. f \in Books /\ f.order = os /\ f.trade = db.trade /\ f.wallet = db.wallet
  BY <1>2, <1>4, <1>5, BookParts DEF Books
<1>7. db.order[o].seller \in Users /\ db.order[o].remaining \in Nat
  BY <1>1, <1>2, RowParts DEF Good, Linked
<1>8. c = db \/ (c \in Books /\ c.order = os /\ c.trade = db.trade)
  BY <1>2, <1>6, <1>7, Paying
<1>. HIDE DEF c
<1>9. CASE c \in Books /\ c.order = os /\ c.trade = db.trade
  <2>1. Follows(db, c) /\ Flipped(db, c)
    BY <1>1, <1>3, <1>5, <1>9 DEF Follows, Flipped
  <2>2. \A q \in Orders : c.order[q].status = "active" <=> c.order[q].remaining > 0
    BY <1>2, <1>3, <1>5, <1>9 DEF Good, Linked
  <2>3. Good(c) /\ Settles(db, c)
    BY <1>2, <1>9, <2>1, <2>2, Following, FollowingSettles
  <2>. QED
    BY <1>1, <2>3, AtomicStep
<1>10. CASE c = db
  BY <1>1, <1>2, <1>10, Same, AtomicStep
<1>. QED
  BY <1>8, <1>9, <1>10

-----------------------------------------------------------------------------
(* buy and express_buy. *)

LEMMA BuyLockStep ==
  ASSUME P2PInv, NEW p \in Procs, NEW u \in Users, NEW order \in Orders \cup {None},
         NEW amount \in Asked \cup Budgets, BuyLock(p, u, order, amount)
  PROVE  StepSound
<1> DEFINE scan == StaleTrades(work, IF order = None THEN Orders ELSE {order})
           r == [Idle EXCEPT !.step = "expire", !.user = u, !.order = order,
                             !.amount = amount, !.scan = scan]
<1>1. /\ Unlocked /\ FreeTrades(work) # {} /\ writer' = p
      /\ job' = [job EXCEPT ![p] = r] /\ work' = work /\ db' = db /\ stale' = stale
  BY DEF BuyLock, TakeLock, Become
<1>2. amount \in Nat /\ amount > 0
  <2>1. Asked \subseteq Nat \ {0} /\ Budgets \subseteq Nat \ {0}
    BY P2PAssumption
  <2>2. amount \in Nat \ {0}
    BY <2>1
  <2>. QED
    BY <2>2
<1>3. scan \in SUBSET Trades
  BY DEF StaleTrades, P2PInv, TypeOK
<1>. HIDE DEF scan
<1>4. /\ r \in Job /\ r.step = "expire" /\ r.user = u /\ r.amount = amount
  BY <1>2, <1>3 DEF Idle, Job, Steps
<1>. HIDE DEF r
<1>5. job'[p] = r
  BY <1>1 DEF P2PInv, TypeOK
<1>6. work = db
  BY <1>1 DEF P2PInv
<1>7. Ready(p)'
  BY <1>1, <1>2, <1>4, <1>5, <1>6 DEF Ready
<1>8. Good(work) /\ Ahead(db, work)
  BY DEF P2PInv
<1>. QED
  BY <1>1, <1>4, <1>7, <1>8, Working DEF Unlocked

LEMMA ExpireOneStep ==
  ASSUME P2PInv, NEW p \in Procs, ExpireOne(p)
  PROVE  StepSound
<1> DEFINE t == Min(job[p].scan)
           c == Expired(work, t)
           r == [job[p] EXCEPT !.scan = @ \ {t}]
<1>1. /\ job[p].step \in {"expire", "reexpire", "sweep"} /\ job[p].scan # {}
      /\ work' = c /\ db' = db /\ writer' = writer /\ stale' = stale
  BY DEF ExpireOne, Write
<1>2. job' = [job EXCEPT ![p].scan = @ \ {Min(@)}]
  BY DEF ExpireOne
<1>3. job[p] \in Job /\ job[p].scan \in SUBSET Trades
  BY JobParts DEF P2PInv
<1>4. job' = [job EXCEPT ![p] = r]
  BY <1>2
<1>5. t \in Trades
  <2>1. job[p].scan \in SUBSET Nat
    BY <1>3, P2PAssumption
  <2>. QED
    BY <1>1, <1>3, <2>1, MinOfNats
<1>6. writer = p /\ Ready(p)
  BY <1>1 DEF P2PInv, JobSound, Inside
<1>7. Good(work) /\ Good(db) /\ Ahead(db, work)
  BY DEF P2PInv
<1>8. TimesOut(work, c, t)
  BY <1>5, <1>7, Expiring
<1>. HIDE DEF t, c
<1>9. /\ r \in Job /\ r.step = job[p].step /\ r.user = job[p].user
      /\ r.amount = job[p].amount
  BY <1>3 DEF Job
<1>. HIDE DEF r
<1>10. job'[p] = r
  BY <1>4 DEF P2PInv, TypeOK
<1>11. FreeTrades(db) \subseteq FreeTrades(work)
  BY <1>1, <1>6 DEF Ready
<1>12. Ahead(db, c)
  <2>1. \A o \in Orders : c.order[o].seller = db.order[o].seller
    BY <1>7, <1>8 DEF Ahead, TimesOut
  <2>2. ASSUME NEW q \in Trades
        PROVE  \/ c.trade[q].status = db.trade[q].status
               \/ db.trade[q].status = "none" /\ c.trade[q].status = "pending"
               \/ db.trade[q].status = "pending" /\ c.trade[q].status = "cancelled_timeout"
    <3>1. db.trade[q].status = "none" => work.trade[q].status = "none"
      BY <1>11 DEF FreeTrades
    <3>. QED
      BY <1>5, <1>7, <1>8, <3>1 DEF Ahead, TimesOut
  <2>. QED
    BY <2>1, <2>2 DEF Ahead
<1>13. FreeTrades(c) = FreeTrades(work) /\ Good(c)
  BY <1>8 DEF TimesOut
<1>14. Ready(p)'
  BY <1>1, <1>6, <1>9, <1>10, <1>13 DEF Ready
<1>. QED
  BY <1>1, <1>4, <1>6, <1>9, <1>12, <1>13, <1>14, Working

LEMMA BuyGateStep ==
  ASSUME P2PInv, NEW p \in Procs, BuyGate(p)
  PROVE  StepSound
<1> DEFINE r == [job[p] EXCEPT !.step = "slots"]
<1>1. /\ job[p].step = "expire"
      /\ \/ job' = [job EXCEPT ![p] = r] /\ Write(work)
         \/ Commit(p, work)
  BY DEF BuyGate, At, Goto
<1>2. job[p].step \in Inside /\ writer = p /\ Ready(p)
  BY <1>1 DEF P2PInv, JobSound, Inside
<1>3. CASE job' = [job EXCEPT ![p] = r] /\ Write(work)
  <2>1. job[p] \in Job
    BY JobParts DEF P2PInv
  <2>2. /\ r \in Job /\ r.step = "slots" /\ r.user = job[p].user /\ r.amount = job[p].amount
    BY <2>1 DEF Job, Steps
  <2>. HIDE DEF r
  <2>3. job'[p] = r
    BY <1>3 DEF P2PInv, TypeOK
  <2>4. work' = work /\ db' = db
    BY <1>3 DEF Write
  <2>5. Ready(p)'
    BY <1>1, <1>2, <2>2, <2>3, <2>4 DEF Ready
  <2>. QED
    BY <1>2, <1>3, <2>2, <2>5, Moving
<1>. QED
  BY <1>1, <1>2, <1>3, CommitsWork

LEMMA FreeSlotsStep ==
  ASSUME P2PInv, NEW p \in Procs, FreeSlots(p)
  PROVE  StepSound
<1> DEFINE u == job[p].user
           open == OpenAsBuyer(work, u)
           go == IF job[p].order = None THEN "walk" ELSE "fill"
           slots == MaxOpen - open
           scan == StaleTrades(work, Orders)
           on == [job[p] EXCEPT !.step = go, !.slots = slots]
           again == [job[p] EXCEPT !.step = "reexpire", !.scan = scan]
<1>1. /\ job[p].step \in {"slots", "reexpire"}
      /\ \/ open < MaxOpen /\ job' = [job EXCEPT ![p] = on] /\ Write(work)
         \/ job' = [job EXCEPT ![p] = again] /\ Write(work)
         \/ Commit(p, work)
  BY DEF FreeSlots, At
<1>2. job[p].step \in Inside /\ writer = p /\ Ready(p)
  BY <1>1 DEF P2PInv, JobSound, Inside
<1>3. /\ u \in Users /\ job[p].amount > 0 /\ FreeTrades(work) # {}
      /\ FreeTrades(db) \subseteq FreeTrades(work)
  BY <1>1, <1>2 DEF Ready
<1>4. open = Cardinality(OpenOf(work, u))
  BY DEF OpenAsBuyer, OpenOf
<1>5. open \in Nat
  BY <1>3, <1>4, FS_CardinalityType DEF P2PInv, Good, Counted
<1>6. job[p] \in Job /\ job[p].order \in Orders \cup {None}
  BY JobParts DEF P2PInv
<1>7. CASE open < MaxOpen /\ job' = [job EXCEPT ![p] = on] /\ Write(work)
  <2>1. slots \in Nat
    BY <1>5, <1>7, P2PAssumption
  <2>2. open + slots <= MaxOpen
    BY <1>5, P2PAssumption
  <2>3. go \in {"walk", "fill"} /\ (go = "fill" => job[p].order \in Orders)
    BY <1>6
  <2>. HIDE DEF slots, go, open
  <2>4. /\ on \in Job /\ on.step = go /\ on.user = u /\ on.slots = slots
        /\ on.order = job[p].order /\ on.amount = job[p].amount
    BY <1>6, <2>1, <2>3 DEF Job, Steps
  <2>. HIDE DEF on, u
  <2>5. job'[p] = on
    BY <1>7 DEF P2PInv, TypeOK
  <2>6. work' = work /\ db' = db
    BY <1>7 DEF Write
  <2>7. Ready(p)'
    BY <1>3, <1>4, <1>7, <2>2, <2>3, <2>4, <2>5, <2>6 DEF Ready
  <2>. QED
    BY <1>2, <1>7, <2>4, <2>7, Moving
<1>8. CASE job' = [job EXCEPT ![p] = again] /\ Write(work)
  <2>1. scan \in SUBSET Trades
    BY DEF StaleTrades, P2PInv, TypeOK
  <2>. HIDE DEF scan
  <2>2. /\ again \in Job /\ again.step = "reexpire" /\ again.user = u
        /\ again.amount = job[p].amount
    BY <1>6, <2>1 DEF Job, Steps
  <2>. HIDE DEF again, u
  <2>3. job'[p] = again
    BY <1>8 DEF P2PInv, TypeOK
  <2>4. work' = work /\ db' = db
    BY <1>8 DEF Write
  <2>5. Ready(p)'
    BY <1>3, <2>2, <2>3, <2>4 DEF Ready
  <2>. QED
    BY <1>2, <1>8, <2>2, <2>5, Moving
<1>. QED
  BY <1>1, <1>2, <1>7, <1>8, CommitsWork

\* A slice that is opened was no trade in the file.
LEMMA OpensAhead ==
  ASSUME P2PInv, NEW c, NEW u, Opens(work, c, u)
  PROVE  Good(c) /\ Ahead(db, c)
<1>1. Ahead(db, work)
  BY DEF P2PInv
<1>. QED
  BY <1>1 DEF Ahead, Opens

LEMMA BuyFillStep ==
  ASSUME P2PInv, NEW p \in Procs, BuyFill(p)
  PROVE  StepSound
<1> DEFINE o == job[p].order
           u == job[p].user
           c == Taken(work, o, u, job[p].amount)
<1>1. /\ job[p].step = "fill"
      /\ \/ CanFill(work, o, job[p].amount) /\ Commit(p, c)
         \/ Commit(p, work)
  BY DEF BuyFill, At
<1>2. job[p].step \in Inside /\ Ready(p)
  BY <1>1 DEF P2PInv, JobSound, Inside
<1>3. CASE CanFill(work, o, job[p].amount) /\ Commit(p, c)
  <2>1. /\ u \in Users /\ o \in Orders /\ job[p].amount > 0 /\ FreeTrades(work) # {}
        /\ Cardinality(OpenOf(work, u)) < MaxOpen
    BY <1>1, <1>2 DEF Ready
  <2>2. job[p].amount \in Nat /\ Good(work) /\ Good(db)
    BY JobParts DEF P2PInv
  <2>3. Opens(work, c, u)
    BY <1>3, <2>1, <2>2, Taking
  <2>4. Good(c) /\ Ahead(db, c)
    BY <2>3, OpensAhead
  <2>. QED
    BY <1>2, <1>3, <2>2, <2>4, AheadSettles, CommitStep
<1>. QED
  BY <1>1, <1>2, <1>3, CommitsWork

LEMMA OfferParts ==
  ASSUME P2PInv, NEW p \in Procs, Walking(p)
  PROVE  /\ Min(Offers(p)) \in Orders
         /\ LET row == work.order[Min(Offers(p))]
            IN /\ row.status = "active" /\ row.remaining \in Nat /\ row.amount \in Nat
               /\ row.bounds \in Limits /\ row.bounds.min \in Nat /\ row.bounds.max \in Nat
<1> DEFINE o == Min(Offers(p))
<1>1. o \in Offers(p) /\ o \in Orders
  <2>1. Offers(p) \in SUBSET Nat /\ Offers(p) \in SUBSET Orders /\ Offers(p) # {}
    BY P2PAssumption DEF Offers, Walking
  <2>. QED
    BY <2>1, MinOfNats
<1>. HIDE DEF o
<1>2. work.order[o].status = "active"
  BY <1>1 DEF Offers
<1>3. work.order[o].remaining \in Nat /\ work.order[o].amount \in Nat
  BY <1>1, RowParts DEF P2PInv, Good
<1>4. work.order[o].bounds \in Limits
  BY <1>1, <1>2 DEF P2PInv, Good, Linked
<1>5. work.order[o].bounds.min \in Nat /\ work.order[o].bounds.max \in Nat
  BY <1>4, P2PAssumption
<1>. QED
  BY <1>1, <1>2, <1>3, <1>4, <1>5 DEF o

LEMMA ExpressTakeStep ==
  ASSUME P2PInv, NEW p \in Procs, ExpressTake(p)
  PROVE  StepSound
<1> DEFINE o == Min(Offers(p))
           u == job[p].user
           next == o + 1
           slots == job[p].slots - 1
<1>1. /\ job[p].step = "walk" /\ Walking(p)
      /\ job[p].slots > 0 /\ job[p].amount > 0 /\ FreeTrades(work) # {}
  BY DEF ExpressTake, Walking, At
<1>2. writer = p /\ Ready(p) /\ Good(work) /\ Good(db)
  BY <1>1 DEF P2PInv, JobSound, Inside
<1>3. /\ o \in Orders /\ work.order[o].status = "active" /\ work.order[o].remaining \in Nat
      /\ work.order[o].bounds.max \in Nat
  BY <1>1, OfferParts
<1>4. PICK take \in Slices(work.order[o], job[p].amount) :
        \/ /\ Buyable(work, o, u, take) /\ Write(Taken(work, o, u, take))
           /\ job' = [job EXCEPT ![p].amount = @ - FiatOf(take), ![p].slots = slots,
                                 ![p].next = next]
        \/ Write(work) /\ job' = [job EXCEPT ![p].next = next]
  BY DEF ExpressTake
<1>. HIDE DEF o
<1>5. job[p] \in Job /\ job[p].amount \in Nat /\ job[p].slots \in Nat
  BY JobParts DEF P2PInv
<1>6. take \in Nat /\ FiatOf(take) \in Nat /\ FiatOf(take) <= job[p].amount
  BY <1>3, <1>5, SliceFits
<1>7. u \in Users /\ Cardinality(OpenOf(work, u)) + job[p].slots <= MaxOpen
  BY <1>1, <1>2 DEF Ready
<1>8. Cardinality(OpenOf(work, u)) \in Nat
  BY <1>2, <1>7, FS_CardinalityType DEF Good, Counted
<1>9. next \in Nat /\ slots \in Nat
  BY <1>1, <1>3, <1>5, P2PAssumption
<1>10. CASE /\ Buyable(work, o, u, take) /\ Write(Taken(work, o, u, take))
            /\ job' = [job EXCEPT ![p].amount = @ - FiatOf(take), ![p].slots = slots,
                                  ![p].next = next]
  <2> DEFINE c == Taken(work, o, u, take)
             left == job[p].amount - FiatOf(take)
             r == [job[p] EXCEPT !.amount = left, !.slots = slots, !.next = next]
  <2>1. job' = [job EXCEPT ![p] = r]
    BY <1>10
  <2>2. take > 0 /\ CanFill(work, o, take)
    BY <1>3, <1>10 DEF Buyable, CanFill
  <2>3. Cardinality(OpenOf(work, u)) < MaxOpen /\ MaxOpen \in Nat
    BY <1>1, <1>5, <1>7, <1>8, P2PAssumption
  <2>4. Opens(work, c, u)
    BY <1>1, <1>2, <1>3, <1>6, <1>7, <2>2, <2>3, Taking
  <2>5. work' = c /\ db' = db /\ writer' = p /\ stale' = stale
    BY <1>2, <1>10 DEF Write
  <2>. HIDE DEF c
  <2>6. Good(c) /\ Ahead(db, c)
    BY <2>4, OpensAhead
  <2>7. left \in Nat
    BY <1>5, <1>6
  <2>8. Cardinality(OpenOf(c, u)) + slots <= MaxOpen
    <3>1. Cardinality(OpenOf(c, u)) = Cardinality(OpenOf(work, u)) + 1
      BY <2>4 DEF Opens
    <3>. QED
      BY <1>5, <1>7, <1>8, <2>3, <3>1
  <2>. HIDE DEF left, slots, next
  <2>9. r \in Job /\ r.step = "walk" /\ r.user = u /\ r.slots = slots
    BY <1>1, <1>5, <1>9, <2>7 DEF Job
  <2>. HIDE DEF r, u
  <2>10. job'[p] = r
    BY <2>1 DEF P2PInv, TypeOK
  <2>11. Ready(p)'
    BY <1>7, <2>5, <2>8, <2>9, <2>10 DEF Ready
  <2>. QED
    BY <1>2, <2>1, <2>5, <2>6, <2>9, <2>11, Working
<1>11. CASE Write(work) /\ job' = [job EXCEPT ![p].next = next]
  <2> DEFINE r == [job[p] EXCEPT !.next = next]
  <2>1. job' = [job EXCEPT ![p] = r]
    BY <1>11
  <2>. HIDE DEF next
  <2>2. r \in Job /\ r.step = "walk" /\ r.user = u /\ r.slots = job[p].slots
    BY <1>1, <1>5, <1>9 DEF Job
  <2>. HIDE DEF r, u
  <2>3. job'[p] = r
    BY <2>1 DEF P2PInv, TypeOK
  <2>4. work' = work /\ db' = db
    BY <1>11 DEF Write
  <2>5. Ready(p)'
    BY <1>7, <2>2, <2>3, <2>4 DEF Ready
  <2>. QED
    BY <1>2, <1>11, <2>1, <2>2, <2>5, Moving
<1>. QED
  BY <1>4, <1>10, <1>11

LEMMA BuyStep ==
  ASSUME P2PInv, NEW p \in Procs, Buy(p)
  PROVE  StepSound
<1>1. ASSUME ExpressDone(p) PROVE StepSound
  BY <1>1, CommitsWork DEF ExpressDone, At, Inside
<1>. QED
  BY <1>1, BuyLockStep, ExpireOneStep, BuyGateStep, FreeSlotsStep, BuyFillStep,
     ExpressTakeStep DEF Buy

-----------------------------------------------------------------------------
(* The expiry pass. *)

LEMMA SweepListStep ==
  ASSUME P2PInv, NEW p \in Procs, SweepList(p)
  PROVE  StepSound
<1> DEFINE scan == StaleTrades(db, Orders)
           r == [Idle EXCEPT !.step = "listed", !.scan = scan]
<1>1. job' = [job EXCEPT ![p] = r] /\ UNCHANGED <<db, work, writer, stale>>
  BY DEF SweepList, Become
<1>2. scan \in SUBSET Trades /\ stale \subseteq Trades
  BY DEF StaleTrades, P2PInv, TypeOK
<1>. HIDE DEF scan
<1>3. r \in Job /\ r.step \notin Inside
  BY <1>2 DEF Idle, Job, Steps, Inside
<1>. HIDE DEF r
<1>. QED
  BY <1>1, <1>2, <1>3, Outside

LEMMA SweepLockStep ==
  ASSUME P2PInv, NEW p \in Procs, SweepLock(p)
  PROVE  StepSound
<1> DEFINE r == [job[p] EXCEPT !.step = "sweep"]
<1>1. /\ Unlocked /\ writer' = p /\ job' = [job EXCEPT ![p] = r]
      /\ work' = work /\ db' = db /\ stale' = stale
  BY DEF SweepLock, TakeLock, Goto
<1>2. job[p] \in Job
  BY JobParts DEF P2PInv
<1>3. r \in Job /\ r.step = "sweep"
  BY <1>2 DEF Job, Steps
<1>. HIDE DEF r
<1>4. job'[p] = r
  BY <1>1 DEF P2PInv, TypeOK
<1>5. work = db /\ Good(work) /\ Ahead(db, work)
  BY <1>1 DEF P2PInv
<1>6. Ready(p)'
  BY <1>1, <1>3, <1>4, <1>5 DEF Ready
<1>. QED
  BY <1>1, <1>3, <1>5, <1>6, Working DEF Unlocked

LEMMA SweepStep ==
  ASSUME P2PInv, NEW p \in Procs, Sweep(p)
  PROVE  StepSound
<1>1. ASSUME SweepDone(p) PROVE StepSound
  BY <1>1, CommitsWork DEF SweepDone, At, Inside
<1>2. ASSUME BusyTimeout(p) PROVE StepSound
  <2>1. job' = [job EXCEPT ![p] = Idle] /\ UNCHANGED <<db, work, writer, stale>>
    BY <1>2 DEF BusyTimeout, Become
  <2>2. Idle.step \notin Inside
    BY DEF Idle, Inside
  <2>3. stale \subseteq Trades
    BY DEF P2PInv, TypeOK
  <2>. QED
    BY <2>1, <2>2, <2>3, IdleJob, Outside
<1>. QED
  BY <1>1, <1>2, SweepListStep, SweepLockStep DEF Sweep

-----------------------------------------------------------------------------
(* The life of a trade. *)

\* The seller's card and the file's other rows are apart.
LEMMA CardWrite ==
  ASSUME NEW b \in Books, NEW u \in Users, NEW card \in Stats
  PROVE  LET c == [b EXCEPT !.stats[u] = card]
         IN c \in Books /\ c.wallet = b.wallet /\ c.order = b.order /\ c.trade = b.trade
<1> DEFINE ss == [b.stats EXCEPT ![u] = card]
<1>1. [b EXCEPT !.stats[u] = card]
        = [wallet |-> b.wallet, order |-> b.order, trade |-> b.trade, stats |-> ss]
  BY BookParts
<1>2. ss \in [Users -> Stats]
  BY BookParts
<1>. HIDE DEF ss
<1>. QED
  BY <1>1, <1>2, BookParts DEF Books

LEMMA Selling ==
  ASSUME NEW b \in Books, NEW t \in Trades, Seller(b, t) \in Users
  PROVE  /\ Sold(b, t) \in Books
         /\ Sold(b, t).wallet = b.wallet /\ Sold(b, t).order = b.order
         /\ Sold(b, t).trade = b.trade
<1> DEFINE card == b.stats[Seller(b, t)]
           trades == card.trades + 1
           sold == card.sold + b.trade[t].amount
           new == [card EXCEPT !.trades = trades, !.sold = sold]
<1>1. card \in Stats /\ b.trade[t].amount \in Nat
  BY BookParts, RowParts
<1>2. trades \in Nat /\ sold \in Nat
  BY <1>1 DEF Stats
<1>3. Sold(b, t) = [b EXCEPT !.stats[Seller(b, t)] = new]
  BY DEF Sold
<1>. HIDE DEF card, trades, sold
<1>4. new \in Stats
  BY <1>1, <1>2 DEF Stats
<1>. HIDE DEF new
<1>. QED
  BY <1>3, <1>4, CardWrite

\* The flip of a trade that exists, before wallets and cards are written.
LEMMA StatusFlip ==
  ASSUME NEW b, Good(b), NEW t \in Trades, b.trade[t].status # "none",
         NEW s \in Holding \cup ToBuyer \cup ToSeller
  PROVE  LET c == [b EXCEPT !.trade[t].status = s]
         IN /\ c \in Books /\ c.wallet = b.wallet /\ c.order = b.order
            /\ FlipOf(b.trade, c.trade, t, s)
            /\ Seller(c, t) = Seller(b, t) /\ Seller(b, t) \in Users
            /\ b.trade[t].buyer \in Users /\ b.trade[t].amount \in Nat
<1> DEFINE c == [b EXCEPT !.trade[t].status = s]
           ts == [b.trade EXCEPT ![t].status = s]
<1>1. b \in Books
  BY DEF Good
<1>2. c = [wallet |-> b.wallet, order |-> b.order, trade |-> ts, stats |-> b.stats]
  BY <1>1, BookParts
<1>3. ts \in [Trades -> Trade] /\ FlipOf(b.trade, ts, t, s)
  BY <1>1, BookParts, FlipsOneRow
<1>. HIDE DEF c, ts
<1>4. c \in Books /\ c.wallet = b.wallet /\ c.order = b.order /\ c.trade = ts
  BY <1>1, <1>2, <1>3, BookParts DEF Books
<1>5. Seller(c, t) = Seller(b, t)
  BY <1>3, <1>4 DEF FlipOf, Seller
<1>6. Seller(b, t) \in Users /\ b.trade[t].buyer \in Users /\ b.trade[t].amount \in Nat
  BY <1>1, RowParts DEF Good, Linked, Seller
<1>. QED
  BY <1>3, <1>4, <1>5, <1>6 DEF c

LEMMA Statuses ==
  /\ {"paid", "disputed"} \subseteq Holding
  /\ ToBuyer \cup {"returned_seller"} \subseteq Holding \cup ToBuyer \cup ToSeller
  /\ <<"pending", "paid">> \in Flips /\ <<"pending", "disputed">> \in Flips
  /\ <<"paid", "disputed">> \in Flips /\ <<"paid", "confirmed">> \in Flips
  /\ \A s \in ToBuyer \cup {"returned_seller"} : <<"disputed", s>> \in Flips
BY DEF Holding, ToBuyer, ToSeller, Flips

\* mark_paid and open_dispute: a flip alone.
LEMMA PlainFlip ==
  ASSUME P2PInv, NEW t \in Trades, NEW s \in {"paid", "disputed"},
         db.trade[t].status # "none", <<db.trade[t].status, s>> \in Flips,
         Atomically([db EXCEPT !.trade[t].status = s])
  PROVE  StepSound
<1> DEFINE c == [db EXCEPT !.trade[t].status = s]
<1>1. Good(db) /\ s \in Holding \cup ToBuyer \cup ToSeller
  BY Statuses DEF P2PInv
<1>2. c \in Books /\ c.order = db.order /\ FlipOf(db.trade, c.trade, t, s)
  BY <1>1, StatusFlip
<1>. HIDE DEF c
<1>3. Good(c) /\ Settles(db, c)
  BY <1>1, <1>2, Ruling
<1>. QED
  BY <1>3, AtomicStep DEF c

\* A payout that goes with a flip: both, or nothing.
LEMMA PaidFlip ==
  ASSUME P2PInv, NEW t \in Trades, NEW s \in ToBuyer \cup {"returned_seller"},
         db.trade[t].status # "none", <<db.trade[t].status, s>> \in Flips,
         NEW f \in Books, f.wallet = db.wallet, f.order = db.order,
         FlipOf(db.trade, f.trade, t, s),
         NEW u \in Users, NEW amount \in Nat, Atomically(PayOut(db, f, u, amount))
  PROVE  StepSound
<1> DEFINE c == PayOut(db, f, u, amount)
<1>1. Good(db) /\ db \in Books /\ s \in Holding \cup ToBuyer \cup ToSeller
  BY Statuses DEF P2PInv, Good
<1>2. c = db \/ (c \in Books /\ c.order = f.order /\ c.trade = f.trade)
  BY <1>1, Paying
<1>3. Atomically(c)
  OBVIOUS
<1>. HIDE DEF c
<1>4. CASE c \in Books /\ c.order = f.order /\ c.trade = f.trade
  <2>1. Good(c) /\ Settles(db, c)
    BY <1>1, <1>4, Ruling
  <2>. QED
    BY <1>3, <2>1, AtomicStep
<1>5. CASE c = db
  BY <1>1, <1>3, <1>5, Same, AtomicStep
<1>. QED
  BY <1>2, <1>4, <1>5

LEMMA ConfirmStep ==
  ASSUME P2PInv, NEW t \in Trades, SellerConfirm(t)
  PROVE  StepSound
<1> DEFINE c == [db EXCEPT !.trade[t].status = "confirmed"]
<1>1. /\ db.trade[t].status = "paid"
      /\ Atomically(PayOut(db, Sold(c, t), db.trade[t].buyer, db.trade[t].amount))
  BY DEF SellerConfirm
<1>2. Good(db) /\ "confirmed" \in ToBuyer
  BY DEF P2PInv, ToBuyer
<1>3. /\ c \in Books /\ c.wallet = db.wallet /\ c.order = db.order
      /\ FlipOf(db.trade, c.trade, t, "confirmed")
      /\ Seller(c, t) \in Users /\ db.trade[t].buyer \in Users /\ db.trade[t].amount \in Nat
  BY <1>1, <1>2, StatusFlip
<1>. HIDE DEF c
<1>4. /\ Sold(c, t) \in Books /\ Sold(c, t).wallet = db.wallet
      /\ Sold(c, t).order = db.order /\ FlipOf(db.trade, Sold(c, t).trade, t, "confirmed")
  BY <1>3, Selling
<1>. QED
  BY <1>1, <1>2, <1>3, <1>4, Statuses, PaidFlip

\* The transition of a ruling, before its payout: a flip, and a card perhaps.
LEMMA RuleWrites ==
  ASSUME Good(db), NEW t \in Trades, NEW ruling \in ToBuyer \cup {"returned_seller"},
         db.trade[t].status = "disputed"
  PROVE  LET f == Ruled(t, ruling)
             u == IF ruling \in ToBuyer THEN db.trade[t].buyer ELSE Seller(db, t)
         IN /\ f \in Books /\ f.wallet = db.wallet /\ f.order = db.order
            /\ FlipOf(db.trade, f.trade, t, ruling)
            /\ u \in Users /\ db.trade[t].amount \in Nat
<1> DEFINE c == [db EXCEPT !.trade[t].status = ruling]
           f == Ruled(t, ruling)
<1>1. db \in Books /\ ruling \in Holding \cup ToBuyer \cup ToSeller
  BY Statuses DEF Good
<1>2. /\ c \in Books /\ c.wallet = db.wallet /\ c.order = db.order
      /\ FlipOf(db.trade, c.trade, t, ruling)
      /\ Seller(c, t) \in Users /\ Seller(db, t) \in Users
      /\ db.trade[t].buyer \in Users /\ db.trade[t].amount \in Nat
  BY <1>1, StatusFlip
<1>3. /\ f \in Books /\ f.wallet = db.wallet /\ f.order = db.order
      /\ FlipOf(db.trade, f.trade, t, ruling)
  <2>1. CASE ruling = "refund_buyer"
    <3> DEFINE card == [c.stats[Seller(db, t)] EXCEPT !.disputes = @ + 1]
    <3>1. card \in Stats
      BY <1>2, BookParts DEF Stats
    <3>2. f = [c EXCEPT !.stats[Seller(db, t)] = card]
      BY <2>1 DEF Ruled
    <3>. HIDE DEF c, f, card
    <3>. QED
      BY <1>2, <3>1, <3>2, CardWrite
  <2>2. CASE ruling = "confirmed"
    <3>1. f = Sold(c, t)
      BY <2>2 DEF Ruled
    <3>. HIDE DEF c, f
    <3>. QED
      BY <1>2, <3>1, Selling
  <2>3. CASE ruling = "returned_seller"
    BY <1>2, <2>3 DEF Ruled
  <2>. QED
    BY <2>1, <2>2, <2>3 DEF ToBuyer
<1>. HIDE DEF c, f
<1>. QED
  BY <1>2, <1>3 DEF f

LEMMA RuleStep ==
  ASSUME P2PInv, NEW t \in Trades, NEW ruling \in ToBuyer \cup {"returned_seller"},
         ResolveDispute(t, ruling)
  PROVE  StepSound
<1> DEFINE f == Ruled(t, ruling)
           u == IF ruling \in ToBuyer THEN db.trade[t].buyer ELSE Seller(db, t)
<1>1. /\ db.trade[t].status = "disputed"
      /\ Atomically(PayOut(db, f, u, db.trade[t].amount))
  BY DEF ResolveDispute
<1>2. Good(db)
  BY DEF P2PInv
<1>3. /\ f \in Books /\ f.wallet = db.wallet /\ f.order = db.order
      /\ FlipOf(db.trade, f.trade, t, ruling)
      /\ u \in Users /\ db.trade[t].amount \in Nat
  BY <1>1, <1>2, RuleWrites
<1>. HIDE DEF f, u
<1>. QED
  BY <1>1, <1>3, Statuses, PaidFlip

LEMMA DealStep ==
  ASSUME P2PInv, NEW t \in Trades, Deal(t)
  PROVE  StepSound
<1>1. ASSUME MarkPaid(t) PROVE StepSound
  BY <1>1, Statuses, PlainFlip DEF MarkPaid
<1>2. ASSUME OpenDispute(t) PROVE StepSound
  BY <1>2, Statuses, PlainFlip DEF OpenDispute, Disputable
<1>3. ASSUME Age(t) PROVE StepSound
  <2>1. /\ UNCHANGED <<db, work, writer, job>> /\ stale' \subseteq Trades
    BY <1>3 DEF Age, P2PInv, TypeOK
  <2>2. TypeOK'
    BY <2>1 DEF P2PInv, TypeOK
  <2>3. Good(db)' /\ Good(work)' /\ Ahead(db, work)'
    BY <2>1 DEF P2PInv, Good, Linked, Counted, Placed, OpenOf, Ahead
  <2>4. \A p \in Procs : JobSound(p)'
    BY <2>1 DEF P2PInv, JobSound, Ready, FreeOrders, FreeTrades, Live, OpenOf
  <2>5. P2PInv'
    BY <2>1, <2>2, <2>3, <2>4 DEF P2PInv, Unlocked
  <2>. QED
    BY <2>1, <2>5, Same DEF StepSound, P2PInv
<1>. QED
  BY <1>1, <1>2, <1>3, ConfirmStep, RuleStep DEF Deal

-----------------------------------------------------------------------------
(* The rest of the economy, and failures. *)

\* A wallet write that has nothing to do with the market.
LEMMA WalletWrite ==
  ASSUME P2PInv, NEW u \in Users, NEW w,
         [db.wallet EXCEPT ![u] = w] \in [Users -> Wallets],
         Atomically([db EXCEPT !.wallet[u] = w])
  PROVE  StepSound
<1> DEFINE c == [db EXCEPT !.wallet[u] = w]
           ws == [db.wallet EXCEPT ![u] = w]
<1>1. Good(db) /\ db \in Books
  BY DEF P2PInv, Good
<1>2. c = [wallet |-> ws, order |-> db.order, trade |-> db.trade, stats |-> db.stats]
  BY <1>1, BookParts
<1>3. Atomically(c)
  OBVIOUS
<1>4. ws \in [Users -> Wallets]
  OBVIOUS
<1>. HIDE DEF c, ws
<1>5. c \in Books /\ c.order = db.order /\ c.trade = db.trade
  BY <1>1, <1>2, <1>4, BookParts DEF Books
<1>6. Follows(db, c) /\ Flipped(db, c)
  BY <1>5 DEF Follows, Flipped
<1>7. \A o \in Orders : c.order[o].status = "active" <=> c.order[o].remaining > 0
  BY <1>1, <1>5 DEF Good, Linked
<1>8. Good(c)
  BY <1>1, <1>5, <1>6, <1>7, Following
<1>9. Settles(db, c)
  BY <1>1, <1>6, FollowingSettles
<1>. QED
  BY <1>3, <1>8, <1>9, AtomicStep

LEMMA ElsewhereStep ==
  ASSUME P2PInv, NEW u \in Users, Elsewhere(u)
  PROVE  StepSound
<1>1. PICK amount \in Flows : Earn(u, amount) \/ Spend(u, amount)
  BY DEF Elsewhere
<1>2. amount \in Nat /\ db \in Books
  BY P2PAssumption DEF P2PInv, Good
<1>3. CASE Earn(u, amount)
  <2> DEFINE w == Credited(db.wallet[u], amount)
  <2>1. [db.wallet EXCEPT ![u] = Credited(@, amount)] \in [Users -> Wallets]
    BY <1>2, <1>3, WalletParts DEF Earn
  <2>2. [db.wallet EXCEPT ![u] = w] \in [Users -> Wallets]
    BY <2>1
  <2>3. Atomically([db EXCEPT !.wallet[u] = w])
    BY <1>3 DEF Earn
  <2>. HIDE DEF w
  <2>. QED
    BY <2>2, <2>3, WalletWrite
<1>4. CASE Spend(u, amount)
  <2> DEFINE w == Debited(db.wallet[u], amount)
  <2>1. [db.wallet EXCEPT ![u] = Debited(@, amount)] \in [Users -> Wallets]
    BY <1>2, <1>4, WalletParts DEF Spend
  <2>2. [db.wallet EXCEPT ![u] = w] \in [Users -> Wallets]
    BY <2>1
  <2>3. Atomically([db EXCEPT !.wallet[u] = w])
    BY <1>4 DEF Spend
  <2>. HIDE DEF w
  <2>. QED
    BY <2>2, <2>3, WalletWrite
<1>. QED
  BY <1>1, <1>3, <1>4

\* A crash leaves the file, and nobody inside.
LEMMA CrashStep ==
  ASSUME P2PInv, Crash
  PROVE  StepSound
<1>1. /\ db' = db /\ work' = db /\ writer' = None /\ stale' = stale
      /\ job' = [p \in Procs |-> Idle]
  BY DEF Crash
<1>2. Good(db) /\ Settles(db, db)
  BY Same DEF P2PInv
<1>3. job' \in [Procs -> Job] /\ \A q \in Procs : job'[q].step \notin Inside
  BY <1>1, IdleJob DEF Inside
<1>. QED
  BY <1>1, <1>2, <1>3, Committing

LEMMA FreshBooks ==
  /\ Good(Fresh) /\ FreeOrders(Fresh) = Orders
  /\ \A u \in Users : Fresh.wallet[u] = Seeded(Welcome) /\ Fresh.stats[u] = NoStats
  /\ \A o \in Orders : Fresh.order[o] = NoOrder
  /\ \A t \in Trades : Fresh.trade[t] = NoTrade
<1> DEFINE b  == Fresh
           ws == [u \in Users |-> Seeded(Welcome)]
           os == [o \in Orders |-> NoOrder]
           ts == [t \in Trades |-> NoTrade]
           ss == [u \in Users |-> NoStats]
<1>1. b = [wallet |-> ws, order |-> os, trade |-> ts, stats |-> ss]
  BY DEF Fresh
<1>2. ws \in [Users -> Wallets] /\ \A u \in Users : ws[u] = Seeded(Welcome)
  BY P2PAssumption, MaxAmountAssumption DEF Seeded, Wallets
<1>3. /\ NoOrder \in Order /\ NoOrder.status = "none" /\ NoOrder.seller = None
      /\ NoOrder.remaining = 0
  BY DEF NoOrder, Order, OrderStatuses
<1>4. NoTrade \in Trade /\ NoTrade.status = "none"
  BY DEF NoTrade, Trade
<1>5. /\ os \in [Orders -> Order] /\ \A o \in Orders : os[o] = NoOrder
      /\ ts \in [Trades -> Trade] /\ \A t \in Trades : ts[t] = NoTrade
  BY <1>3, <1>4
<1>6. ss \in [Users -> Stats] /\ \A u \in Users : ss[u] = NoStats
  BY DEF NoStats, Stats
<1>. HIDE DEF b, ws, os, ts, ss
<1>7. /\ b \in Books /\ b.wallet = ws /\ b.order = os /\ b.trade = ts /\ b.stats = ss
  BY <1>1, <1>2, <1>5, <1>6 DEF Books
<1>8. Linked(b)
  BY <1>3, <1>4, <1>5, <1>7 DEF Linked
<1>9. Placed(b) = {} /\ \A u \in Users : OpenOf(b, u) = {}
  BY <1>3, <1>4, <1>5, <1>7 DEF Placed, OpenOf, Holding
<1>10. Counted(b)
  <2>1. MaxOpen \in Nat
    BY P2PAssumption
  <2>2. IsFiniteSet({}) /\ Cardinality({}) <= MaxOpen
    BY <2>1, FS_EmptySet
  <2>. QED
    BY <1>9, <2>2 DEF Counted
<1>11. Good(b) /\ FreeOrders(b) = Orders
  BY <1>3, <1>5, <1>7, <1>8, <1>10 DEF Good, FreeOrders
<1>. QED
  BY <1>2, <1>5, <1>6, <1>7, <1>11 DEF b

\* A book of the initial states holds one order of the legacy bot at most.
LEMMA InheritedBooks ==
  ASSUME NEW b \in Inherited
  PROVE  \E u \in Users, amount \in Nat, bounds \in Limits :
           /\ b = Posted(Fresh, u, amount, bounds) /\ amount > 0
           /\ CanDebit(Fresh.wallet[u], amount) /\ FreeOrders(Fresh) # {}
<1>1. PICK u \in Users, amount \in {n \in Amounts : n <= Welcome /\ Orders # {}},
           bounds \in Legacy : b = Posted(Fresh, u, amount, bounds)
  BY DEF Inherited
<1>2. amount \in Nat /\ amount > 0 /\ amount <= Welcome /\ Orders # {} /\ bounds \in Limits
  BY P2PAssumption
<1>3. CanDebit(Fresh.wallet[u], amount) /\ FreeOrders(Fresh) # {}
  BY <1>2, FreshBooks DEF CanDebit, Seeded
<1>. QED
  BY <1>1, <1>2, <1>3

LEMMA InitHolds == Init => P2PInv
<1> SUFFICES ASSUME Init PROVE P2PInv
  OBVIOUS
<1>1. db \in Inherited => Good(db)
  BY InheritedBooks, FreshBooks, Placing
<1>2. Good(db) /\ db \in Books
  BY <1>1, FreshBooks DEF Init, Good
<1>3. work = db /\ writer = None /\ stale = {} /\ job = [p \in Procs |-> Idle]
  BY DEF Init
<1>4. TypeOK
  BY <1>2, <1>3, IdleJob DEF TypeOK
<1>5. \A p \in Procs : JobSound(p)
  BY <1>3, IdleJob DEF JobSound, Inside
<1>. QED
  BY <1>2, <1>3, <1>4, <1>5, AheadSame DEF P2PInv

LEMMA StepHolds ==
  ASSUME P2PInv, [Next]_vars
  PROVE  StepSound
<1>1. ASSUME NEW p \in Procs, Sell(p) \/ Buy(p) \/ Sweep(p)
      PROVE  StepSound
  BY <1>1, SellStep, BuyStep, SweepStep
<1>2. ASSUME NEW o \in Orders, CancelOrder(o) PROVE StepSound
  BY <1>2, CancelStep
<1>3. ASSUME NEW t \in Trades, Deal(t) PROVE StepSound
  BY <1>3, DealStep
<1>4. ASSUME NEW u \in Users, Elsewhere(u) PROVE StepSound
  BY <1>4, ElsewhereStep
<1>5. CASE UNCHANGED vars
  <2>1. UNCHANGED <<db, work, writer, job, stale>>
    BY <1>5 DEF vars
  <2>2. TypeOK'
    BY <2>1 DEF P2PInv, TypeOK
  <2>3. Good(db)' /\ Good(work)' /\ Ahead(db, work)'
    BY <2>1 DEF P2PInv, Good, Linked, Counted, Placed, OpenOf, Ahead
  <2>4. \A p \in Procs : JobSound(p)'
    BY <2>1 DEF P2PInv, JobSound, Ready, FreeOrders, FreeTrades, Live, OpenOf
  <2>5. P2PInv'
    BY <2>1, <2>2, <2>3, <2>4 DEF P2PInv, Unlocked
  <2>. QED
    BY <2>1, <2>5, Same DEF StepSound, P2PInv
<1>. QED
  BY <1>1, <1>2, <1>3, <1>4, <1>5, CrashStep DEF Next

LEMMA P2PInvariant == Spec => []P2PInv
<1>1. P2PInv /\ [Next]_vars => P2PInv'
  BY StepHolds DEF StepSound
<1>. QED
  BY InitHolds, <1>1, PTL DEF Spec

-----------------------------------------------------------------------------
\* Every balance, order and slice keeps its type, in the file and in the copy
\* of the process that writes, for any amounts, limits and caps.
THEOREM TypeCorrect == Spec => []TypeOK
<1>1. P2PInv => TypeOK
  BY DEF P2PInv
<1>. QED
  BY P2PInvariant, <1>1, PTL

\* Both caps hold however many handlers create, buy and sweep at once, and
\* whatever crashes between their steps.
THEOREM CapsHoldAlways == Spec => MarketCapsHold
<1>1. ASSUME P2PInv, [Next]_vars
      PROVE  [BuyerHoldsFewSlices' /\ CreateKeepsTheCap]_vars
  <2>1. P2PInv' /\ Settles(db, db')
    BY <1>1, StepHolds DEF StepSound
  <2>2. BuyerHoldsFewSlices'
    <3>1. \A u \in Users : BoughtBy(u, Holding)' = OpenOf(db', u)
      BY DEF BoughtBy, OpenOf
    <3>2. \A u \in Users : Cardinality(OpenOf(db', u)) <= MaxOpen
      BY <2>1 DEF P2PInv, Good, Counted, OpenOf
    <3>. QED
      BY <3>1, <3>2 DEF BuyerHoldsFewSlices
  <2>3. CreateKeepsTheCap
    BY <2>1 DEF Settles, Capped, CreateKeepsTheCap
  <2>. QED
    BY <2>2, <2>3
<1>. QED
  BY <1>1, P2PInvariant, PTL DEF Spec, MarketCapsHold

\* A buyer who asserted his payment is never timed out, though a pass listed his
\* trade while it was pending.
THEOREM PaidStaysPaid == Spec => PaidIsNeverTimedOut
<1> DEFINE A == \A t \in Trades : db.trade[t].status = "paid" =>
                  db'.trade[t].status # "cancelled_timeout"
<1>1. ASSUME P2PInv, [Next]_vars PROVE [A]_vars
  <2>1. Flipped(db, db')
    BY <1>1, StepHolds DEF StepSound, Settles
  <2>. QED
    BY <2>1 DEF Flipped, Flips
<1>. QED
  BY <1>1, P2PInvariant, PTL DEF Spec, PaidIsNeverTimedOut

\* The trades implement the escrow promise: each slice is paid to its buyer or
\* goes back, once.
THEOREM TradesImplementEscrow == Spec => SettledOnce
<1>1. ASSUME Init PROVE E!Init
  <2>1. db \in Inherited => db.trade = Fresh.trade
    BY InheritedBooks DEF Posted, Fresh
  <2>2. \A t \in Trades : db.trade[t].status = "none"
    BY <1>1, <2>1, FreshBooks DEF Init, NoTrade
  <2>. QED
    BY <2>2 DEF E!Init, EscrowState, Holding, ToBuyer, ToSeller
<1>2. ASSUME P2PInv, [Next]_vars PROVE [E!Next]_EscrowState
  <2>1. EscrowState' = [t \in Trades |-> EscrowState'[t]]
    BY DEF EscrowState
  <2>2. ASSUME NEW t \in Trades
        PROVE  \/ EscrowState'[t] = EscrowState[t]
               \/ <<EscrowState[t], EscrowState'[t]>> \in E!Moves
    <3>1. Flipped(db, db')
      BY <1>2, StepHolds DEF StepSound, Settles
    <3>. QED
      BY <3>1 DEF EscrowState, E!Moves, Flipped, Flips, Holding, ToBuyer, ToSeller
  <2>. QED
    BY <2>1, <2>2 DEF E!Next
<1>. QED
  BY <1>1, <1>2, P2PInvariant, PTL DEF Spec, SettledOnce, E!Spec

-----------------------------------------------------------------------------
(* The sums of the books, of the file and of the writer's copy alike.      *)

Coins(b, u)    == SumOver([o \in Orders |-> b.order[o].remaining],
                          {o \in Orders : b.order[o].seller = u})
Value(b, S)    == SumOver([t \in Trades |-> b.trade[t].amount], S)
Sales(b, u, s) == {t \in Trades : b.trade[t].status \in s /\ Seller(b, t) = u}
Buys(b, u, s)  == {t \in Trades : b.trade[t].status \in s /\ b.trade[t].buyer = u}
Used(b)        == {t \in Trades : b.trade[t].status # "none"}

Owns(b, u) ==
  b.wallet[u].balance + Coins(b, u) + Value(b, Sales(b, u, Holding \cup ToBuyer))
    = Worth(b.wallet[u], Welcome) + Value(b, Buys(b, u, ToBuyer))

Carded(b, u) ==
  LET done == Sales(b, u, {"confirmed"})
  IN b.stats[u] = [trades |-> Cardinality(done), sold |-> Value(b, done),
                   disputes |-> Cardinality(Sales(b, u, {"refund_buyer"}))]

Agree(b) == IsFiniteSet(Used(b)) /\ \A u \in Users : Owns(b, u) /\ Carded(b, u)

\* What a wallet holds beside what its counters say.
Net(w) == w.balance - w.earned + w.spent

\* What one order, one trade put on the two sides of Owns.
OnBook(b, o, u) == IF b.order[o].seller = u THEN b.order[o].remaining ELSE 0
SoldIn(b, t, u) == IF t \in Sales(b, u, Holding \cup ToBuyer) THEN b.trade[t].amount ELSE 0
GotIn(b, t, u)  == IF t \in Buys(b, u, ToBuyer) THEN b.trade[t].amount ELSE 0

LEMMA PurseParts ==
  ASSUME NEW b \in Books, NEW u \in Users
  PROVE  /\ b.wallet[u] \in Wallets
         /\ b.wallet[u].balance \in Int /\ b.wallet[u].balance \in Nat
         /\ b.wallet[u].earned \in Nat /\ b.wallet[u].spent \in Nat
         /\ Net(b.wallet[u]) \in Int
<1>1. b.wallet[u] \in Wallets
  BY BookParts
<1>2. /\ b.wallet[u].balance \in Nat
      /\ b.wallet[u].earned \in Nat /\ b.wallet[u].spent \in Nat
  BY <1>1, MaxAmountAssumption DEF Wallets
<1>. QED
  BY <1>1, <1>2 DEF Net

LEMMA CoinSums ==
  ASSUME NEW b, Good(b), NEW c \in Books, NEW o \in Orders,
         \A q \in Orders \ {o} : c.order[q] = b.order[q], NEW u \in Users
  PROVE  /\ Coins(b, u) \in Int /\ Coins(c, u) \in Int
         /\ Coins(c, u) = Coins(b, u) + OnBook(c, o, u) - OnBook(b, o, u)
<1> DEFINE S == Placed(b) \cup {o}
           f == [q \in Orders |-> b.order[q].remaining]
           g == [q \in Orders |-> c.order[q].remaining]
           A == {q \in Orders : b.order[q].seller = u}
           B == {q \in Orders : c.order[q].seller = u}
<1>1. IsFiniteSet(S)
  BY FS_AddElement DEF Good, Counted
<1>2. A \in SUBSET S
  BY NobodyIsNone DEF Good, Linked, Placed
<1>3. B \in SUBSET S /\ \A q \in S : q # o => (q \in A <=> q \in B)
  BY <1>2 DEF Placed
<1>4. \A q \in Orders : /\ f[q] \in Int /\ g[q] \in Int
                        /\ f[q] = b.order[q].remaining /\ g[q] = c.order[q].remaining
  BY RowParts DEF Good
<1>5. S \subseteq Orders
  BY DEF Placed
<1>6. \A q \in S : q # o => g[q] = f[q]
  BY <1>4, <1>5
<1>7. /\ OnBook(b, o, u) = IF o \in A THEN f[o] ELSE 0
      /\ OnBook(c, o, u) = IF o \in B THEN g[o] ELSE 0
  BY <1>4 DEF OnBook
<1>8. Coins(b, u) = SumOver(f, A) /\ Coins(c, u) = SumOver(g, B)
  BY DEF Coins
<1>. HIDE DEF S, f, g, A, B
<1>9. /\ \A y \in A : f[y] \in Int
      /\ \A y \in B : g[y] \in Int
      /\ \A y \in S : y # o => /\ y \in A <=> y \in B
                               /\ y \in A => g[y] = f[y]
  BY <1>2, <1>3, <1>4, <1>5, <1>6
<1>10. SumOver(f, A) \in Int /\ SumOver(g, B) \in Int
  <2>1. IsFiniteSet(A) /\ IsFiniteSet(B) /\ A \in SUBSET A /\ B \in SUBSET B
    BY <1>1, <1>2, <1>3, FS_Subset
  <2>. QED
    BY <1>9, <2>1, SumInt
<1>11. o \in S
  BY DEF S
<1>12. SumOver(g, B) = SumOver(f, A) + (IF o \in B THEN g[o] ELSE 0)
                                     - (IF o \in A THEN f[o] ELSE 0)
  BY <1>1, <1>2, <1>3, <1>9, <1>11, SumOfRows
<1>. QED
  BY <1>7, <1>8, <1>10, <1>12

\* The trades of A are those of B, but for t.
ApartFrom(b, c, t, A, B) ==
  /\ \A q \in Trades \ {t} : c.trade[q] = b.trade[q]
  /\ A \subseteq Used(b) /\ B \subseteq Used(b) \cup {t}
  /\ \A q \in Trades \ {t} : q \in A <=> q \in B

Summed(b, c, t, A, B) ==
  /\ Value(b, A) \in Int /\ Value(c, B) \in Int
  /\ Value(c, B) = Value(b, A) + (IF t \in B THEN c.trade[t].amount ELSE 0)
                               - (IF t \in A THEN b.trade[t].amount ELSE 0)
  /\ Cardinality(A) \in Nat /\ Cardinality(B) \in Nat
  /\ Cardinality(B) = Cardinality(A) + (IF t \in B THEN 1 ELSE 0)
                                     - (IF t \in A THEN 1 ELSE 0)

LEMMA ValueSums ==
  ASSUME NEW b \in Books, IsFiniteSet(Used(b)), NEW c \in Books, NEW t \in Trades,
         NEW A, NEW B, ApartFrom(b, c, t, A, B)
  PROVE  Summed(b, c, t, A, B)
<1> DEFINE S == Used(b) \cup {t}
           f == [q \in Trades |-> b.trade[q].amount]
           g == [q \in Trades |-> c.trade[q].amount]
<1>0. /\ \A q \in Trades \ {t} : c.trade[q] = b.trade[q]
      /\ A \subseteq Used(b) /\ B \subseteq Used(b) \cup {t}
      /\ \A q \in Trades \ {t} : q \in A <=> q \in B
  BY DEF ApartFrom
<1>1. IsFiniteSet(S) /\ t \in S
  BY FS_AddElement
<1>2. S \subseteq Trades
  BY DEF Used
<1>3. \A q \in Trades : /\ f[q] \in Int /\ g[q] \in Int
                        /\ f[q] = b.trade[q].amount /\ g[q] = c.trade[q].amount
  BY RowParts
<1>4. A \in SUBSET S /\ B \in SUBSET S
  BY <1>0
<1>5. \A q \in S : q # t => g[q] = f[q] /\ (q \in A <=> q \in B)
  BY <1>0, <1>2, <1>3
<1>6. Value(b, A) = SumOver(f, A) /\ Value(c, B) = SumOver(g, B)
  BY DEF Value
<1>. HIDE DEF S, f, g
<1>7. /\ \A y \in A : f[y] \in Int
      /\ \A y \in B : g[y] \in Int
      /\ \A y \in S : y # t => /\ y \in A <=> y \in B
                               /\ y \in A => g[y] = f[y]
  BY <1>2, <1>3, <1>4, <1>5
<1>8. SumOver(f, A) \in Int /\ SumOver(g, B) \in Int
  <2>1. IsFiniteSet(A) /\ IsFiniteSet(B) /\ A \in SUBSET A /\ B \in SUBSET B
    BY <1>1, <1>4, FS_Subset
  <2>. QED
    BY <1>7, <2>1, SumInt
<1>9. SumOver(g, B) = SumOver(f, A) + (IF t \in B THEN g[t] ELSE 0)
                                    - (IF t \in A THEN f[t] ELSE 0)
  BY <1>1, <1>4, <1>7, SumOfRows
<1>10. /\ Cardinality(A) \in Nat /\ Cardinality(B) \in Nat
       /\ Cardinality(B) = Cardinality(A) + (IF t \in B THEN 1 ELSE 0)
                                          - (IF t \in A THEN 1 ELSE 0)
  BY <1>1, <1>4, <1>5, CountOfRows
<1>. QED
  BY <1>3, <1>6, <1>8, <1>9, <1>10 DEF Summed

\* Who sold and who bought the other trades stays.
LEMMA SalesOff ==
  ASSUME NEW b, Good(b), NEW c \in Books, NEW t \in Trades,
         \A q \in Trades \ {t} : c.trade[q] = b.trade[q],
         \A q \in Orders : b.order[q].status # "none" => c.order[q].seller = b.order[q].seller,
         NEW u \in Users, NEW s, "none" \notin s
  PROVE  /\ ApartFrom(b, c, t, Sales(b, u, s), Sales(c, u, s))
         /\ ApartFrom(b, c, t, Buys(b, u, s), Buys(c, u, s))
<1>1. ASSUME NEW q \in Trades \ {t}, b.trade[q].status # "none"
      PROVE  Seller(c, q) = Seller(b, q)
  BY <1>1 DEF Good, Linked, Seller
<1>2. /\ Sales(b, u, s) \subseteq Used(b) /\ Sales(c, u, s) \subseteq Used(b) \cup {t}
      /\ \A q \in Trades \ {t} : q \in Sales(b, u, s) <=> q \in Sales(c, u, s)
  BY <1>1 DEF Sales, Used
<1>3. /\ Buys(b, u, s) \subseteq Used(b) /\ Buys(c, u, s) \subseteq Used(b) \cup {t}
      /\ \A q \in Trades \ {t} : q \in Buys(b, u, s) <=> q \in Buys(c, u, s)
  BY DEF Buys, Used
<1>. QED
  BY <1>2, <1>3 DEF ApartFrom

\* The books of u add up: one equation of four numbers.
LEMMA OwnsMeans ==
  ASSUME NEW b \in Books, NEW u \in Users, Coins(b, u) \in Int,
         Value(b, Sales(b, u, Holding \cup ToBuyer)) \in Int,
         Value(b, Buys(b, u, ToBuyer)) \in Int
  PROVE  Owns(b, u) <=>
           Net(b.wallet[u]) + Coins(b, u) + Value(b, Sales(b, u, Holding \cup ToBuyer))
             - Value(b, Buys(b, u, ToBuyer)) = Welcome
<1> DEFINE coins == Coins(b, u)
           sold == Value(b, Sales(b, u, Holding \cup ToBuyer))
           got == Value(b, Buys(b, u, ToBuyer))
           x == b.wallet[u].balance
           y == b.wallet[u].earned
           z == b.wallet[u].spent
<1>1. x \in Int /\ y \in Int /\ z \in Int /\ Welcome \in Int
  BY PurseParts, P2PAssumption, MaxAmountAssumption
<1>2. Owns(b, u) <=> x + coins + sold = (Welcome + y - z) + got
  BY DEF Owns, Worth
<1>3. Net(b.wallet[u]) = x - y + z
  BY DEF Net
<1>4. coins \in Int /\ sold \in Int /\ got \in Int
  OBVIOUS
<1>. HIDE DEF coins, sold, got, x, y, z
<1>5. Owns(b, u) <=> Net(b.wallet[u]) + coins + sold - got = Welcome
  BY <1>1, <1>2, <1>3, <1>4
<1>. QED
  BY <1>5 DEF coins, sold, got

\* One order and one trade have changed, and the wallet of u with them.
LEMMA OwnsStill ==
  ASSUME NEW b, Good(b), Agree(b), NEW c \in Books, NEW o \in Orders, NEW t \in Trades,
         \A q \in Orders \ {o} : c.order[q] = b.order[q],
         \A q \in Trades \ {t} : c.trade[q] = b.trade[q],
         c.order[o].seller = b.order[o].seller, NEW u \in Users,
         Net(c.wallet[u]) + OnBook(c, o, u) + SoldIn(c, t, u) - GotIn(c, t, u)
           = Net(b.wallet[u]) + OnBook(b, o, u) + SoldIn(b, t, u) - GotIn(b, t, u)
  PROVE  Owns(c, u)
<1> DEFINE H == Holding \cup ToBuyer
<1>1. b \in Books /\ IsFiniteSet(Used(b)) /\ Owns(b, u)
  BY DEF Good, Agree
<1>2. "none" \notin H /\ "none" \notin ToBuyer
  BY DEF Holding, ToBuyer
<1>3. \A q \in Orders : b.order[q].status # "none" => c.order[q].seller = b.order[q].seller
  OBVIOUS
<1>. HIDE DEF H
<1>4. /\ Summed(b, c, t, Sales(b, u, H), Sales(c, u, H))
      /\ Summed(b, c, t, Buys(b, u, ToBuyer), Buys(c, u, ToBuyer))
  <2>1. ApartFrom(b, c, t, Sales(b, u, H), Sales(c, u, H))
    BY <1>2, <1>3, SalesOff
  <2>2. ApartFrom(b, c, t, Buys(b, u, ToBuyer), Buys(c, u, ToBuyer))
    BY <1>2, <1>3, SalesOff
  <2>. QED
    BY <1>1, <2>1, <2>2, ValueSums
<1>5. /\ Coins(b, u) \in Int /\ Coins(c, u) \in Int
      /\ Coins(c, u) = Coins(b, u) + OnBook(c, o, u) - OnBook(b, o, u)
  BY CoinSums
<1>6. /\ SoldIn(b, t, u) = (IF t \in Sales(b, u, H) THEN b.trade[t].amount ELSE 0)
      /\ SoldIn(c, t, u) = (IF t \in Sales(c, u, H) THEN c.trade[t].amount ELSE 0)
      /\ GotIn(b, t, u) = (IF t \in Buys(b, u, ToBuyer) THEN b.trade[t].amount ELSE 0)
      /\ GotIn(c, t, u) = (IF t \in Buys(c, u, ToBuyer) THEN c.trade[t].amount ELSE 0)
  BY DEF SoldIn, GotIn, H
<1>7. /\ SoldIn(b, t, u) \in Int /\ SoldIn(c, t, u) \in Int
      /\ GotIn(b, t, u) \in Int /\ GotIn(c, t, u) \in Int
      /\ OnBook(b, o, u) \in Int /\ OnBook(c, o, u) \in Int
  BY <1>1, RowParts DEF SoldIn, GotIn, OnBook
<1>8. /\ Value(b, Sales(b, u, H)) \in Int /\ Value(b, Buys(b, u, ToBuyer)) \in Int
      /\ Value(c, Sales(c, u, H)) = Value(b, Sales(b, u, H)) + (SoldIn(c, t, u) - SoldIn(b, t, u))
      /\ Value(c, Buys(c, u, ToBuyer))
           = Value(b, Buys(b, u, ToBuyer)) + (GotIn(c, t, u) - GotIn(b, t, u))
      /\ Value(c, Sales(c, u, H)) \in Int /\ Value(c, Buys(c, u, ToBuyer)) \in Int
  BY <1>4, <1>6, <1>7 DEF Summed
<1>9. Net(b.wallet[u]) + Coins(b, u) + Value(b, Sales(b, u, H)) - Value(b, Buys(b, u, ToBuyer))
        = Welcome
  BY <1>1, <1>5, <1>8, OwnsMeans DEF H
<1>10. Net(b.wallet[u]) \in Int /\ Net(c.wallet[u]) \in Int
  BY <1>1, PurseParts
<1>11. Net(c.wallet[u]) + Coins(c, u) + Value(c, Sales(c, u, H)) - Value(c, Buys(c, u, ToBuyer))
         = Welcome
  BY <1>5, <1>7, <1>8, <1>9, <1>10
<1>. QED
  BY <1>5, <1>8, <1>11, OwnsMeans DEF H

\* No trade has changed: one order, or none, and the wallet of u with it.
LEMMA TradesKept ==
  ASSUME NEW b, Good(b), NEW c \in Books, c.trade = b.trade,
         \A q \in Orders : b.order[q].status # "none" => c.order[q].seller = b.order[q].seller,
         NEW u \in Users, NEW s, "none" \notin s
  PROVE  /\ Sales(c, u, s) = Sales(b, u, s) /\ Buys(c, u, s) = Buys(b, u, s)
         /\ \A S : Value(c, S) = Value(b, S)
         /\ Used(c) = Used(b)
<1>1. ASSUME NEW q \in Trades, b.trade[q].status # "none"
      PROVE  Seller(c, q) = Seller(b, q)
  BY <1>1 DEF Good, Linked, Seller
<1>. QED
  BY <1>1 DEF Sales, Buys, Used, Value

LEMMA ValueInt ==
  ASSUME NEW b \in Books, IsFiniteSet(Used(b)), NEW A, A \subseteq Used(b)
  PROVE  Value(b, A) \in Int /\ Cardinality(A) \in Nat
<1>1. IsFiniteSet(A)
  BY FS_Subset
<1>2. \A q \in A : [t \in Trades |-> b.trade[t].amount][q] \in Int
  BY RowParts DEF Used
<1>3. A \in SUBSET A
  OBVIOUS
<1>4. SumOver([t \in Trades |-> b.trade[t].amount], A) \in Int
  BY <1>1, <1>2, <1>3, SumInt
<1>. QED
  BY <1>1, <1>4, FS_CardinalityType DEF Value

LEMMA AgreeKept ==
  ASSUME NEW b, Good(b), Agree(b), NEW c \in Books, c.trade = b.trade, c.stats = b.stats,
         NEW o \in Orders, \A q \in Orders \ {o} : c.order[q] = b.order[q],
         b.order[o].status # "none" => c.order[o].seller = b.order[o].seller,
         \A u \in Users : Net(c.wallet[u]) + OnBook(c, o, u) = Net(b.wallet[u]) + OnBook(b, o, u)
  PROVE  Agree(c)
<1>1. b \in Books /\ IsFiniteSet(Used(b))
  BY DEF Good, Agree
<1>2. \A q \in Orders : b.order[q].status # "none" => c.order[q].seller = b.order[q].seller
  OBVIOUS
<1>3. ASSUME NEW u \in Users PROVE Owns(c, u)
  <2> DEFINE H == Holding \cup ToBuyer
  <2>1. "none" \notin H /\ "none" \notin ToBuyer
    BY DEF Holding, ToBuyer
  <2>. HIDE DEF H
  <2>2. Value(c, Sales(c, u, H)) = Value(b, Sales(b, u, H))
    BY <1>2, <2>1, TradesKept
  <2>3. Value(c, Buys(c, u, ToBuyer)) = Value(b, Buys(b, u, ToBuyer))
    BY <1>2, <2>1, TradesKept
  <2>4. Sales(b, u, H) \subseteq Used(b) /\ Buys(b, u, ToBuyer) \subseteq Used(b)
    BY <2>1 DEF Sales, Buys, Used
  <2>5. Value(b, Sales(b, u, H)) \in Int /\ Value(b, Buys(b, u, ToBuyer)) \in Int
    BY <1>1, <2>4, ValueInt
  <2>6. /\ Coins(b, u) \in Int /\ Coins(c, u) \in Int
        /\ Coins(c, u) = Coins(b, u) + OnBook(c, o, u) - OnBook(b, o, u)
    BY CoinSums
  <2>7. OnBook(b, o, u) \in Int /\ OnBook(c, o, u) \in Int
    BY <1>1, RowParts DEF OnBook
  <2>8. Net(b.wallet[u]) + Coins(b, u) + Value(b, Sales(b, u, H)) - Value(b, Buys(b, u, ToBuyer))
          = Welcome
    BY <1>1, <2>5, <2>6, OwnsMeans DEF Agree, H
  <2>9. Net(b.wallet[u]) \in Int /\ Net(c.wallet[u]) \in Int
    BY <1>1, PurseParts
  <2>10. Net(c.wallet[u]) + OnBook(c, o, u) = Net(b.wallet[u]) + OnBook(b, o, u)
    OBVIOUS
  <2>11. Net(c.wallet[u]) + Coins(c, u) + Value(c, Sales(c, u, H)) - Value(c, Buys(c, u, ToBuyer))
           = Welcome
    BY <2>2, <2>3, <2>5, <2>6, <2>7, <2>8, <2>9, <2>10
  <2>. QED
    BY <2>2, <2>3, <2>5, <2>6, <2>11, OwnsMeans DEF H
<1>4. ASSUME NEW u \in Users PROVE Carded(c, u)
  <2>1. /\ Sales(c, u, {"confirmed"}) = Sales(b, u, {"confirmed"})
        /\ Sales(c, u, {"refund_buyer"}) = Sales(b, u, {"refund_buyer"})
        /\ \A S : Value(c, S) = Value(b, S)
    BY <1>2, TradesKept
  <2>. QED
    BY <2>1 DEF Agree, Carded
<1>5. Used(c) = Used(b)
  BY DEF Used
<1>. QED
  BY <1>1, <1>3, <1>4, <1>5 DEF Agree

-----------------------------------------------------------------------------
(* The cards. *)

\* What the card of u counts when trade t ends.
Tallied(b, c, t, u) ==
  LET sold == c.trade[t].status = "confirmed" /\ Seller(c, t) = u
      lost == c.trade[t].status = "refund_buyer" /\ Seller(c, t) = u
  IN /\ c.stats[u].trades = b.stats[u].trades + (IF sold THEN 1 ELSE 0)
     /\ c.stats[u].sold = b.stats[u].sold + (IF sold THEN c.trade[t].amount ELSE 0)
     /\ c.stats[u].disputes = b.stats[u].disputes + (IF lost THEN 1 ELSE 0)

LEMMA CardSums ==
  ASSUME NEW b, Good(b), Agree(b), NEW c \in Books, NEW t \in Trades,
         \A q \in Trades \ {t} : c.trade[q] = b.trade[q],
         \A q \in Orders : b.order[q].status # "none" => c.order[q].seller = b.order[q].seller,
         b.trade[t].status \notin {"confirmed", "refund_buyer"},
         NEW u \in Users, Tallied(b, c, t, u)
  PROVE  Carded(c, u)
<1> DEFINE A == Sales(b, u, {"confirmed"})
           B == Sales(c, u, {"confirmed"})
           D == Sales(b, u, {"refund_buyer"})
           F == Sales(c, u, {"refund_buyer"})
<1>1. b \in Books /\ IsFiniteSet(Used(b)) /\ Carded(b, u)
  BY DEF Good, Agree
<1>2. Summed(b, c, t, A, B) /\ Summed(b, c, t, D, F)
  <2>1. "none" \notin {"confirmed"} /\ "none" \notin {"refund_buyer"}
    OBVIOUS
  <2>2. ApartFrom(b, c, t, A, B)
    BY <2>1, SalesOff
  <2>3. ApartFrom(b, c, t, D, F)
    BY <2>1, SalesOff
  <2>. HIDE DEF A, B, D, F
  <2>. QED
    BY <1>1, <2>2, <2>3, ValueSums
<1>3. /\ t \notin A /\ t \notin D
      /\ t \in B <=> c.trade[t].status = "confirmed" /\ Seller(c, t) = u
      /\ t \in F <=> c.trade[t].status = "refund_buyer" /\ Seller(c, t) = u
  BY DEF Sales
<1>4. b.stats[u] = [trades |-> Cardinality(A), sold |-> Value(b, A), disputes |-> Cardinality(D)]
  BY <1>1 DEF Carded
<1>5. c.stats[u] \in Stats
  BY BookParts
<1>6. /\ Cardinality(B) = Cardinality(A) + (IF t \in B THEN 1 ELSE 0)
      /\ Cardinality(F) = Cardinality(D) + (IF t \in F THEN 1 ELSE 0)
      /\ Value(c, B) = Value(b, A) + (IF t \in B THEN c.trade[t].amount ELSE 0)
  <2>1. Cardinality(A) \in Nat /\ Cardinality(D) \in Nat /\ Value(b, A) \in Int
    BY <1>2 DEF Summed
  <2>2. c.trade[t].amount \in Int
    BY RowParts
  <2>. HIDE DEF A, B, D, F
  <2>. QED
    BY <1>2, <1>3, <2>1, <2>2 DEF Summed
<1>7. /\ c.stats[u].trades = Cardinality(B) /\ c.stats[u].sold = Value(c, B)
      /\ c.stats[u].disputes = Cardinality(F)
  BY <1>3, <1>4, <1>6 DEF Tallied
<1>8. c.stats[u] = [trades |-> c.stats[u].trades, sold |-> c.stats[u].sold,
                    disputes |-> c.stats[u].disputes]
  BY <1>5 DEF Stats
<1>. QED
  BY <1>7, <1>8 DEF Carded

\* A trade was opened or ended: the books agree as before.
LEMMA TradeAgrees ==
  ASSUME NEW b, Good(b), Agree(b), NEW c \in Books, NEW o \in Orders, NEW t \in Trades,
         \A q \in Orders \ {o} : c.order[q] = b.order[q],
         \A q \in Trades \ {t} : c.trade[q] = b.trade[q],
         c.order[o].seller = b.order[o].seller,
         b.trade[t].status \notin {"confirmed", "refund_buyer"},
         \A u \in Users :
           /\ Net(c.wallet[u]) + OnBook(c, o, u) + SoldIn(c, t, u) - GotIn(c, t, u)
                = Net(b.wallet[u]) + OnBook(b, o, u) + SoldIn(b, t, u) - GotIn(b, t, u)
           /\ Tallied(b, c, t, u)
  PROVE  Agree(c)
<1>1. \A q \in Orders : b.order[q].status # "none" => c.order[q].seller = b.order[q].seller
  OBVIOUS
<1>2. ASSUME NEW u \in Users PROVE Owns(c, u) /\ Carded(c, u)
  <2>1. Owns(c, u)
    BY OwnsStill
  <2>2. Carded(c, u)
    BY <1>1, CardSums
  <2>. QED
    BY <2>1, <2>2
<1>3. IsFiniteSet(Used(c))
  <2>1. Used(c) \subseteq Used(b) \cup {t}
    BY DEF Used
  <2>. QED
    BY <2>1, FS_AddElement, FS_Subset DEF Agree
<1>. QED
  BY <1>2, <1>3 DEF Agree

-----------------------------------------------------------------------------
(* What each operator on the books does to the sums. *)

\* What a payout, or a refund, leaves of the wallets.
Gets(b, c, u, amount) ==
  \A v \in Users : Net(c.wallet[v]) = Net(b.wallet[v]) + (IF v = u THEN amount ELSE 0)

LEMMA PaysOut ==
  ASSUME NEW b \in Books, NEW f \in Books, f.wallet = b.wallet,
         NEW u \in Users, NEW amount \in Nat
  PROVE  LET c == PayOut(b, f, u, amount)
         IN \/ c = b
            \/ /\ c \in Books /\ c.order = f.order /\ c.trade = f.trade /\ c.stats = f.stats
               /\ Gets(b, c, u, amount)
<1> DEFINE c == PayOut(b, f, u, amount)
<1>1. CASE ~ CanCredit(b.wallet[u], amount)
  BY <1>1 DEF PayOut, RolledBack
<1>2. CASE CanCredit(b.wallet[u], amount)
  <2> DEFINE w  == Released(b.wallet[u], amount)
             ws == [b.wallet EXCEPT ![u] = w]
  <2>1. ws \in [Users -> Wallets]
    BY <1>2, WalletParts
  <2>2. c = [f EXCEPT !.wallet = ws]
    BY <1>2, BookParts DEF PayOut
  <2>3. /\ w.balance = b.wallet[u].balance + amount
        /\ w.earned = b.wallet[u].earned /\ w.spent = b.wallet[u].spent
    BY PurseParts DEF Released, Wallets
  <2>. HIDE DEF w, c
  <2>4. /\ ws[u] = w
        /\ \A v \in Users \ {u} : ws[v] = b.wallet[v]
    BY BookParts
  <2>5. Net(w) = Net(b.wallet[u]) + amount
    BY <2>3, PurseParts DEF Net
  <2>6. \A v \in Users : Net(b.wallet[v]) \in Int
    BY PurseParts
  <2>. HIDE DEF ws
  <2>7. /\ c \in Books /\ c.order = f.order /\ c.trade = f.trade /\ c.stats = f.stats
        /\ c.wallet = ws
    BY <2>1, <2>2, BookParts DEF Books
  <2>8. Gets(b, c, u, amount)
    BY <2>4, <2>5, <2>6, <2>7 DEF Gets
  <2>. QED
    BY <2>7, <2>8 DEF c
<1>. QED
  BY <1>1, <1>2

\* What the end of a trade owes to u.
DueTo(b, t, s, u) ==
  IF \/ s \in ToBuyer /\ u = b.trade[t].buyer
     \/ s \in ToSeller /\ u = Seller(b, t)
  THEN b.trade[t].amount ELSE 0

\* A flip of an open trade, with the payout it calls for.
LEMMA FlipAgrees ==
  ASSUME NEW b, Good(b), Agree(b), NEW t \in Trades, b.trade[t].status \in Holding,
         NEW s \in Holding \cup ToBuyer \cup ToSeller,
         NEW c \in Books, c.order = b.order, FlipOf(b.trade, c.trade, t, s),
         \A u \in Users : Net(c.wallet[u]) = Net(b.wallet[u]) + DueTo(b, t, s, u),
         \A u \in Users : Tallied(b, c, t, u)
  PROVE  Agree(c)
<1> DEFINE o == b.trade[t].order
           before == b.trade[t].status
           amount == b.trade[t].amount
           buyer  == b.trade[t].buyer
           seller == Seller(b, t)
<1>1. b \in Books /\ o \in Orders /\ before \notin {"none", "confirmed", "refund_buyer"}
  BY DEF Good, Linked, Holding
<1>2. /\ c.trade[t].status = s /\ c.trade[t].buyer = buyer
      /\ c.trade[t].amount = amount /\ Seller(c, t) = seller
      /\ \A q \in Trades \ {t} : c.trade[q] = b.trade[q]
  BY DEF FlipOf, Seller
<1>3. /\ before \in Holding /\ before \notin ToBuyer
      /\ s \in Holding => s \notin ToBuyer /\ s \notin ToSeller
      /\ s \in ToBuyer => s \notin ToSeller
  BY DEF Holding, ToBuyer, ToSeller
<1>4. amount \in Nat
  BY <1>1, RowParts
<1>5. ASSUME NEW u \in Users
      PROVE  Net(c.wallet[u]) + OnBook(c, o, u) + SoldIn(c, t, u) - GotIn(c, t, u)
               = Net(b.wallet[u]) + OnBook(b, o, u) + SoldIn(b, t, u) - GotIn(b, t, u)
  <2>1. OnBook(c, o, u) = OnBook(b, o, u) /\ OnBook(b, o, u) \in Int
    BY <1>1, RowParts DEF OnBook
  <2>2. /\ SoldIn(b, t, u) = (IF seller = u THEN amount ELSE 0)
        /\ GotIn(b, t, u) = 0
    BY <1>3 DEF SoldIn, GotIn, Sales, Buys
  <2>3. /\ SoldIn(c, t, u) = (IF s \in Holding \cup ToBuyer /\ seller = u THEN amount ELSE 0)
        /\ GotIn(c, t, u) = (IF s \in ToBuyer /\ buyer = u THEN amount ELSE 0)
    BY <1>2 DEF SoldIn, GotIn, Sales, Buys
  <2>4. DueTo(b, t, s, u) = (IF \/ s \in ToBuyer /\ u = buyer
                                \/ s \in ToSeller /\ u = seller
                             THEN amount ELSE 0)
    BY DEF DueTo
  <2>5. Net(c.wallet[u]) = Net(b.wallet[u]) + DueTo(b, t, s, u)
    OBVIOUS
  <2>6. Net(b.wallet[u]) \in Int
    BY <1>1, PurseParts
  <2>. HIDE DEF o, amount, buyer, seller, before
  <2>7. DueTo(b, t, s, u) + SoldIn(c, t, u) - GotIn(c, t, u) = SoldIn(b, t, u) - GotIn(b, t, u)
    BY <1>3, <1>4, <2>2, <2>3, <2>4
  <2>8. /\ DueTo(b, t, s, u) \in Int /\ SoldIn(c, t, u) \in Int /\ GotIn(c, t, u) \in Int
        /\ SoldIn(b, t, u) \in Int /\ GotIn(b, t, u) \in Int
    BY <1>4, <2>2, <2>3, <2>4
  <2>. QED
    BY <2>1, <2>5, <2>6, <2>7, <2>8
<1>. HIDE DEF o
<1>6. \A q \in Orders \ {o} : c.order[q] = b.order[q]
  OBVIOUS
<1>7. c.order[o].seller = b.order[o].seller
  OBVIOUS
<1>. QED
  BY <1>1, <1>2, <1>5, <1>6, <1>7, TradeAgrees

\* The card is not touched: neither completed nor lost.
LEMMA NoCard ==
  ASSUME NEW b \in Books, NEW c \in Books, c.stats = b.stats, NEW t \in Trades,
         c.trade[t].status \notin {"confirmed", "refund_buyer"}, NEW u \in Users
  PROVE  Tallied(b, c, t, u)
<1>1. b.stats[u] \in Stats
  BY BookParts
<1>2. b.stats[u].trades \in Nat /\ b.stats[u].sold \in Nat /\ b.stats[u].disputes \in Nat
  BY <1>1 DEF Stats
<1>. QED
  BY <1>2 DEF Tallied

\* return_slice: the coins of the trade are for sale again.
LEMMA ReturnAgrees ==
  ASSUME NEW b, Good(b), Agree(b), NEW t \in Trades, b.trade[t].status = "pending",
         NEW c \in Books, c.wallet = b.wallet, c.stats = b.stats,
         FlipOf(b.trade, c.trade, t, "cancelled_timeout"),
         c.order = [b.order EXCEPT ![b.trade[t].order] =
                      ReturnSlice(b.order[b.trade[t].order], b.trade[t].amount)]
  PROVE  Agree(c)
<1> DEFINE o == b.trade[t].order
           amount == b.trade[t].amount
           row == b.order[o]
<1>1. b \in Books /\ o \in Orders /\ amount \in Nat /\ row \in Order /\ row.remaining \in Nat
  BY RowParts DEF Good, Linked
<1>2. /\ c.order[o].remaining = row.remaining + amount
      /\ c.order[o].seller = row.seller
      /\ \A q \in Orders \ {o} : c.order[q] = b.order[q]
  <2>1. c.order[o] = ReturnSlice(row, amount)
    BY <1>1, BookParts
  <2>2. /\ ReturnSlice(row, amount).remaining = row.remaining + amount
        /\ ReturnSlice(row, amount).seller = row.seller
    BY <1>1 DEF ReturnSlice, Order
  <2>. QED
    BY <1>1, <2>1, <2>2, BookParts
<1>3. /\ c.trade[t].status = "cancelled_timeout"
      /\ \A q \in Trades \ {t} : c.trade[q] = b.trade[q]
      /\ Seller(b, t) = row.seller
  BY DEF FlipOf, Seller
<1>4. /\ "pending" \in Holding /\ "pending" \notin ToBuyer
      /\ "cancelled_timeout" \notin Holding \cup ToBuyer
  BY DEF Holding, ToBuyer
<1>5. ASSUME NEW u \in Users
      PROVE  Net(c.wallet[u]) + OnBook(c, o, u) + SoldIn(c, t, u) - GotIn(c, t, u)
               = Net(b.wallet[u]) + OnBook(b, o, u) + SoldIn(b, t, u) - GotIn(b, t, u)
  <2>1. /\ SoldIn(b, t, u) = (IF row.seller = u THEN amount ELSE 0)
        /\ GotIn(b, t, u) = 0
    BY <1>3, <1>4 DEF SoldIn, GotIn, Sales, Buys
  <2>2. SoldIn(c, t, u) = 0 /\ GotIn(c, t, u) = 0
    BY <1>3, <1>4 DEF SoldIn, GotIn, Sales, Buys
  <2>3. /\ OnBook(b, o, u) = (IF row.seller = u THEN row.remaining ELSE 0)
        /\ OnBook(c, o, u) = (IF row.seller = u THEN row.remaining + amount ELSE 0)
    BY <1>2 DEF OnBook
  <2>4. Net(b.wallet[u]) \in Int /\ c.wallet = b.wallet
    BY <1>1, PurseParts
  <2>. HIDE DEF o, amount, row
  <2>. QED
    BY <1>1, <2>1, <2>2, <2>3, <2>4
<1>6. \A u \in Users : Tallied(b, c, t, u)
  BY <1>1, <1>3, NoCard
<1>. HIDE DEF o
<1>. QED
  BY <1>1, <1>2, <1>3, <1>5, <1>6, TradeAgrees DEF row

\* The slice of a cancelled order goes to its seller, and so does a ruling for him.
LEMMA BackAgrees ==
  ASSUME NEW b, Good(b), Agree(b), NEW t \in Trades, b.trade[t].status \in Holding,
         NEW s \in ToSeller, NEW c \in Books, c.order = b.order, c.stats = b.stats,
         FlipOf(b.trade, c.trade, t, s), Gets(b, c, Seller(b, t), b.trade[t].amount)
  PROVE  Agree(c)
<1>1. s \notin ToBuyer /\ s \in Holding \cup ToBuyer \cup ToSeller
      /\ s \notin {"confirmed", "refund_buyer"}
  BY DEF ToBuyer, ToSeller
<1>2. \A u \in Users : Net(c.wallet[u]) = Net(b.wallet[u]) + DueTo(b, t, s, u)
  BY <1>1 DEF Gets, DueTo
<1>3. \A u \in Users : Tallied(b, c, t, u)
  BY <1>1, NoCard DEF FlipOf, Good
<1>. QED
  BY <1>1, <1>2, <1>3, FlipAgrees

\* mark_paid and open_dispute move no coin.
LEMMA HoldAgrees ==
  ASSUME NEW b, Good(b), Agree(b), NEW t \in Trades, b.trade[t].status \in Holding,
         NEW s \in Holding, NEW c \in Books, c.order = b.order, c.stats = b.stats,
         c.wallet = b.wallet, FlipOf(b.trade, c.trade, t, s)
  PROVE  Agree(c)
<1>1. /\ s \notin ToBuyer /\ s \notin ToSeller /\ s \in Holding \cup ToBuyer \cup ToSeller
      /\ s \notin {"confirmed", "refund_buyer"}
  BY DEF ToBuyer, ToSeller, Holding
<1>2. \A u \in Users : Net(b.wallet[u]) \in Int
  BY PurseParts DEF Good
<1>3. \A u \in Users : Net(c.wallet[u]) = Net(b.wallet[u]) + DueTo(b, t, s, u)
  BY <1>1, <1>2 DEF DueTo
<1>4. \A u \in Users : Tallied(b, c, t, u)
  BY <1>1, NoCard DEF FlipOf, Good
<1>. QED
  BY <1>1, <1>3, <1>4, FlipAgrees

\* A trade ends with its buyer: he has the coins, the seller's card counts it.
LEMMA BuyerAgrees ==
  ASSUME NEW b, Good(b), Agree(b), NEW t \in Trades, b.trade[t].status \in Holding,
         NEW s \in ToBuyer, NEW c \in Books, c.order = b.order,
         FlipOf(b.trade, c.trade, t, s), Gets(b, c, b.trade[t].buyer, b.trade[t].amount),
         \A u \in Users : Tallied(b, c, t, u)
  PROVE  Agree(c)
<1>1. s \notin ToSeller /\ s \in Holding \cup ToBuyer \cup ToSeller
  BY DEF ToBuyer, ToSeller
<1>2. \A u \in Users : Net(c.wallet[u]) = Net(b.wallet[u]) + DueTo(b, t, s, u)
  BY <1>1 DEF Gets, DueTo
<1>. QED
  BY <1>1, <1>2, FlipAgrees

-----------------------------------------------------------------------------
(* The operators on the books. *)

LEMMA FlipWrites ==
  ASSUME NEW b, Good(b), NEW t \in Trades, b.trade[t].status # "none",
         NEW s \in Holding \cup ToBuyer \cup ToSeller
  PROVE  LET f == [b EXCEPT !.trade[t].status = s]
         IN /\ f \in Books /\ f.wallet = b.wallet /\ f.order = b.order /\ f.stats = b.stats
            /\ FlipOf(b.trade, f.trade, t, s)
<1> DEFINE f == [b EXCEPT !.trade[t].status = s]
<1>1. f \in Books /\ f.wallet = b.wallet /\ f.order = b.order /\ FlipOf(b.trade, f.trade, t, s)
  BY StatusFlip
<1>2. f.stats = b.stats
  BY BookParts DEF Good
<1>. QED
  BY <1>1, <1>2

\* expire_pending: back in the order, or with its seller, or as before.
LEMMA ExpireAgrees ==
  ASSUME NEW b, Good(b), Agree(b), NEW t \in Trades
  PROVE  Agree(Expired(b, t))
<1> DEFINE c == Expired(b, t)
           o == b.trade[t].order
           amount == b.trade[t].amount
<1>1. CASE ~ Expirable(b, t)
  BY <1>1 DEF Expired
<1>2. CASE Expirable(b, t)
  <2> DEFINE f == [b EXCEPT !.trade[t].status = "cancelled_timeout"]
             g == [f EXCEPT !.order[o] = ReturnSlice(@, amount)]
             row == ReturnSlice(b.order[o], amount)
             os == [b.order EXCEPT ![o] = row]
  <2>1. /\ b \in Books /\ b.trade[t].status = "pending" /\ o \in Orders
        /\ amount \in Nat /\ amount > 0 /\ b.order[o] \in Order
        /\ Seller(b, t) \in Users
    BY <1>2, RowParts DEF Expirable, Good, Linked, Seller
  <2>2. "pending" \in Holding /\ "cancelled_timeout" \in ToSeller
    BY DEF Holding, ToSeller
  <2>3. /\ f \in Books /\ f.wallet = b.wallet /\ f.order = b.order /\ f.stats = b.stats
        /\ FlipOf(b.trade, f.trade, t, "cancelled_timeout")
    BY <2>1, <2>2, FlipWrites
  <2>4. c = IF b.order[o].status \in {"active", "completed"} THEN g
            ELSE PayOut(b, f, Seller(b, t), amount)
    BY <1>2 DEF Expired
  <2>5. row \in Order
    BY <2>1, Returning
  <2>6. os \in [Orders -> Order]
    BY <2>1, <2>5, BookParts
  <2>. HIDE DEF o, amount, f
  <2>7. g = [f EXCEPT !.order = os]
    BY <2>3, BookParts
  <2>. HIDE DEF g, row
  <2>8. CASE b.order[o].status \in {"active", "completed"}
    <3>. HIDE DEF os
    <3>1. /\ g \in Books /\ g.wallet = b.wallet /\ g.stats = b.stats /\ g.order = os
          /\ FlipOf(b.trade, g.trade, t, "cancelled_timeout")
      BY <2>3, <2>6, <2>7, BookParts DEF Books
    <3>2. Agree(g)
      BY <2>1, <3>1, ReturnAgrees DEF o, amount, os, row
    <3>. QED
      BY <2>4, <2>8, <3>2
  <2>9. CASE b.order[o].status \notin {"active", "completed"}
    <3> DEFINE d == PayOut(b, f, Seller(b, t), amount)
    <3>1. \/ d = b
          \/ /\ d \in Books /\ d.order = f.order /\ d.trade = f.trade /\ d.stats = f.stats
             /\ Gets(b, d, Seller(b, t), amount)
      BY <2>1, <2>3, PaysOut
    <3>2. c = d
      BY <2>4, <2>9
    <3>. HIDE DEF d, c
    <3>3. CASE /\ d \in Books /\ d.order = f.order /\ d.trade = f.trade /\ d.stats = f.stats
               /\ Gets(b, d, Seller(b, t), amount)
      <4>1. Agree(d)
        BY <2>1, <2>2, <2>3, <3>3, BackAgrees DEF amount
      <4>. QED
        BY <3>2, <4>1 DEF c
    <3>. QED
      BY <3>1, <3>2, <3>3 DEF c
  <2>. QED
    BY <2>8, <2>9
<1>. QED
  BY <1>1, <1>2

\* fill and create_trade: the coins go from the order to the trade.
LEMMA TakeAgrees ==
  ASSUME NEW b, Good(b), Agree(b), NEW o \in Orders, NEW u \in Users, NEW amount \in Nat,
         amount > 0, CanFill(b, o, amount), FreeTrades(b) # {}
  PROVE  Agree(Taken(b, o, u, amount))
<1> DEFINE t   == Min(FreeTrades(b))
           c   == Taken(b, o, u, amount)
           row == Filled(b.order[o], amount)
           new == [status |-> "pending", order |-> o, buyer |-> u, amount |-> amount]
           os  == [b.order EXCEPT ![o] = row]
           ts  == [b.trade EXCEPT ![t] = new]
<1>1. b \in Books /\ t \in Trades /\ b.trade[t].status = "none"
  <2>1. FreeTrades(b) \in SUBSET Nat
    BY P2PAssumption DEF FreeTrades
  <2>2. t \in FreeTrades(b)
    BY <2>1, MinOfNats
  <2>. HIDE DEF t
  <2>. QED
    BY <2>2 DEF FreeTrades, Good
<1>2. c = [b EXCEPT !.order[o] = row, !.trade[t] = new]
  BY DEF Taken
<1>3. /\ b.order[o] \in Order /\ b.order[o].remaining \in Nat
      /\ b.order[o].remaining >= amount
  BY <1>1, RowParts DEF CanFill
<1>4. /\ row \in Order /\ row.seller = b.order[o].seller
      /\ row.remaining = b.order[o].remaining - amount
  <2>1. row \in Order /\ row.seller = b.order[o].seller
    BY <1>3, Filling
  <2>2. row.remaining = b.order[o].remaining - amount
    BY <1>3 DEF Filled, Order
  <2>. QED
    BY <2>1, <2>2
<1>. HIDE DEF t, c, row
<1>5. os \in [Orders -> Order] /\ os[o] = row /\ \A q \in Orders \ {o} : os[q] = b.order[q]
  BY <1>1, <1>4, BookParts
<1>6. new \in Trade
  BY DEF Trade, Holding
<1>. HIDE DEF new
<1>7. ts \in [Trades -> Trade] /\ ts[t] = new /\ \A q \in Trades \ {t} : ts[q] = b.trade[q]
  BY <1>1, <1>6, BookParts
<1>8. c.order = os
  BY <1>1, <1>2, BookParts
<1>9. c.trade = ts
  BY <1>1, <1>2, BookParts
<1>10. c.wallet = b.wallet /\ c.stats = b.stats
  BY <1>1, <1>2, BookParts
<1>11. c = [wallet |-> c.wallet, order |-> c.order, trade |-> c.trade, stats |-> c.stats]
  BY <1>1, <1>2, BookParts
<1>. HIDE DEF os, ts
<1>12. c \in Books
  BY <1>1, <1>5, <1>7, <1>8, <1>9, <1>10, <1>11, BookParts DEF Books
<1>13. /\ c.trade[t].status = "pending" /\ c.trade[t].amount = amount
       /\ Seller(c, t) = b.order[o].seller
  <2>1. c.trade[t] = new /\ c.order[o].seller = b.order[o].seller
    BY <1>4, <1>5, <1>7, <1>8, <1>9
  <2>. QED
    BY <2>1 DEF Seller, new
<1>14. "pending" \in Holding /\ "pending" \notin ToBuyer /\ "none" \notin Holding \cup ToBuyer
  BY DEF Holding, ToBuyer
<1>15. ASSUME NEW v \in Users
       PROVE  Net(c.wallet[v]) + OnBook(c, o, v) + SoldIn(c, t, v) - GotIn(c, t, v)
                = Net(b.wallet[v]) + OnBook(b, o, v) + SoldIn(b, t, v) - GotIn(b, t, v)
  <2> DEFINE sells == b.order[o].seller = v
             r == b.order[o].remaining
  <2>1. SoldIn(b, t, v) = 0 /\ GotIn(b, t, v) = 0
    BY <1>1, <1>14 DEF SoldIn, GotIn, Sales, Buys
  <2>2. SoldIn(c, t, v) = (IF sells THEN amount ELSE 0) /\ GotIn(c, t, v) = 0
    BY <1>1, <1>13, <1>14 DEF SoldIn, GotIn, Sales, Buys
  <2>3. /\ OnBook(b, o, v) = (IF sells THEN r ELSE 0)
        /\ OnBook(c, o, v) = (IF sells THEN r - amount ELSE 0)
    BY <1>4, <1>5, <1>8 DEF OnBook
  <2>4. Net(b.wallet[v]) \in Int /\ c.wallet = b.wallet /\ r \in Int
    BY <1>1, <1>3, <1>10, PurseParts
  <2>. HIDE DEF sells, r
  <2>. QED
    BY <2>1, <2>2, <2>3, <2>4
<1>16. \A v \in Users : Tallied(b, c, t, v)
  BY <1>1, <1>10, <1>12, <1>13, NoCard
<1>17. /\ \A q \in Orders \ {o} : c.order[q] = b.order[q]
       /\ \A q \in Trades \ {t} : c.trade[q] = b.trade[q]
       /\ c.order[o].seller = b.order[o].seller
  BY <1>4, <1>5, <1>7, <1>8, <1>9
<1>18. b.trade[t].status \notin {"confirmed", "refund_buyer"}
  BY <1>1
<1>. QED
  BY <1>1, <1>12, <1>15, <1>16, <1>17, <1>18, TradeAgrees DEF c

\* hold and create_order: the coins go from the wallet to the order.
LEMMA PlaceAgrees ==
  ASSUME NEW b, Good(b), Agree(b), NEW u \in Users, NEW amount \in Nat, amount > 0,
         NEW bounds \in Limits, CanDebit(b.wallet[u], amount), FreeOrders(b) # {}
  PROVE  Agree(Posted(b, u, amount, bounds))
<1> DEFINE o   == Min(FreeOrders(b))
           w   == Held(b.wallet[u], amount)
           row == [status |-> "active", seller |-> u, amount |-> amount,
                   remaining |-> amount, bounds |-> bounds]
           ws  == [b.wallet EXCEPT ![u] = w]
           os  == [b.order EXCEPT ![o] = row]
           c   == [b EXCEPT !.wallet[u] = w, !.order[o] = row]
<1>0. Posted(b, u, amount, bounds) = c
  BY DEF Posted
<1>1. b \in Books /\ o \in Orders /\ b.order[o].status = "none"
  <2>1. FreeOrders(b) \in SUBSET Nat
    BY P2PAssumption DEF FreeOrders
  <2>2. o \in FreeOrders(b)
    BY <2>1, MinOfNats
  <2>. HIDE DEF o
  <2>. QED
    BY <2>2 DEF FreeOrders, Good
<1>2. /\ row \in Order /\ row.seller = u /\ row.remaining = amount
  BY DEF Order, OrderStatuses
<1>3. ws \in [Users -> Wallets]
  BY <1>1, WalletParts
<1>4. Net(w) = Net(b.wallet[u]) - amount
  <2>1. /\ w.balance = b.wallet[u].balance - amount
        /\ w.earned = b.wallet[u].earned /\ w.spent = b.wallet[u].spent
    BY <1>1, PurseParts DEF Held, Wallets
  <2>. HIDE DEF w
  <2>. QED
    BY <1>1, <2>1, PurseParts DEF Net
<1>5. ws[u] = w /\ \A v \in Users \ {u} : ws[v] = b.wallet[v]
  BY <1>1, BookParts
<1>. HIDE DEF o, w
<1>6. os \in [Orders -> Order] /\ os[o] = row /\ \A q \in Orders \ {o} : os[q] = b.order[q]
  BY <1>1, <1>2, BookParts
<1>7. /\ c \in Books /\ c.wallet = ws /\ c.order = os
      /\ c.trade = b.trade /\ c.stats = b.stats
  <2>0. c = [b EXCEPT !.wallet[u] = w, !.order[o] = row]
    OBVIOUS
  <2>. HIDE DEF row, c
  <2>1. c = [wallet |-> c.wallet, order |-> c.order, trade |-> c.trade, stats |-> c.stats]
    BY <1>1, <2>0, BookParts
  <2>2. c.wallet = ws
    BY <1>1, <2>0, BookParts
  <2>3. c.order = os
    BY <1>1, <2>0, BookParts
  <2>4. c.trade = b.trade /\ c.stats = b.stats
    BY <1>1, <2>0, BookParts
  <2>. HIDE DEF ws, os
  <2>. QED
    BY <1>1, <1>3, <1>6, <2>1, <2>2, <2>3, <2>4, BookParts DEF Books
<1>8. b.order[o].remaining = 0 /\ b.order[o].seller = None
  BY <1>1, RowParts DEF Good, Linked
<1>. HIDE DEF c, row, ws, os
<1>9. ASSUME NEW v \in Users
      PROVE  Net(c.wallet[v]) + OnBook(c, o, v) = Net(b.wallet[v]) + OnBook(b, o, v)
  <2>1. OnBook(b, o, v) = 0 /\ OnBook(c, o, v) = IF v = u THEN amount ELSE 0
    BY <1>2, <1>6, <1>7, <1>8 DEF OnBook
  <2>2. Net(c.wallet[v]) = IF v = u THEN Net(b.wallet[u]) - amount ELSE Net(b.wallet[v])
    BY <1>4, <1>5, <1>7
  <2>3. Net(b.wallet[v]) \in Int /\ Net(b.wallet[u]) \in Int
    BY <1>1, PurseParts
  <2>. QED
    BY <2>1, <2>2, <2>3
<1>10. /\ \A q \in Orders \ {o} : c.order[q] = b.order[q]
       /\ b.order[o].status # "none" => c.order[o].seller = b.order[o].seller
  BY <1>1, <1>6, <1>7
<1>11. Agree(c)
  BY <1>1, <1>7, <1>9, <1>10, AgreeKept
<1>. QED
  BY <1>0, <1>11

\* cancel_order: the coins go back to the seller's wallet, or stay in the order.
LEMMA CancelAgrees ==
  ASSUME NEW b, Good(b), Agree(b), NEW o \in Orders, b.order[o].status = "active"
  PROVE  Agree(PayOut(b, [b EXCEPT !.order[o] = Cancelled(@)],
                      b.order[o].seller, b.order[o].remaining))
<1> DEFINE row == Cancelled(b.order[o])
           os  == [b.order EXCEPT ![o] = row]
           f   == [b EXCEPT !.order[o] = Cancelled(@)]
           u   == b.order[o].seller
           r   == b.order[o].remaining
           c   == PayOut(b, f, u, r)
<1>1. b \in Books /\ b.order[o] \in Order /\ u \in Users /\ r \in Nat
  BY RowParts DEF Good, Linked
<1>2. row \in Order /\ row.seller = u /\ row.remaining = 0
  BY <1>1, Cancelling
<1>3. f = [wallet |-> b.wallet, order |-> os, trade |-> b.trade, stats |-> b.stats]
  BY <1>1, BookParts
<1>. HIDE DEF f, row
<1>4. os \in [Orders -> Order] /\ os[o] = row /\ \A q \in Orders \ {o} : os[q] = b.order[q]
  BY <1>1, <1>2, BookParts
<1>. HIDE DEF os
<1>5. /\ f \in Books /\ f.order = os /\ f.trade = b.trade /\ f.wallet = b.wallet
      /\ f.stats = b.stats
  BY <1>1, <1>3, <1>4, BookParts DEF Books
<1>6. \/ c = b
      \/ /\ c \in Books /\ c.order = f.order /\ c.trade = f.trade /\ c.stats = f.stats
         /\ Gets(b, c, u, r)
  BY <1>1, <1>5, PaysOut
<1>. HIDE DEF c
<1>7. CASE /\ c \in Books /\ c.order = f.order /\ c.trade = f.trade /\ c.stats = f.stats
           /\ Gets(b, c, u, r)
  <2>1. ASSUME NEW v \in Users
        PROVE  Net(c.wallet[v]) + OnBook(c, o, v) = Net(b.wallet[v]) + OnBook(b, o, v)
    <3>1. /\ OnBook(b, o, v) = IF v = u THEN r ELSE 0
          /\ OnBook(c, o, v) = 0
      BY <1>2, <1>4, <1>5, <1>7 DEF OnBook
    <3>2. Net(c.wallet[v]) = Net(b.wallet[v]) + (IF v = u THEN r ELSE 0)
      BY <1>7 DEF Gets
    <3>3. Net(b.wallet[v]) \in Int
      BY <1>1, PurseParts
    <3>. HIDE DEF u, r
    <3>. QED
      BY <1>1, <3>1, <3>2, <3>3
  <2>2. /\ \A q \in Orders \ {o} : c.order[q] = b.order[q]
        /\ b.order[o].status # "none" => c.order[o].seller = b.order[o].seller
    BY <1>2, <1>4, <1>5, <1>7
  <2>3. Agree(c)
    BY <1>5, <1>7, <2>1, <2>2, AgreeKept
  <2>. QED
    BY <2>3 DEF c, f, u, r
<1>8. CASE c = b
  BY <1>8 DEF c, f, u, r
<1>. QED
  BY <1>6, <1>7, <1>8

LEMMA CoinsInt ==
  ASSUME NEW b, Good(b), NEW u \in Users
  PROVE  Coins(b, u) \in Int
<1> DEFINE f == [o \in Orders |-> b.order[o].remaining]
           A == {o \in Orders : b.order[o].seller = u}
<1>1. A \subseteq Placed(b)
  BY NobodyIsNone DEF Good, Linked, Placed
<1>2. IsFiniteSet(A) /\ A \in SUBSET A
  BY <1>1, FS_Subset DEF Good, Counted
<1>3. \A q \in A : f[q] \in Int
  BY RowParts DEF Good
<1>. HIDE DEF f, A
<1>4. SumOver(f, A) \in Int
  BY <1>2, <1>3, SumInt
<1>. QED
  BY <1>4 DEF Coins, f, A

\* The rest of the economy: what is earned or spent is counted.
LEMMA WalletAgrees ==
  ASSUME NEW b, Good(b), Agree(b), NEW u \in Users, NEW w,
         [b.wallet EXCEPT ![u] = w] \in [Users -> Wallets], Net(w) = Net(b.wallet[u])
  PROVE  Agree([b EXCEPT !.wallet[u] = w])
<1> DEFINE ws == [b.wallet EXCEPT ![u] = w]
           c  == [b EXCEPT !.wallet[u] = w]
<1>1. b \in Books
  BY DEF Good
<1>2. c = [wallet |-> ws, order |-> b.order, trade |-> b.trade, stats |-> b.stats]
  BY <1>1, BookParts
<1>3. ws[u] = w /\ \A v \in Users \ {u} : ws[v] = b.wallet[v]
  BY <1>1, BookParts
<1>4. ws \in [Users -> Wallets]
  OBVIOUS
<1>. HIDE DEF ws, c
<1>5. /\ c \in Books /\ c.wallet = ws /\ c.order = b.order /\ c.trade = b.trade
      /\ c.stats = b.stats
  BY <1>1, <1>2, <1>4, BookParts DEF Books
<1>6. \A v \in Users : Net(c.wallet[v]) = Net(b.wallet[v])
  BY <1>3, <1>5
<1>7. ASSUME NEW v \in Users
      PROVE  Owns(c, v) /\ Carded(c, v)
  <2> DEFINE H == Holding \cup ToBuyer
  <2>1. /\ \A s : Sales(c, v, s) = Sales(b, v, s) /\ Buys(c, v, s) = Buys(b, v, s)
        /\ \A S : Value(c, S) = Value(b, S)
        /\ Coins(c, v) = Coins(b, v)
    BY <1>5 DEF Sales, Buys, Value, Coins, Seller
  <2>2. Carded(c, v)
    BY <1>5, <2>1 DEF Agree, Carded
  <2>3. Sales(b, v, H) \subseteq Used(b) /\ Buys(b, v, ToBuyer) \subseteq Used(b)
    BY DEF Sales, Buys, Used, Holding, ToBuyer
  <2>. HIDE DEF H
  <2>4. Value(b, Sales(b, v, H)) \in Int /\ Value(b, Buys(b, v, ToBuyer)) \in Int
    BY <1>1, <2>3, ValueInt DEF Agree
  <2>5. Coins(b, v) \in Int
    BY CoinsInt
  <2>6. Net(b.wallet[v]) + Coins(b, v) + Value(b, Sales(b, v, H)) - Value(b, Buys(b, v, ToBuyer))
          = Welcome
    BY <1>1, <2>4, <2>5, OwnsMeans DEF Agree, H
  <2>7. Net(c.wallet[v]) + Coins(c, v) + Value(c, Sales(c, v, H)) - Value(c, Buys(c, v, ToBuyer))
          = Welcome
    BY <1>6, <2>1, <2>6
  <2>8. /\ Coins(c, v) \in Int /\ Value(c, Sales(c, v, H)) \in Int
        /\ Value(c, Buys(c, v, ToBuyer)) \in Int
    <3>1. /\ Sales(c, v, H) = Sales(b, v, H) /\ Buys(c, v, ToBuyer) = Buys(b, v, ToBuyer)
          /\ Coins(c, v) = Coins(b, v)
          /\ Value(c, Sales(b, v, H)) = Value(b, Sales(b, v, H))
          /\ Value(c, Buys(b, v, ToBuyer)) = Value(b, Buys(b, v, ToBuyer))
      BY <2>1
    <3>. QED
      BY <2>4, <2>5, <3>1
  <2>9. Owns(c, v)
    BY <1>5, <2>7, <2>8, OwnsMeans DEF H
  <2>. QED
    BY <2>2, <2>9
<1>8. Used(c) = Used(b)
  BY <1>5 DEF Used
<1>. QED
  BY <1>7, <1>8 DEF Agree, c

-----------------------------------------------------------------------------
(* The steps. *)

BooksInv == P2PInv /\ Agree(db) /\ Agree(work)

StepAgrees == Agree(db') /\ Agree(work')

LEMMA CommitAgrees ==
  ASSUME NEW p, NEW c, Agree(c), Commit(p, c)
  PROVE  StepAgrees
BY DEF Commit, StepAgrees

LEMMA AtomicAgrees ==
  ASSUME NEW c, Agree(c), Atomically(c)
  PROVE  StepAgrees
BY DEF Atomically, StepAgrees

LEMMA WorkAgrees ==
  ASSUME BooksInv, NEW c, Agree(c), db' = db, work' = c
  PROVE  StepAgrees
BY DEF BooksInv, StepAgrees

LEMMA NothingWritten ==
  ASSUME BooksInv, UNCHANGED <<db, work>>
  PROVE  StepAgrees
BY DEF BooksInv, StepAgrees

LEMMA CreateInsertAgrees ==
  ASSUME BooksInv, NEW p \in Procs, CreateInsert(p)
  PROVE  StepAgrees
<1> DEFINE u == job[p].user
           amount == job[p].amount
           c == Posted(work, u, amount, job[p].bounds)
<1>1. /\ job[p].step = "insert"
      /\ \/ CanDebit(work.wallet[u], amount) /\ Commit(p, c)
         \/ Commit(p, work)
  BY DEF CreateInsert, At
<1>2. P2PInv /\ Good(work) /\ Agree(work)
  BY DEF BooksInv, P2PInv
<1>3. Ready(p)
  BY <1>1, <1>2 DEF P2PInv, JobSound, Inside
<1>4. CASE CanDebit(work.wallet[u], amount) /\ Commit(p, c)
  <2>1. /\ u \in Users /\ job[p].bounds \in Limits /\ amount > 0 /\ FreeOrders(work) # {}
    BY <1>1, <1>3 DEF Ready
  <2>2. amount \in Nat
    BY <1>2, JobParts DEF P2PInv
  <2>3. Agree(c)
    BY <1>2, <1>4, <2>1, <2>2, PlaceAgrees
  <2>. QED
    BY <1>4, <2>3, CommitAgrees
<1>5. CASE Commit(p, work)
  BY <1>2, <1>5, CommitAgrees
<1>. QED
  BY <1>1, <1>4, <1>5

LEMMA SellAgrees ==
  ASSUME BooksInv, NEW p \in Procs, Sell(p)
  PROVE  StepAgrees
<1>1. ASSUME NEW u \in Users, NEW amount \in Amounts, NEW bounds \in Limits,
             CreateLock(p, u, amount, bounds)
      PROVE  StepAgrees
  <2>1. UNCHANGED <<db, work>>
    BY <1>1 DEF CreateLock
  <2>. QED
    BY <2>1, NothingWritten
<1>2. ASSUME CreateCounted(p) PROVE StepAgrees
  <2>1. UNCHANGED <<db, work>>
    BY <1>2 DEF CreateCounted, Write
  <2>. QED
    BY <2>1, NothingWritten
<1>3. ASSUME CreateRefused(p) PROVE StepAgrees
  <2>1. Commit(p, work) /\ Agree(work)
    BY <1>3 DEF CreateRefused, BooksInv
  <2>. QED
    BY <2>1, CommitAgrees
<1>. QED
  BY <1>1, <1>2, <1>3, CreateInsertAgrees DEF Sell

LEMMA ExpireOneAgrees ==
  ASSUME BooksInv, NEW p \in Procs, ExpireOne(p)
  PROVE  StepAgrees
<1> DEFINE t == Min(job[p].scan)
<1>1. job[p].scan # {} /\ work' = Expired(work, t) /\ db' = db
  BY DEF ExpireOne, Write
<1>2. P2PInv /\ Good(work) /\ Agree(work)
  BY DEF BooksInv, P2PInv
<1>3. job[p].scan \in SUBSET Trades
  BY <1>2, JobParts DEF P2PInv
<1>4. t \in Trades
  <2>1. job[p].scan \in SUBSET Nat
    BY <1>3, P2PAssumption
  <2>. QED
    BY <1>1, <1>3, <2>1, MinOfNats
<1>. HIDE DEF t
<1>5. Agree(Expired(work, t))
  BY <1>2, <1>4, ExpireAgrees
<1>. QED
  BY <1>1, <1>5, WorkAgrees

LEMMA BuyFillAgrees ==
  ASSUME BooksInv, NEW p \in Procs, BuyFill(p)
  PROVE  StepAgrees
<1> DEFINE o == job[p].order
           u == job[p].user
           c == Taken(work, o, u, job[p].amount)
<1>1. /\ job[p].step = "fill"
      /\ \/ CanFill(work, o, job[p].amount) /\ Commit(p, c)
         \/ Commit(p, work)
  BY DEF BuyFill, At
<1>2. P2PInv /\ Good(work) /\ Agree(work)
  BY DEF BooksInv, P2PInv
<1>3. Ready(p)
  BY <1>1, <1>2 DEF P2PInv, JobSound, Inside
<1>4. CASE CanFill(work, o, job[p].amount) /\ Commit(p, c)
  <2>1. u \in Users /\ o \in Orders /\ job[p].amount > 0 /\ FreeTrades(work) # {}
    BY <1>1, <1>3 DEF Ready
  <2>2. job[p].amount \in Nat
    BY <1>2, JobParts DEF P2PInv
  <2>3. Agree(c)
    BY <1>2, <1>4, <2>1, <2>2, TakeAgrees
  <2>. QED
    BY <1>4, <2>3, CommitAgrees
<1>5. CASE Commit(p, work)
  BY <1>2, <1>5, CommitAgrees
<1>. QED
  BY <1>1, <1>4, <1>5

LEMMA ExpressTakeAgrees ==
  ASSUME BooksInv, NEW p \in Procs, ExpressTake(p)
  PROVE  StepAgrees
<1> DEFINE o == Min(Offers(p))
           u == job[p].user
<1>1. job[p].step = "walk" /\ Walking(p) /\ FreeTrades(work) # {}
  BY DEF ExpressTake, Walking, At
<1>2. P2PInv /\ Good(work) /\ Agree(work)
  BY DEF BooksInv, P2PInv
<1>3. Ready(p)
  BY <1>1, <1>2 DEF P2PInv, JobSound, Inside
<1>4. /\ o \in Orders /\ work.order[o].status = "active" /\ work.order[o].remaining \in Nat
      /\ work.order[o].bounds.max \in Nat
  BY <1>1, <1>2, OfferParts
<1>5. PICK take \in Slices(work.order[o], job[p].amount) :
        \/ Buyable(work, o, u, take) /\ Write(Taken(work, o, u, take))
        \/ Write(work)
  BY DEF ExpressTake
<1>. HIDE DEF o
<1>6. job[p].amount \in Nat /\ u \in Users
  BY <1>1, <1>2, <1>3, JobParts DEF P2PInv, Ready
<1>7. take \in Nat
  BY <1>4, <1>6, SliceFits
<1>8. CASE Buyable(work, o, u, take) /\ Write(Taken(work, o, u, take))
  <2>1. take > 0 /\ CanFill(work, o, take)
    BY <1>4, <1>8 DEF Buyable, CanFill
  <2>2. Agree(Taken(work, o, u, take))
    BY <1>1, <1>2, <1>4, <1>6, <1>7, <2>1, TakeAgrees
  <2>. QED
    BY <1>8, <2>2, WorkAgrees DEF Write
<1>9. CASE Write(work)
  BY <1>9, NothingWritten DEF Write
<1>. QED
  BY <1>5, <1>8, <1>9

LEMMA BuyAgrees ==
  ASSUME BooksInv, NEW p \in Procs, Buy(p)
  PROVE  StepAgrees
<1>1. ASSUME NEW u \in Users, NEW o \in Orders \cup {None},
             NEW amount \in Asked \cup Budgets, BuyLock(p, u, o, amount)
      PROVE  StepAgrees
  <2>1. UNCHANGED <<db, work>>
    BY <1>1 DEF BuyLock
  <2>. QED
    BY <2>1, NothingWritten
<1>2. ASSUME BuyGate(p) \/ FreeSlots(p) PROVE StepAgrees
  <2>1. Write(work) \/ Commit(p, work)
    BY <1>2 DEF BuyGate, FreeSlots
  <2>2. Agree(work)
    BY DEF BooksInv
  <2>3. CASE Write(work)
    BY <2>3, NothingWritten DEF Write
  <2>. QED
    BY <2>1, <2>2, <2>3, CommitAgrees
<1>3. ASSUME ExpressDone(p) PROVE StepAgrees
  <2>1. Commit(p, work) /\ Agree(work)
    BY <1>3 DEF ExpressDone, BooksInv
  <2>. QED
    BY <2>1, CommitAgrees
<1>. QED
  BY <1>1, <1>2, <1>3, ExpireOneAgrees, BuyFillAgrees, ExpressTakeAgrees DEF Buy

LEMMA SweepAgrees ==
  ASSUME BooksInv, NEW p \in Procs, Sweep(p)
  PROVE  StepAgrees
<1>1. ASSUME SweepList(p) \/ SweepLock(p) \/ BusyTimeout(p) PROVE StepAgrees
  <2>1. UNCHANGED <<db, work>>
    BY <1>1 DEF SweepList, SweepLock, BusyTimeout
  <2>. QED
    BY <2>1, NothingWritten
<1>2. ASSUME SweepDone(p) PROVE StepAgrees
  <2>1. Commit(p, work) /\ Agree(work)
    BY <1>2 DEF SweepDone, BooksInv
  <2>. QED
    BY <2>1, CommitAgrees
<1>. QED
  BY <1>1, <1>2 DEF Sweep

\* A status that holds on.
LEMMA PlainAgrees ==
  ASSUME BooksInv, NEW t \in Trades, db.trade[t].status \in Holding, NEW s \in Holding,
         Atomically([db EXCEPT !.trade[t].status = s])
  PROVE  StepAgrees
<1> DEFINE c == [db EXCEPT !.trade[t].status = s]
<1>1. Good(db) /\ Agree(db)
  BY DEF BooksInv, P2PInv
<1>2. db.trade[t].status # "none"
  BY DEF Holding
<1>3. /\ c \in Books /\ c.wallet = db.wallet /\ c.order = db.order /\ c.stats = db.stats
      /\ FlipOf(db.trade, c.trade, t, s)
  BY <1>1, <1>2, FlipWrites
<1>. HIDE DEF c
<1>4. Agree(c)
  BY <1>1, <1>3, HoldAgrees
<1>. QED
  BY <1>4, AtomicAgrees DEF c

\* record_successful_trade: one card, one trade more.
LEMMA SoldWrites ==
  ASSUME NEW b \in Books, NEW t \in Trades, Seller(b, t) \in Users
  PROVE  LET c == Sold(b, t)
         IN \A u \in Users :
              /\ c.stats[u].trades = b.stats[u].trades + (IF Seller(b, t) = u THEN 1 ELSE 0)
              /\ c.stats[u].sold = b.stats[u].sold
                   + (IF Seller(b, t) = u THEN b.trade[t].amount ELSE 0)
              /\ c.stats[u].disputes = b.stats[u].disputes
<1> DEFINE w == Seller(b, t)
           amount == b.trade[t].amount
           card == b.stats[w]
           new == [card EXCEPT !.trades = @ + 1, !.sold = @ + amount]
           c == Sold(b, t)
<1>1. card \in Stats /\ amount \in Nat
  BY BookParts, RowParts
<1>2. c.stats = [b.stats EXCEPT ![w] = new]
  BY BookParts DEF Sold
<1>3. /\ new.trades = card.trades + 1 /\ new.sold = card.sold + amount
      /\ new.disputes = card.disputes
  BY <1>1 DEF Stats
<1>. HIDE DEF new, c, amount
<1>4. c.stats[w] = new /\ \A u \in Users \ {w} : c.stats[u] = b.stats[u]
  BY <1>2, BookParts
<1>5. \A u \in Users : b.stats[u].trades \in Nat /\ b.stats[u].sold \in Nat
  BY BookParts DEF Stats
<1>. HIDE DEF w
<1>. QED
  BY <1>1, <1>3, <1>4, <1>5 DEF c, amount, w

\* What a ruling for the buyer, or his seller's word, leaves before the payout.
LEMMA EndAgrees ==
  ASSUME NEW b, Good(b), Agree(b), NEW t \in Trades, b.trade[t].status \in Holding,
         NEW s \in ToBuyer, NEW f \in Books, f.wallet = b.wallet, f.order = b.order,
         FlipOf(b.trade, f.trade, t, s), \A u \in Users : Tallied(b, f, t, u)
  PROVE  Agree(PayOut(b, f, b.trade[t].buyer, b.trade[t].amount))
<1> DEFINE u == b.trade[t].buyer
           amount == b.trade[t].amount
           c == PayOut(b, f, u, amount)
<1>1. b \in Books /\ u \in Users /\ amount \in Nat
  BY RowParts DEF Good, Linked, Holding
<1>2. \/ c = b
      \/ /\ c \in Books /\ c.order = f.order /\ c.trade = f.trade /\ c.stats = f.stats
         /\ Gets(b, c, u, amount)
  BY <1>1, PaysOut
<1>. HIDE DEF c
<1>3. CASE /\ c \in Books /\ c.order = f.order /\ c.trade = f.trade /\ c.stats = f.stats
           /\ Gets(b, c, u, amount)
  <2>1. \A v \in Users : Tallied(b, c, t, v)
    BY <1>3 DEF Tallied, Seller
  <2>2. Agree(c)
    BY <1>3, <2>1, BuyerAgrees
  <2>. QED
    BY <2>2 DEF c
<1>. QED
  BY <1>2, <1>3 DEF c

LEMMA SoldTallies ==
  ASSUME NEW b \in Books, NEW t \in Trades, NEW f \in Books, f.stats = b.stats,
         f.trade[t].status = "confirmed", Seller(f, t) \in Users
  PROVE  \A u \in Users : Tallied(b, Sold(f, t), t, u)
<1> DEFINE g == Sold(f, t)
<1>1. g \in Books /\ g.order = f.order /\ g.trade = f.trade
  BY Selling
<1>2. Seller(g, t) = Seller(f, t)
  BY <1>1 DEF Seller
<1>3. \A u \in Users :
        /\ g.stats[u].trades = f.stats[u].trades + (IF Seller(f, t) = u THEN 1 ELSE 0)
        /\ g.stats[u].sold = f.stats[u].sold
             + (IF Seller(f, t) = u THEN f.trade[t].amount ELSE 0)
        /\ g.stats[u].disputes = f.stats[u].disputes
  BY SoldWrites
<1>4. \A u \in Users : b.stats[u].disputes \in Nat
  BY BookParts DEF Stats
<1>. HIDE DEF g
<1>5. \A u \in Users : Tallied(b, g, t, u)
  BY <1>1, <1>2, <1>3, <1>4 DEF Tallied
<1>. QED
  BY <1>5 DEF g

LEMMA ConfirmAgrees ==
  ASSUME BooksInv, NEW t \in Trades, SellerConfirm(t)
  PROVE  StepAgrees
<1> DEFINE f == [db EXCEPT !.trade[t].status = "confirmed"]
           c == PayOut(db, Sold(f, t), db.trade[t].buyer, db.trade[t].amount)
<1>1. db.trade[t].status = "paid" /\ Atomically(c)
  BY DEF SellerConfirm
<1>2. Good(db) /\ Agree(db) /\ db \in Books /\ "confirmed" \in ToBuyer /\ "paid" \in Holding
  BY DEF BooksInv, P2PInv, Good, ToBuyer, Holding
<1>3. /\ f \in Books /\ f.wallet = db.wallet /\ f.order = db.order /\ f.stats = db.stats
      /\ FlipOf(db.trade, f.trade, t, "confirmed")
  BY <1>1, <1>2, FlipWrites
<1>4. Seller(f, t) \in Users
  BY <1>1, <1>2, StatusFlip
<1>. HIDE DEF f
<1>5. /\ Sold(f, t) \in Books /\ Sold(f, t).wallet = db.wallet
      /\ Sold(f, t).order = db.order /\ FlipOf(db.trade, Sold(f, t).trade, t, "confirmed")
  BY <1>3, <1>4, Selling
<1>6. \A u \in Users : Tallied(db, Sold(f, t), t, u)
  BY <1>2, <1>3, <1>4, SoldTallies DEF FlipOf
<1>7. Agree(c)
  BY <1>1, <1>2, <1>5, <1>6, EndAgrees
<1>. QED
  BY <1>1, <1>7, AtomicAgrees

LEMMA RuleAgrees ==
  ASSUME BooksInv, NEW t \in Trades, NEW ruling \in ToBuyer \cup {"returned_seller"},
         ResolveDispute(t, ruling)
  PROVE  StepAgrees
<1> DEFINE f == [db EXCEPT !.trade[t].status = ruling]
           g == Ruled(t, ruling)
           amount == db.trade[t].amount
           u == IF ruling \in ToBuyer THEN db.trade[t].buyer ELSE Seller(db, t)
<1>1. db.trade[t].status = "disputed" /\ Atomically(PayOut(db, g, u, amount))
  BY DEF ResolveDispute
<1>2. /\ Good(db) /\ Agree(db) /\ db \in Books /\ "disputed" \in Holding
      /\ ruling \in Holding \cup ToBuyer \cup ToSeller /\ amount \in Nat
  BY Statuses, RowParts DEF BooksInv, P2PInv, Good, Holding
<1>3. /\ f \in Books /\ f.wallet = db.wallet /\ f.order = db.order /\ f.stats = db.stats
      /\ FlipOf(db.trade, f.trade, t, ruling)
  BY <1>1, <1>2, FlipWrites
<1>4. Seller(f, t) = Seller(db, t) /\ Seller(db, t) \in Users
  BY <1>1, <1>2, StatusFlip
<1>5. CASE ruling = "refund_buyer"
  <2> DEFINE w == Seller(db, t)
             old == f.stats[w]
             card == [old EXCEPT !.disputes = @ + 1]
  <2>1. g = [f EXCEPT !.stats[w].disputes = @ + 1]
    BY <1>5 DEF Ruled
  <2>2. old \in Stats /\ card \in Stats
    BY <1>3, <1>4, BookParts DEF Stats
  <2>3. card.trades = old.trades /\ card.sold = old.sold /\ card.disputes = old.disputes + 1
    BY <2>2 DEF Stats
  <2>. HIDE DEF f, w
  <2>4. g = [f EXCEPT !.stats[w] = card]
    BY <2>1
  <2>. HIDE DEF g, card
  <2>5. /\ g \in Books /\ g.wallet = f.wallet /\ g.order = f.order /\ g.trade = f.trade
    BY <1>3, <1>4, <2>2, <2>4, CardWrite DEF w
  <2>6. g.stats[w] = card /\ \A v \in Users \ {w} : g.stats[v] = f.stats[v]
    BY <1>3, <1>4, <2>4, BookParts DEF w
  <2>7. \A v \in Users : /\ f.stats[v].trades \in Nat /\ f.stats[v].sold \in Nat
                         /\ f.stats[v].disputes \in Nat
    BY <1>3, BookParts DEF Stats
  <2>8. g.trade[t].status = "refund_buyer" /\ Seller(g, t) = w
    BY <1>3, <1>4, <1>5, <2>5 DEF FlipOf, Seller, w
  <2>9. \A v \in Users : Tallied(db, g, t, v)
    BY <1>3, <2>3, <2>6, <2>7, <2>8 DEF Tallied
  <2>10. ruling \in ToBuyer /\ u = db.trade[t].buyer
    BY <1>5 DEF ToBuyer
  <2>11. Agree(PayOut(db, g, db.trade[t].buyer, db.trade[t].amount))
    BY <1>1, <1>2, <1>3, <2>5, <2>9, <2>10, EndAgrees
  <2>. QED
    BY <1>1, <2>10, <2>11, AtomicAgrees
<1>6. CASE ruling = "confirmed"
  <2>1. g = Sold(f, t)
    BY <1>6 DEF Ruled
  <2>2. ruling \in ToBuyer /\ u = db.trade[t].buyer
    BY <1>6 DEF ToBuyer
  <2>. HIDE DEF f, g
  <2>3. /\ g \in Books /\ g.wallet = db.wallet /\ g.order = db.order
        /\ FlipOf(db.trade, g.trade, t, ruling)
    BY <1>3, <1>4, <2>1, Selling
  <2>4. \A v \in Users : Tallied(db, g, t, v)
    BY <1>2, <1>3, <1>4, <1>6, <2>1, SoldTallies DEF FlipOf
  <2>5. Agree(PayOut(db, g, db.trade[t].buyer, db.trade[t].amount))
    BY <1>1, <1>2, <2>2, <2>3, <2>4, EndAgrees
  <2>. QED
    BY <1>1, <2>2, <2>5, AtomicAgrees
<1>7. CASE ruling = "returned_seller"
  <2>1. g = f
    BY <1>7 DEF Ruled
  <2>2. ruling \in ToSeller /\ u = Seller(db, t)
    BY <1>7 DEF ToBuyer, ToSeller
  <2> DEFINE c == PayOut(db, f, Seller(db, t), amount)
  <2>. HIDE DEF f, g
  <2>3. \/ c = db
        \/ /\ c \in Books /\ c.order = f.order /\ c.trade = f.trade /\ c.stats = f.stats
           /\ Gets(db, c, Seller(db, t), amount)
    BY <1>2, <1>3, <1>4, PaysOut
  <2>4. Atomically(c)
    BY <1>1, <2>1, <2>2
  <2>. HIDE DEF c
  <2>5. CASE /\ c \in Books /\ c.order = f.order /\ c.trade = f.trade /\ c.stats = f.stats
             /\ Gets(db, c, Seller(db, t), amount)
    <3>1. Agree(c)
      BY <1>1, <1>2, <1>3, <2>2, <2>5, BackAgrees
    <3>. QED
      BY <2>4, <3>1, AtomicAgrees
  <2>6. CASE c = db
    BY <1>2, <2>4, <2>6, AtomicAgrees
  <2>. QED
    BY <2>3, <2>5, <2>6
<1>. QED
  BY <1>5, <1>6, <1>7 DEF ToBuyer

LEMMA DealAgrees ==
  ASSUME BooksInv, NEW t \in Trades, Deal(t)
  PROVE  StepAgrees
<1>1. {"pending", "paid", "disputed"} \subseteq Holding
  BY DEF Holding
<1>2. ASSUME MarkPaid(t) PROVE StepAgrees
  BY <1>1, <1>2, PlainAgrees DEF MarkPaid
<1>3. ASSUME OpenDispute(t) PROVE StepAgrees
  BY <1>1, <1>3, PlainAgrees DEF OpenDispute, Disputable
<1>4. ASSUME Age(t) PROVE StepAgrees
  BY <1>4, NothingWritten DEF Age
<1>. QED
  BY <1>2, <1>3, <1>4, ConfirmAgrees, RuleAgrees DEF Deal

LEMMA ElsewhereAgrees ==
  ASSUME BooksInv, NEW u \in Users, Elsewhere(u)
  PROVE  StepAgrees
<1>1. PICK amount \in Flows : Earn(u, amount) \/ Spend(u, amount)
  BY DEF Elsewhere
<1>2. /\ amount \in Nat /\ db \in Books /\ Good(db) /\ Agree(db)
  BY P2PAssumption DEF BooksInv, P2PInv, Good
<1>3. /\ db.wallet[u] \in Wallets /\ db.wallet[u].balance \in Int
      /\ db.wallet[u].earned \in Nat /\ db.wallet[u].spent \in Nat
  BY <1>2, PurseParts
<1>4. CASE Earn(u, amount)
  <2> DEFINE w == Credited(db.wallet[u], amount)
  <2>1. [db.wallet EXCEPT ![u] = w] \in [Users -> Wallets]
    BY <1>2, <1>4, WalletParts DEF Earn
  <2>2. Net(w) = Net(db.wallet[u])
    <3>1. /\ w.balance = db.wallet[u].balance + amount
          /\ w.earned = db.wallet[u].earned + amount /\ w.spent = db.wallet[u].spent
      BY <1>3 DEF Credited, Released, Wallets
    <3>. HIDE DEF w
    <3>. QED
      BY <1>2, <1>3, <3>1 DEF Net
  <2>3. Atomically([db EXCEPT !.wallet[u] = w])
    BY <1>4 DEF Earn
  <2>. HIDE DEF w
  <2>. QED
    BY <1>2, <2>1, <2>2, <2>3, WalletAgrees, AtomicAgrees
<1>5. CASE Spend(u, amount)
  <2> DEFINE w == Debited(db.wallet[u], amount)
  <2>1. [db.wallet EXCEPT ![u] = w] \in [Users -> Wallets]
    BY <1>2, <1>5, WalletParts DEF Spend
  <2>2. Net(w) = Net(db.wallet[u])
    <3>1. /\ w.balance = db.wallet[u].balance - amount
          /\ w.spent = db.wallet[u].spent + amount /\ w.earned = db.wallet[u].earned
      BY <1>3 DEF Debited, Held, Wallets
    <3>. HIDE DEF w
    <3>. QED
      BY <1>2, <1>3, <3>1 DEF Net
  <2>3. Atomically([db EXCEPT !.wallet[u] = w])
    BY <1>5 DEF Spend
  <2>. HIDE DEF w
  <2>. QED
    BY <1>2, <2>1, <2>2, <2>3, WalletAgrees, AtomicAgrees
<1>. QED
  BY <1>1, <1>4, <1>5

LEMMA FreshAgrees == Agree(Fresh)
<1> DEFINE b == Fresh
<1>1. /\ \A u \in Users : b.wallet[u] = Seeded(Welcome) /\ b.stats[u] = NoStats
      /\ \A o \in Orders : b.order[o] = NoOrder
      /\ \A t \in Trades : b.trade[t] = NoTrade
  BY FreshBooks
<1>. HIDE DEF b
<1>2. Used(b) = {}
  BY <1>1 DEF Used, NoTrade
<1>3. ASSUME NEW u \in Users PROVE Owns(b, u) /\ Carded(b, u)
  <2>1. "none" \notin Holding \cup ToBuyer /\ "none" \notin ToBuyer
    BY DEF Holding, ToBuyer
  <2>2. /\ Sales(b, u, Holding \cup ToBuyer) = {} /\ Buys(b, u, ToBuyer) = {}
        /\ Sales(b, u, {"confirmed"}) = {} /\ Sales(b, u, {"refund_buyer"}) = {}
    BY <1>1, <2>1 DEF Sales, Buys, NoTrade
  <2>3. {o \in Orders : b.order[o].seller = u} = {}
    BY <1>1, NobodyIsNone DEF NoOrder
  <2>4. Coins(b, u) = 0 /\ Value(b, {}) = 0
    BY <2>3, SumEmpty DEF Coins, Value
  <2>5. Cardinality({}) = 0
    BY FS_EmptySet
  <2>6. Welcome \in Int
    BY P2PAssumption, MaxAmountAssumption
  <2>7. Owns(b, u)
    <3>1. /\ Value(b, Sales(b, u, Holding \cup ToBuyer)) = 0
          /\ Value(b, Buys(b, u, ToBuyer)) = 0
      BY <2>2, <2>4
    <3>2. /\ b.wallet[u].balance = Welcome
          /\ b.wallet[u].earned = 0 /\ b.wallet[u].spent = 0
      BY <1>1 DEF Seeded
    <3>. QED
      BY <2>4, <2>6, <3>1, <3>2 DEF Owns, Worth
  <2>8. Carded(b, u)
    BY <1>1, <2>2, <2>4, <2>5 DEF Carded, NoStats
  <2>. QED
    BY <2>7, <2>8
<1>4. Agree(b)
  BY <1>2, <1>3, FS_EmptySet DEF Agree
<1>. QED
  BY <1>4 DEF b

LEMMA InitAgrees ==
  ASSUME Init
  PROVE  Agree(db) /\ Agree(work)
<1>1. db \in Inherited => Agree(db)
  BY InheritedBooks, FreshBooks, FreshAgrees, PlaceAgrees
<1>2. Agree(db) /\ work = db
  BY <1>1, FreshAgrees DEF Init
<1>. QED
  BY <1>2

LEMMA AgreeHolds ==
  ASSUME BooksInv, [Next]_vars
  PROVE  BooksInv'
<1>1. P2PInv'
  BY StepHolds DEF BooksInv, StepSound
<1>2. StepAgrees
  <2>1. ASSUME NEW p \in Procs, Sell(p) \/ Buy(p) \/ Sweep(p)
        PROVE  StepAgrees
    BY <2>1, SellAgrees, BuyAgrees, SweepAgrees
  <2>2. ASSUME NEW o \in Orders, CancelOrder(o) PROVE StepAgrees
    <3>1. Good(db) /\ Agree(db)
      BY DEF BooksInv, P2PInv
    <3>. QED
      BY <2>2, <3>1, CancelAgrees, AtomicAgrees DEF CancelOrder
  <2>3. ASSUME NEW t \in Trades, Deal(t) PROVE StepAgrees
    BY <2>3, DealAgrees
  <2>4. ASSUME NEW u \in Users, Elsewhere(u) PROVE StepAgrees
    BY <2>4, ElsewhereAgrees
  <2>5. ASSUME Crash PROVE StepAgrees
    BY <2>5 DEF Crash, BooksInv, StepAgrees
  <2>6. CASE UNCHANGED vars
    BY <2>6, NothingWritten DEF vars
  <2>. QED
    BY <2>1, <2>2, <2>3, <2>4, <2>5, <2>6 DEF Next
<1>3. Agree(db)' /\ Agree(work)'
  BY <1>2 DEF StepAgrees, Agree, Owns, Carded, Coins, Value, Sales, Buys, Used, Seller
<1>. QED
  BY <1>1, <1>3, Zenon DEF BooksInv

LEMMA BooksInvariant == Spec => []BooksInv
<1>1. Init => BooksInv
  BY InitHolds, InitAgrees DEF BooksInv
<1>2. BooksInv /\ [Next]_vars => BooksInv'
  BY AgreeHolds
<1>. QED
  BY <1>1, <1>2, PTL DEF Spec

\* Every coin has an owner and every card is true, for any number of users,
\* orders and trades, and after any refused payout, timeout or crash.
THEOREM BooksAlwaysAgree == Spec => []BooksAgree
<1>1. ASSUME BooksInv PROVE BooksAgree
  <2>1. TypeOK
    BY <1>1 DEF BooksInv, P2PInv
  <2>2. ASSUME NEW u \in Users
        PROVE  /\ InBook(u) = Coins(db, u)
               /\ \A s : SoldBy(u, s) = Sales(db, u, s) /\ BoughtBy(u, s) = Buys(db, u, s)
               /\ \A S : Amount(S) = Value(db, S)
    BY DEF InBook, Coins, SoldBy, Sales, BoughtBy, Buys, Amount, Value
  <2>3. EveryCoinHasAnOwner
    BY <1>1, <2>2 DEF EveryCoinHasAnOwner, BooksInv, Agree, Owns
  <2>4. CardMatchesTrades
    BY <1>1, <2>2 DEF CardMatchesTrades, BooksInv, Agree, Carded
  <2>. QED
    BY <2>1, <2>3, <2>4 DEF BooksAgree
<1>. QED
  BY BooksInvariant, <1>1, PTL

-----------------------------------------------------------------------------
(* Remainders.  What is left of an order, with its open trades, is no more *)
(* than was posted; and nothing leaves an order nobody can buy whole.      *)

HeldBy(b, o) == {t \in Trades : b.trade[t].status \in Holding /\ b.trade[t].order = o}
HeldIn(b, t, o) == IF t \in HeldBy(b, o) THEN b.trade[t].amount ELSE 0

SellsAll(b, o) == Sellable(b.order[o].bounds, b.order[o].amount)

OnOffer == {"active", "completed"}

KeptRow(b, o) ==
  LET row == b.order[o]
  IN row.status \in OnOffer =>
       /\ row.remaining + Value(b, HeldBy(b, o)) <= row.amount
       /\ row.remaining = row.amount \/ SellsAll(b, o)

Kept(b) == \A o \in Orders : KeptRow(b, o)

\* A buyer past the gate found something to buy; the posted amount and the
\* bounds have not changed since.
Gated(p) ==
  job[p].step \in {"slots", "reexpire", "fill"} /\ job[p].order \in Orders
    => SellsAll(work, job[p].order)

KeptInv == BooksInv /\ Kept(db) /\ Kept(work) /\ \A p \in Procs : Gated(p)

LEMMA FiatGrows ==
  ASSUME NEW m \in Nat, NEW n \in Nat
  PROVE  /\ m <= n => FiatOf(m) <= FiatOf(n)
         /\ m < n  => FiatOf(m) < FiatOf(n)
<1> DEFINE d == n - m
<1>1. n * PriceFiat = m * PriceFiat + d * PriceFiat
  BY PriceParts
<1>2. ASSUME m <= n PROVE d * PriceFiat >= 0
  <2>1. d \in Nat
    BY <1>2
  <2>. HIDE DEF d
  <2>. QED
    BY <2>1, PriceParts
<1>3. ASSUME m < n PROVE d * PriceFiat > 0
  <2>1. d \in Nat /\ d > 0
    BY <1>3
  <2>. HIDE DEF d
  <2>. QED
    BY <2>1, PriceParts
<1>4. m * PriceFiat \in Int /\ d * PriceFiat \in Int /\ n * PriceFiat \in Int
  BY PriceParts
<1>. QED
  BY <1>1, <1>2, <1>3, <1>4 DEF FiatOf

\* Where the posted amount could be bought from, so can every remainder of it:
\* the minimum falls with the rest of the order.
LEMMA TailSells ==
  ASSUME NEW bounds, bounds.min \in Nat, bounds.max \in Nat,
         NEW all \in Nat, NEW rest \in Nat, rest > 0, rest <= all, Sellable(bounds, all)
  PROVE  Sellable(bounds, rest)
<1> DEFINE lo == bounds.min * PriceCoins
           hi == bounds.max * PriceCoins
<1>1. PICK a \in 1..all : FiatOf(a) >= Least(lo, FiatOf(all)) /\ FiatOf(a) <= hi
  BY DEF Sellable, WithinBounds, EffectiveMin
<1>2. /\ lo \in Nat /\ hi \in Nat /\ FiatOf(a) \in Nat
      /\ FiatOf(all) \in Nat /\ FiatOf(rest) \in Nat
  BY FiatParts
<1>. HIDE DEF lo, hi
<1>3. CASE rest <= a
  <2>1. FiatOf(rest) <= FiatOf(a)
    BY <1>3, FiatGrows
  <2>2. FiatOf(rest) >= Least(lo, FiatOf(rest)) /\ FiatOf(rest) <= hi
    BY <1>1, <1>2, <2>1 DEF Least
  <2>3. rest \in 1..rest
    OBVIOUS
  <2>. QED
    BY <2>2, <2>3 DEF Sellable, WithinBounds, EffectiveMin, lo, hi
<1>4. CASE a < rest
  <2>1. FiatOf(a) < FiatOf(all)
    BY <1>4, FiatGrows
  <2>2. FiatOf(a) >= Least(lo, FiatOf(rest))
    BY <1>1, <1>2, <2>1 DEF Least
  <2>3. a \in 1..rest
    BY <1>4
  <2>. QED
    BY <1>1, <2>2, <2>3 DEF Sellable, WithinBounds, EffectiveMin, lo, hi
<1>. QED
  BY <1>3, <1>4

\* Who passes the gate shows that the whole order could be bought from.
LEMMA BuyableSells ==
  ASSUME NEW b, Good(b), Kept(b), NEW o \in Orders, NEW u, NEW amount \in Nat,
         Buyable(b, o, u, amount)
  PROVE  SellsAll(b, o)
<1>1. /\ b.order[o].status = "active" /\ amount > 0 /\ amount <= b.order[o].remaining
      /\ WithinBounds(b.order[o].bounds, b.order[o].remaining, amount)
  BY DEF Buyable
<1>2. b.order[o].remaining \in Nat
  BY RowParts DEF Good
<1>3. amount \in 1..b.order[o].remaining
  BY <1>1, <1>2
<1>4. Sellable(b.order[o].bounds, b.order[o].remaining)
  BY <1>1, <1>3 DEF Sellable
<1>5. b.order[o].remaining = b.order[o].amount \/ SellsAll(b, o)
  BY <1>1 DEF Kept, KeptRow, OnOffer
<1>. QED
  BY <1>4, <1>5 DEF SellsAll

LEMMA HeldParts ==
  ASSUME NEW b, Good(b), IsFiniteSet(Used(b)), NEW o \in Orders
  PROVE  /\ HeldBy(b, o) \subseteq Used(b)
         /\ Value(b, HeldBy(b, o)) \in Nat
         /\ b.order[o].status = "none" => HeldBy(b, o) = {} /\ Value(b, HeldBy(b, o)) = 0
<1> DEFINE f == [t \in Trades |-> b.trade[t].amount]
           H == HeldBy(b, o)
<1>1. H \subseteq Used(b) /\ H \subseteq Trades
  BY DEF HeldBy, Used, Holding
<1>2. IsFiniteSet(H)
  BY <1>1, FS_Subset
<1>3. \A t \in H : f[t] \in Nat
  BY <1>1, RowParts DEF Good
<1>. HIDE DEF f, H
<1>4. SumOver(f, H) \in Nat
  BY <1>2, <1>3, SumNat
<1>5. b.order[o].status = "none" => H = {}
  BY DEF Good, Linked, HeldBy, Holding, H
<1>6. H = {} => SumOver(f, H) = 0
  BY SumEmpty
<1>. QED
  BY <1>1, <1>4, <1>5, <1>6 DEF Value, H, f

\* No trade has changed, and of the orders only what is new, gone or whole.
LEMMA KeptSame ==
  ASSUME NEW b, Good(b), IsFiniteSet(Used(b)), Kept(b), NEW c, c.trade = b.trade,
         \A o \in Orders : \/ c.order[o] = b.order[o]
                           \/ c.order[o].status \notin OnOffer
                           \/ /\ b.order[o].status = "none" /\ c.order[o].amount \in Nat
                              /\ c.order[o].remaining = c.order[o].amount
  PROVE  Kept(c)
<1> SUFFICES ASSUME NEW o \in Orders PROVE KeptRow(c, o)
  BY DEF Kept
<1>1. HeldBy(c, o) = HeldBy(b, o) /\ Value(c, HeldBy(c, o)) = Value(b, HeldBy(b, o))
  BY DEF HeldBy, Value
<1>2. CASE c.order[o] = b.order[o]
  BY <1>1, <1>2 DEF Kept, KeptRow, SellsAll
<1>3. CASE /\ b.order[o].status = "none" /\ c.order[o].amount \in Nat
           /\ c.order[o].remaining = c.order[o].amount
  <2>1. Value(b, HeldBy(b, o)) = 0
    BY <1>3, HeldParts
  <2>. QED
    BY <1>1, <1>3, <2>1 DEF KeptRow
<1>4. CASE c.order[o].status \notin OnOffer
  BY <1>4 DEF KeptRow
<1>. QED
  BY <1>2, <1>3, <1>4

\* One trade has changed.  Of its order and the trade together there is no more
\* than before, and the remainder shrinks only where the order could be bought.
LEMMA KeptMoved ==
  ASSUME NEW b, Good(b), IsFiniteSet(Used(b)), Kept(b), NEW c \in Books, NEW t \in Trades,
         \A q \in Trades \ {t} : c.trade[q] = b.trade[q],
         NEW o \in Orders, c.order[o].status \in OnOffer => b.order[o].status \in OnOffer,
         c.order[o].bounds = b.order[o].bounds, c.order[o].amount = b.order[o].amount,
         c.order[o].remaining + HeldIn(c, t, o) <= b.order[o].remaining + HeldIn(b, t, o),
         c.order[o].remaining >= b.order[o].remaining \/ SellsAll(b, o)
  PROVE  KeptRow(c, o)
<1> SUFFICES ASSUME c.order[o].status \in OnOffer
             PROVE  /\ c.order[o].remaining + Value(c, HeldBy(c, o)) <= c.order[o].amount
                    /\ c.order[o].remaining = c.order[o].amount \/ SellsAll(c, o)
  BY DEF KeptRow
<1> DEFINE A == HeldBy(b, o)
           B == HeldBy(c, o)
<1>1. b \in Books
  BY DEF Good
<1>2. ApartFrom(b, c, t, A, B)
  <2>1. A \subseteq Used(b)
    BY HeldParts
  <2>2. \A q \in Trades \ {t} : q \in A <=> q \in B
    BY DEF HeldBy
  <2>3. B \subseteq Used(b) \cup {t}
    BY <2>1, <2>2 DEF HeldBy
  <2>. QED
    BY <2>1, <2>2, <2>3 DEF ApartFrom
<1>3. Summed(b, c, t, A, B)
  BY <1>1, <1>2, ValueSums
<1>4. /\ Value(b, A) \in Nat /\ Value(c, B) \in Int
      /\ Value(c, B) = Value(b, A) + HeldIn(c, t, o) - HeldIn(b, t, o)
  BY <1>3, HeldParts DEF Summed, HeldIn
<1>5. /\ b.order[o].remaining \in Nat /\ c.order[o].remaining \in Nat
      /\ b.order[o].amount \in Nat /\ HeldIn(b, t, o) \in Nat /\ HeldIn(c, t, o) \in Nat
  BY <1>1, RowParts DEF HeldIn
<1>6. /\ b.order[o].remaining + Value(b, A) <= b.order[o].amount
      /\ b.order[o].remaining = b.order[o].amount \/ SellsAll(b, o)
  BY DEF Kept, KeptRow
<1>7. SellsAll(c, o) <=> SellsAll(b, o)
  BY DEF SellsAll
<1>8. Value(c, B) >= 0
  <2>1. IsFiniteSet(B)
    <3>1. B \subseteq Used(b) \cup {t}
      BY <1>2 DEF ApartFrom
    <3>2. IsFiniteSet(Used(b) \cup {t})
      BY FS_AddElement
    <3>. QED
      BY <3>1, <3>2, FS_Subset
  <2> DEFINE f == [q \in Trades |-> c.trade[q].amount]
  <2>2. \A q \in B : f[q] \in Nat
    BY RowParts DEF HeldBy
  <2>. HIDE DEF f, B
  <2>3. SumOver(f, B) \in Nat
    BY <2>1, <2>2, SumNat
  <2>. QED
    BY <2>3 DEF Value, f
<1>. HIDE DEF A, B
<1>9. c.order[o].remaining + Value(c, B) <= c.order[o].amount
  BY <1>4, <1>5, <1>6
<1>10. c.order[o].remaining = c.order[o].amount \/ SellsAll(c, o)
  <2>1. CASE SellsAll(b, o)
    BY <1>7, <2>1
  <2>2. CASE ~ SellsAll(b, o)
    <3>1. /\ b.order[o].remaining = b.order[o].amount
          /\ c.order[o].remaining >= b.order[o].remaining
          /\ c.order[o].amount = b.order[o].amount
      BY <1>6, <2>2
    <3> DEFINE n == c.order[o].remaining
               m == c.order[o].amount
               v == Value(c, B)
    <3>2. n \in Nat /\ m \in Nat /\ v \in Int /\ v >= 0 /\ n + v <= m /\ n >= m
      BY <1>4, <1>5, <1>8, <1>9, <3>1
    <3>. HIDE DEF n, m, v
    <3>3. n = m
      BY <3>2
    <3>. QED
      BY <3>3 DEF n, m
  <2>. QED
    BY <2>1, <2>2
<1>. QED
  BY <1>9, <1>10 DEF B

\* A trade whose status has changed holds no more than it did.
LEMMA KeptFlip ==
  ASSUME NEW b, Good(b), IsFiniteSet(Used(b)), Kept(b), NEW c \in Books, NEW t \in Trades,
         b.trade[t].status \in Holding, NEW s, FlipOf(b.trade, c.trade, t, s),
         c.order = b.order
  PROVE  Kept(c)
<1> SUFFICES ASSUME NEW o \in Orders PROVE KeptRow(c, o)
  BY DEF Kept
<1>1. HeldIn(c, t, o) <= HeldIn(b, t, o)
  <2>1. b.trade[t].amount \in Nat /\ c.trade[t].amount = b.trade[t].amount
    BY RowParts DEF Good, FlipOf
  <2>2. t \in HeldBy(c, o) => t \in HeldBy(b, o)
    BY DEF HeldBy, FlipOf
  <2>. QED
    BY <2>1, <2>2 DEF HeldIn
<1>2. \A q \in Trades \ {t} : c.trade[q] = b.trade[q]
  BY DEF FlipOf
<1>3. /\ b.order[o].remaining \in Nat /\ HeldIn(b, t, o) \in Nat
      /\ HeldIn(c, t, o) \in Nat
  BY RowParts DEF Good, HeldIn
<1>4. /\ c.order[o].remaining + HeldIn(c, t, o) <= b.order[o].remaining + HeldIn(b, t, o)
      /\ c.order[o].remaining >= b.order[o].remaining
  BY <1>1, <1>3
<1>. QED
  BY <1>2, <1>4, KeptMoved

\* expire_pending: what the trade held is back in its order, if that is open.
LEMMA ExpireKeeps ==
  ASSUME NEW b, Good(b), IsFiniteSet(Used(b)), Kept(b), NEW t \in Trades
  PROVE  Kept(Expired(b, t))
<1> DEFINE c == Expired(b, t)
           o == b.trade[t].order
           amount == b.trade[t].amount
<1>1. CASE ~ Expirable(b, t)
  BY <1>1 DEF Expired
<1>2. CASE Expirable(b, t)
  <2> DEFINE f == [b EXCEPT !.trade[t].status = "cancelled_timeout"]
             g == [f EXCEPT !.order[o] = ReturnSlice(@, amount)]
             row == ReturnSlice(b.order[o], amount)
             os == [b.order EXCEPT ![o] = row]
  <2>1. /\ b \in Books /\ b.trade[t].status = "pending" /\ o \in Orders
        /\ amount \in Nat /\ amount > 0 /\ b.order[o] \in Order
        /\ Seller(b, t) \in Users /\ b.order[o].remaining \in Nat
    BY <1>2, RowParts DEF Expirable, Good, Linked, Seller
  <2>2. /\ "pending" \in Holding /\ "cancelled_timeout" \in ToSeller
        /\ "cancelled_timeout" \notin Holding
    BY DEF Holding, ToSeller
  <2>3. /\ f \in Books /\ f.wallet = b.wallet /\ f.order = b.order /\ f.stats = b.stats
        /\ FlipOf(b.trade, f.trade, t, "cancelled_timeout")
    BY <2>1, <2>2, FlipWrites
  <2>4. c = IF b.order[o].status \in OnOffer THEN g
            ELSE PayOut(b, f, Seller(b, t), amount)
    BY <1>2 DEF Expired, OnOffer
  <2>5. row \in Order /\ row.bounds = b.order[o].bounds /\ row.amount = b.order[o].amount
    BY <2>1, Returning
  <2>6. row.remaining = b.order[o].remaining + amount
    BY <2>1 DEF ReturnSlice, Order
  <2>7. /\ os \in [Orders -> Order] /\ os[o] = row
        /\ \A q \in Orders \ {o} : os[q] = b.order[q]
    BY <2>1, <2>5, BookParts
  <2>. HIDE DEF f
  <2>8. CASE b.order[o].status \in OnOffer
    <3>1. g = [f EXCEPT !.order = os]
      BY <2>3, BookParts
    <3>. HIDE DEF g, os, row
    <3>2. g \in Books /\ g.order = os /\ FlipOf(b.trade, g.trade, t, "cancelled_timeout")
      BY <2>3, <2>7, <3>1, BookParts DEF Books
    <3>3. \A q \in Trades \ {t} : g.trade[q] = b.trade[q]
      BY <3>2 DEF FlipOf
    <3>4. ASSUME NEW q \in Orders
          PROVE  /\ HeldIn(g, t, q) = 0
                 /\ HeldIn(b, t, q) = IF q = o THEN amount ELSE 0
      BY <2>1, <2>2, <3>2 DEF HeldIn, HeldBy, FlipOf
    <3>. HIDE DEF o, amount
    <3>5. KeptRow(g, o)
      <4>1. /\ g.order[o].remaining + HeldIn(g, t, o)
                 <= b.order[o].remaining + HeldIn(b, t, o)
            /\ g.order[o].remaining >= b.order[o].remaining
        BY <2>1, <2>6, <2>7, <3>2, <3>4
      <4>2. g.order[o].bounds = b.order[o].bounds /\ g.order[o].amount = b.order[o].amount
        BY <2>5, <2>7, <3>2
      <4>. QED
        BY <2>1, <2>8, <3>2, <3>3, <4>1, <4>2, KeptMoved
    <3>6. ASSUME NEW q \in Orders, q # o PROVE KeptRow(g, q)
      <4>1. g.order[q] = b.order[q] /\ b.order[q].remaining \in Nat
        BY <2>1, <2>7, <3>2, <3>6, RowParts
      <4>2. g.order[q].remaining + HeldIn(g, t, q) <= b.order[q].remaining + HeldIn(b, t, q)
        BY <3>4, <3>6, <4>1
      <4>3. g.order[q].remaining >= b.order[q].remaining
        BY <4>1
      <4>. QED
        BY <3>2, <3>3, <4>1, <4>2, <4>3, KeptMoved
    <3>. QED
      BY <2>4, <2>8, <3>5, <3>6 DEF Kept
  <2>9. CASE b.order[o].status \notin OnOffer
    <3>1. c = b \/ (c \in Books /\ c.order = f.order /\ c.trade = f.trade)
      BY <2>1, <2>3, <2>4, <2>9, Paying
    <3>. HIDE DEF c
    <3>2. ASSUME c \in Books, c.order = f.order, c.trade = f.trade
          PROVE  Kept(c)
      <4>1. FlipOf(b.trade, c.trade, t, "cancelled_timeout") /\ c.order = b.order
        BY <2>3, <3>2
      <4>. QED
        BY <2>1, <2>2, <3>2, <4>1, KeptFlip
    <3>. QED
      BY <3>1, <3>2 DEF c
  <2>. QED
    BY <2>8, <2>9
<1>. QED
  BY <1>1, <1>2

\* A settlement: a trade flips and its coins are paid, or nothing happens.
LEMMA PayKeeps ==
  ASSUME NEW b, Good(b), IsFiniteSet(Used(b)), Kept(b), NEW t \in Trades,
         b.trade[t].status \in Holding, NEW s, NEW f \in Books, f.wallet = b.wallet,
         f.order = b.order, FlipOf(b.trade, f.trade, t, s), NEW u \in Users,
         NEW amount \in Nat
  PROVE  Kept(PayOut(b, f, u, amount))
<1> DEFINE c == PayOut(b, f, u, amount)
<1>1. c = b \/ (c \in Books /\ c.order = f.order /\ c.trade = f.trade)
  BY Paying DEF Good
<1>. HIDE DEF c
<1>2. ASSUME c \in Books, c.order = f.order, c.trade = f.trade
      PROVE  Kept(c)
  <2>1. FlipOf(b.trade, c.trade, t, s) /\ c.order = b.order
    BY <1>2
  <2>. QED
    BY <1>2, <2>1, KeptFlip
<1>. QED
  BY <1>1, <1>2 DEF c

\* fill and create_trade: what leaves the order is in the trade.
LEMMA TakeKeeps ==
  ASSUME NEW b, Good(b), IsFiniteSet(Used(b)), Kept(b), NEW o \in Orders, NEW u \in Users,
         NEW amount \in Nat, amount > 0, CanFill(b, o, amount), FreeTrades(b) # {},
         SellsAll(b, o)
  PROVE  Kept(Taken(b, o, u, amount))
<1> DEFINE t   == Min(FreeTrades(b))
           c   == Taken(b, o, u, amount)
           row == Filled(b.order[o], amount)
           new == [status |-> "pending", order |-> o, buyer |-> u, amount |-> amount]
           os  == [b.order EXCEPT ![o] = row]
           ts  == [b.trade EXCEPT ![t] = new]
<1>1. b \in Books /\ t \in Trades /\ b.trade[t].status = "none"
  <2>1. FreeTrades(b) \in SUBSET Nat
    BY P2PAssumption DEF FreeTrades
  <2>2. t \in FreeTrades(b)
    BY <2>1, MinOfNats
  <2>. HIDE DEF t
  <2>. QED
    BY <2>2 DEF FreeTrades, Good
<1>2. c = [b EXCEPT !.order[o] = row, !.trade[t] = new]
  BY DEF Taken
<1>3. /\ b.order[o] \in Order /\ b.order[o].remaining \in Nat
      /\ b.order[o].remaining >= amount /\ b.order[o].status \in OnOffer
  BY <1>1, RowParts DEF CanFill, OnOffer
<1>4. /\ row \in Order /\ row.bounds = b.order[o].bounds /\ row.amount = b.order[o].amount
      /\ row.remaining = b.order[o].remaining - amount
  <2>1. row \in Order /\ row.bounds = b.order[o].bounds /\ row.amount = b.order[o].amount
    BY <1>3, Filling
  <2>2. row.remaining = b.order[o].remaining - amount
    BY <1>3 DEF Filled, Order
  <2>. QED
    BY <2>1, <2>2
<1>. HIDE DEF t, c, row
<1>5. os \in [Orders -> Order] /\ os[o] = row /\ \A q \in Orders \ {o} : os[q] = b.order[q]
  BY <1>1, <1>4, BookParts
<1>6. new \in Trade /\ new.order = o /\ new.amount = amount
  BY DEF Trade, Holding
<1>. HIDE DEF new
<1>7. ts \in [Trades -> Trade] /\ ts[t] = new /\ \A q \in Trades \ {t} : ts[q] = b.trade[q]
  BY <1>1, <1>6, BookParts
<1>8. c.order = os
  BY <1>1, <1>2, BookParts
<1>9. c.trade = ts
  BY <1>1, <1>2, BookParts
<1>10. c.wallet = b.wallet /\ c.stats = b.stats
  BY <1>1, <1>2, BookParts
<1>11. c = [wallet |-> c.wallet, order |-> c.order, trade |-> c.trade, stats |-> c.stats]
  BY <1>1, <1>2, BookParts
<1>. HIDE DEF os, ts
<1>12. c \in Books
  BY <1>1, <1>5, <1>7, <1>8, <1>9, <1>10, <1>11, BookParts DEF Books
<1>13. /\ \A q \in Trades \ {t} : c.trade[q] = b.trade[q]
       /\ c.trade[t].order = o /\ c.trade[t].amount = amount
  BY <1>6, <1>7, <1>9
<1>14. ASSUME NEW q \in Orders
       PROVE  HeldIn(b, t, q) = 0 /\ HeldIn(c, t, q) \in {0, IF q = o THEN amount ELSE 0}
  BY <1>1, <1>13 DEF HeldIn, HeldBy, Holding
<1>15. KeptRow(c, o)
  <2>1. c.order[o].remaining + HeldIn(c, t, o) <= b.order[o].remaining + HeldIn(b, t, o)
    BY <1>3, <1>4, <1>5, <1>8, <1>14
  <2>2. c.order[o].bounds = b.order[o].bounds /\ c.order[o].amount = b.order[o].amount
    BY <1>4, <1>5, <1>8
  <2>. QED
    BY <1>1, <1>3, <1>12, <1>13, <2>1, <2>2, KeptMoved
<1>16. ASSUME NEW q \in Orders, q # o PROVE KeptRow(c, q)
  <2>1. c.order[q] = b.order[q] /\ b.order[q].remaining \in Nat
    BY <1>1, <1>5, <1>8, <1>16, RowParts
  <2>2. c.order[q].remaining + HeldIn(c, t, q) <= b.order[q].remaining + HeldIn(b, t, q)
    BY <1>14, <1>16, <2>1
  <2>3. c.order[q].remaining >= b.order[q].remaining
    BY <2>1
  <2>. QED
    BY <1>1, <1>12, <1>13, <2>1, <2>2, <2>3, KeptMoved
<1>17. Kept(c)
  BY <1>15, <1>16 DEF Kept
<1>. QED
  BY <1>17 DEF c

\* hold and create_order: a new order is whole.
LEMMA PlaceKeeps ==
  ASSUME NEW b, Good(b), IsFiniteSet(Used(b)), Kept(b), NEW u \in Users,
         NEW amount \in Nat, NEW bounds \in Limits, FreeOrders(b) # {}
  PROVE  Kept(Posted(b, u, amount, bounds))
<1> DEFINE o   == Min(FreeOrders(b))
           w   == Held(b.wallet[u], amount)
           row == [status |-> "active", seller |-> u, amount |-> amount,
                   remaining |-> amount, bounds |-> bounds]
           c   == [b EXCEPT !.wallet[u] = w, !.order[o] = row]
<1>0. Posted(b, u, amount, bounds) = c
  BY DEF Posted
<1>1. b \in Books /\ o \in Orders /\ b.order[o].status = "none"
  <2>1. FreeOrders(b) \in SUBSET Nat
    BY P2PAssumption DEF FreeOrders
  <2>2. o \in FreeOrders(b)
    BY <2>1, MinOfNats
  <2>. HIDE DEF o
  <2>. QED
    BY <2>2 DEF FreeOrders, Good
<1>. HIDE DEF o, w
<1>2. row.amount \in Nat /\ row.remaining = row.amount
  OBVIOUS
<1>3. c.trade = b.trade /\ c.order = [b.order EXCEPT ![o] = row]
  <2>0. c = [b EXCEPT !.wallet[u] = w, !.order[o] = row]
    OBVIOUS
  <2>. HIDE DEF row, c
  <2>. QED
    BY <1>1, <2>0, BookParts
<1>. HIDE DEF row, c
<1>4. c.order[o] = row /\ \A q \in Orders \ {o} : c.order[q] = b.order[q]
  BY <1>1, <1>3, BookParts
<1>5. \A q \in Orders : \/ c.order[q] = b.order[q]
                        \/ /\ b.order[q].status = "none" /\ c.order[q].amount \in Nat
                           /\ c.order[q].remaining = c.order[q].amount
  BY <1>1, <1>2, <1>4
<1>6. Kept(c)
  BY <1>3, <1>5, KeptSame
<1>. QED
  BY <1>0, <1>6

\* cancel_order: what is off the book is no remainder.
LEMMA CancelKeeps ==
  ASSUME NEW b, Good(b), IsFiniteSet(Used(b)), Kept(b), NEW o \in Orders,
         b.order[o].status = "active"
  PROVE  Kept(PayOut(b, [b EXCEPT !.order[o] = Cancelled(@)],
                     b.order[o].seller, b.order[o].remaining))
<1> DEFINE row == Cancelled(b.order[o])
           os  == [b.order EXCEPT ![o] = row]
           f   == [b EXCEPT !.order[o] = Cancelled(@)]
           u   == b.order[o].seller
           r   == b.order[o].remaining
           c   == PayOut(b, f, u, r)
<1>1. b \in Books /\ b.order[o] \in Order /\ u \in Users /\ r \in Nat
  BY RowParts DEF Good, Linked
<1>2. row \in Order /\ row.status = "cancelled"
  BY <1>1, Cancelling
<1>3. f = [wallet |-> b.wallet, order |-> os, trade |-> b.trade, stats |-> b.stats]
  BY <1>1, BookParts
<1>. HIDE DEF f, row
<1>4. os \in [Orders -> Order] /\ os[o] = row /\ \A q \in Orders \ {o} : os[q] = b.order[q]
  BY <1>1, <1>2, BookParts
<1>. HIDE DEF os
<1>5. f \in Books /\ f.order = os /\ f.trade = b.trade /\ f.wallet = b.wallet
  BY <1>1, <1>3, <1>4, BookParts DEF Books
<1>6. c = b \/ (c \in Books /\ c.order = f.order /\ c.trade = f.trade)
  BY <1>1, <1>5, Paying
<1>. HIDE DEF c
<1>7. ASSUME c.order = f.order, c.trade = f.trade PROVE Kept(c)
  <2>1. c.order[o].status \notin OnOffer
    BY <1>2, <1>4, <1>5, <1>7 DEF OnOffer
  <2>2. \A q \in Orders \ {o} : c.order[q] = b.order[q]
    BY <1>4, <1>5, <1>7
  <2>3. c.trade = b.trade
    BY <1>5, <1>7
  <2>. QED
    BY <2>1, <2>2, <2>3, KeptSame
<1>. QED
  BY <1>6, <1>7 DEF c, f, u, r

StepKeeps == Kept(db') /\ Kept(work') /\ \A p \in Procs : Gated(p)'

LEMMA KeptParts ==
  ASSUME KeptInv
  PROVE  /\ BooksInv /\ P2PInv /\ TypeOK /\ job \in [Procs -> Job]
         /\ Good(db) /\ Good(work) /\ IsFiniteSet(Used(db)) /\ IsFiniteSet(Used(work))
         /\ Kept(db) /\ Kept(work) /\ \A p \in Procs : Gated(p)
BY DEF KeptInv, BooksInv, P2PInv, Agree, TypeOK

LEMMA GateInside ==
  ASSUME NEW step, step \notin Inside
  PROVE  step \notin {"slots", "reexpire", "fill"}
BY DEF Inside

LEMMA CommitKeeps ==
  ASSUME KeptInv, NEW p \in Procs, job[p].step \in Inside, NEW c, Kept(c), Commit(p, c)
  PROVE  StepKeeps
<1>1. db' = c /\ work' = c /\ job' = [job EXCEPT ![p] = Idle]
  BY DEF Commit, Become
<1>2. P2PInv /\ job \in [Procs -> Job] /\ writer = p
  BY KeptParts DEF P2PInv, JobSound
<1>3. \A q \in Procs : job'[q].step \notin Inside
  BY <1>1, <1>2, IdleJob, OneInside DEF Inside
<1>4. \A q \in Procs : Gated(q)'
  BY <1>3, GateInside DEF Gated
<1>. QED
  BY <1>1, <1>4 DEF StepKeeps

LEMMA AtomicKeeps ==
  ASSUME KeptInv, NEW c, Kept(c), Atomically(c)
  PROVE  StepKeeps
<1>1. db' = c /\ work' = c /\ job' = job /\ Unlocked
  BY DEF Atomically
<1>2. \A q \in Procs : job'[q].step \notin Inside
  BY <1>1, KeptParts, NobodyInside
<1>3. \A q \in Procs : Gated(q)'
  BY <1>2, GateInside DEF Gated
<1>. QED
  BY <1>1, <1>3 DEF StepKeeps

LEMMA GoesOnKeeps ==
  ASSUME KeptInv, NEW p \in Procs, writer \in {None, p}, NEW c, Kept(c),
         db' = db, work' = c, NEW r, job' = [job EXCEPT ![p] = r],
         r.step \in {"slots", "reexpire", "fill"} /\ r.order \in Orders => SellsAll(c, r.order)
  PROVE  StepKeeps
<1>1. P2PInv /\ job \in [Procs -> Job] /\ Kept(db)
  BY KeptParts
<1>2. job'[p] = r /\ \A q \in Procs \ {p} : job'[q] = job[q]
  BY <1>1
<1>3. ASSUME NEW q \in Procs PROVE Gated(q)'
  <2>1. CASE q = p
    BY <1>2, <2>1 DEF Gated
  <2>2. CASE q # p
    BY <1>1, <1>2, <2>2, OneInside, GateInside DEF Gated
  <2>. QED
    BY <2>1, <2>2
<1>. QED
  BY <1>1, <1>3 DEF StepKeeps

\* Nothing is written, and the record of one process changes outside its gate.
LEMMA MovesKeep ==
  ASSUME KeptInv, NEW p \in Procs, UNCHANGED <<db, work>>,
         NEW r, job' = [job EXCEPT ![p] = r], r.step \notin {"slots", "reexpire", "fill"}
  PROVE  StepKeeps
<1>1. job \in [Procs -> Job] /\ Kept(db) /\ Kept(work) /\ \A q \in Procs : Gated(q)
  BY KeptParts
<1>2. job'[p] = r /\ \A q \in Procs \ {p} : job'[q] = job[q]
  BY <1>1
<1>3. \A q \in Procs : Gated(q)'
  BY <1>1, <1>2 DEF Gated
<1>. QED
  BY <1>1, <1>3 DEF StepKeeps

LEMMA SellKeeps ==
  ASSUME KeptInv, NEW p \in Procs, Sell(p)
  PROVE  StepKeeps
<1>1. ASSUME NEW u \in Users, NEW amount \in Amounts, NEW bounds \in Limits,
             CreateLock(p, u, amount, bounds)
      PROVE  StepKeeps
  <2> DEFINE r == [Idle EXCEPT !.step = "count", !.user = u, !.amount = amount,
                               !.bounds = bounds]
  <2>1. UNCHANGED <<db, work>> /\ job' = [job EXCEPT ![p] = r]
    BY <1>1 DEF CreateLock, Become
  <2>2. r.step = "count"
    BY DEF Idle
  <2>. HIDE DEF r
  <2>. QED
    BY <2>1, <2>2, MovesKeep
<1>2. ASSUME CreateCounted(p) PROVE StepKeeps
  <2> DEFINE r == [job[p] EXCEPT !.step = "insert"]
  <2>1. UNCHANGED <<db, work>> /\ job' = [job EXCEPT ![p] = r]
    BY <1>2 DEF CreateCounted, Write, Goto
  <2>2. r.step = "insert"
    BY KeptParts DEF Job
  <2>. HIDE DEF r
  <2>. QED
    BY <2>1, <2>2, MovesKeep
<1>3. ASSUME CreateRefused(p) PROVE StepKeeps
  <2>1. job[p].step \in Inside /\ Commit(p, work)
    BY <1>3 DEF CreateRefused, At, Inside
  <2>. QED
    BY <2>1, KeptParts, CommitKeeps
<1>4. ASSUME CreateInsert(p) PROVE StepKeeps
  <2> DEFINE u == job[p].user
             amount == job[p].amount
             c == Posted(work, u, amount, job[p].bounds)
  <2>1. job[p].step = "insert" /\ (Commit(p, c) \/ Commit(p, work))
    BY <1>4 DEF CreateInsert, At
  <2>2. job[p].step \in Inside /\ Ready(p)
    BY <2>1, KeptParts DEF P2PInv, JobSound, Inside
  <2>3. /\ u \in Users /\ amount \in Nat /\ job[p].bounds \in Limits
        /\ FreeOrders(work) # {}
    BY <2>1, <2>2, KeptParts, JobParts DEF Ready
  <2>4. Kept(c) /\ Kept(work)
    BY <2>3, KeptParts, PlaceKeeps
  <2>. HIDE DEF c
  <2>. QED
    BY <2>1, <2>2, <2>4, CommitKeeps
<1>. QED
  BY <1>1, <1>2, <1>3, <1>4 DEF Sell

LEMMA ExpireOneKeeps ==
  ASSUME KeptInv, NEW p \in Procs, ExpireOne(p)
  PROVE  StepKeeps
<1> DEFINE t == Min(job[p].scan)
           c == Expired(work, t)
           r == [job[p] EXCEPT !.scan = @ \ {t}]
           o == job[p].order
<1>1. /\ job[p].step \in {"expire", "reexpire", "sweep"} /\ job[p].scan # {}
      /\ work' = c /\ db' = db
  BY DEF ExpireOne, Write
<1>2. job' = [job EXCEPT ![p].scan = @ \ {Min(@)}]
  BY DEF ExpireOne
<1>3. job[p] \in Job /\ job[p].scan \in SUBSET Trades
  BY KeptParts, JobParts
<1>4. job' = [job EXCEPT ![p] = r]
  BY <1>2
<1>5. t \in Trades
  <2>1. job[p].scan \in SUBSET Nat
    BY <1>3, P2PAssumption
  <2>. QED
    BY <1>1, <1>3, <2>1, MinOfNats
<1>6. writer = p
  BY <1>1, KeptParts DEF P2PInv, JobSound, Inside
<1>. HIDE DEF t
<1>7. Kept(c)
  BY <1>5, KeptParts, ExpireKeeps
<1>8. TimesOut(work, c, t)
  BY <1>5, KeptParts, Expiring
<1>. HIDE DEF c
<1>9. r.step = job[p].step /\ r.order = o
  BY <1>3 DEF Job
<1>. HIDE DEF r
<1>10. ASSUME r.step \in {"slots", "reexpire", "fill"}, o \in Orders
       PROVE  SellsAll(c, o)
  <2>1. SellsAll(work, o)
    BY <1>9, <1>10, KeptParts DEF Gated
  <2>2. c.order[o].bounds = work.order[o].bounds /\ c.order[o].amount = work.order[o].amount
    BY <1>8, <1>10 DEF TimesOut
  <2>. QED
    BY <2>1, <2>2 DEF SellsAll
<1>. QED
  BY <1>1, <1>4, <1>6, <1>7, <1>9, <1>10, GoesOnKeeps

LEMMA BuyGateKeeps ==
  ASSUME KeptInv, NEW p \in Procs, BuyGate(p)
  PROVE  StepKeeps
<1> DEFINE r == [job[p] EXCEPT !.step = "slots"]
           o == job[p].order
<1>1. /\ job[p].step = "expire"
      /\ \/ /\ o # None => Buyable(work, o, job[p].user, job[p].amount)
            /\ job' = [job EXCEPT ![p] = r] /\ Write(work)
         \/ Commit(p, work)
  BY DEF BuyGate, At, Goto
<1>2. job[p].step \in Inside /\ writer = p
  BY <1>1, KeptParts DEF P2PInv, JobSound, Inside
<1>3. ASSUME o # None => Buyable(work, o, job[p].user, job[p].amount),
             job' = [job EXCEPT ![p] = r], Write(work)
      PROVE  StepKeeps
  <2>1. job[p].amount \in Nat /\ job[p] \in Job
    BY KeptParts, JobParts
  <2>2. o \in Orders => SellsAll(work, o)
    BY <1>3, <2>1, KeptParts, BuyableSells, NobodyIsNone
  <2>3. r.order = o
    BY <2>1 DEF Job
  <2>4. work' = work /\ db' = db
    BY <1>3 DEF Write
  <2>. HIDE DEF r
  <2>. QED
    BY <1>2, <1>3, <2>2, <2>3, <2>4, KeptParts, GoesOnKeeps
<1>. QED
  BY <1>1, <1>2, <1>3, KeptParts, CommitKeeps

LEMMA FreeSlotsKeeps ==
  ASSUME KeptInv, NEW p \in Procs, FreeSlots(p)
  PROVE  StepKeeps
<1> DEFINE o == job[p].order
           open == OpenAsBuyer(work, job[p].user)
           go == IF o = None THEN "walk" ELSE "fill"
           on == [job[p] EXCEPT !.step = go, !.slots = MaxOpen - open]
           again == [job[p] EXCEPT !.step = "reexpire", !.scan = StaleTrades(work, Orders)]
<1>1. /\ job[p].step \in {"slots", "reexpire"}
      /\ \/ job' = [job EXCEPT ![p] = on] /\ Write(work)
         \/ job' = [job EXCEPT ![p] = again] /\ Write(work)
         \/ Commit(p, work)
  BY DEF FreeSlots, At
<1>2. job[p].step \in Inside /\ writer = p /\ job[p] \in Job
  BY <1>1, KeptParts DEF P2PInv, JobSound, Inside
<1>3. on.order = o /\ again.order = o
  BY <1>2 DEF Job
<1>. HIDE DEF on, again
<1>4. o \in Orders => SellsAll(work, o)
  BY <1>1, KeptParts DEF Gated
<1>5. ASSUME NEW r, r.order = o, job' = [job EXCEPT ![p] = r], Write(work)
      PROVE  StepKeeps
  <2>1. work' = work /\ db' = db
    BY <1>5 DEF Write
  <2>. QED
    BY <1>2, <1>4, <1>5, <2>1, KeptParts, GoesOnKeeps
<1>. QED
  BY <1>1, <1>2, <1>3, <1>5, KeptParts, CommitKeeps

LEMMA BuyFillKeeps ==
  ASSUME KeptInv, NEW p \in Procs, BuyFill(p)
  PROVE  StepKeeps
<1> DEFINE o == job[p].order
           u == job[p].user
           c == Taken(work, o, u, job[p].amount)
<1>1. /\ job[p].step = "fill"
      /\ \/ CanFill(work, o, job[p].amount) /\ Commit(p, c)
         \/ Commit(p, work)
  BY DEF BuyFill, At
<1>2. job[p].step \in Inside /\ Ready(p)
  BY <1>1, KeptParts DEF P2PInv, JobSound, Inside
<1>3. ASSUME CanFill(work, o, job[p].amount) PROVE Kept(c)
  <2>1. u \in Users /\ o \in Orders /\ job[p].amount > 0 /\ FreeTrades(work) # {}
    BY <1>1, <1>2 DEF Ready
  <2>2. job[p].amount \in Nat /\ SellsAll(work, o)
    BY <1>1, <2>1, KeptParts, JobParts DEF Gated
  <2>. QED
    BY <1>3, <2>1, <2>2, KeptParts, TakeKeeps
<1>. HIDE DEF c
<1>. QED
  BY <1>1, <1>2, <1>3, KeptParts, CommitKeeps

LEMMA ExpressTakeKeeps ==
  ASSUME KeptInv, NEW p \in Procs, ExpressTake(p)
  PROVE  StepKeeps
<1> DEFINE o == Min(Offers(p))
           u == job[p].user
           next == o + 1
           slots == job[p].slots - 1
<1>1. job[p].step = "walk" /\ Walking(p) /\ FreeTrades(work) # {}
  BY DEF ExpressTake, Walking, At
<1>2. writer = p /\ Ready(p) /\ P2PInv /\ job[p] \in Job
  BY <1>1, KeptParts DEF P2PInv, JobSound, Inside
<1>3. /\ o \in Orders /\ work.order[o].status = "active" /\ work.order[o].remaining \in Nat
      /\ work.order[o].bounds.max \in Nat
  BY <1>1, <1>2, OfferParts
<1>4. PICK take \in Slices(work.order[o], job[p].amount) :
        \/ /\ Buyable(work, o, u, take) /\ Write(Taken(work, o, u, take))
           /\ job' = [job EXCEPT ![p].amount = @ - FiatOf(take), ![p].slots = slots,
                                 ![p].next = next]
        \/ Write(work) /\ job' = [job EXCEPT ![p].next = next]
  BY DEF ExpressTake
<1>. HIDE DEF o, next, slots
<1>5. u \in Users /\ job[p].amount \in Nat
  BY <1>1, <1>2, KeptParts, JobParts DEF Ready
<1>6. take \in Nat
  BY <1>3, <1>5, SliceFits
<1>7. CASE /\ Buyable(work, o, u, take) /\ Write(Taken(work, o, u, take))
           /\ job' = [job EXCEPT ![p].amount = @ - FiatOf(take), ![p].slots = slots,
                                 ![p].next = next]
  <2> DEFINE c == Taken(work, o, u, take)
             left == job[p].amount - FiatOf(take)
             r == [job[p] EXCEPT !.amount = left, !.slots = slots, !.next = next]
  <2>1. job' = [job EXCEPT ![p] = r]
    BY <1>7
  <2>2. take > 0 /\ CanFill(work, o, take)
    BY <1>3, <1>7 DEF Buyable, CanFill
  <2>3. SellsAll(work, o)
    BY <1>3, <1>6, <1>7, KeptParts, BuyableSells
  <2>4. Kept(c)
    BY <1>1, <1>3, <1>5, <1>6, <2>2, <2>3, KeptParts, TakeKeeps
  <2>5. work' = c /\ db' = db
    BY <1>7 DEF Write
  <2>. HIDE DEF c, left
  <2>6. r.step = "walk"
    BY <1>1, <1>2 DEF Job
  <2>. HIDE DEF r
  <2>. QED
    BY <1>2, <2>1, <2>4, <2>5, <2>6, GoesOnKeeps
<1>8. CASE Write(work) /\ job' = [job EXCEPT ![p].next = next]
  <2> DEFINE r == [job[p] EXCEPT !.next = next]
  <2>1. job' = [job EXCEPT ![p] = r] /\ UNCHANGED <<db, work>>
    BY <1>8 DEF Write
  <2>2. r.step = "walk"
    BY <1>1, <1>2 DEF Job
  <2>. HIDE DEF r
  <2>. QED
    BY <2>1, <2>2, MovesKeep
<1>. QED
  BY <1>4, <1>7, <1>8

LEMMA BuyKeeps ==
  ASSUME KeptInv, NEW p \in Procs, Buy(p)
  PROVE  StepKeeps
<1>1. ASSUME NEW u \in Users, NEW o \in Orders \cup {None},
             NEW amount \in Asked \cup Budgets, BuyLock(p, u, o, amount)
      PROVE  StepKeeps
  <2> DEFINE r == [Idle EXCEPT !.step = "expire", !.user = u, !.order = o,
                     !.amount = amount,
                     !.scan = StaleTrades(work, IF o = None THEN Orders ELSE {o})]
  <2>1. UNCHANGED <<db, work>> /\ job' = [job EXCEPT ![p] = r]
    BY <1>1 DEF BuyLock, Become
  <2>2. r.step = "expire"
    BY DEF Idle
  <2>. HIDE DEF r
  <2>. QED
    BY <2>1, <2>2, MovesKeep
<1>2. ASSUME ExpressDone(p) PROVE StepKeeps
  <2>1. job[p].step \in Inside /\ Commit(p, work)
    BY <1>2 DEF ExpressDone, At, Inside
  <2>. QED
    BY <2>1, KeptParts, CommitKeeps
<1>. QED
  BY <1>1, <1>2, ExpireOneKeeps, BuyGateKeeps, FreeSlotsKeeps, BuyFillKeeps,
     ExpressTakeKeeps DEF Buy

LEMMA SweepKeeps ==
  ASSUME KeptInv, NEW p \in Procs, Sweep(p)
  PROVE  StepKeeps
<1>1. ASSUME SweepList(p) PROVE StepKeeps
  <2> DEFINE r == [Idle EXCEPT !.step = "listed", !.scan = StaleTrades(db, Orders)]
  <2>1. UNCHANGED <<db, work>> /\ job' = [job EXCEPT ![p] = r]
    BY <1>1 DEF SweepList, Become
  <2>2. r.step = "listed"
    BY DEF Idle
  <2>. HIDE DEF r
  <2>. QED
    BY <2>1, <2>2, MovesKeep
<1>2. ASSUME SweepLock(p) PROVE StepKeeps
  <2> DEFINE r == [job[p] EXCEPT !.step = "sweep"]
  <2>1. UNCHANGED <<db, work>> /\ job' = [job EXCEPT ![p] = r]
    BY <1>2 DEF SweepLock, Goto
  <2>2. r.step = "sweep"
    BY KeptParts DEF Job
  <2>. HIDE DEF r
  <2>. QED
    BY <2>1, <2>2, MovesKeep
<1>3. ASSUME SweepDone(p) PROVE StepKeeps
  <2>1. job[p].step \in Inside /\ Commit(p, work)
    BY <1>3 DEF SweepDone, At, Inside
  <2>. QED
    BY <2>1, KeptParts, CommitKeeps
<1>4. ASSUME BusyTimeout(p) PROVE StepKeeps
  <2>1. UNCHANGED <<db, work>> /\ job' = [job EXCEPT ![p] = Idle]
    BY <1>4 DEF BusyTimeout, Become
  <2>2. Idle.step \notin {"slots", "reexpire", "fill"}
    BY IdleJob
  <2>. QED
    BY <2>1, <2>2, MovesKeep
<1>. QED
  BY <1>1, <1>2, <1>3, <1>4 DEF Sweep

LEMMA DealKeeps ==
  ASSUME KeptInv, NEW t \in Trades, Deal(t)
  PROVE  StepKeeps
<1>0. Good(db) /\ db \in Books
  BY KeptParts DEF Good
<1>1. {"pending", "paid", "disputed"} \subseteq Holding /\ "confirmed" \in ToBuyer
  BY DEF Holding, ToBuyer
<1>2. ASSUME NEW s \in Holding, db.trade[t].status \in Holding,
             Atomically([db EXCEPT !.trade[t].status = s])
      PROVE  StepKeeps
  <2> DEFINE c == [db EXCEPT !.trade[t].status = s]
  <2>1. db.trade[t].status # "none"
    BY <1>2 DEF Holding
  <2>2. c \in Books /\ c.order = db.order /\ FlipOf(db.trade, c.trade, t, s)
    BY <2>1, KeptParts, FlipWrites
  <2>. HIDE DEF c
  <2>3. Kept(c)
    BY <1>2, <2>2, KeptParts, KeptFlip
  <2>. QED
    BY <1>2, <2>3, AtomicKeeps DEF c
<1>3. ASSUME MarkPaid(t) PROVE StepKeeps
  BY <1>1, <1>2, <1>3 DEF MarkPaid
<1>4. ASSUME OpenDispute(t) PROVE StepKeeps
  BY <1>1, <1>2, <1>4 DEF OpenDispute, Disputable
<1>5. ASSUME Age(t) PROVE StepKeeps
  <2>1. UNCHANGED <<db, work, job>>
    BY <1>5 DEF Age
  <2>. QED
    BY <2>1, KeptParts DEF StepKeeps, Gated
<1>6. ASSUME SellerConfirm(t) PROVE StepKeeps
  <2> DEFINE f == [db EXCEPT !.trade[t].status = "confirmed"]
             c == PayOut(db, Sold(f, t), db.trade[t].buyer, db.trade[t].amount)
  <2>1. db.trade[t].status = "paid" /\ Atomically(c)
    BY <1>6 DEF SellerConfirm
  <2>2. /\ f \in Books /\ f.wallet = db.wallet /\ f.order = db.order
        /\ FlipOf(db.trade, f.trade, t, "confirmed") /\ Seller(f, t) \in Users
        /\ db.trade[t].buyer \in Users /\ db.trade[t].amount \in Nat
    BY <1>0, <1>1, <2>1, StatusFlip
  <2>. HIDE DEF f
  <2>3. /\ Sold(f, t) \in Books /\ Sold(f, t).wallet = db.wallet
        /\ Sold(f, t).order = db.order /\ FlipOf(db.trade, Sold(f, t).trade, t, "confirmed")
    BY <2>2, Selling
  <2>4. Kept(c)
    BY <1>1, <2>1, <2>2, <2>3, KeptParts, PayKeeps
  <2>. QED
    BY <2>1, <2>4, AtomicKeeps
<1>7. ASSUME NEW ruling \in ToBuyer \cup {"returned_seller"}, ResolveDispute(t, ruling)
      PROVE  StepKeeps
  <2> DEFINE f == Ruled(t, ruling)
             u == IF ruling \in ToBuyer THEN db.trade[t].buyer ELSE Seller(db, t)
             c == PayOut(db, f, u, db.trade[t].amount)
  <2>1. db.trade[t].status = "disputed" /\ Atomically(c)
    BY <1>7 DEF ResolveDispute
  <2>2. /\ f \in Books /\ f.wallet = db.wallet /\ f.order = db.order
        /\ FlipOf(db.trade, f.trade, t, ruling)
        /\ u \in Users /\ db.trade[t].amount \in Nat
    BY <1>0, <2>1, RuleWrites
  <2>. HIDE DEF f, u
  <2>3. Kept(c)
    BY <1>1, <2>1, <2>2, KeptParts, PayKeeps
  <2>. QED
    BY <2>1, <2>3, AtomicKeeps
<1>. QED
  BY <1>3, <1>4, <1>5, <1>6, <1>7 DEF Deal

LEMMA ElsewhereKeeps ==
  ASSUME KeptInv, NEW u \in Users, Elsewhere(u)
  PROVE  StepKeeps
<1>1. PICK w : Atomically([db EXCEPT !.wallet[u] = w])
  <2>1. PICK amount \in Flows : Earn(u, amount) \/ Spend(u, amount)
    BY DEF Elsewhere
  <2>2. \/ Atomically([db EXCEPT !.wallet[u] = Credited(db.wallet[u], amount)])
        \/ Atomically([db EXCEPT !.wallet[u] = Debited(db.wallet[u], amount)])
    BY <2>1 DEF Earn, Spend
  <2>. QED
    BY <2>2
<1> DEFINE c == [db EXCEPT !.wallet[u] = w]
<1>2. c.trade = db.trade /\ c.order = db.order
  BY KeptParts, BookParts DEF Good
<1>. HIDE DEF c
<1>3. Kept(c)
  BY <1>2, KeptParts, KeptSame
<1>. QED
  BY <1>1, <1>3, AtomicKeeps DEF c

LEMMA KeptHolds ==
  ASSUME KeptInv, [Next]_vars
  PROVE  KeptInv'
<1>1. BooksInv'
  BY KeptParts, AgreeHolds
<1>2. StepKeeps
  <2>1. ASSUME NEW p \in Procs, Sell(p) \/ Buy(p) \/ Sweep(p)
        PROVE  StepKeeps
    BY <2>1, SellKeeps, BuyKeeps, SweepKeeps
  <2>2. ASSUME NEW o \in Orders, CancelOrder(o) PROVE StepKeeps
    BY <2>2, KeptParts, CancelKeeps, AtomicKeeps DEF CancelOrder
  <2>3. ASSUME NEW t \in Trades, Deal(t) PROVE StepKeeps
    BY <2>3, DealKeeps
  <2>4. ASSUME NEW u \in Users, Elsewhere(u) PROVE StepKeeps
    BY <2>4, ElsewhereKeeps
  <2>5. ASSUME Crash PROVE StepKeeps
    <3>1. work' = db /\ db' = db /\ \A p \in Procs : job'[p] = Idle
      BY <2>5 DEF Crash
    <3>2. \A p \in Procs : Gated(p)'
      BY <3>1, IdleJob DEF Gated
    <3>. QED
      BY <3>1, <3>2, KeptParts DEF StepKeeps
  <2>6. CASE UNCHANGED vars
    <3>1. UNCHANGED <<db, work, job>>
      BY <2>6 DEF vars
    <3>. QED
      BY <3>1, KeptParts DEF StepKeeps, Gated
  <2>. QED
    BY <2>1, <2>2, <2>3, <2>4, <2>5, <2>6 DEF Next
<1>3. Kept(db)' /\ Kept(work)' /\ \A p \in Procs : Gated(p)'
  BY <1>2 DEF StepKeeps, Kept, KeptRow, SellsAll, HeldBy, Value
<1>. QED
  BY <1>1, <1>3, Zenon DEF KeptInv

LEMMA InitKeeps == Init => KeptInv
<1> SUFFICES ASSUME Init PROVE KeptInv
  OBVIOUS
<1>1. BooksInv
  BY InitHolds, InitAgrees DEF BooksInv
<1>2. Kept(Fresh) /\ IsFiniteSet(Used(Fresh)) /\ Good(Fresh)
  <2>1. Good(Fresh) /\ \A o \in Orders : Fresh.order[o] = NoOrder
    BY FreshBooks
  <2>2. \A o \in Orders : KeptRow(Fresh, o)
    BY <2>1 DEF KeptRow, NoOrder, OnOffer
  <2>3. IsFiniteSet(Used(Fresh))
    BY FreshAgrees DEF Agree
  <2>. QED
    BY <2>1, <2>2, <2>3 DEF Kept
<1>3. db \in Inherited => Kept(db)
  BY <1>2, InheritedBooks, PlaceKeeps
<1>4. Kept(db) /\ work = db /\ \A p \in Procs : Gated(p)
  BY <1>2, <1>3, IdleJob DEF Init, Gated
<1>. QED
  BY <1>1, <1>4 DEF KeptInv

LEMMA KeptInvariant == Spec => []KeptInv
<1>1. KeptInv /\ [Next]_vars => KeptInv'
  BY KeptHolds
<1>. QED
  BY InitKeeps, <1>1, PTL DEF Spec

\* No tail is ever stranded: whatever fills, express buys, timeouts and
\* cancellations leave of an order on the book, some amount passes its bounds at
\* the market price; unless the order is whole, as its seller posted it.
THEOREM TailsCanBeBought == Spec => []NoTailIsStranded
<1>1. ASSUME KeptInv PROVE NoTailIsStranded
  <2> SUFFICES ASSUME NEW o \in Orders
               PROVE  LET row == db.order[o]
                      IN IF row.status = "active"
                         THEN /\ row.remaining \in 1..row.amount
                              /\ \/ Sellable(row.bounds, row.remaining)
                                 \/ row.remaining = row.amount
                         ELSE row.remaining = 0
    BY DEF NoTailIsStranded
  <2> DEFINE row == db.order[o]
             held == Value(db, HeldBy(db, o))
  <2>1. /\ row.remaining \in Nat /\ row.amount \in Nat
        /\ row.status = "active" <=> row.remaining > 0
    BY <1>1, KeptParts, RowParts DEF Good, Linked
  <2>2. ASSUME row.status = "active"
        PROVE  /\ row.remaining \in 1..row.amount
               /\ Sellable(row.bounds, row.remaining) \/ row.remaining = row.amount
    <3>1. /\ row.remaining + held <= row.amount
          /\ row.remaining = row.amount \/ Sellable(row.bounds, row.amount)
      BY <1>1, <2>2, KeptParts DEF Kept, KeptRow, SellsAll, OnOffer
    <3>2. held \in Nat
      BY <1>1, KeptParts, HeldParts
    <3>3. row.bounds.min \in Nat /\ row.bounds.max \in Nat
      <4>1. row.bounds \in Limits
        BY <1>1, <2>2, KeptParts DEF Good, Linked
      <4>. QED
        BY <4>1, P2PAssumption
    <3>. HIDE DEF row, held
    <3>4. row.remaining > 0 /\ row.remaining <= row.amount
      BY <2>1, <2>2, <3>1, <3>2
    <3>5. Sellable(row.bounds, row.amount) => Sellable(row.bounds, row.remaining)
      BY <2>1, <3>3, <3>4, TailSells
    <3>. QED
      BY <2>1, <3>1, <3>4, <3>5
  <2>3. ASSUME row.status # "active" PROVE row.remaining = 0
    <3>1. ~ (row.remaining > 0)
      BY <2>1, <2>3
    <3>. HIDE DEF row
    <3>. QED
      BY <2>1, <3>1
  <2>. QED
    BY <2>2, <2>3
<1>. QED
  BY KeptInvariant, <1>1, PTL
=============================================================================
