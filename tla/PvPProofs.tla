------------------------------ MODULE PvPProofs ------------------------------
(***************************************************************************)
(* Theorems about PvP, for any players, processes, offers and stakes: type *)
(* correctness, the agreement of an offer with its escrow rows, the        *)
(* refinement of Escrow, the agreement of the wallets with the stakes and  *)
(* of the game counters with the offers, and the pot that pays for itself, *)
(* under concurrent accepts, cancels, sweeps, busy timeouts and crashes.   *)
(***************************************************************************)
EXTENDS PvP, WalletProofs

-----------------------------------------------------------------------------
(* Data. *)

\* split_pot: nothing is paid out that was not staked.
LEMMA PotIsSplit ==
  ASSUME NEW bet \in Nat
  PROVE  Payout(bet) \in Nat /\ Rake(bet) \in Nat
<1>1. Multiplier \in Nat /\ 200 - Multiplier \in Nat
  BY PvPAssumption
<1>2. \A a \in Nat, b \in Nat : a * b \in Nat
  OBVIOUS
<1>3. bet * Multiplier \in Nat /\ bet * (200 - Multiplier) \in Nat
  BY <1>1, <1>2
<1>4. bet * (200 - Multiplier) = 200 * bet - bet * Multiplier
  BY <1>1
<1> DEFINE pot == bet * Multiplier
<1>5. pot \in Nat /\ pot <= 200 * bet
  BY <1>3, <1>4
<1>. HIDE DEF pot
<1>6. pot \div 100 \in Nat /\ pot \div 100 <= 2 * bet
  BY <1>5
<1>. QED
  BY <1>6 DEF Payout, Rake, pot

LEMMA BookParts ==
  ASSUME NEW b \in Books
  PROVE  /\ b = [wallet |-> b.wallet, offer |-> b.offer, stake |-> b.stake,
                 games |-> b.games, burned |-> b.burned]
         /\ b.wallet \in [Users -> Wallets]
         /\ b.offer \in [Offers -> Offer]
         /\ b.stake \in [Offers \X Seats -> {"none", "held", "released", "refunded"}]
         /\ b.games \in [Users -> [played : Nat, won : Nat]]
         /\ b.burned \in Nat
  BY DEF Books

LEMMA OfferParts ==
  ASSUME NEW b \in Books, NEW o \in Offers
  PROVE  /\ b.offer[o] \in Offer
         /\ b.offer[o].bet \in Nat
         /\ b.offer[o].status \in Statuses
  BY BookParts DEF Offer

\* The two seats of an offer are two escrow rows.
LEMMA TwoSeats ==
  /\ "creator" \in Seats /\ "opponent" \in Seats
  /\ \A o, q \in Offers : /\ <<o, "creator">> # <<q, "opponent">>
                          /\ o # q => /\ <<o, "creator">> # <<q, "creator">>
                                      /\ <<o, "opponent">> # <<q, "opponent">>
  BY DEF Seats

-----------------------------------------------------------------------------
(* What the books say of one offer. *)

\* Nobody is in the middle of an accept of it: its rows agree.
Sound(b, o) ==
  LET row   == b.offer[o]
      mine  == b.stake[<<o, "creator">>]
      other == b.stake[<<o, "opponent">>]
  IN /\ row.status = "none" <=> mine = "none"
     /\ row.status = "pending" <=> mine = "held"
     /\ row.status # "active"
     /\ other # "none" <=> row.status = "finished"
     /\ row.status # "none" => row.creator \in Users

\* It has been claimed, and both stakes are held.
Playing(b, o) ==
  LET row == b.offer[o]
  IN /\ row.status = "active"
     /\ b.stake[<<o, "creator">>] = "held" /\ b.stake[<<o, "opponent">>] = "held"
     /\ row.creator \in Users /\ row.opponent \in Users /\ row.creator # row.opponent

\* The books c come after b: who made an offer does not change.
Stable(b, c, o) ==
  b.offer[o].status # "none" => /\ c.offer[o].status # "none"
                                /\ c.offer[o].creator = b.offer[o].creator

\* Of the creator's stake, a pass of the sweeper refunds and nothing else.
Ahead(b, c, o) ==
  /\ Stable(b, c, o)
  /\ \/ c.stake[<<o, "creator">>] = b.stake[<<o, "creator">>]
     \/ b.stake[<<o, "creator">>] = "held" /\ c.stake[<<o, "creator">>] = "refunded"

\* What one transaction may do to it.
Settles(b, c, o) ==
  LET s == b.stake[<<o, "creator">>]
      t == c.stake[<<o, "creator">>]
  IN s = t \/ (s = "none" /\ t = "held") \/ (s = "held" /\ t \in {"released", "refunded"})

\* Everything else of b and c agrees on the offers other than o.
SameElsewhere(b, c, o) ==
  \A q \in Offers \ {o} : /\ c.offer[q] = b.offer[q]
                          /\ c.stake[<<q, "creator">>] = b.stake[<<q, "creator">>]
                          /\ c.stake[<<q, "opponent">>] = b.stake[<<q, "opponent">>]

-----------------------------------------------------------------------------
(* What each operator on the books does to them. *)

\* One wallet, one offer and one of its escrow rows are written.
Wrote(b, c, u, w, o, row, seat, s) ==
  /\ c = [wallet |-> c.wallet, offer |-> c.offer, stake |-> c.stake,
          games |-> c.games, burned |-> c.burned]
  /\ c.wallet = [b.wallet EXCEPT ![u] = w]
  /\ c.offer  = [b.offer EXCEPT ![o] = row]
  /\ c.stake  = [b.stake EXCEPT ![<<o, seat>>] = s]
  /\ c.games  = b.games
  /\ c.burned = b.burned

LEMMA Writing ==
  ASSUME NEW b \in Books, NEW c, NEW u \in Users, NEW w \in Wallets, NEW o \in Offers,
         NEW row \in Offer, NEW seat \in Seats,
         NEW s \in {"none", "held", "released", "refunded"},
         Wrote(b, c, u, w, o, row, seat, s)
  PROVE  /\ c \in Books /\ SameElsewhere(b, c, o)
         /\ c.offer[o] = row
         /\ seat = "creator"  => /\ c.stake[<<o, "creator">>] = s
                                 /\ c.stake[<<o, "opponent">>] = b.stake[<<o, "opponent">>]
         /\ seat = "opponent" => /\ c.stake[<<o, "opponent">>] = s
                                 /\ c.stake[<<o, "creator">>] = b.stake[<<o, "creator">>]
<1>1. c.wallet \in [Users -> Wallets]
  BY BookParts DEF Wrote
<1>2. c.offer \in [Offers -> Offer] /\ c.offer[o] = row
  BY BookParts DEF Wrote
<1>3. \A q \in Offers \ {o} : c.offer[q] = b.offer[q]
  BY BookParts DEF Wrote
<1>4. c.stake \in [Offers \X Seats -> {"none", "held", "released", "refunded"}]
  BY BookParts DEF Wrote
<1>5. \A q \in Offers, t \in Seats :
        c.stake[<<q, t>>] = IF q = o /\ t = seat THEN s ELSE b.stake[<<q, t>>]
  BY BookParts DEF Wrote
<1>6. c \in Books
  BY <1>1, <1>2, <1>4, BookParts DEF Books, Wrote
<1>7. /\ \A q \in Offers \ {o} : /\ c.stake[<<q, "creator">>] = b.stake[<<q, "creator">>]
                                 /\ c.stake[<<q, "opponent">>] = b.stake[<<q, "opponent">>]
      /\ seat = "creator"  => /\ c.stake[<<o, "creator">>] = s
                              /\ c.stake[<<o, "opponent">>] = b.stake[<<o, "opponent">>]
      /\ seat = "opponent" => /\ c.stake[<<o, "opponent">>] = s
                              /\ c.stake[<<o, "creator">>] = b.stake[<<o, "creator">>]
  BY <1>5, TwoSeats
<1>. QED
  BY <1>2, <1>3, <1>6, <1>7 DEF SameElsewhere

LEMMA Posting ==
  ASSUME NEW b \in Books, NEW u \in Users, NEW w, NEW o \in Offers, NEW row,
         NEW seat \in Seats, NEW s, NEW c,
         c = [b EXCEPT !.wallet[u] = w, !.offer[o] = row, !.stake[<<o, seat>>] = s]
  PROVE  Wrote(b, c, u, w, o, row, seat, s)
<1>1. c = [wallet |-> c.wallet, offer |-> c.offer, stake |-> c.stake,
           games |-> c.games, burned |-> c.burned]
  BY BookParts
<1>2. c.wallet = [b.wallet EXCEPT ![u] = w]
  BY BookParts
<1>3. c.offer = [b.offer EXCEPT ![o] = row]
  BY BookParts
<1>4. c.stake = [b.stake EXCEPT ![<<o, seat>>] = s]
  BY BookParts
<1>5. c.games = b.games /\ c.burned = b.burned
  BY BookParts
<1>. QED
  BY <1>1, <1>2, <1>3, <1>4, <1>5 DEF Wrote

LEMMA Creating ==
  ASSUME NEW b \in Books, NEW c, NEW u \in Users, NEW w \in Wallets, NEW o \in Offers,
         NEW row \in Offer, row.status = "pending", row.creator = u,
         b.offer[o].status = "none", Sound(b, o),
         Wrote(b, c, u, w, o, row, "creator", "held")
  PROVE  /\ c \in Books /\ SameElsewhere(b, c, o)
         /\ Sound(c, o) /\ Stable(b, c, o) /\ Settles(b, c, o)
<1>1. /\ c \in Books /\ SameElsewhere(b, c, o)
      /\ c.offer[o] = row
      /\ c.stake[<<o, "creator">>] = "held"
      /\ c.stake[<<o, "opponent">>] = b.stake[<<o, "opponent">>]
  BY TwoSeats, Writing
<1>. QED
  BY <1>1 DEF Sound, Stable, Settles

Retire(row, status) == [row EXCEPT !.status = status]

\* What a refund writes with its status flip.
LEMMA RetireWrites ==
  ASSUME NEW b \in Books, NEW o \in Offers, NEW status \in {"cancelled", "expired"},
         NEW u \in Users, u = b.offer[o].creator, CanCredit(b.wallet[u], b.offer[o].bet),
         NEW c, c = Retired(b, o, status)
  PROVE  /\ Retire(b.offer[o], status) \in Offer
         /\ Released(b.wallet[u], b.offer[o].bet) \in Wallets
         /\ Wrote(b, c, u, Released(b.wallet[u], b.offer[o].bet), o,
                  Retire(b.offer[o], status), "creator", "refunded")
<1> DEFINE row == b.offer[o]
           w == Released(b.wallet[u], row.bet)
           new == Retire(row, status)
<1>1. row.bet \in Nat /\ b.wallet[u] \in Wallets
  BY OfferParts, BookParts
<1>2. w \in Wallets
  BY <1>1, WalletWrites
<1>3. new \in Offer
  BY OfferParts DEF Offer, Statuses, Retire
<1>4. c = [[b EXCEPT !.offer[o].status = status]
             EXCEPT !.wallet[u] = w, !.stake[<<o, "creator">>] = "refunded"]
  BY BookParts DEF Retired
<1>5. c.offer = [b.offer EXCEPT ![o] = new]
  BY <1>4, BookParts DEF Retire
<1>. HIDE DEF w, new
<1>6. c = [wallet |-> c.wallet, offer |-> c.offer, stake |-> c.stake,
           games |-> c.games, burned |-> c.burned]
  BY <1>4, BookParts
<1>7. c.wallet = [b.wallet EXCEPT ![u] = w]
  BY <1>4, BookParts
<1>8. c.stake = [b.stake EXCEPT ![<<o, "creator">>] = "refunded"]
  BY <1>4, BookParts
<1>9. c.games = b.games /\ c.burned = b.burned
  BY <1>4, BookParts
<1>. QED
  BY <1>2, <1>3, <1>5, <1>6, <1>7, <1>8, <1>9 DEF Wrote, w, new

\* A refund with its status flip, or the untouched books.
LEMMA Retiring ==
  ASSUME NEW b \in Books, NEW o \in Offers, NEW status \in {"cancelled", "expired"},
         b.offer[o].status = "pending", Sound(b, o),
         NEW c, c = Retired(b, o, status)
  PROVE  /\ c \in Books /\ SameElsewhere(b, c, o)
         /\ Sound(c, o) /\ Ahead(b, c, o) /\ Settles(b, c, o)
<1> DEFINE row == b.offer[o]
           u == row.creator
           w == Released(b.wallet[u], row.bet)
           new == Retire(row, status)
<1>1. CASE ~ CanCredit(b.wallet[u], row.bet)
  BY <1>1 DEF Retired, RefundFailed, Sound, Ahead, Stable, Settles, SameElsewhere
<1>2. CASE CanCredit(b.wallet[u], row.bet)
  <2>1. u \in Users /\ row \in Offer
    BY OfferParts DEF Sound
  <2>2. new \in Offer /\ w \in Wallets /\ Wrote(b, c, u, w, o, new, "creator", "refunded")
    BY <1>2, <2>1, RetireWrites
  <2>3. new.status = status /\ new.creator = u
    BY <2>1 DEF Offer, Retire
  <2>. HIDE DEF w, u, new
  <2>4. /\ c \in Books /\ SameElsewhere(b, c, o)
        /\ c.offer[o] = new
        /\ c.stake[<<o, "creator">>] = "refunded"
        /\ c.stake[<<o, "opponent">>] = b.stake[<<o, "opponent">>]
    BY <2>1, <2>2, TwoSeats, Writing
  <2>. QED
    BY <2>1, <2>3, <2>4 DEF Sound, Ahead, Stable, Settles, u
<1>. QED
  BY <1>1, <1>2

\* expire re-checks the status: it retires the offer or does nothing.
LEMMA Expiring ==
  ASSUME NEW b \in Books, NEW o \in Offers, Sound(b, o), NEW c, c = Expired(b, o)
  PROVE  /\ c \in Books /\ SameElsewhere(b, c, o)
         /\ Sound(c, o) /\ Ahead(b, c, o) /\ Settles(b, c, o)
<1>1. CASE b.offer[o].status = "pending"
  BY <1>1, Retiring DEF Expired
<1>2. CASE b.offer[o].status # "pending"
  BY <1>2 DEF Expired, Ahead, Stable, Settles, SameElsewhere
<1>. QED
  BY <1>1, <1>2

\* A wallet and an escrow row, or an offer, are written.
WithStake(d, u, w, k, v) == [d EXCEPT !.wallet[u] = w, !.stake[k] = v]
WithOffer(b, o, row) == [b EXCEPT !.offer[o] = row]

WroteStake(d, c, u, w, k, v) ==
  /\ c = [wallet |-> c.wallet, offer |-> c.offer, stake |-> c.stake,
          games |-> c.games, burned |-> c.burned]
  /\ c.wallet = [d.wallet EXCEPT ![u] = w]
  /\ c.stake = [d.stake EXCEPT ![k] = v]
  /\ c.offer = d.offer /\ c.games = d.games /\ c.burned = d.burned

LEMMA StakeWrite ==
  ASSUME NEW d \in Books, NEW u, NEW w, NEW k, NEW v, NEW c, c = WithStake(d, u, w, k, v)
  PROVE  WroteStake(d, c, u, w, k, v)
<1>1. c = [wallet |-> c.wallet, offer |-> c.offer, stake |-> c.stake,
           games |-> c.games, burned |-> c.burned]
  BY BookParts DEF WithStake
<1>2. c.wallet = [d.wallet EXCEPT ![u] = w]
  BY BookParts DEF WithStake
<1>3. c.stake = [d.stake EXCEPT ![k] = v]
  BY BookParts DEF WithStake
<1>4. c.offer = d.offer
  BY BookParts DEF WithStake
<1>5. c.games = d.games /\ c.burned = d.burned
  BY BookParts DEF WithStake
<1>. QED
  BY <1>1, <1>2, <1>3, <1>4, <1>5 DEF WroteStake

LEMMA OfferWrite ==
  ASSUME NEW b \in Books, NEW o \in Offers, NEW row \in Offer, NEW d,
         d = WithOffer(b, o, row)
  PROVE  /\ d \in Books
         /\ d.offer = [b.offer EXCEPT ![o] = row]
         /\ d.wallet = b.wallet /\ d.stake = b.stake
         /\ d.games = b.games /\ d.burned = b.burned
<1>1. d = [wallet |-> b.wallet, offer |-> [b.offer EXCEPT ![o] = row], stake |-> b.stake,
           games |-> b.games, burned |-> b.burned]
  BY BookParts DEF WithOffer
<1>2. [b.offer EXCEPT ![o] = row] \in [Offers -> Offer]
  BY BookParts
<1>. QED
  BY <1>1, <1>2, BookParts DEF Books

\* The winner of the race for an offer: its status flips and the second stake is
\* held with it.
Taken(row, u) == [row EXCEPT !.status = "active", !.opponent = u]

LEMMA ClaimPosting ==
  ASSUME NEW b \in Books, NEW o \in Offers, NEW u \in Users, NEW w, NEW c,
         c = WithStake(Claimed(b, o, u), u, w, <<o, "opponent">>, "held")
  PROVE  Wrote(b, c, u, w, o, Taken(b.offer[o], u), "opponent", "held")
<1> DEFINE row == Taken(b.offer[o], u)
           d == Claimed(b, o, u)
<1>1. row \in Offer
  BY OfferParts DEF Offer, Statuses, Taken
<1>2. d = WithOffer(b, o, row)
  BY DEF Claimed, Taken, WithOffer
<1>3. c = WithStake(d, u, w, <<o, "opponent">>, "held")
  OBVIOUS
<1>. HIDE DEF row, d
<1>4. /\ d \in Books
      /\ d.offer = [b.offer EXCEPT ![o] = row]
      /\ d.wallet = b.wallet /\ d.stake = b.stake
      /\ d.games = b.games /\ d.burned = b.burned
  BY <1>1, <1>2, OfferWrite
<1>5. WroteStake(d, c, u, w, <<o, "opponent">>, "held")
  BY <1>3, <1>4, StakeWrite
<1>. QED
  BY <1>4, <1>5 DEF Wrote, WroteStake, row

LEMMA Claiming ==
  ASSUME NEW b \in Books, NEW c, NEW o \in Offers, NEW u \in Users, NEW w \in Wallets,
         Claimable(b, o), Sound(b, o), b.offer[o].creator # u,
         Wrote(b, c, u, w, o, Taken(b.offer[o], u), "opponent", "held")
  PROVE  /\ c \in Books /\ SameElsewhere(b, c, o)
         /\ Playing(c, o) /\ Ahead(b, c, o)
<1> DEFINE row == b.offer[o]
           new == Taken(row, u)
<1>1. new \in Offer /\ new.status = "active" /\ new.opponent = u /\ new.creator = row.creator
  BY OfferParts DEF Offer, Statuses, Taken
<1>2. row.status = "pending" /\ row.creator \in Users /\ b.stake[<<o, "creator">>] = "held"
  BY DEF Claimable, Sound
<1>. HIDE DEF new
<1>3. /\ c \in Books /\ SameElsewhere(b, c, o)
      /\ c.offer[o] = new
      /\ c.stake[<<o, "opponent">>] = "held"
      /\ c.stake[<<o, "creator">>] = b.stake[<<o, "creator">>]
  BY <1>1, TwoSeats, Writing DEF new
<1>. QED
  BY <1>1, <1>2, <1>3 DEF Playing, Ahead, Stable

\* An opponent who cannot stake gives the offer back as it was.
LEMMA Reverting ==
  ASSUME NEW b \in Books, NEW o \in Offers, NEW u \in Users, Claimable(b, o)
  PROVE  Reverted(Claimed(b, o, u), o) = b
<1> DEFINE row == b.offer[o]
           taken == [row EXCEPT !.status = "active", !.opponent = u]
           d == Claimed(b, o, u)
           c == Reverted(d, o)
<1>1. row = [status |-> row.status, game |-> row.game, creator |-> row.creator,
             opponent |-> row.opponent, bet |-> row.bet, winner |-> row.winner]
  BY OfferParts DEF Offer
<1>2. row.status = "pending" /\ row.opponent = None
  BY DEF Claimable
<1>3. [taken EXCEPT !.status = "pending", !.opponent = None] = row
  BY <1>1, <1>2
<1>. HIDE DEF taken
<1>4. d = [wallet |-> b.wallet, offer |-> [b.offer EXCEPT ![o] = taken],
           stake |-> b.stake, games |-> b.games, burned |-> b.burned]
  BY BookParts DEF Claimed, taken
<1>5. d.offer[o] = taken
  BY <1>4, BookParts
<1>6. c = [d EXCEPT !.offer[o] = row]
  BY <1>3, <1>5 DEF Reverted
<1>7. c = [wallet |-> b.wallet, offer |-> [[b.offer EXCEPT ![o] = taken] EXCEPT ![o] = row],
           stake |-> b.stake, games |-> b.games, burned |-> b.burned]
  BY <1>4, <1>6
<1>8. [[b.offer EXCEPT ![o] = taken] EXCEPT ![o] = row] = b.offer
  BY BookParts
<1>. QED
  BY <1>7, <1>8, BookParts

-----------------------------------------------------------------------------
(* The result of a game. *)

\* The counters of a user, who played a game or did not.
GamePlayed(b, c, u, played, won) ==
  /\ c.games[u].played = b.games[u].played + (IF played THEN 1 ELSE 0)
  /\ c.games[u].won = b.games[u].won + (IF played /\ won THEN 1 ELSE 0)

\* The game counters change nothing else.
LEMMA Counting ==
  ASSUME NEW b \in Books, NEW u \in Users, NEW won \in BOOLEAN, NEW c, c = Played(b, u, won)
  PROVE  /\ c \in Books
         /\ c.wallet = b.wallet /\ c.offer = b.offer /\ c.stake = b.stake
         /\ c.burned = b.burned
         /\ \A v \in Users : GamePlayed(b, c, v, v = u, won)
<1> DEFINE n == IF won THEN b.games[u].won + 1 ELSE b.games[u].won
           g == [played |-> b.games[u].played + 1, won |-> n]
<1>1. b.games[u] \in [played : Nat, won : Nat]
  BY BookParts
<1>2. g \in [played : Nat, won : Nat]
  BY <1>1
<1>3. c.wallet = b.wallet
  BY BookParts DEF Played
<1>4. c.offer = b.offer
  BY BookParts DEF Played
<1>5. c.stake = b.stake
  BY BookParts DEF Played
<1>6. c.burned = b.burned
  BY BookParts DEF Played
<1>7. c.games = [b.games EXCEPT ![u] = g]
  BY <1>1, BookParts DEF Played
<1>8. c = [wallet |-> c.wallet, offer |-> c.offer, stake |-> c.stake,
           games |-> c.games, burned |-> c.burned]
  BY BookParts DEF Played
<1>9. c.games \in [Users -> [played : Nat, won : Nat]]
  <2>. HIDE DEF g
  <2>. QED
    BY <1>2, <1>7, BookParts
<1>10. c \in Books
  BY <1>3, <1>4, <1>5, <1>6, <1>8, <1>9, BookParts DEF Books
<1>11. ASSUME NEW v \in Users PROVE GamePlayed(b, c, v, v = u, won)
  <2>1. b.games[v].played \in Nat /\ b.games[v].won \in Nat
    BY BookParts
  <2>2. c.games[v] = IF v = u THEN g ELSE b.games[v]
    BY <1>7, BookParts
  <2>. QED
    BY <2>1, <2>2 DEF GamePlayed
<1>. QED
  BY <1>3, <1>4, <1>5, <1>6, <1>10, <1>11

Finished(row, winner) == [row EXCEPT !.status = "finished", !.winner = winner]

\* A game of two players is on record.
Scored(b, c, o, winner) ==
  LET row == b.offer[o]
  IN /\ c.offer = [b.offer EXCEPT ![o] = Finished(row, winner)]
     /\ GamePlayed(b, c, row.creator, TRUE, winner = "creator")
     /\ GamePlayed(b, c, row.opponent, TRUE, winner = "opponent")
     /\ \A u \in Users \ {row.creator, row.opponent} : c.games[u] = b.games[u]

LEMMA Recording ==
  ASSUME NEW b \in Books, NEW o \in Offers, NEW winner \in Seats \cup {"none"},
         b.offer[o].creator \in Users, b.offer[o].opponent \in Users,
         b.offer[o].creator # b.offer[o].opponent,
         NEW c, c = RecordGames(b, o, winner)
  PROVE  /\ c \in Books /\ Scored(b, c, o, winner)
         /\ c.wallet = b.wallet /\ c.stake = b.stake /\ c.burned = b.burned
<1> DEFINE row == b.offer[o]
           w1 == winner = "creator"
           w2 == winner = "opponent"
           d1 == Played(b, row.creator, w1)
           d2 == Played(d1, row.opponent, w2)
           new == Finished(row, winner)
<1>1. new \in Offer
  BY OfferParts DEF Offer, Statuses, Finished
<1>2. /\ d1 \in Books
      /\ d1.wallet = b.wallet /\ d1.offer = b.offer /\ d1.stake = b.stake
      /\ d1.burned = b.burned
      /\ \A v \in Users : GamePlayed(b, d1, v, v = row.creator, w1)
  <2>1. w1 \in BOOLEAN
    OBVIOUS
  <2>. HIDE DEF w1
  <2>. QED
    BY <2>1, Counting
<1>. HIDE DEF d1
<1>3. /\ d2 \in Books
      /\ d2.wallet = d1.wallet /\ d2.offer = d1.offer /\ d2.stake = d1.stake
      /\ d2.burned = d1.burned
      /\ \A v \in Users : GamePlayed(d1, d2, v, v = row.opponent, w2)
  <2>1. w2 \in BOOLEAN
    OBVIOUS
  <2>. HIDE DEF w2
  <2>. QED
    BY <1>2, <2>1, Counting
<1>4. c = WithOffer(d2, o, new)
  <2>1. c = [d2 EXCEPT !.offer[o] = [d2.offer[o] EXCEPT !.status = "finished",
                                                        !.winner = winner]]
    BY DEF RecordGames, d1
  <2>. HIDE DEF d2
  <2>. QED
    BY <1>2, <1>3, <2>1 DEF WithOffer, Finished
<1>. HIDE DEF d2, new
<1>5. /\ c \in Books
      /\ c.offer = [d2.offer EXCEPT ![o] = new]
      /\ c.wallet = d2.wallet /\ c.stake = d2.stake
      /\ c.games = d2.games /\ c.burned = d2.burned
  BY <1>1, <1>3, <1>4, OfferWrite
<1>6. c.games = d2.games /\ row.creator \in Users /\ row.opponent \in Users
      /\ row.creator # row.opponent
  BY <1>5
<1>. HIDE DEF row, w1, w2
<1>7. ASSUME NEW v \in Users
      PROVE  /\ v = row.creator  => GamePlayed(b, c, v, TRUE, w1)
             /\ v = row.opponent => GamePlayed(b, c, v, TRUE, w2)
             /\ v \notin {row.creator, row.opponent} => c.games[v] = b.games[v]
  <2>1. /\ GamePlayed(b, d1, v, v = row.creator, w1)
        /\ GamePlayed(d1, d2, v, v = row.opponent, w2)
    BY <1>2, <1>3
  <2>2. /\ b.games[v] \in [played : Nat, won : Nat]
        /\ d1.games[v] \in [played : Nat, won : Nat]
        /\ d2.games[v] \in [played : Nat, won : Nat]
    BY <1>2, <1>3, BookParts
  <2>. QED
    BY <1>6, <2>1, <2>2 DEF GamePlayed
<1>8. Scored(b, c, o, winner)
  BY <1>2, <1>3, <1>5, <1>6, <1>7 DEF Scored, new, row, w1, w2
<1>. QED
  BY <1>2, <1>3, <1>5, <1>8

\* Both stakes leave escrow to the same side, whatever happens to the wallets.
Shared(b, d, o, s) ==
  /\ d = [wallet |-> d.wallet, offer |-> d.offer, stake |-> d.stake,
          games |-> d.games, burned |-> d.burned]
  /\ d.wallet \in [Users -> Wallets] /\ d.burned \in Nat
  /\ d.offer = b.offer /\ d.games = b.games
  /\ d.stake = [b.stake EXCEPT ![<<o, "creator">>] = s, ![<<o, "opponent">>] = s]

LEMMA Sharing ==
  ASSUME NEW b \in Books, NEW o \in Offers, NEW s \in {"released", "refunded"}, NEW d,
         Shared(b, d, o, s), Playing(b, o),
         NEW winner \in Seats \cup {"none"}, NEW c, c = RecordGames(d, o, winner)
  PROVE  /\ c \in Books /\ SameElsewhere(b, c, o)
         /\ Sound(c, o) /\ Stable(b, c, o)
         /\ c.stake[<<o, "creator">>] = s /\ c.stake[<<o, "opponent">>] = s
         /\ Scored(b, c, o, winner) /\ c.wallet = d.wallet /\ c.burned = d.burned
<1>1. /\ d.stake \in [Offers \X Seats -> {"none", "held", "released", "refunded"}]
      /\ d.stake[<<o, "creator">>] = s /\ d.stake[<<o, "opponent">>] = s
      /\ \A q \in Offers \ {o} : /\ d.stake[<<q, "creator">>] = b.stake[<<q, "creator">>]
                                 /\ d.stake[<<q, "opponent">>] = b.stake[<<q, "opponent">>]
  <2> DEFINE half == [b.stake EXCEPT ![<<o, "creator">>] = s]
  <2>1. /\ half \in [Offers \X Seats -> {"none", "held", "released", "refunded"}]
        /\ half[<<o, "creator">>] = s
        /\ \A q \in Offers : half[<<q, "opponent">>] = b.stake[<<q, "opponent">>]
        /\ \A q \in Offers \ {o} : half[<<q, "creator">>] = b.stake[<<q, "creator">>]
    BY BookParts, TwoSeats
  <2>2. d.stake = [half EXCEPT ![<<o, "opponent">>] = s]
    BY DEF Shared
  <2>. HIDE DEF half
  <2>. QED
    BY <2>1, <2>2, TwoSeats
<1>2. d \in Books
  BY <1>1, BookParts DEF Shared, Books
<1>3. d.offer = b.offer /\ d.games = b.games
  BY DEF Shared
<1>4. /\ c \in Books
      /\ Scored(d, c, o, winner)
      /\ c.wallet = d.wallet /\ c.burned = d.burned /\ c.stake = d.stake
  <2>1. /\ d.offer[o].creator \in Users /\ d.offer[o].opponent \in Users
        /\ d.offer[o].creator # d.offer[o].opponent
    BY <1>3 DEF Playing
  <2>. QED
    BY <1>2, <2>1, Recording
<1>5. /\ c.offer[o].status = "finished" /\ c.offer[o].creator = b.offer[o].creator
      /\ \A q \in Offers \ {o} : c.offer[q] = b.offer[q]
  <2>1. b.offer[o] \in Offer
    BY OfferParts
  <2>2. /\ Finished(b.offer[o], winner).status = "finished"
        /\ Finished(b.offer[o], winner).creator = b.offer[o].creator
    BY <2>1 DEF Offer, Finished
  <2>. QED
    BY <1>3, <1>4, <2>2, BookParts DEF Scored
<1>6. Scored(b, c, o, winner)
  BY <1>3, <1>4 DEF Scored, GamePlayed
<1>7. SameElsewhere(b, c, o) /\ Sound(c, o) /\ Stable(b, c, o)
  BY <1>1, <1>4, <1>5 DEF SameElsewhere, Sound, Stable, Playing
<1>. QED
  BY <1>1, <1>4, <1>6, <1>7

Ended(b, c, o, s, winner) ==
  /\ Scored(b, c, o, winner)
  /\ c.stake[<<o, "creator">>] = s /\ c.stake[<<o, "opponent">>] = s

GivesBack(b, c, o) ==
  LET row == b.offer[o]
  IN /\ c.wallet = [b.wallet EXCEPT
                      ![row.creator] = Released(b.wallet[row.creator], row.bet),
                      ![row.opponent] = Released(b.wallet[row.opponent], row.bet)]
     /\ c.burned = b.burned

PaysPot(b, c, o, winner) ==
  LET row  == b.offer[o]
      u    == User(row, winner)
      paid == [b.wallet EXCEPT ![u] = Credited(b.wallet[u], Payout(row.bet))]
  IN /\ c.wallet = StakeSpent(StakeSpent(paid, row, "creator", winner),
                              row, "opponent", winner)
     /\ c.burned = b.burned + Rake(row.bet)

\* A tie gives both stakes back.
LEMMA Tying ==
  ASSUME NEW b \in Books, NEW o \in Offers, Playing(b, o), Payable(b, o, "tie"),
         NEW c, c = Tie(b, o)
  PROVE  /\ c \in Books /\ SameElsewhere(b, c, o)
         /\ Sound(c, o) /\ Stable(b, c, o)
         /\ Ended(b, c, o, "refunded", "none") /\ GivesBack(b, c, o)
<1> DEFINE row == b.offer[o]
           u == row.creator
           v == row.opponent
           wu == Released(b.wallet[u], row.bet)
           wv == Released(b.wallet[v], row.bet)
           d == [b EXCEPT !.wallet[u] = Released(@, row.bet), !.wallet[v] = Released(@, row.bet),
                          !.stake[<<o, "creator">>] = "refunded",
                          !.stake[<<o, "opponent">>] = "refunded"]
<1>1. /\ u \in Users /\ v \in Users /\ u # v /\ row.bet \in Nat
      /\ b.wallet[u] \in Wallets /\ b.wallet[v] \in Wallets
  BY OfferParts, BookParts DEF Playing
<1>2. CanCredit(b.wallet[u], row.bet) /\ CanCredit(b.wallet[v], row.bet)
  <2>1. \A seat \in Seats : CanCredit(b.wallet[User(row, seat)], row.bet)
    BY DEF Payable
  <2>. QED
    BY <2>1 DEF User, Seats
<1>3. wu \in Wallets /\ wv \in Wallets
  BY <1>1, <1>2, WalletWrites
<1>4. d = [b EXCEPT !.wallet[u] = wu, !.wallet[v] = wv,
                    !.stake[<<o, "creator">>] = "refunded",
                    !.stake[<<o, "opponent">>] = "refunded"]
  BY <1>1, BookParts
<1>5. c = RecordGames(d, o, "none")
  BY DEF Tie
<1>. HIDE DEF d, wu, wv, u, v
<1>6. Shared(b, d, o, "refunded")
  <2>1. d = [wallet |-> d.wallet, offer |-> d.offer, stake |-> d.stake,
             games |-> d.games, burned |-> d.burned]
    BY <1>4, BookParts
  <2>2. d.wallet = [b.wallet EXCEPT ![u] = wu, ![v] = wv]
    BY <1>4, BookParts
  <2>3. d.wallet \in [Users -> Wallets]
    <3> DEFINE half == [b.wallet EXCEPT ![u] = wu]
    <3>1. half \in [Users -> Wallets]
      BY <1>3, BookParts
    <3>2. d.wallet = [half EXCEPT ![v] = wv]
      BY <2>2
    <3>. HIDE DEF half
    <3>. QED
      BY <1>3, <3>1, <3>2
  <2>4. d.stake = [b.stake EXCEPT ![<<o, "creator">>] = "refunded",
                                  ![<<o, "opponent">>] = "refunded"]
    BY <1>4, BookParts
  <2>5. d.offer = b.offer
    BY <1>4, BookParts
  <2>6. d.games = b.games /\ d.burned = b.burned
    BY <1>4, BookParts
  <2>. QED
    BY <2>1, <2>3, <2>4, <2>5, <2>6, BookParts DEF Shared
<1>7. d.wallet = [b.wallet EXCEPT ![u] = wu, ![v] = wv] /\ d.burned = b.burned
  BY <1>4, BookParts
<1>8. /\ c \in Books /\ SameElsewhere(b, c, o)
      /\ Sound(c, o) /\ Stable(b, c, o)
      /\ Ended(b, c, o, "refunded", "none") /\ c.burned = d.burned /\ c.wallet = d.wallet
  BY <1>5, <1>6, Sharing DEF Ended
<1>. QED
  BY <1>7, <1>8 DEF wu, wv, u, v, GivesBack

\* The lifetime counter of a seat moves and its balance does not.
LEMMA Spending ==
  ASSUME NEW ws \in [Users -> Wallets], NEW row, row.bet \in Nat, NEW seat, NEW winner,
         User(row, seat) \in Users
  PROVE  StakeSpent(ws, row, seat, winner) \in [Users -> Wallets]
<1> DEFINE u == User(row, seat)
           w == [ws[u] EXCEPT !.spent = @ + row.bet]
<1>1. ws[u] \in Wallets
  OBVIOUS
<1>2. w \in Wallets
  BY <1>1 DEF Wallets
<1>3. StakeSpent(ws, row, seat, winner) = [ws EXCEPT ![u] = w]
  BY DEF StakeSpent
<1>. HIDE DEF w, u
<1>. QED
  BY <1>2, <1>3

\* A decided game pays the winner, settles both stakes and burns the rake.
LEMMA Winning ==
  ASSUME NEW b \in Books, NEW o \in Offers, NEW winner \in Seats,
         Playing(b, o), Payable(b, o, winner), NEW c, c = Win(b, o, winner)
  PROVE  /\ c \in Books /\ SameElsewhere(b, c, o)
         /\ Sound(c, o) /\ Stable(b, c, o)
         /\ Ended(b, c, o, "released", winner) /\ PaysPot(b, c, o, winner)
<1> DEFINE row  == b.offer[o]
           u    == User(row, winner)
           wu   == Credited(b.wallet[u], Payout(row.bet))
           paid == [b.wallet EXCEPT ![u] = wu]
           one  == StakeSpent(paid, row, "creator", winner)
           both == StakeSpent(one, row, "opponent", winner)
           n    == Rake(row.bet)
           d    == [b EXCEPT !.wallet = both,
                             !.stake[<<o, "creator">>] = "released",
                             !.stake[<<o, "opponent">>] = "released",
                             !.burned = @ + n]
<1>1. /\ \A seat \in Seats : User(row, seat) \in Users
      /\ row.bet \in Nat /\ winner # "tie"
  BY OfferParts DEF Playing, User, Seats
<1>2. wu \in Wallets
  <2>1. b.wallet[u] \in Wallets /\ CanCredit(b.wallet[u], Payout(row.bet))
    BY <1>1, BookParts DEF Payable
  <2>2. Payout(row.bet) \in Nat
    BY <1>1, PotIsSplit
  <2>. QED
    BY <2>1, <2>2, WalletWrites
<1>3. paid \in [Users -> Wallets]
  <2>. HIDE DEF wu
  <2>. QED
    BY <1>1, <1>2, BookParts
<1>4. both \in [Users -> Wallets]
  <2>. HIDE DEF paid
  <2>1. one \in [Users -> Wallets]
    BY <1>1, <1>3, TwoSeats, Spending
  <2>. HIDE DEF one
  <2>. QED
    BY <1>1, <2>1, TwoSeats, Spending
<1>5. n \in Nat
  BY <1>1, PotIsSplit
<1>6. c = RecordGames(d, o, winner)
  BY DEF Win
<1>. HIDE DEF both, n
<1>7. Shared(b, d, o, "released")
  <2>1. d = [wallet |-> d.wallet, offer |-> d.offer, stake |-> d.stake,
             games |-> d.games, burned |-> d.burned]
    <3> DEFINE e1 == [b EXCEPT !.wallet = both]
               e2 == [e1 EXCEPT !.stake[<<o, "creator">>] = "released"]
               e3 == [e2 EXCEPT !.stake[<<o, "opponent">>] = "released"]
    <3>1. e1 = [wallet |-> e1.wallet, offer |-> e1.offer, stake |-> e1.stake,
                games |-> e1.games, burned |-> e1.burned] /\ e1.burned = b.burned
      BY BookParts
    <3>2. d = [e3 EXCEPT !.burned = b.burned + n]
      OBVIOUS
    <3>. HIDE DEF e1, d
    <3>3. e2 = [wallet |-> e2.wallet, offer |-> e2.offer, stake |-> e2.stake,
                games |-> e2.games, burned |-> e2.burned]
      BY <3>1
    <3>. HIDE DEF e2
    <3>4. e3 = [wallet |-> e3.wallet, offer |-> e3.offer, stake |-> e3.stake,
                games |-> e3.games, burned |-> e3.burned]
      BY <3>3
    <3>. HIDE DEF e3
    <3>. QED
      BY <3>2, <3>4
  <2>2. d.wallet = both
    BY BookParts
  <2>3. d.stake = [b.stake EXCEPT ![<<o, "creator">>] = "released",
                                  ![<<o, "opponent">>] = "released"]
    BY BookParts
  <2>4. d.offer = b.offer
    BY BookParts
  <2>5. d.games = b.games
    BY BookParts
  <2>6. d.burned \in Nat
    BY <1>5, BookParts
  <2>. QED
    BY <1>4, <2>1, <2>2, <2>3, <2>4, <2>5, <2>6 DEF Shared
<1>8. d.wallet = both
  BY BookParts
<1>9. d.burned = b.burned + n
  BY BookParts
<1>. HIDE DEF d
<1>10. /\ c \in Books /\ SameElsewhere(b, c, o)
       /\ Sound(c, o) /\ Stable(b, c, o)
       /\ Ended(b, c, o, "released", winner) /\ c.burned = d.burned /\ c.wallet = d.wallet
  BY <1>6, <1>7, Sharing DEF Ended
<1>. QED
  BY <1>8, <1>9, <1>10 DEF both, n, PaysPot

-----------------------------------------------------------------------------
(* The inductive invariant: the committed books agree with themselves, the *)
(* holder's copy does so too except for the offer it is accepting, and     *)
(* only a refund can be in the copy and not yet in the file.               *)

Accepting(o) == \E p \in Procs : At(p, "resolve") /\ job[p].offer = o

JobSound(p) ==
  /\ job[p].step \in {"resolve", "sweep"} <=> writer = p
  /\ At(p, "claim")   => /\ job[p].offer \in Offers /\ job[p].user \in Users
                         /\ db.offer[job[p].offer].status # "none"
                         /\ db.offer[job[p].offer].creator # job[p].user
  /\ At(p, "expire")  => job[p].offer \in Offers
  /\ At(p, "resolve") => job[p].offer \in Offers /\ Playing(work, job[p].offer)

PvPInv ==
  /\ TypeOK
  /\ Unlocked => work = db
  /\ \A o \in Offers : /\ Sound(db, o)
                       /\ Sound(work, o) \/ Accepting(o)
                       /\ Ahead(db, work, o)
  /\ \A p \in Procs : JobSound(p)

LEMMA JobParts ==
  ASSUME TypeOK, NEW p \in Procs
  PROVE  /\ job[p] \in Job /\ job[p].step \in Steps
         /\ job[p].scan \in SUBSET Offers
         /\ job[p].user \in Users \cup {None} /\ job[p].offer \in Offers \cup {None}
         /\ job[p] = [step |-> job[p].step, user |-> job[p].user,
                      offer |-> job[p].offer, scan |-> job[p].scan]
  BY DEF TypeOK, Job

LEMMA IdleJob == Idle \in Job /\ Idle.step = "idle"
  BY DEF Idle, Job, Steps

LEMMA ProcIsNotNone == \A p \in Procs : p # None
  BY PvPAssumption

\* A step that neither takes nor gives back the lock and writes nothing: only the
\* job of one process moves, to one that needs no lock.
LEMMA JobMoves ==
  ASSUME PvPInv, NEW p \in Procs, NEW state \in Job, Become(p, state),
         UNCHANGED <<db, work, writer, stale>>, writer # p,
         state.step \in {"idle", "claim", "expire", "listed"},
         state.step = "expire" => state.offer \in Offers,
         state.step = "claim"  => /\ state.offer \in Offers /\ state.user \in Users
                                  /\ db.offer[state.offer].status # "none"
                                  /\ db.offer[state.offer].creator # state.user
  PROVE  PvPInv'
<1>1. job' \in [Procs -> Job] /\ \A q \in Procs : job'[q] = IF q = p THEN state ELSE job[q]
  BY DEF Become, PvPInv, TypeOK
<1>2. TypeOK'
  BY <1>1 DEF PvPInv, TypeOK
<1>3. \A q \in Procs : JobSound(q)'
  <2> SUFFICES ASSUME NEW q \in Procs PROVE JobSound(q)'
    OBVIOUS
  <2>1. JobSound(q)
    BY DEF PvPInv
  <2>2. CASE q = p
    BY <1>1, <2>2 DEF JobSound, At
  <2>3. CASE q # p
    BY <1>1, <2>1, <2>3 DEF JobSound, At, Playing
  <2>. QED
    BY <2>2, <2>3
<1>4. ~ At(p, "resolve")
  BY DEF PvPInv, JobSound, At
<1>5. \A o \in Offers : Accepting(o) => Accepting(o)'
  BY <1>1, <1>4 DEF Accepting, At
<1>6. \A o \in Offers : /\ Sound(db, o)'
                        /\ Sound(work, o)' \/ Accepting(o)'
                        /\ Ahead(db, work, o)'
  <2> SUFFICES ASSUME NEW o \in Offers
               PROVE  /\ Sound(db, o)'
                      /\ Sound(work, o)' \/ Accepting(o)'
                      /\ Ahead(db, work, o)'
    OBVIOUS
  <2>1. Sound(db, o) /\ (Sound(work, o) \/ Accepting(o)) /\ Ahead(db, work, o)
    BY DEF PvPInv
  <2>2. Sound(db, o)' /\ Ahead(db, work, o)'
    BY <2>1 DEF Sound, Ahead, Stable
  <2>3. Sound(work, o) => Sound(work, o)'
    BY DEF Sound
  <2>. QED
    BY <1>5, <2>1, <2>2, <2>3
<1>. QED
  BY <1>2, <1>3, <1>6 DEF PvPInv, Unlocked

\* The file takes new books and the lock is free: a commit, a transaction of one
\* step, or a rollback.  Nobody was inside a transaction but the one that ends.
LEMMA Committing ==
  ASSUME PvPInv, NEW b \in Books,
         db' = b, work' = b, writer' = None, stale' = stale,
         \A o \in Offers : Sound(b, o) /\ Stable(db, b, o),
         \/ job' = job /\ writer = None
         \/ \E p \in Procs : Become(p, Idle) /\ writer \in {None, p}
         \/ job' = [p \in Procs |-> Idle]
  PROVE  PvPInv'
<1>1. /\ job' \in [Procs -> Job]
      /\ \A q \in Procs : job'[q] = Idle \/ (job'[q] = job[q] /\ writer # q)
  <2>1. CASE job' = job /\ writer = None
    BY <2>1, ProcIsNotNone DEF PvPInv, TypeOK
  <2>2. CASE \E p \in Procs : Become(p, Idle) /\ writer \in {None, p}
    BY <2>2, IdleJob, ProcIsNotNone DEF PvPInv, TypeOK, Become
  <2>3. CASE job' = [p \in Procs |-> Idle]
    BY <2>3, IdleJob
  <2>. QED
    BY <2>1, <2>2, <2>3
<1>2. TypeOK'
  BY <1>1 DEF PvPInv, TypeOK
<1>3. \A o \in Offers : Sound(db, o)' /\ Sound(work, o)' /\ Ahead(db, work, o)'
  BY DEF Sound, Ahead, Stable
<1>4. \A q \in Procs : JobSound(q)'
  <2> SUFFICES ASSUME NEW q \in Procs PROVE JobSound(q)'
    OBVIOUS
  <2>1. writer' # q
    BY ProcIsNotNone
  <2>2. CASE job'[q] = Idle
    BY <2>1, <2>2, IdleJob DEF JobSound, At
  <2>3. CASE job'[q] = job[q] /\ writer # q
    <3>1. JobSound(q)
      BY DEF PvPInv
    <3>2. ~ At(q, "resolve") /\ job[q].step # "sweep"
      BY <2>3, <3>1 DEF JobSound, At
    <3>3. At(q, "claim") => Stable(db, b, job[q].offer)
      BY <3>1 DEF JobSound
    <3>. QED
      BY <2>1, <2>3, <3>1, <3>2, <3>3 DEF JobSound, At, Stable
  <2>. QED
    BY <1>1, <2>2, <2>3
<1>. QED
  BY <1>2, <1>3, <1>4 DEF PvPInv, Unlocked

\* The holder of the lock writes its copy.
LEMMA Working ==
  ASSUME PvPInv, NEW p \in Procs, NEW b \in Books, NEW state \in Job,
         Write(p, b), Become(p, state), writer \in {None, p},
         state.step \in {"resolve", "sweep"},
         state.step = "resolve" => state.offer \in Offers /\ Playing(b, state.offer),
         \A o \in Offers : /\ Sound(b, o) \/ (state.step = "resolve" /\ state.offer = o)
                           /\ Ahead(db, b, o)
  PROVE  PvPInv'
<1>1. job' \in [Procs -> Job] /\ \A q \in Procs : job'[q] = IF q = p THEN state ELSE job[q]
  BY DEF Become, PvPInv, TypeOK
<1>2. work' = b /\ writer' = p /\ db' = db /\ stale' = stale
  BY DEF Write
<1>3. TypeOK'
  BY <1>1, <1>2 DEF PvPInv, TypeOK
<1>4. \A o \in Offers : /\ Sound(db, o)'
                        /\ Sound(work, o)' \/ Accepting(o)'
                        /\ Ahead(db, work, o)'
  <2> SUFFICES ASSUME NEW o \in Offers
               PROVE  /\ Sound(db, o)'
                      /\ Sound(work, o)' \/ Accepting(o)'
                      /\ Ahead(db, work, o)'
    OBVIOUS
  <2>1. Sound(db, o)'
    BY <1>2 DEF PvPInv, Sound
  <2>2. Sound(b, o) => Sound(work, o)'
    BY <1>2 DEF Sound
  <2>3. state.step = "resolve" /\ state.offer = o => Accepting(o)'
    BY <1>1 DEF Accepting, At
  <2>4. Ahead(db, work, o)'
    BY <1>2 DEF Ahead, Stable
  <2>. QED
    BY <2>1, <2>2, <2>3, <2>4
<1>5. \A q \in Procs : JobSound(q)'
  <2> SUFFICES ASSUME NEW q \in Procs PROVE JobSound(q)'
    OBVIOUS
  <2>1. JobSound(q)
    BY DEF PvPInv
  <2>2. CASE q = p
    BY <1>1, <1>2, <2>2 DEF JobSound, At, Playing
  <2>3. CASE q # p
    <3>1. writer # q /\ writer' # q
      BY <1>2, <2>3, ProcIsNotNone
    <3>. QED
      BY <1>1, <1>2, <2>1, <2>3, <3>1 DEF JobSound, At
  <2>. QED
    BY <2>2, <2>3
<1>. QED
  BY <1>2, <1>3, <1>4, <1>5, ProcIsNotNone DEF PvPInv, Unlocked

-----------------------------------------------------------------------------
(* The actions. *)

StepSound == PvPInv' /\ \A o \in Offers : Settles(db, db', o)

LEMMA Same == \A b, o : Stable(b, b, o) /\ Ahead(b, b, o) /\ Settles(b, b, o)
  BY DEF Stable, Ahead, Settles

\* What is said of the offer that was touched, and the rest is as before.
LEMMA Elsewhere ==
  ASSUME NEW b, NEW c, NEW o \in Offers, SameElsewhere(b, c, o)
  PROVE  \A q \in Offers \ {o} : /\ Sound(b, q) => Sound(c, q)
                                 /\ Stable(b, c, q) /\ Ahead(b, c, q) /\ Settles(b, c, q)
  BY DEF SameElsewhere, Sound, Stable, Ahead, Settles

\* The copy runs ahead of the file, and goes on doing so.
LEMMA AheadChain ==
  ASSUME NEW a, NEW b, NEW c, NEW o, Ahead(a, b, o), Ahead(b, c, o)
  PROVE  Ahead(a, c, o)
  BY DEF Ahead, Stable

LEMMA AheadSettles ==
  ASSUME NEW b, NEW c, NEW o, Ahead(b, c, o)
  PROVE  Settles(b, c, o) /\ Stable(b, c, o)
  BY DEF Ahead, Settles

LEMMA CreateStep ==
  ASSUME PvPInv, NEW u \in Users, NEW bet \in Bets, NEW game \in Games,
         CreateOffer(u, bet, game)
  PROVE  StepSound
<1> DEFINE free == {o \in Offers : db.offer[o].status = "none"}
           o == Min(free)
           row == [status |-> "pending", game |-> game, creator |-> u,
                   opponent |-> None, bet |-> bet, winner |-> "none"]
           w == Held(db.wallet[u], bet)
           c == [db EXCEPT !.wallet[u] = w, !.offer[o] = row, !.stake[<<o, "creator">>] = "held"]
<1>1. db \in Books
  BY DEF PvPInv, TypeOK
<1>2. o \in free
  <2>1. free \in SUBSET Nat /\ free # {}
    BY PvPAssumption DEF CreateOffer
  <2>. HIDE DEF free
  <2>. QED
    BY <2>1, MinOfNats
<1>3. o \in Offers /\ db.offer[o].status = "none" /\ Sound(db, o)
  <2>. HIDE DEF o
  <2>. QED
    BY <1>2 DEF PvPInv
<1>4. bet \in Nat /\ CanDebit(db.wallet[u], bet)
  BY PvPAssumption DEF CreateOffer
<1>5. w \in Wallets
  BY <1>1, <1>4, BookParts, WalletWrites
<1>6. row \in Offer /\ row.status = "pending" /\ row.creator = u
  BY <1>4, PvPAssumption DEF Offer, Statuses
<1>7. Atomically([db EXCEPT !.wallet[u] = Held(@, bet), !.offer[o] = row,
                            !.stake[<<o, "creator">>] = "held"])
  BY DEF CreateOffer
<1>8. Atomically(c)
  BY <1>7
<1>. HIDE DEF free, o, row, w
<1>9. Wrote(db, c, u, w, o, row, "creator", "held")
  BY <1>1, <1>3, TwoSeats, Posting
<1>. HIDE DEF c
<1>10. /\ c \in Books /\ SameElsewhere(db, c, o)
       /\ Sound(c, o) /\ Stable(db, c, o) /\ Settles(db, c, o)
  BY <1>1, <1>3, <1>5, <1>6, <1>9, Creating
<1>11. \A q \in Offers : Sound(c, q) /\ Stable(db, c, q) /\ Settles(db, c, q)
  BY <1>3, <1>10, Elsewhere DEF PvPInv
<1>12. /\ db' = c /\ work' = c /\ writer = None /\ writer' = None
       /\ stale' = stale /\ job' = job
  BY <1>8 DEF Atomically, Unlocked
<1>13. PvPInv'
  BY <1>10, <1>11, <1>12, Committing
<1>. QED
  BY <1>11, <1>12, <1>13 DEF StepSound

\* With the lock free the copy is the file, and nobody is accepting.
LEMMA Free ==
  ASSUME PvPInv, Unlocked
  PROVE  /\ work = db /\ db \in Books
         /\ \A o \in Offers : Sound(db, o)
  BY DEF PvPInv, TypeOK

\* A commit by the process that holds the lock, or takes it and returns it.
LEMMA CommitStep ==
  ASSUME PvPInv, NEW p \in Procs, NEW b \in Books, Commit(p, b), writer \in {None, p},
         \A o \in Offers : Sound(b, o) /\ Stable(db, b, o) /\ Settles(db, b, o)
  PROVE  StepSound
<1>1. /\ db' = b /\ work' = b /\ writer' = None /\ stale' = stale /\ Become(p, Idle)
  BY DEF Commit
<1>2. PvPInv'
  BY <1>1, Committing
<1>. QED
  BY <1>1, <1>2 DEF StepSound

LEMMA ReadStep ==
  ASSUME PvPInv, NEW p \in Procs, NEW u \in Users, NEW o \in Offers, AcceptRead(p, u, o)
  PROVE  StepSound
<1>1. writer # p
  BY DEF AcceptRead, At, PvPInv, JobSound
<1>2. db' = db
  BY DEF AcceptRead
<1>3. CASE Become(p, [Idle EXCEPT !.step = "expire", !.offer = o])
  <2> DEFINE state == [Idle EXCEPT !.step = "expire", !.offer = o]
  <2>1. state \in Job /\ state.step = "expire" /\ state.offer \in Offers
    BY DEF Idle, Job, Steps
  <2>2. PvPInv'
    <3>. HIDE DEF state
    <3>. QED
      BY <1>1, <1>3, <2>1, JobMoves DEF AcceptRead, state
  <2>. QED
    BY <1>2, <2>2, Same DEF StepSound
<1>4. CASE /\ u # db.offer[o].creator
           /\ Become(p, [Idle EXCEPT !.step = "claim", !.user = u, !.offer = o])
  <2> DEFINE state == [Idle EXCEPT !.step = "claim", !.user = u, !.offer = o]
  <2>1. state \in Job /\ state.step = "claim" /\ state.offer = o /\ state.user = u
    BY DEF Idle, Job, Steps
  <2>2. db.offer[o].status # "none"
    BY DEF AcceptRead
  <2>3. PvPInv'
    <3>. HIDE DEF state
    <3>. QED
      BY <1>1, <1>4, <2>1, <2>2, JobMoves DEF AcceptRead, state
  <2>. QED
    BY <1>2, <2>3, Same DEF StepSound
<1>. QED
  BY <1>3, <1>4 DEF AcceptRead

LEMMA ClaimStep ==
  ASSUME PvPInv, NEW p \in Procs, AcceptClaim(p)
  PROVE  StepSound
<1> DEFINE o == job[p].offer
           u == job[p].user
           bet == db.offer[o].bet
           w == Held(db.wallet[u], bet)
           c == WithStake(Claimed(db, o, u), u, w, <<o, "opponent">>, "held")
           state == [job[p] EXCEPT !.step = "resolve"]
<1>1. At(p, "claim") /\ Unlocked /\ writer = None
  BY DEF AcceptClaim, Unlocked
<1>2. work = db /\ db \in Books /\ \A q \in Offers : Sound(db, q)
  BY <1>1, Free
<1>3. o \in Offers /\ u \in Users /\ db.offer[o].creator # u
  BY <1>1 DEF PvPInv, JobSound
<1>4. CASE Commit(p, db)
  BY <1>1, <1>2, <1>4, Same, CommitStep
<1>5. CASE Claimable(db, o) /\ Commit(p, Reverted(Claimed(db, o, u), o))
  <2>1. Reverted(Claimed(db, o, u), o) = db
    BY <1>2, <1>3, <1>5, Reverting
  <2>. QED
    BY <1>4, <1>5, <2>1
<1>6. CASE /\ Claimable(db, o) /\ CanDebit(db.wallet[u], bet)
           /\ Write(p, c) /\ Become(p, state)
  <2>1. w \in Wallets
    BY <1>2, <1>3, <1>6, BookParts, OfferParts, WalletWrites
  <2>2. state \in Job /\ state.step = "resolve" /\ state.offer = o
    BY JobParts DEF PvPInv, Job, Steps
  <2>. HIDE DEF w, state
  <2>3. Wrote(db, c, u, w, o, Taken(db.offer[o], u), "opponent", "held")
    BY <1>2, <1>3, ClaimPosting
  <2>. HIDE DEF c
  <2>4. /\ c \in Books /\ SameElsewhere(db, c, o)
        /\ Playing(c, o) /\ Ahead(db, c, o)
    BY <1>2, <1>3, <1>6, <2>1, <2>3, Claiming
  <2>5. \A q \in Offers : /\ Sound(c, q) \/ q = o
                          /\ Ahead(db, c, q)
    BY <1>2, <1>3, <2>4, Elsewhere
  <2>6. PvPInv'
    BY <1>1, <1>3, <1>6, <2>2, <2>4, <2>5, Working
  <2>. QED
    BY <1>6, <2>6, Same DEF StepSound, Write
<1>7. \/ Commit(p, db)
      \/ Claimable(db, o) /\ Commit(p, Reverted(Claimed(db, o, u), o))
      \/ /\ Claimable(db, o) /\ CanDebit(db.wallet[u], bet)
         /\ Write(p, c) /\ Become(p, state)
  <2> DEFINE d == Claimed(db, o, u)
             e == [d EXCEPT !.wallet[u] = Held(d.wallet[u], bet),
                            !.stake[<<o, "opponent">>] = "held"]
  <2>1. d.wallet = db.wallet
    BY <1>2, BookParts DEF Claimed
  <2>2. \/ Commit(p, db)
        \/ Claimable(db, o) /\ Commit(p, Reverted(d, o))
        \/ /\ Claimable(db, o) /\ CanDebit(db.wallet[u], bet)
           /\ Write(p, e) /\ Become(p, state)
    <3>. HIDE DEF d, state
    <3>. QED
      BY <1>2, Zenon DEF AcceptClaim, d, state
  <2>3. e = c
    <3>. HIDE DEF d
    <3>. QED
      BY <2>1 DEF WithStake, d
  <2>. QED
    BY <2>2, <2>3
<1>. QED
  BY <1>4, <1>5, <1>6, <1>7

\* Only the holder of the lock accepts, and one offer at a time.
LEMMA Holder ==
  ASSUME PvPInv, NEW p \in Procs, writer = p
  PROVE  \A q \in Offers : Sound(work, q) \/ (At(p, "resolve") /\ job[p].offer = q)
<1> SUFFICES ASSUME NEW q \in Offers, Accepting(q)
             PROVE  At(p, "resolve") /\ job[p].offer = q
  BY DEF PvPInv
<1>1. PICK r \in Procs : At(r, "resolve") /\ job[r].offer = q
  BY DEF Accepting
<1>2. writer = r
  BY <1>1 DEF PvPInv, JobSound, At
<1>. QED
  BY <1>1, <1>2

LEMMA ResolveStep ==
  ASSUME PvPInv, NEW p \in Procs, AcceptResolve(p)
  PROVE  StepSound
<1> DEFINE o == job[p].offer
<1>1. /\ At(p, "resolve") /\ writer = p
      /\ o \in Offers /\ Playing(work, o)
  BY DEF AcceptResolve, PvPInv, JobSound, At
<1>2. db \in Books /\ work \in Books
  BY DEF PvPInv, TypeOK
<1>3. \A q \in Offers \ {o} : Sound(work, q) /\ Ahead(db, work, q)
  BY <1>1, Holder DEF PvPInv
<1>4. Ahead(db, work, o) /\ db.stake[<<o, "creator">>] = "held"
  BY <1>1 DEF PvPInv, Ahead, Playing
<1>5. ASSUME NEW b \in Books, SameElsewhere(work, b, o), Sound(b, o), Stable(work, b, o),
             b.stake[<<o, "creator">>] \in {"released", "refunded"}, Commit(p, b)
      PROVE  StepSound
  <2>1. ASSUME NEW q \in Offers \ {o}
        PROVE  Sound(b, q) /\ Stable(db, b, q) /\ Settles(db, b, q)
    <3>1. (Sound(work, q) => Sound(b, q)) /\ Ahead(work, b, q)
      BY <1>1, <1>5, Elsewhere
    <3>2. Ahead(db, b, q)
      BY <1>3, <3>1, AheadChain
    <3>. QED
      BY <1>3, <3>1, <3>2, AheadSettles
  <2>2. Sound(b, o) /\ Stable(db, b, o) /\ Settles(db, b, o)
    BY <1>4, <1>5 DEF Ahead, Stable, Settles
  <2>. QED
    BY <1>1, <1>5, <2>1, <2>2, CommitStep
<1>6. CASE Commit(p, db)
  BY <1>1, <1>2, <1>6, Same, CommitStep DEF PvPInv
<1>7. ASSUME Payable(work, o, "tie"), Commit(p, Tie(work, o))
      PROVE  StepSound
  <2> DEFINE b == Tie(work, o)
  <2>1. /\ b \in Books /\ SameElsewhere(work, b, o)
        /\ Sound(b, o) /\ Stable(work, b, o)
        /\ b.stake[<<o, "creator">>] = "refunded"
    BY <1>1, <1>2, <1>7, Tying DEF Ended
  <2>. HIDE DEF b
  <2>. QED
    BY <1>5, <1>7, <2>1 DEF b
<1>8. ASSUME NEW winner \in Seats, Payable(work, o, winner), Commit(p, Win(work, o, winner))
      PROVE  StepSound
  <2> DEFINE b == Win(work, o, winner)
  <2>1. /\ b \in Books /\ SameElsewhere(work, b, o)
        /\ Sound(b, o) /\ Stable(work, b, o)
        /\ b.stake[<<o, "creator">>] = "released"
    BY <1>1, <1>2, <1>8, Winning DEF Ended
  <2>. HIDE DEF b
  <2>. QED
    BY <1>5, <1>8, <2>1 DEF b
<1>9. \/ Commit(p, db)
      \/ Payable(work, o, "tie") /\ Commit(p, Tie(work, o))
      \/ \E winner \in Seats : Payable(work, o, winner) /\ Commit(p, Win(work, o, winner))
  <2>1. PICK result \in Seats \cup {"tie"} :
          \/ /\ Payable(work, o, result)
             /\ Commit(p, IF result = "tie" THEN Tie(work, o) ELSE Win(work, o, result))
          \/ ~ Payable(work, o, result) /\ Commit(p, db)
    BY DEF AcceptResolve
  <2>. QED
    BY <2>1
<1>. QED
  BY <1>6, <1>7, <1>8, <1>9

\* A transaction of one step on the free file.
LEMMA AtomicStep ==
  ASSUME PvPInv, NEW b \in Books, Atomically(b),
         \A o \in Offers : Sound(b, o) /\ Stable(db, b, o) /\ Settles(db, b, o)
  PROVE  StepSound
<1>1. /\ db' = b /\ work' = b /\ writer = None /\ writer' = None
      /\ stale' = stale /\ job' = job
  BY DEF Atomically, Unlocked
<1>2. PvPInv'
  BY <1>1, Committing
<1>. QED
  BY <1>1, <1>2 DEF StepSound

LEMMA CancelStep ==
  ASSUME PvPInv, NEW o \in Offers, Cancel(o)
  PROVE  StepSound
<1> DEFINE b == Retired(db, o, "cancelled")
<1>1. db.offer[o].status = "pending" /\ Atomically(b) /\ Unlocked
  BY DEF Cancel, Atomically
<1>2. db \in Books /\ \A q \in Offers : Sound(db, q)
  BY <1>1, Free
<1>3. /\ b \in Books /\ SameElsewhere(db, b, o)
      /\ Sound(b, o) /\ Ahead(db, b, o) /\ Settles(db, b, o)
  BY <1>1, <1>2, Retiring
<1>. HIDE DEF b
<1>4. \A q \in Offers : Sound(b, q) /\ Stable(db, b, q) /\ Settles(db, b, q)
  BY <1>2, <1>3, Elsewhere, AheadSettles
<1>. QED
  BY <1>1, <1>3, <1>4, AtomicStep

LEMMA ExpireStep ==
  ASSUME PvPInv, NEW p \in Procs, ExpireOnAccept(p)
  PROVE  StepSound
<1> DEFINE o == job[p].offer
           b == Expired(work, o)
<1>1. At(p, "expire") /\ Unlocked /\ Commit(p, b) /\ writer = None
  BY DEF ExpireOnAccept, Unlocked
<1>2. o \in Offers
  BY <1>1 DEF PvPInv, JobSound
<1>3. work = db /\ db \in Books /\ \A q \in Offers : Sound(db, q)
  BY <1>1, Free
<1>4. /\ b \in Books /\ SameElsewhere(db, b, o)
      /\ Sound(b, o) /\ Ahead(db, b, o) /\ Settles(db, b, o)
  BY <1>2, <1>3, Expiring
<1>. HIDE DEF b
<1>5. \A q \in Offers : Sound(b, q) /\ Stable(db, b, q) /\ Settles(db, b, q)
  BY <1>2, <1>3, <1>4, Elsewhere, AheadSettles
<1>. QED
  BY <1>1, <1>4, <1>5, CommitStep

-----------------------------------------------------------------------------
(* The pass of the sweeper. *)

LEMMA ListStep ==
  ASSUME PvPInv, NEW p \in Procs, SweepList(p)
  PROVE  StepSound
<1> DEFINE state == [Idle EXCEPT !.step = "listed", !.scan = StaleOffers]
<1>1. writer # p
  BY DEF SweepList, At, PvPInv, JobSound
<1>2. state \in Job /\ state.step = "listed"
  <2>1. StaleOffers \in SUBSET Offers
    BY DEF StaleOffers, PvPInv, TypeOK
  <2>. QED
    BY <2>1 DEF Idle, Job, Steps
<1>3. Become(p, state) /\ UNCHANGED <<db, work, writer, stale>>
  BY DEF SweepList
<1>. HIDE DEF state
<1>4. PvPInv'
  BY <1>1, <1>2, <1>3, JobMoves
<1>. QED
  BY <1>3, <1>4, Same DEF StepSound

LEMMA LockStep ==
  ASSUME PvPInv, NEW p \in Procs, SweepLock(p)
  PROVE  StepSound
<1> DEFINE state == [job[p] EXCEPT !.step = "sweep"]
<1>1. /\ Unlocked /\ writer = None
      /\ Write(p, work) /\ Become(p, state)
  BY DEF SweepLock, Unlocked
<1>2. work = db /\ db \in Books /\ \A q \in Offers : Sound(db, q)
  BY <1>1, Free
<1>3. state \in Job /\ state.step = "sweep"
  BY JobParts DEF PvPInv, Job, Steps
<1>. HIDE DEF state
<1>4. PvPInv'
  BY <1>1, <1>2, <1>3, Same, Working
<1>. QED
  BY <1>1, <1>4, Same DEF StepSound, Write

LEMMA SweepStep ==
  ASSUME PvPInv, NEW p \in Procs, SweepOne(p)
  PROVE  StepSound
<1> DEFINE o == Min(job[p].scan)
           b == Expired(work, o)
           state == [job[p] EXCEPT !.scan = Rest(p)]
<1>1. /\ At(p, "sweep") /\ writer = p
      /\ Write(p, b) /\ Become(p, state)
  BY DEF SweepOne, PvPInv, JobSound, At
<1>2. o \in Offers
  <2>1. job[p].scan \in SUBSET Nat /\ job[p].scan # {} /\ job[p].scan \in SUBSET Offers
    BY JobParts, PvPAssumption DEF SweepOne, PvPInv
  <2>. QED
    BY <2>1, MinOfNats
<1>3. state \in Job /\ state.step = "sweep"
  <2>1. Rest(p) \in SUBSET Offers
    BY JobParts DEF Rest, PvPInv
  <2>. QED
    BY <1>1, <2>1, JobParts DEF PvPInv, Job, At
<1>4. work \in Books /\ \A q \in Offers : Sound(work, q) /\ Ahead(db, work, q)
  BY <1>1, Holder DEF PvPInv, TypeOK, At
<1>5. /\ b \in Books /\ SameElsewhere(work, b, o)
      /\ Sound(b, o) /\ Ahead(work, b, o)
  BY <1>2, <1>4, Expiring
<1>. HIDE DEF b, state, o
<1>6. \A q \in Offers : Sound(b, q) /\ Ahead(work, b, q)
  BY <1>2, <1>4, <1>5, Elsewhere
<1>7. \A q \in Offers : Ahead(db, b, q)
  BY <1>4, <1>6, AheadChain
<1>8. PvPInv'
  BY <1>1, <1>3, <1>5, <1>6, <1>7, Working
<1>. QED
  BY <1>1, <1>8, Same DEF StepSound, Write

LEMMA DoneStep ==
  ASSUME PvPInv, NEW p \in Procs, SweepDone(p)
  PROVE  StepSound
<1>1. At(p, "sweep") /\ writer = p /\ Commit(p, work)
  BY DEF SweepDone, PvPInv, JobSound, At
<1>2. work \in Books /\ \A q \in Offers : Sound(work, q) /\ Ahead(db, work, q)
  BY <1>1, Holder DEF PvPInv, TypeOK, At
<1>. QED
  BY <1>1, <1>2, AheadSettles, CommitStep

-----------------------------------------------------------------------------
(* The rest of the economy, timeouts and crashes. *)

LEMMA AgeStep ==
  ASSUME PvPInv, NEW o \in Offers, Age(o)
  PROVE  StepSound
<1>1. /\ UNCHANGED <<db, work, writer, job>>
      /\ stale' \subseteq Offers
  BY DEF Age, PvPInv, TypeOK
<1>2. TypeOK'
  BY <1>1 DEF PvPInv, TypeOK
<1>3. PvPInv'
  BY <1>1, <1>2 DEF PvPInv, Unlocked, Sound, Accepting, Ahead, Stable, JobSound, At, Playing
<1>. QED
  BY <1>1, <1>3, Same DEF StepSound

\* Income and spending elsewhere touch a wallet and no offer.
WithWallet(b, u, w) == [b EXCEPT !.wallet[u] = w]

LEMMA WalletWrite ==
  ASSUME NEW b \in Books, NEW u \in Users, NEW w \in Wallets, NEW c, c = WithWallet(b, u, w)
  PROVE  c \in Books /\ c.offer = b.offer /\ c.stake = b.stake
<1>1. c = [wallet |-> [b.wallet EXCEPT ![u] = w], offer |-> b.offer, stake |-> b.stake,
           games |-> b.games, burned |-> b.burned]
  BY BookParts DEF WithWallet
<1>2. [b.wallet EXCEPT ![u] = w] \in [Users -> Wallets]
  BY BookParts
<1>. QED
  BY <1>1, <1>2, BookParts DEF Books

LEMMA FlowStep ==
  ASSUME PvPInv, NEW u \in Users, NEW w \in Wallets, Atomically(WithWallet(db, u, w))
  PROVE  StepSound
<1> DEFINE b == WithWallet(db, u, w)
<1>1. db \in Books /\ \A q \in Offers : Sound(db, q)
  BY Free DEF Atomically
<1>2. b \in Books /\ b.offer = db.offer /\ b.stake = db.stake
  BY <1>1, WalletWrite
<1>. HIDE DEF b
<1>3. \A q \in Offers : Sound(b, q) /\ Stable(db, b, q) /\ Settles(db, b, q)
  BY <1>1, <1>2 DEF Sound, Stable, Settles
<1>. QED
  BY <1>2, <1>3, AtomicStep DEF b

LEMMA EarnStep ==
  ASSUME PvPInv, NEW u \in Users, NEW amount \in Flows, Earn(u, amount)
  PROVE  StepSound
<1> DEFINE w == Credited(db.wallet[u], amount)
<1>1. Atomically(WithWallet(db, u, w)) /\ CanCredit(db.wallet[u], amount)
  BY DEF Earn, WithWallet
<1>2. db.wallet[u] \in Wallets /\ amount \in Nat
  BY PvPAssumption, BookParts DEF PvPInv, TypeOK
<1>3. w \in Wallets
  BY <1>1, <1>2, WalletWrites
<1>. HIDE DEF w
<1>. QED
  BY <1>1, <1>3, FlowStep

LEMMA SpendStep ==
  ASSUME PvPInv, NEW u \in Users, NEW amount \in Flows, Spend(u, amount)
  PROVE  StepSound
<1> DEFINE w == Debited(db.wallet[u], amount)
<1>1. Atomically(WithWallet(db, u, w)) /\ CanDebit(db.wallet[u], amount)
  BY DEF Spend, WithWallet
<1>2. db.wallet[u] \in Wallets /\ amount \in Nat
  BY PvPAssumption, BookParts DEF PvPInv, TypeOK
<1>3. w \in Wallets
  BY <1>1, <1>2, WalletWrites
<1>. HIDE DEF w
<1>. QED
  BY <1>1, <1>3, FlowStep

LEMMA BusyStep ==
  ASSUME PvPInv, NEW p \in Procs, BusyTimeout(p)
  PROVE  StepSound
<1>1. writer # p
  BY DEF BusyTimeout, PvPInv, JobSound
<1>2. Become(p, Idle) /\ UNCHANGED <<db, work, writer, stale>>
  BY DEF BusyTimeout
<1>3. PvPInv'
  BY <1>1, <1>2, IdleJob, JobMoves
<1>. QED
  BY <1>2, <1>3, Same DEF StepSound

LEMMA CrashStep ==
  ASSUME PvPInv, Crash
  PROVE  StepSound
<1>1. /\ db' = db /\ work' = db /\ writer' = None /\ stale' = stale
      /\ job' = [p \in Procs |-> Idle]
  BY DEF Crash
<1>2. db \in Books /\ \A q \in Offers : Sound(db, q) /\ Stable(db, db, q)
  BY Same DEF PvPInv, TypeOK
<1>3. PvPInv'
  BY <1>1, <1>2, Committing
<1>. QED
  BY <1>1, <1>3, Same DEF StepSound

-----------------------------------------------------------------------------
(* The theorems. *)

LEMMA InitHolds == Init => PvPInv
<1> SUFFICES ASSUME Init PROVE PvPInv
  OBVIOUS
<1> DEFINE ws == [u \in Users |-> Seeded(Welcome)]
           os == [o \in Offers |-> NoOffer]
           ss == [s \in Offers \X Seats |-> "none"]
           gs == [u \in Users |-> [played |-> 0, won |-> 0]]
<1>1. db = [wallet |-> ws, offer |-> os, stake |-> ss, games |-> gs, burned |-> 0]
  BY DEF Init
<1>2. ws \in [Users -> Wallets]
  BY PvPAssumption, MaxAmountAssumption DEF Seeded, Wallets
<1>3. NoOffer \in Offer /\ NoOffer.status = "none"
  BY DEF NoOffer, Offer, Statuses
<1>4. os \in [Offers -> Offer] /\ \A o \in Offers : os[o].status = "none"
  BY <1>3
<1>5. /\ ss \in [Offers \X Seats -> {"none", "held", "released", "refunded"}]
      /\ \A o \in Offers : ss[<<o, "creator">>] = "none" /\ ss[<<o, "opponent">>] = "none"
  BY TwoSeats
<1>6. gs \in [Users -> [played : Nat, won : Nat]]
  OBVIOUS
<1>. HIDE DEF ws, os, ss, gs
<1>7. db \in Books /\ db.offer = os /\ db.stake = ss
  BY <1>1, <1>2, <1>4, <1>5, <1>6 DEF Books
<1>8. work = db /\ writer = None /\ stale = {} /\ job = [p \in Procs |-> Idle]
  BY DEF Init
<1>9. TypeOK
  BY <1>7, <1>8, IdleJob DEF TypeOK
<1>10. \A o \in Offers : Sound(db, o) /\ Ahead(db, work, o)
  BY <1>4, <1>5, <1>7, <1>8, Same DEF Sound
<1>11. \A p \in Procs : JobSound(p)
  BY <1>8, IdleJob, ProcIsNotNone DEF JobSound, At
<1>. QED
  BY <1>8, <1>9, <1>10, <1>11 DEF PvPInv

LEMMA StepHolds ==
  ASSUME PvPInv, [Next]_vars
  PROVE  StepSound
<1>1. ASSUME NEW u \in Users, NEW bet \in Bets, NEW game \in Games, CreateOffer(u, bet, game)
      PROVE  StepSound
  BY <1>1, CreateStep
<1>2. ASSUME NEW p \in Procs, Accept(p)
      PROVE  StepSound
  BY <1>2, ReadStep, ClaimStep, ResolveStep, ExpireStep DEF Accept
<1>3. ASSUME NEW p \in Procs, Sweep(p)
      PROVE  StepSound
  BY <1>3, ListStep, LockStep, SweepStep, DoneStep DEF Sweep
<1>4. ASSUME NEW p \in Procs, BusyTimeout(p)
      PROVE  StepSound
  BY <1>4, BusyStep
<1>5. ASSUME NEW o \in Offers, Cancel(o) \/ Age(o)
      PROVE  StepSound
  BY <1>5, CancelStep, AgeStep
<1>6. ASSUME NEW u \in Users, NEW amount \in Flows, Earn(u, amount) \/ Spend(u, amount)
      PROVE  StepSound
  BY <1>6, EarnStep, SpendStep
<1>7. CASE Crash
  BY <1>7, CrashStep
<1>8. CASE UNCHANGED vars
  <2>1. PvPInv'
    BY <1>8 DEF vars, PvPInv, TypeOK, Unlocked, Sound, Accepting, Ahead, Stable, JobSound, At,
                Playing
  <2>. QED
    BY <1>8, <2>1, Same DEF vars, StepSound
<1>. QED
  BY <1>1, <1>2, <1>3, <1>4, <1>5, <1>6, <1>7, <1>8 DEF Next

LEMMA PvPInvariant == Spec => []PvPInv
<1>1. PvPInv /\ [Next]_vars => PvPInv'
  BY StepHolds DEF StepSound
<1>. QED
  BY InitHolds, <1>1, PTL DEF Spec

\* Every balance stays in 0.._MAX_AMOUNT, in the file and in the copy of the
\* process that writes, and the rake that is burned is never negative.
THEOREM TypeCorrect == Spec => []TypeOK
<1>1. PvPInv => TypeOK
  BY DEF PvPInv
<1>. QED
  BY PvPInvariant, <1>1, PTL

\* The escrow rows follow the offer, and no accept is ever left half done,
\* whatever meets at the deadline.
THEOREM StakesAlwaysFollow == Spec => []StakesFollowTheOffer
<1>1. PvPInv => StakesFollowTheOffer
  BY DEF PvPInv, Sound, StakesFollowTheOffer
<1>. QED
  BY PvPInvariant, <1>1, PTL

\* The creators' stakes implement the escrow promise: each is paid into a pot or
\* returned, once.
THEOREM OffersImplementEscrow == Spec => SettledOnce
<1>1. Init => E!Init
  BY DEF Init, E!Init, EscrowState, NoOffer, Seats
<1>2. ASSUME PvPInv, [Next]_vars PROVE [E!Next]_EscrowState
  <2>1. EscrowState' = [o \in Offers |-> EscrowState'[o]]
    BY DEF EscrowState
  <2>2. ASSUME NEW o \in Offers
        PROVE  \/ EscrowState'[o] = EscrowState[o]
               \/ <<EscrowState[o], EscrowState'[o]>> \in E!Moves
    <3>1. Settles(db, db', o)
      BY <1>2, StepHolds DEF StepSound
    <3>2. db.stake[<<o, "creator">>] \in {"none", "held", "released", "refunded"}
      BY <1>2, BookParts, TwoSeats DEF PvPInv, TypeOK
    <3>. QED
      BY <3>1, <3>2 DEF EscrowState, E!Moves, Settles
  <2>. QED
    BY <2>1, <2>2 DEF E!Next
<1>. QED
  BY <1>1, <1>2, PvPInvariant, PTL DEF Spec, SettledOnce, E!Spec

-----------------------------------------------------------------------------
(* The coins: what a transaction does to the wallets, the stakes and the    *)
(* game counters together.                                                  *)

Rows == Offers \X Seats
HeldRows(b, u) == {s \in Rows : b.stake[s] = "held" /\ User(b.offer[s[1]], s[2]) = u}
Sizes(b) == [s \in Rows |-> b.offer[s[1]].bet]

Backed(b, u) ==
  b.wallet[u].balance + SumOver(Sizes(b), HeldRows(b, u)) = Worth(b.wallet[u], Welcome)

Done(b, u, seat) == {o \in Offers : b.offer[o].status = "finished" /\ User(b.offer[o], seat) = u}
WonBy(b, u) == {s \in Rows : s[1] \in Done(b, u, s[2]) /\ b.offer[s[1]].winner = s[2]}

Counted(b, u) ==
  /\ b.games[u].played = Cardinality(Done(b, u, "creator")) + Cardinality(Done(b, u, "opponent"))
  /\ b.games[u].won = Cardinality(WonBy(b, u))

Agree(b) == \A u \in Users : Backed(b, u) /\ Counted(b, u)

\* What a user owns beside what his counters say.
Net(w) == w.balance - w.earned + w.spent

Owed(b, u, s) == IF s \in HeldRows(b, u) THEN b.offer[s[1]].bet ELSE 0

\* Of the rows held for u only x moved, and his wallet with it.
Trade(b, c, u, x) ==
  /\ \A s \in Rows \ {x} : /\ s \in HeldRows(b, u) <=> s \in HeldRows(c, u)
                           /\ s \in HeldRows(b, u) => c.offer[s[1]].bet = b.offer[s[1]].bet
  /\ Net(c.wallet[u]) + Owed(c, u, x) = Net(b.wallet[u]) + Owed(b, u, x)

LEMMA WalletParts ==
  ASSUME NEW b \in Books, NEW u \in Users
  PROVE  /\ b.wallet[u] \in Wallets
         /\ b.wallet[u].balance \in Int /\ b.wallet[u].balance \in Nat
         /\ b.wallet[u].earned \in Nat /\ b.wallet[u].spent \in Nat
<1>1. b.wallet[u] \in Wallets
  BY BookParts
<1>. QED
  BY <1>1, MaxAmountAssumption DEF Wallets

LEMMA RowsFinite == IsFiniteSet(Rows)
<1>1. IsFiniteSet(Offers)
  BY PvPAssumption
<1>2. IsFiniteSet({"creator"} \cup {"opponent"})
  BY FS_Singleton, FS_AddElement
<1>3. Seats = {"creator"} \cup {"opponent"}
  BY DEF Seats
<1>. QED
  BY <1>1, <1>2, <1>3, FS_Product DEF Rows

LEMMA TradeBacks ==
  ASSUME NEW b \in Books, NEW c \in Books, NEW u \in Users, NEW x \in Rows,
         Trade(b, c, u, x), Backed(b, u)
  PROVE  Backed(c, u)
<1> DEFINE f == Sizes(b)
           g == Sizes(c)
           A == HeldRows(b, u)
           B == HeldRows(c, u)
<1>1. IsFiniteSet(Rows)
  BY RowsFinite
<1>2. A \in SUBSET Rows /\ B \in SUBSET Rows
  BY DEF HeldRows
<1>3. \A s \in Rows : f[s] = b.offer[s[1]].bet /\ f[s] \in Int /\ g[s] = c.offer[s[1]].bet /\ g[s] \in Int
  BY OfferParts DEF Sizes, Rows
<1>4. \A y \in Rows : y # x => /\ y \in A <=> y \in B
                               /\ y \in A => g[y] = f[y]
  BY <1>3 DEF Trade
<1>5. /\ Owed(b, u, x) = IF x \in A THEN f[x] ELSE 0
      /\ Owed(c, u, x) = IF x \in B THEN g[x] ELSE 0
  BY <1>3 DEF Owed
<1>6. /\ b.wallet[u].balance + SumOver(f, A) = Worth(b.wallet[u], Welcome)
      /\ Net(c.wallet[u]) + Owed(c, u, x) = Net(b.wallet[u]) + Owed(b, u, x)
  BY DEF Backed, Trade
<1>. HIDE DEF f, g, A, B
<1>7. (\A y \in A : f[y] \in Int) /\ (\A y \in B : g[y] \in Int)
  BY <1>2, <1>3
<1>8. SumOver(f, A) \in Int /\ SumOver(g, B) \in Int
  <2>1. IsFiniteSet(A) /\ IsFiniteSet(B) /\ A \in SUBSET A /\ B \in SUBSET B
    BY <1>1, <1>2, FS_Subset
  <2>. QED
    BY <1>7, <2>1, SumInt
<1>9. SumOver(g, B) = SumOver(f, A) + (IF x \in B THEN g[x] ELSE 0)
                                    - (IF x \in A THEN f[x] ELSE 0)
  BY <1>1, <1>2, <1>4, <1>7, SumOfRows
<1>10. f[x] \in Int /\ g[x] \in Int
  BY <1>3
<1>11. c.wallet[u].balance + SumOver(g, B) = Worth(c.wallet[u], Welcome)
  <2>1. Welcome \in Int
    BY PvPAssumption, MaxAmountAssumption
  <2>2. /\ Owed(b, u, x) \in Int /\ Owed(c, u, x) \in Int
        /\ SumOver(g, B) = SumOver(f, A) + Owed(c, u, x) - Owed(b, u, x)
    BY <1>5, <1>8, <1>9, <1>10
  <2>. QED
    BY <1>6, <1>8, <2>1, <2>2, WalletParts DEF Net, Worth
<1>. QED
  BY <1>11 DEF Backed, g, B

\* No offer was finished, and the finished ones stay as they were.
LEMMA CountKept ==
  ASSUME NEW b \in Books, NEW c \in Books, c.games = b.games,
         \A o \in Offers : \/ c.offer[o] = b.offer[o]
                           \/ b.offer[o].status # "finished" /\ c.offer[o].status # "finished",
         NEW u \in Users, Counted(b, u)
  PROVE  Counted(c, u)
<1>1. \A seat : Done(c, u, seat) = Done(b, u, seat)
  BY DEF Done
<1>2. WonBy(c, u) = WonBy(b, u)
  BY <1>1 DEF WonBy, Done, Rows
<1>. QED
  BY <1>1, <1>2 DEF Counted

\* One offer was finished: its players have played one more, its winner has won.
LEMMA CountScored ==
  ASSUME NEW b \in Books, NEW c \in Books, NEW o \in Offers, NEW winner \in Seats \cup {"none"},
         Playing(b, o), Scored(b, c, o, winner), NEW u \in Users, Counted(b, u)
  PROVE  Counted(c, u)
<1> DEFINE row == b.offer[o]
<1>1. /\ row.status # "finished" /\ row.creator # row.opponent
      /\ c.offer[o].status = "finished" /\ c.offer[o].winner = winner
      /\ c.offer[o].creator = row.creator /\ c.offer[o].opponent = row.opponent
      /\ \A q \in Offers \ {o} : c.offer[q] = b.offer[q]
  <2>1. row \in Offer
    BY OfferParts
  <2>2. c.offer = [b.offer EXCEPT ![o] = Finished(row, winner)]
    BY DEF Scored
  <2>3. /\ Finished(row, winner).status = "finished" /\ Finished(row, winner).winner = winner
        /\ Finished(row, winner).creator = row.creator
        /\ Finished(row, winner).opponent = row.opponent
    BY <2>1 DEF Finished, Offer
  <2>. QED
    BY <2>2, <2>3, BookParts DEF Playing
<1>. HIDE DEF row
<1>2. ASSUME NEW seat \in Seats
      PROVE  /\ Cardinality(Done(b, u, seat)) \in Nat
             /\ Cardinality(Done(c, u, seat)) = Cardinality(Done(b, u, seat))
                  + (IF User(row, seat) = u THEN 1 ELSE 0)
  <2> DEFINE A == Done(b, u, seat)
             B == Done(c, u, seat)
  <2>1. /\ A \in SUBSET Offers /\ B \in SUBSET Offers
        /\ \A q \in Offers : q # o => (q \in A <=> q \in B)
        /\ o \notin A /\ (o \in B <=> User(row, seat) = u)
    BY <1>1 DEF Done, User, row
  <2>2. IsFiniteSet(Offers)
    BY PvPAssumption
  <2>. HIDE DEF A, B
  <2>3. /\ Cardinality(A) \in Nat /\ Cardinality(B) \in Nat
        /\ Cardinality(B) = Cardinality(A) + (IF o \in B THEN 1 ELSE 0)
                                           - (IF o \in A THEN 1 ELSE 0)
    BY <2>1, <2>2, CountOfRows
  <2>. QED
    BY <2>1, <2>3 DEF A, B
<1>3. /\ Cardinality(WonBy(b, u)) \in Nat
      /\ Cardinality(WonBy(c, u)) = Cardinality(WonBy(b, u))
           + (IF winner \in Seats /\ User(row, winner) = u THEN 1 ELSE 0)
  <2> DEFINE A == WonBy(b, u)
             B == WonBy(c, u)
  <2>0. IsFiniteSet(Rows) /\ A \in SUBSET Rows /\ B \in SUBSET Rows
    BY RowsFinite DEF WonBy
  <2>1. CASE winner \in Seats
    <3> DEFINE x == <<o, winner>>
    <3>1. /\ x \in Rows
          /\ \A s \in Rows : s # x => (s \in A <=> s \in B)
          /\ x \notin A /\ (x \in B <=> User(row, winner) = u)
      BY <1>1, <2>1 DEF WonBy, Done, User, Rows, row
    <3>. HIDE DEF A, B, x
    <3>2. /\ Cardinality(A) \in Nat /\ Cardinality(B) \in Nat
          /\ Cardinality(B) = Cardinality(A) + (IF x \in B THEN 1 ELSE 0)
                                             - (IF x \in A THEN 1 ELSE 0)
      BY <2>0, <3>1, CountOfRows
    <3>. QED
      BY <2>1, <3>1, <3>2 DEF A, B
  <2>2. CASE winner \notin Seats
    <3>1. A = B
      BY <1>1, <2>2 DEF WonBy, Done, User, Rows, row
    <3>2. Cardinality(A) \in Nat
      BY <2>0, FS_Subset, FS_CardinalityType
    <3>. QED
      BY <2>2, <3>1, <3>2
  <2>. QED
    BY <2>1, <2>2
<1>4. b.games[u].played \in Nat /\ b.games[u].won \in Nat
  BY BookParts
<1>5. /\ b.games[u].played = Cardinality(Done(b, u, "creator"))
                             + Cardinality(Done(b, u, "opponent"))
      /\ b.games[u].won = Cardinality(WonBy(b, u))
  BY DEF Counted
<1>6. /\ Cardinality(Done(c, u, "creator")) = Cardinality(Done(b, u, "creator"))
           + (IF row.creator = u THEN 1 ELSE 0)
      /\ Cardinality(Done(c, u, "opponent")) = Cardinality(Done(b, u, "opponent"))
           + (IF row.opponent = u THEN 1 ELSE 0)
      /\ Cardinality(Done(b, u, "creator")) \in Nat /\ Cardinality(Done(b, u, "opponent")) \in Nat
  BY <1>2, TwoSeats DEF User
<1>7. CASE u = row.creator
  <2>1. GamePlayed(b, c, u, TRUE, winner = "creator")
    BY <1>7 DEF Scored, row
  <2>2. (winner \in Seats /\ User(row, winner) = u) <=> winner = "creator"
    BY <1>1, <1>7 DEF User, Seats, row
  <2>. QED
    BY <1>1, <1>3, <1>4, <1>5, <1>6, <1>7, <2>1, <2>2 DEF GamePlayed, Counted
<1>8. CASE u = row.opponent
  <2>1. GamePlayed(b, c, u, TRUE, winner = "opponent")
    BY <1>8 DEF Scored, row
  <2>2. (winner \in Seats /\ User(row, winner) = u) <=> winner = "opponent"
    BY <1>1, <1>8 DEF User, Seats, row
  <2>. QED
    BY <1>1, <1>3, <1>4, <1>5, <1>6, <1>8, <2>1, <2>2 DEF GamePlayed, Counted
<1>9. CASE u # row.creator /\ u # row.opponent
  <2>1. c.games[u] = b.games[u]
    BY <1>9 DEF Scored, row
  <2>2. ~ (winner \in Seats /\ User(row, winner) = u)
    BY <1>9 DEF User
  <2>. QED
    BY <1>3, <1>4, <1>5, <1>6, <1>9, <2>1, <2>2 DEF Counted
<1>. QED
  BY <1>7, <1>8, <1>9

-----------------------------------------------------------------------------
(* Each write on the books, as a trade.                                     *)

\* The lifetime counters stand still, and nothing is burned.
Quiet(b, c) ==
  /\ \A u \in Users : /\ c.wallet[u].earned = b.wallet[u].earned
                      /\ c.wallet[u].spent = b.wallet[u].spent
  /\ c.burned = b.burned

Other(seat) == IF seat = "creator" THEN "opponent" ELSE "creator"

\* A stake is held for u, or given back to him, and his balance pays or gets it.
Exchange(b, u, w, o, row, seat, s) ==
  /\ b.offer[o].status # "finished" /\ row.status # "finished"
  /\ \/ /\ row.bet = b.offer[o].bet
        /\ User(row, Other(seat)) = User(b.offer[o], Other(seat))
     \/ b.stake[<<o, Other(seat)>>] # "held"
  /\ s = "held" => User(row, seat) = u
  /\ b.stake[<<o, seat>>] = "held" => User(b.offer[o], seat) = u
  /\ w.earned = b.wallet[u].earned /\ w.spent = b.wallet[u].spent
  /\ w.balance + (IF s = "held" THEN row.bet ELSE 0) = b.wallet[u].balance
       + (IF b.stake[<<o, seat>>] = "held" THEN b.offer[o].bet ELSE 0)

LEMMA ExchangeAgrees ==
  ASSUME NEW b \in Books, Agree(b), NEW c, NEW u \in Users, NEW w \in Wallets, NEW o \in Offers,
         NEW row \in Offer, NEW seat \in Seats,
         NEW s \in {"none", "held", "released", "refunded"},
         Wrote(b, c, u, w, o, row, seat, s), Exchange(b, u, w, o, row, seat, s)
  PROVE  Agree(c) /\ Quiet(b, c)
<1> DEFINE x == <<o, seat>>
<1>1. /\ c \in Books /\ c.offer[o] = row /\ c.games = b.games /\ c.burned = b.burned
      /\ \A q \in Offers \ {o} : c.offer[q] = b.offer[q]
  <2>1. c \in Books /\ SameElsewhere(b, c, o) /\ c.offer[o] = row
    <3>0. c.offer[o] = row
      BY BookParts DEF Wrote
    <3>1. CASE s = "none"
      <4>1. c \in Books BY <3>1, Writing
      <4>2. SameElsewhere(b, c, o) BY <3>1, Writing
      <4>. QED BY <3>0, <4>1, <4>2
    <3>2. CASE s = "held"
      <4>1. c \in Books BY <3>2, Writing
      <4>2. SameElsewhere(b, c, o) BY <3>2, Writing
      <4>. QED BY <3>0, <4>1, <4>2
    <3>3. CASE s = "released"
      <4>1. c \in Books BY <3>3, Writing
      <4>2. SameElsewhere(b, c, o) BY <3>3, Writing
      <4>. QED BY <3>0, <4>1, <4>2
    <3>4. CASE s = "refunded"
      <4>1. c \in Books BY <3>4, Writing
      <4>2. SameElsewhere(b, c, o) BY <3>4, Writing
      <4>. QED BY <3>0, <4>1, <4>2
    <3>. QED
      BY <3>1, <3>2, <3>3, <3>4
  <2>2. c.games = b.games /\ c.burned = b.burned
    BY DEF Wrote
  <2>. QED
    BY <2>1, <2>2 DEF SameElsewhere
<1>2. \A v \in Users : c.wallet[v] = IF v = u THEN w ELSE b.wallet[v]
  BY BookParts DEF Wrote
<1>3. \A y \in Rows : c.stake[y] = IF y = x THEN s ELSE b.stake[y]
  BY BookParts DEF Wrote, Rows
<1>4. x \in Rows /\ x[1] = o /\ x[2] = seat
  BY DEF Rows
<1>5. \A y \in Rows \ {x} : y[1] \in Offers /\ (y[1] = o => y[2] = Other(seat) /\ y = <<o, Other(seat)>>)
  BY DEF Rows, Seats, Other
<1>6. row.bet \in Nat /\ b.offer[o].bet \in Nat
  BY OfferParts DEF Offer
<1>. HIDE DEF x
<1>7. ASSUME NEW v \in Users PROVE Trade(b, c, v, x)
  <2>1. ASSUME NEW y \in Rows \ {x}
        PROVE  /\ y \in HeldRows(b, v) <=> y \in HeldRows(c, v)
               /\ y \in HeldRows(b, v) => c.offer[y[1]].bet = b.offer[y[1]].bet
    <3>0. y[1] \in Offers /\ c.stake[y] = b.stake[y] /\ y \in Rows
      BY <1>3, <1>5
    <3>1. CASE y[1] # o
      <4>1. c.offer[y[1]] = b.offer[y[1]]
        BY <1>1, <3>0, <3>1
      <4>. QED
        BY <3>0, <4>1 DEF HeldRows
    <3>2. CASE y[1] = o
      <4>1. y[2] = Other(seat) /\ y = <<o, Other(seat)>>
        BY <1>5, <3>2
      <4>2. CASE row.bet = b.offer[o].bet /\ User(row, Other(seat)) = User(b.offer[o], Other(seat))
        BY <1>1, <3>0, <3>2, <4>1, <4>2 DEF HeldRows
      <4>3. CASE b.stake[<<o, Other(seat)>>] # "held"
        BY <3>0, <4>1, <4>3 DEF HeldRows
      <4>. QED
        BY <4>2, <4>3 DEF Exchange
    <3>. QED
      BY <3>1, <3>2
  <2>2. /\ Owed(c, v, x) = IF s = "held" /\ User(row, seat) = v THEN row.bet ELSE 0
        /\ Owed(b, v, x) = IF b.stake[x] = "held" /\ User(b.offer[o], seat) = v
                           THEN b.offer[o].bet ELSE 0
    BY <1>1, <1>3, <1>4 DEF Owed, HeldRows
  <2>3. Net(c.wallet[v]) + Owed(c, v, x) = Net(b.wallet[v]) + Owed(b, v, x)
    <3>1. CASE v = u
      <4>1. /\ Owed(c, v, x) = IF s = "held" THEN row.bet ELSE 0
            /\ Owed(b, v, x) = IF b.stake[x] = "held" THEN b.offer[o].bet ELSE 0
            /\ c.wallet[v] = w
            /\ w.earned = b.wallet[v].earned /\ w.spent = b.wallet[v].spent
            /\ w.balance + (IF s = "held" THEN row.bet ELSE 0) = b.wallet[v].balance
                 + (IF b.stake[x] = "held" THEN b.offer[o].bet ELSE 0)
        BY <1>2, <2>2, <3>1 DEF Exchange, x
      <4>2. /\ b.wallet[v].balance \in Int /\ b.wallet[v].earned \in Nat
            /\ b.wallet[v].spent \in Nat /\ w.balance \in Int
        BY <1>1, <4>1, WalletParts
      <4>. QED
        BY <1>6, <4>1, <4>2 DEF Net
    <3>2. CASE v # u
      <4>1. Owed(c, v, x) = 0 /\ Owed(b, v, x) = 0 /\ c.wallet[v] = b.wallet[v]
        BY <1>2, <2>2, <3>2 DEF Exchange, x
      <4>. QED
        BY <4>1
    <3>. QED
      BY <3>1, <3>2
  <2>. QED
    BY <2>1, <2>3 DEF Trade
<1>8. ASSUME NEW v \in Users PROVE Backed(c, v)
  BY <1>1, <1>4, <1>7, TradeBacks DEF Agree
<1>9. ASSUME NEW v \in Users PROVE Counted(c, v)
  <2>1. \A q \in Offers : \/ c.offer[q] = b.offer[q]
                          \/ b.offer[q].status # "finished" /\ c.offer[q].status # "finished"
    BY <1>1 DEF Exchange
  <2>. QED
    BY <1>1, <2>1, CountKept DEF Agree
<1>10. Quiet(b, c)
  BY <1>1, <1>2 DEF Quiet, Exchange
<1>. QED
  BY <1>8, <1>9, <1>10 DEF Agree

LEMMA QuietSame == \A b : Quiet(b, b)
  BY DEF Quiet

LEMMA QuietChain ==
  ASSUME NEW a, NEW b, NEW c, Quiet(a, b), Quiet(b, c) PROVE Quiet(a, c)
  BY DEF Quiet

LEMMA RetiringAgrees ==
  ASSUME NEW b \in Books, Agree(b), NEW o \in Offers, NEW status \in {"cancelled", "expired"},
         b.offer[o].status = "pending", Sound(b, o),
         NEW c, c = Retired(b, o, status)
  PROVE  Agree(c) /\ Quiet(b, c)
<1> DEFINE u == b.offer[o].creator
           w == Released(b.wallet[u], b.offer[o].bet)
           row == Retire(b.offer[o], status)
<1>1. CASE ~ CanCredit(b.wallet[u], b.offer[o].bet)
  BY <1>1, QuietSame DEF Retired, RefundFailed
<1>2. CASE CanCredit(b.wallet[u], b.offer[o].bet)
  <2>1. u \in Users /\ b.offer[o] \in Offer /\ b.offer[o].bet \in Nat
    BY OfferParts DEF Sound
  <2>2. row \in Offer /\ w \in Wallets /\ Wrote(b, c, u, w, o, row, "creator", "refunded")
    BY <1>2, <2>1, RetireWrites
  <2>3. /\ row.status = status /\ row.creator = u /\ row.bet = b.offer[o].bet
        /\ row.opponent = b.offer[o].opponent
    BY <2>1 DEF Offer, Retire
  <2>4. /\ w.balance = b.wallet[u].balance + b.offer[o].bet
        /\ w.earned = b.wallet[u].earned /\ w.spent = b.wallet[u].spent
    BY <2>1, WalletParts DEF Released, Wallets
  <2>5. b.stake[<<o, "creator">>] = "held" /\ b.wallet[u].balance \in Int
    BY <2>1, WalletParts DEF Sound
  <2>6. Exchange(b, u, w, o, row, "creator", "refunded")
    <3>. HIDE DEF w, row
    <3>. QED
      BY <2>1, <2>3, <2>4, <2>5 DEF Exchange, User, Other
  <2>. HIDE DEF w, row, u
  <2>. QED
    BY <2>1, <2>2, <2>6, TwoSeats, ExchangeAgrees
<1>. QED
  BY <1>1, <1>2

LEMMA ExpiringAgrees ==
  ASSUME NEW b \in Books, Agree(b), NEW o \in Offers, Sound(b, o), NEW c, c = Expired(b, o)
  PROVE  Agree(c) /\ Quiet(b, c)
<1>1. CASE b.offer[o].status = "pending"
  BY <1>1, RetiringAgrees DEF Expired
<1>2. CASE b.offer[o].status # "pending"
  BY <1>2, QuietSame DEF Expired
<1>. QED
  BY <1>1, <1>2

LEMMA CreatingAgrees ==
  ASSUME NEW b \in Books, Agree(b), NEW o \in Offers, Sound(b, o), b.offer[o].status = "none",
         NEW u \in Users, NEW row \in Offer, row.status = "pending", row.creator = u,
         CanDebit(b.wallet[u], row.bet), NEW w, w = Held(b.wallet[u], row.bet),
         NEW c, Wrote(b, c, u, w, o, row, "creator", "held")
  PROVE  Agree(c) /\ Quiet(b, c)
<1>1. row.bet \in Nat /\ b.wallet[u] \in Wallets
  BY WalletParts DEF Offer
<1>2. w \in Wallets
  BY <1>1, WalletWrites
<1>3. /\ w.balance = b.wallet[u].balance - row.bet
      /\ w.earned = b.wallet[u].earned /\ w.spent = b.wallet[u].spent
      /\ b.wallet[u].balance \in Int
  BY <1>1, WalletParts DEF Held, Wallets
<1>4. b.stake[<<o, "creator">>] = "none" /\ b.stake[<<o, "opponent">>] = "none"
  BY DEF Sound
<1>5. Exchange(b, u, w, o, row, "creator", "held")
  BY <1>1, <1>3, <1>4 DEF Exchange, User, Other
<1>. QED
  BY <1>2, <1>5, TwoSeats, ExchangeAgrees

LEMMA ClaimingAgrees ==
  ASSUME NEW b \in Books, Agree(b), NEW o \in Offers, Sound(b, o), Claimable(b, o),
         NEW u \in Users, CanDebit(b.wallet[u], b.offer[o].bet),
         NEW w, w = Held(b.wallet[u], b.offer[o].bet),
         NEW c, Wrote(b, c, u, w, o, Taken(b.offer[o], u), "opponent", "held")
  PROVE  Agree(c) /\ Quiet(b, c)
<1> DEFINE row == Taken(b.offer[o], u)
<1>1. b.offer[o].bet \in Nat /\ b.wallet[u] \in Wallets
  BY OfferParts, WalletParts
<1>2. w \in Wallets
  BY <1>1, WalletWrites
<1>3. /\ w.balance = b.wallet[u].balance - b.offer[o].bet
      /\ w.earned = b.wallet[u].earned /\ w.spent = b.wallet[u].spent
      /\ b.wallet[u].balance \in Int
  BY <1>1, WalletParts DEF Held, Wallets
<1>4. /\ row \in Offer /\ row.status = "active" /\ row.opponent = u
      /\ row.creator = b.offer[o].creator /\ row.bet = b.offer[o].bet
  BY OfferParts DEF Offer, Statuses, Taken
<1>5. b.offer[o].status = "pending" /\ b.stake[<<o, "opponent">>] = "none"
  <2>1. b.stake[<<o, "opponent">>] = "none"
    BY DEF Claimable, Sound
  <2>. QED
    BY <2>1 DEF Claimable
<1>. HIDE DEF row
<1>6. Exchange(b, u, w, o, row, "opponent", "held")
  BY <1>1, <1>3, <1>4, <1>5 DEF Exchange, User, Other
<1>. QED
  BY <1>2, <1>4, <1>6, TwoSeats, ExchangeAgrees DEF row

-----------------------------------------------------------------------------
(* The results of a game, in coins.                                         *)

\* A seat's stake is settled: whoever sat there is worth as much as before.
Due(b, o, u) ==
  IF u \in {b.offer[o].creator, b.offer[o].opponent} THEN b.offer[o].bet ELSE 0

LEMMA EndedBacks ==
  ASSUME NEW b \in Books, NEW c \in Books, NEW o \in Offers, Playing(b, o),
         SameElsewhere(b, c, o), NEW s \in {"released", "refunded"},
         c.stake[<<o, "creator">>] = s, c.stake[<<o, "opponent">>] = s,
         NEW u \in Users, Net(c.wallet[u]) = Net(b.wallet[u]) + Due(b, o, u), Backed(b, u)
  PROVE  Backed(c, u)
<1> DEFINE row == b.offer[o]
           seat == IF u = row.opponent THEN "opponent" ELSE "creator"
           x == <<o, seat>>
<1>1. /\ row.bet \in Nat /\ row.creator # row.opponent
      /\ b.stake[<<o, "creator">>] = "held" /\ b.stake[<<o, "opponent">>] = "held"
  BY OfferParts DEF Playing
<1>2. seat \in Seats /\ x \in Rows /\ x[1] = o /\ x[2] = seat
  BY DEF Seats, Rows
<1>3. \A y \in Rows : y[1] = o => y \in {<<o, "creator">>, <<o, "opponent">>}
  BY DEF Rows, Seats
<1>4. \A y \in Rows : y[1] # o => /\ y[1] \in Offers
                                  /\ c.offer[y[1]] = b.offer[y[1]] /\ c.stake[y] = b.stake[y]
  <2> SUFFICES ASSUME NEW q \in Offers \ {o}, NEW t \in Seats
               PROVE  c.offer[q] = b.offer[q] /\ c.stake[<<q, t>>] = b.stake[<<q, t>>]
    BY DEF Rows
  <2>1. /\ c.offer[q] = b.offer[q]
        /\ c.stake[<<q, "creator">>] = b.stake[<<q, "creator">>]
        /\ c.stake[<<q, "opponent">>] = b.stake[<<q, "opponent">>]
    BY DEF SameElsewhere
  <2>. QED
    BY <2>1 DEF Seats
<1>5. b.stake[x] = "held" /\ c.stake[x] # "held"
  BY <1>1
<1>6. ASSUME NEW y \in Rows \ {x}
      PROVE  /\ y \in HeldRows(b, u) <=> y \in HeldRows(c, u)
             /\ y \in HeldRows(b, u) => c.offer[y[1]].bet = b.offer[y[1]].bet
  <2>1. CASE y[1] # o
    BY <1>4, <2>1 DEF HeldRows
  <2>2. CASE y[1] = o
    <3>1. y \notin HeldRows(c, u)
      BY <1>3, <2>2 DEF HeldRows
    <3>2. y \notin HeldRows(b, u)
      BY <1>1, <1>3, <2>2 DEF HeldRows, User
    <3>. QED
      BY <3>1, <3>2
  <2>. QED
    BY <2>1, <2>2
<1>7. Owed(c, u, x) = 0 /\ Owed(b, u, x) = Due(b, o, u)
  BY <1>1, <1>2, <1>5 DEF Owed, HeldRows, Due, User
<1>8. Trade(b, c, u, x)
  <2>1. Net(c.wallet[u]) \in Int /\ Net(b.wallet[u]) \in Int
    BY WalletParts DEF Net
  <2>. HIDE DEF x
  <2>. QED
    BY <1>6, <1>7, <2>1 DEF Trade
<1>. HIDE DEF x
<1>. QED
  BY <1>2, <1>8, TradeBacks

LEMMA TyingAgrees ==
  ASSUME NEW b \in Books, Agree(b), NEW o \in Offers, Playing(b, o), NEW c \in Books,
         SameElsewhere(b, c, o), Ended(b, c, o, "refunded", "none"), GivesBack(b, c, o)
  PROVE  Agree(c) /\ Quiet(b, c)
<1> DEFINE row == b.offer[o]
<1>1. /\ row.bet \in Nat /\ row.creator \in Users /\ row.opponent \in Users
      /\ row.creator # row.opponent
  BY OfferParts DEF Playing
<1>2. c.wallet = [b.wallet EXCEPT ![row.creator] = Released(b.wallet[row.creator], row.bet),
                                  ![row.opponent] = Released(b.wallet[row.opponent], row.bet)]
      /\ c.burned = b.burned
  BY DEF GivesBack
<1>. HIDE DEF row
<1>3. ASSUME NEW v \in Users
      PROVE  c.wallet[v] = IF v \in {row.creator, row.opponent}
                           THEN Released(b.wallet[v], row.bet) ELSE b.wallet[v]
  BY <1>1, <1>2, BookParts
<1>4. ASSUME NEW v \in Users
      PROVE  /\ c.wallet[v].earned = b.wallet[v].earned /\ c.wallet[v].spent = b.wallet[v].spent
             /\ Net(c.wallet[v]) = Net(b.wallet[v]) + Due(b, o, v)
  <2>1. /\ b.wallet[v] \in Wallets /\ b.wallet[v].balance \in Int
        /\ b.wallet[v].earned \in Nat /\ b.wallet[v].spent \in Nat
    BY WalletParts
  <2>2. /\ Released(b.wallet[v], row.bet).earned = b.wallet[v].earned
        /\ Released(b.wallet[v], row.bet).spent = b.wallet[v].spent
        /\ Released(b.wallet[v], row.bet).balance = b.wallet[v].balance + row.bet
    BY <2>1 DEF Released, Wallets
  <2>3. CASE v \in {row.creator, row.opponent}
    <3>1. c.wallet[v] = Released(b.wallet[v], row.bet) /\ Due(b, o, v) = row.bet
      BY <1>3, <2>3 DEF Due, row
    <3>. QED
      BY <1>1, <2>1, <2>2, <3>1 DEF Net
  <2>4. CASE v \notin {row.creator, row.opponent}
    <3>1. c.wallet[v] = b.wallet[v] /\ Due(b, o, v) = 0
      BY <1>3, <2>4 DEF Due, row
    <3>. QED
      BY <2>1, <3>1 DEF Net
  <2>. QED
    BY <2>3, <2>4
<1>5. /\ c.stake[<<o, "creator">>] = "refunded" /\ c.stake[<<o, "opponent">>] = "refunded"
      /\ Scored(b, c, o, "none")
  BY DEF Ended
<1>6. ASSUME NEW v \in Users PROVE Backed(c, v)
  BY <1>4, <1>5, EndedBacks DEF Agree
<1>7. ASSUME NEW v \in Users PROVE Counted(c, v)
  BY <1>5, CountScored DEF Agree
<1>. QED
  BY <1>2, <1>4, <1>6, <1>7 DEF Agree, Quiet

\* What bump_totals leaves of the wallets.
LEMMA SpentParts ==
  ASSUME NEW ws \in [Users -> Wallets], NEW row, row.bet \in Nat, NEW seat, NEW winner,
         User(row, seat) \in Users, NEW v \in Users
  PROVE  LET w == StakeSpent(ws, row, seat, winner)[v]
         IN /\ w.balance = ws[v].balance /\ w.earned = ws[v].earned
            /\ w.spent = ws[v].spent + (IF v = User(row, seat) THEN row.bet ELSE 0)
<1> DEFINE u == User(row, seat)
           new == [ws[u] EXCEPT !.spent = @ + row.bet]
           w == StakeSpent(ws, row, seat, winner)[v]
<1>1. ws[u] \in Wallets /\ ws[v] \in Wallets
  OBVIOUS
<1>2. new.balance = ws[u].balance /\ new.earned = ws[u].earned
      /\ new.spent = ws[u].spent + row.bet
  BY <1>1 DEF Wallets
<1>3. w = [ws EXCEPT ![u] = new][v]
  BY DEF StakeSpent
<1>. HIDE DEF new, u
<1>4. w = IF v = u THEN new ELSE ws[v]
  BY <1>3 DEF u
<1>5. ws[v].spent \in Nat
  BY <1>1 DEF Wallets
<1>. HIDE DEF w
<1>6. /\ w.balance = ws[v].balance /\ w.earned = ws[v].earned
      /\ w.spent = ws[v].spent + (IF v = u THEN row.bet ELSE 0)
  BY <1>2, <1>4, <1>5
<1>. QED
  BY <1>6 DEF w, u

\* The winner gets the payout, both pay their stakes, and nobody else is touched.
LEMMA PotParts ==
  ASSUME NEW b \in Books, NEW o \in Offers, Playing(b, o), NEW winner \in Seats,
         NEW c \in Books, Payable(b, o, winner), PaysPot(b, c, o, winner), NEW v \in Users
  PROVE  LET row == b.offer[o]
             won == IF v = User(row, winner) THEN Payout(row.bet) ELSE 0
         IN /\ c.wallet[v].balance = b.wallet[v].balance + won
            /\ c.wallet[v].earned = b.wallet[v].earned + won
            /\ c.wallet[v].spent = b.wallet[v].spent + Due(b, o, v)
<1> DEFINE row == b.offer[o]
           u == User(row, winner)
           won == IF v = u THEN Payout(row.bet) ELSE 0
           wu == Credited(b.wallet[u], Payout(row.bet))
           paid == [b.wallet EXCEPT ![u] = wu]
           one == StakeSpent(paid, row, "creator", winner)
           both == StakeSpent(one, row, "opponent", winner)
<1>1. /\ row.bet \in Nat /\ Payout(row.bet) \in Nat
      /\ row.creator \in Users /\ row.opponent \in Users /\ row.creator # row.opponent
      /\ User(row, "creator") = row.creator /\ User(row, "opponent") = row.opponent
      /\ u \in Users /\ b.wallet[u] \in Wallets
  BY OfferParts, PotIsSplit, BookParts DEF Playing, User
<1>2. CanCredit(b.wallet[u], Payout(row.bet)) /\ c.wallet = both
  BY DEF Payable, PaysPot, Seats
<1>3. wu \in Wallets
  BY <1>1, <1>2, WalletWrites
<1>4. /\ wu.balance = b.wallet[u].balance + Payout(row.bet)
      /\ wu.earned = b.wallet[u].earned + Payout(row.bet)
      /\ wu.spent = b.wallet[u].spent
  BY <1>1 DEF Credited, Released, Wallets
<1>. HIDE DEF wu, row, u
<1>5. paid \in [Users -> Wallets] /\ paid[v] = IF v = u THEN wu ELSE b.wallet[v]
  BY <1>1, <1>3, BookParts
<1>6. /\ paid[v].balance = b.wallet[v].balance + won
      /\ paid[v].earned = b.wallet[v].earned + won
      /\ paid[v].spent = b.wallet[v].spent
  <2>1. b.wallet[v].balance \in Int /\ b.wallet[v].earned \in Nat /\ b.wallet[v].spent \in Nat
    BY WalletParts
  <2>. HIDE DEF paid
  <2>. QED
    BY <1>4, <1>5, <2>1
<1>. HIDE DEF paid
<1>7. /\ one \in [Users -> Wallets]
      /\ one[v].balance = paid[v].balance /\ one[v].earned = paid[v].earned
      /\ one[v].spent = paid[v].spent + (IF v = row.creator THEN row.bet ELSE 0)
  <2>1. one \in [Users -> Wallets]
    BY <1>1, <1>5, Spending
  <2>2. /\ one[v].balance = paid[v].balance /\ one[v].earned = paid[v].earned
        /\ one[v].spent = paid[v].spent + (IF v = User(row, "creator") THEN row.bet ELSE 0)
    BY <1>1, <1>5, SpentParts
  <2>. QED
    BY <1>1, <2>1, <2>2
<1>. HIDE DEF one
<1>8. /\ both[v].balance = one[v].balance /\ both[v].earned = one[v].earned
      /\ both[v].spent = one[v].spent + (IF v = row.opponent THEN row.bet ELSE 0)
  <2>1. /\ both[v].balance = one[v].balance /\ both[v].earned = one[v].earned
        /\ both[v].spent = one[v].spent + (IF v = User(row, "opponent") THEN row.bet ELSE 0)
    BY <1>1, <1>7, SpentParts
  <2>. QED
    BY <1>1, <2>1
<1>. HIDE DEF both
<1>9. Due(b, o, v) = (IF v = row.creator THEN row.bet ELSE 0)
                     + (IF v = row.opponent THEN row.bet ELSE 0)
  BY <1>1 DEF Due, row
<1>10. b.wallet[v].spent \in Nat
  BY WalletParts
<1>11. /\ c.wallet[v].balance = b.wallet[v].balance + won
       /\ c.wallet[v].earned = b.wallet[v].earned + won
       /\ c.wallet[v].spent = b.wallet[v].spent + Due(b, o, v)
  BY <1>1, <1>2, <1>6, <1>7, <1>8, <1>9, <1>10
<1>. QED
  BY <1>11 DEF row, u

Even(b, c) == Lost(c) - Lost(b) = c.burned - b.burned

LEMMA QuietEven ==
  ASSUME NEW b \in Books, NEW c \in Books, Quiet(b, c)
  PROVE  Even(b, c)
<1> DEFINE f == [u \in Users |-> b.wallet[u].spent - b.wallet[u].earned]
           g == [u \in Users |-> c.wallet[u].spent - c.wallet[u].earned]
<1>1. f = g
  BY DEF Quiet
<1>2. \A u \in Users : f[u] \in Int
  BY WalletParts
<1>. HIDE DEF f, g
<1>3. SumOver(f, Users) \in Int
  BY <1>2, PvPAssumption, SumInt
<1>4. Lost(b) = SumOver(f, Users) /\ Lost(c) = SumOver(g, Users)
  BY DEF Lost, f, g
<1>5. b.burned \in Nat /\ c.burned = b.burned
  BY BookParts DEF Quiet
<1>. QED
  BY <1>1, <1>3, <1>4, <1>5 DEF Even

LEMMA WinningAgrees ==
  ASSUME NEW b \in Books, Agree(b), NEW o \in Offers, Playing(b, o), NEW winner \in Seats,
         Payable(b, o, winner), NEW c \in Books, SameElsewhere(b, c, o),
         Ended(b, c, o, "released", winner), PaysPot(b, c, o, winner)
  PROVE  Agree(c) /\ Even(b, c)
<1> DEFINE row == b.offer[o]
           won(v) == IF v = User(row, winner) THEN Payout(row.bet) ELSE 0
<1>1. /\ row.bet \in Nat /\ Payout(row.bet) \in Nat
      /\ row.creator \in Users /\ row.opponent \in Users /\ row.creator # row.opponent
  BY OfferParts, PotIsSplit DEF Playing
<1>2. ASSUME NEW v \in Users
      PROVE  /\ c.wallet[v].balance = b.wallet[v].balance + won(v)
             /\ c.wallet[v].earned = b.wallet[v].earned + won(v)
             /\ c.wallet[v].spent = b.wallet[v].spent + Due(b, o, v)
             /\ won(v) \in Nat /\ Due(b, o, v) \in Nat
  <2>1. /\ c.wallet[v].balance = b.wallet[v].balance + won(v)
        /\ c.wallet[v].earned = b.wallet[v].earned + won(v)
        /\ c.wallet[v].spent = b.wallet[v].spent + Due(b, o, v)
    BY PotParts
  <2>. QED
    BY <1>1, <2>1 DEF Due
<1>3. ASSUME NEW v \in Users PROVE Net(c.wallet[v]) = Net(b.wallet[v]) + Due(b, o, v)
  <2>1. b.wallet[v].balance \in Int /\ b.wallet[v].earned \in Nat /\ b.wallet[v].spent \in Nat
    BY WalletParts
  <2>. HIDE DEF won
  <2>. QED
    BY <1>2, <2>1 DEF Net
<1>4. /\ c.stake[<<o, "creator">>] = "released" /\ c.stake[<<o, "opponent">>] = "released"
      /\ Scored(b, c, o, winner)
  BY DEF Ended
<1>5. ASSUME NEW v \in Users PROVE Backed(c, v)
  BY <1>3, <1>4, EndedBacks DEF Agree
<1>6. ASSUME NEW v \in Users PROVE Counted(c, v)
  BY <1>4, CountScored DEF Agree
<1>7. Even(b, c)
  <2> DEFINE f == [v \in Users |-> b.wallet[v].spent - b.wallet[v].earned]
             g == [v \in Users |-> c.wallet[v].spent - c.wallet[v].earned]
  <2>1. ASSUME NEW v \in Users
        PROVE  f[v] \in Int /\ g[v] \in Int /\ g[v] = f[v] + Due(b, o, v) - won(v)
    <3>1. b.wallet[v].earned \in Nat /\ b.wallet[v].spent \in Nat
      BY WalletParts
    <3>. HIDE DEF won
    <3>. QED
      BY <1>2, <3>1
  <2>2. /\ Due(b, o, row.creator) = row.bet /\ Due(b, o, row.opponent) = row.bet
        /\ \A v \in Users : v # row.creator /\ v # row.opponent => Due(b, o, v) = 0
    BY DEF Due
  <2>3. /\ User(row, winner) \in {row.creator, row.opponent}
        /\ \A v \in Users : v # row.creator /\ v # row.opponent => won(v) = 0
        /\ won(row.creator) + won(row.opponent) = Payout(row.bet)
    BY <1>1 DEF User, Seats
  <2>4. won(row.creator) \in Nat /\ won(row.opponent) \in Nat
    BY <1>1
  <2>. HIDE DEF won, row, f, g
  <2>5. \A v \in Users : v # row.creator /\ v # row.opponent => g[v] = f[v]
    BY <2>1, <2>2, <2>3
  <2>6. /\ \A v \in Users : f[v] \in Int
        /\ g[row.creator] \in Int /\ g[row.opponent] \in Int
    BY <1>1, <2>1
  <2>0. IsFiniteSet(Users)
    BY PvPAssumption
  <2>7. SumOver(g, Users) = SumOver(f, Users) + g[row.creator] - f[row.creator]
                                              + g[row.opponent] - f[row.opponent]
    <3> DEFINE x == row.creator
               y == row.opponent
    <3>1. x \in Users /\ y \in Users /\ x # y
      BY <1>1
    <3>2. /\ \A v \in Users : f[v] \in Int
          /\ g[x] \in Int /\ g[y] \in Int
          /\ \A v \in Users : v # x /\ v # y => g[v] = f[v]
      BY <2>5, <2>6
    <3>. HIDE DEF x, y
    <3>3. SumOver(g, Users) = SumOver(f, Users) + g[x] - f[x] + g[y] - f[y]
      BY <2>0, <3>1, <3>2, SumUpdateTwo
    <3>. QED
      BY <3>3 DEF x, y
  <2>8. SumOver(f, Users) \in Int
    BY <2>0, <2>6, SumInt
  <2>9. /\ g[row.creator] = f[row.creator] + row.bet - won(row.creator)
        /\ g[row.opponent] = f[row.opponent] + row.bet - won(row.opponent)
        /\ f[row.creator] \in Int /\ f[row.opponent] \in Int
    BY <1>1, <2>1, <2>2
  <2>10. Lost(b) = SumOver(f, Users) /\ Lost(c) = SumOver(g, Users)
    BY DEF Lost, f, g
  <2>11. c.burned = b.burned + Rake(row.bet) /\ b.burned \in Nat
    BY BookParts DEF PaysPot, row
  <2>12. SumOver(g, Users) - SumOver(f, Users) = 2 * row.bet - Payout(row.bet)
    BY <1>1, <2>3, <2>4, <2>7, <2>8, <2>9
  <2>13. Rake(row.bet) \in Nat /\ Rake(row.bet) = 2 * row.bet - Payout(row.bet)
    BY <1>1, PotIsSplit DEF Rake
  <2>14. Lost(c) - Lost(b) = Rake(row.bet)
    BY <2>10, <2>12, <2>13
  <2>15. c.burned - b.burned = Rake(row.bet)
    BY <2>11, <2>13
  <2>. QED
    BY <2>14, <2>15 DEF Even
<1>. QED
  BY <1>5, <1>6, <1>7 DEF Agree

-----------------------------------------------------------------------------
(* The books agree, step by step.  The copy of the process that writes      *)
(* agrees too, and its counters are those of the file: what a claim or a    *)
(* sweep writes before its commit moves escrow only.                        *)

BooksInv == PvPInv /\ Agree(db) /\ Agree(work) /\ Quiet(db, work)

StepFair ==
  /\ Agree(db') /\ Agree(work') /\ Quiet(db', work')
  /\ Even(db, db') \/ db'.offer = db.offer

LEMMA FileStays ==
  ASSUME BooksInv, db' = db, NEW b, work' = b, Agree(b), Quiet(db, b)
  PROVE  StepFair
  BY DEF StepFair, BooksInv

LEMMA CommitFair ==
  ASSUME NEW b, db' = b, work' = b, Agree(b), Even(db, b) \/ b.offer = db.offer
  PROVE  StepFair
  BY QuietSame DEF StepFair

LEMMA QuietCommit ==
  ASSUME BooksInv, NEW b \in Books, db' = b, work' = b, Agree(b), Quiet(db, b)
  PROVE  StepFair
<1>1. Even(db, b)
  BY QuietEven DEF BooksInv, PvPInv, TypeOK
<1>. QED
  BY <1>1, CommitFair

LEMMA CreateFair ==
  ASSUME BooksInv, NEW u \in Users, NEW bet \in Bets, NEW game \in Games,
         CreateOffer(u, bet, game)
  PROVE  StepFair
<1> DEFINE free == {o \in Offers : db.offer[o].status = "none"}
           o == Min(free)
           row == [status |-> "pending", game |-> game, creator |-> u,
                   opponent |-> None, bet |-> bet, winner |-> "none"]
           w == Held(db.wallet[u], bet)
           c == [db EXCEPT !.wallet[u] = w, !.offer[o] = row, !.stake[<<o, "creator">>] = "held"]
<1>1. db \in Books /\ PvPInv /\ Agree(db)
  BY DEF BooksInv, PvPInv, TypeOK
<1>2. o \in free
  <2>1. free \in SUBSET Nat /\ free # {}
    BY PvPAssumption DEF CreateOffer
  <2>. HIDE DEF free
  <2>. QED
    BY <2>1, MinOfNats
<1>3. o \in Offers /\ db.offer[o].status = "none" /\ Sound(db, o)
  <2>. HIDE DEF o
  <2>. QED
    BY <1>1, <1>2 DEF PvPInv
<1>4. bet \in Nat /\ CanDebit(db.wallet[u], bet)
  BY PvPAssumption DEF CreateOffer
<1>5. w \in Wallets
  BY <1>1, <1>4, BookParts, WalletWrites
<1>6. row \in Offer /\ row.status = "pending" /\ row.creator = u /\ row.bet = bet
  BY <1>4, PvPAssumption DEF Offer, Statuses
<1>7. Atomically([db EXCEPT !.wallet[u] = Held(@, bet), !.offer[o] = row,
                            !.stake[<<o, "creator">>] = "held"])
  BY DEF CreateOffer
<1>8. Atomically(c)
  BY <1>7
<1>9. db' = c /\ work' = c
  BY <1>8 DEF Atomically
<1>. HIDE DEF free, o, row
<1>10. Wrote(db, c, u, w, o, row, "creator", "held")
  <2>. HIDE DEF w
  <2>. QED
    BY <1>1, <1>3, TwoSeats, Posting
<1>11. c \in Books
  <2>. HIDE DEF w, c
  <2>. QED
    BY <1>1, <1>3, <1>5, <1>6, <1>10, Creating
<1>12. Agree(c) /\ Quiet(db, c)
  <2>1. w = Held(db.wallet[u], row.bet) /\ CanDebit(db.wallet[u], row.bet)
    BY <1>4, <1>6
  <2>. HIDE DEF w, c
  <2>. QED
    BY <1>1, <1>3, <1>6, <1>10, <2>1, CreatingAgrees
<1>. HIDE DEF c
<1>. QED
  BY <1>9, <1>11, <1>12, QuietCommit

LEMMA ClaimFair ==
  ASSUME BooksInv, NEW p \in Procs, AcceptClaim(p)
  PROVE  StepFair
<1> DEFINE o == job[p].offer
           u == job[p].user
           bet == db.offer[o].bet
           w == Held(db.wallet[u], bet)
           c == WithStake(Claimed(db, o, u), u, w, <<o, "opponent">>, "held")
           state == [job[p] EXCEPT !.step = "resolve"]
<1>0. PvPInv /\ Agree(db)
  BY DEF BooksInv
<1>1. At(p, "claim") /\ Unlocked
  BY DEF AcceptClaim
<1>2. work = db /\ db \in Books /\ \A q \in Offers : Sound(db, q)
  BY <1>0, <1>1, Free
<1>3. o \in Offers /\ u \in Users
  BY <1>0, <1>1 DEF PvPInv, JobSound
<1>4. CASE db' = db /\ work' = db
  BY <1>2, <1>4, FileStays DEF BooksInv
<1>5. CASE Claimable(db, o) /\ Commit(p, Reverted(Claimed(db, o, u), o))
  <2>1. Reverted(Claimed(db, o, u), o) = db
    BY <1>2, <1>3, <1>5, Reverting
  <2>. QED
    BY <1>4, <1>5, <2>1 DEF Commit
<1>6. CASE Claimable(db, o) /\ CanDebit(db.wallet[u], bet) /\ Write(p, c)
  <2>1. db' = db /\ work' = c
    BY <1>6 DEF Write
  <2>2. Wrote(db, c, u, w, o, Taken(db.offer[o], u), "opponent", "held")
    <3>. HIDE DEF w
    <3>. QED
      BY <1>2, <1>3, ClaimPosting
  <2>3. w = Held(db.wallet[u], db.offer[o].bet) /\ CanDebit(db.wallet[u], db.offer[o].bet)
    BY <1>6
  <2>. HIDE DEF c, w, o, u
  <2>4. Agree(c) /\ Quiet(db, c)
    BY <1>0, <1>2, <1>3, <1>6, <2>2, <2>3, ClaimingAgrees
  <2>. QED
    BY <2>1, <2>4, FileStays
<1>7. \/ Commit(p, db)
      \/ Claimable(db, o) /\ Commit(p, Reverted(Claimed(db, o, u), o))
      \/ Claimable(db, o) /\ CanDebit(db.wallet[u], bet) /\ Write(p, c)
  <2> DEFINE d == Claimed(db, o, u)
             e == [d EXCEPT !.wallet[u] = Held(d.wallet[u], bet),
                            !.stake[<<o, "opponent">>] = "held"]
  <2>1. d.wallet = db.wallet
    BY <1>2, BookParts DEF Claimed
  <2>2. \/ Commit(p, db)
        \/ Claimable(db, o) /\ Commit(p, Reverted(d, o))
        \/ Claimable(db, o) /\ CanDebit(db.wallet[u], bet) /\ Write(p, e)
    <3>. HIDE DEF d, state
    <3>. QED
      BY <1>2, Zenon DEF AcceptClaim, d, state
  <2>3. e = c
    <3>. HIDE DEF d
    <3>. QED
      BY <2>1 DEF WithStake, d
  <2>. QED
    BY <2>2, <2>3
<1>8. Commit(p, db) => db' = db /\ work' = db
  BY DEF Commit
<1>. QED
  BY <1>4, <1>5, <1>6, <1>7, <1>8

LEMMA ResolveFair ==
  ASSUME BooksInv, NEW p \in Procs, AcceptResolve(p)
  PROVE  StepFair
<1> DEFINE o == job[p].offer
<1>0. PvPInv /\ Agree(db) /\ Agree(work) /\ Quiet(db, work)
  BY DEF BooksInv
<1>1. At(p, "resolve") /\ o \in Offers /\ Playing(work, o)
  BY <1>0 DEF AcceptResolve, PvPInv, JobSound, At
<1>2. db \in Books /\ work \in Books
  BY <1>0 DEF PvPInv, TypeOK
<1>3. PICK result \in Seats \cup {"tie"} :
        \/ /\ Payable(work, o, result)
           /\ Commit(p, IF result = "tie" THEN Tie(work, o) ELSE Win(work, o, result))
        \/ ~ Payable(work, o, result) /\ Commit(p, db)
  BY DEF AcceptResolve
<1>. HIDE DEF o
<1>4. CASE Commit(p, db)
  BY <1>0, <1>4, QuietSame, FileStays DEF Commit
<1>5. CASE result = "tie" /\ Payable(work, o, "tie") /\ Commit(p, Tie(work, o))
  <2> DEFINE b == Tie(work, o)
  <2>1. /\ b \in Books /\ SameElsewhere(work, b, o)
        /\ Ended(work, b, o, "refunded", "none") /\ GivesBack(work, b, o)
    BY <1>1, <1>2, <1>5, Tying
  <2>2. db' = b /\ work' = b
    BY <1>5 DEF Commit
  <2>. HIDE DEF b
  <2>3. Agree(b) /\ Quiet(work, b)
    BY <1>0, <1>1, <1>2, <2>1, TyingAgrees
  <2>4. Quiet(db, b)
    BY <1>0, <2>3, QuietChain
  <2>. QED
    BY <2>1, <2>2, <2>3, <2>4, QuietCommit
<1>6. CASE result \in Seats /\ Payable(work, o, result) /\ Commit(p, Win(work, o, result))
  <2> DEFINE b == Win(work, o, result)
  <2>1. /\ b \in Books /\ SameElsewhere(work, b, o)
        /\ Ended(work, b, o, "released", result) /\ PaysPot(work, b, o, result)
    BY <1>1, <1>2, <1>6, Winning
  <2>2. db' = b /\ work' = b
    BY <1>6 DEF Commit
  <2>. HIDE DEF b
  <2>3. Agree(b) /\ Even(work, b)
    BY <1>0, <1>1, <1>2, <1>6, <2>1, WinningAgrees
  <2>4. Lost(work) = Lost(db) /\ work.burned = db.burned
    <3>1. [u \in Users |-> work.wallet[u].spent - work.wallet[u].earned]
            = [u \in Users |-> db.wallet[u].spent - db.wallet[u].earned]
      BY <1>0 DEF Quiet
    <3>. QED
      BY <1>0, <3>1 DEF Lost, Quiet
  <2>5. Even(db, b)
    BY <2>3, <2>4 DEF Even
  <2>. QED
    BY <2>2, <2>3, <2>5, CommitFair
<1>. QED
  BY <1>3, <1>4, <1>5, <1>6 DEF Seats

LEMMA RetireFair ==
  ASSUME BooksInv, NEW o \in Offers, Cancel(o)
  PROVE  StepFair
<1> DEFINE b == Retired(db, o, "cancelled")
<1>1. db.offer[o].status = "pending" /\ Atomically(b) /\ Unlocked
  BY DEF Cancel, Atomically
<1>2. db \in Books /\ Sound(db, o) /\ Agree(db)
  BY <1>1, Free DEF BooksInv
<1>3. b \in Books
  BY <1>1, <1>2, Retiring
<1>4. Agree(b) /\ Quiet(db, b)
  BY <1>1, <1>2, RetiringAgrees
<1>5. db' = b /\ work' = b
  BY <1>1 DEF Atomically
<1>. HIDE DEF b
<1>. QED
  BY <1>3, <1>4, <1>5, QuietCommit

LEMMA ExpireFair ==
  ASSUME BooksInv, NEW p \in Procs, ExpireOnAccept(p)
  PROVE  StepFair
<1> DEFINE o == job[p].offer
           b == Expired(work, o)
<1>1. At(p, "expire") /\ Unlocked /\ Commit(p, b)
  BY DEF ExpireOnAccept
<1>2. o \in Offers
  BY <1>1 DEF BooksInv, PvPInv, JobSound
<1>3. work = db /\ db \in Books /\ Sound(db, o) /\ Agree(db)
  BY <1>1, <1>2, Free DEF BooksInv
<1>4. b \in Books
  BY <1>2, <1>3, Expiring
<1>5. Agree(b) /\ Quiet(db, b)
  BY <1>2, <1>3, ExpiringAgrees
<1>6. db' = b /\ work' = b
  BY <1>1 DEF Commit
<1>. HIDE DEF b
<1>. QED
  BY <1>4, <1>5, <1>6, QuietCommit

LEMMA SweepFair ==
  ASSUME BooksInv, NEW p \in Procs, Sweep(p)
  PROVE  StepFair
<1>0. PvPInv /\ Agree(db) /\ Agree(work) /\ Quiet(db, work) /\ work \in Books
  BY DEF BooksInv, PvPInv, TypeOK
<1>1. CASE SweepList(p) \/ SweepLock(p)
  BY <1>0, <1>1, FileStays DEF SweepList, SweepLock, Write
<1>2. CASE SweepOne(p)
  <2> DEFINE o == Min(job[p].scan)
             b == Expired(work, o)
  <2>1. At(p, "sweep") /\ writer = p /\ Write(p, b)
    BY <1>0, <1>2 DEF SweepOne, PvPInv, JobSound, At
  <2>2. o \in Offers
    <3>1. job[p].scan \in SUBSET Nat /\ job[p].scan # {} /\ job[p].scan \in SUBSET Offers
      BY <1>0, <1>2, JobParts, PvPAssumption DEF SweepOne, PvPInv
    <3>. QED
      BY <3>1, MinOfNats
  <2>3. db' = db /\ work' = b
    BY <2>1 DEF Write
  <2>. HIDE DEF o
  <2>4. Sound(work, o)
    BY <1>0, <2>1, <2>2, Holder DEF At
  <2>5. Agree(b) /\ Quiet(work, b)
    BY <1>0, <2>2, <2>4, ExpiringAgrees
  <2>. HIDE DEF b
  <2>6. Quiet(db, b)
    BY <1>0, <2>5, QuietChain
  <2>. QED
    BY <2>3, <2>5, <2>6, FileStays
<1>3. CASE SweepDone(p)
  <2>1. db' = work /\ work' = work
    BY <1>3 DEF SweepDone, Commit
  <2>. QED
    BY <1>0, <2>1, QuietCommit
<1>. QED
  BY <1>1, <1>2, <1>3 DEF Sweep

LEMMA FlowFair ==
  ASSUME BooksInv, NEW u \in Users, NEW w \in Wallets, Net(w) = Net(db.wallet[u]),
         Atomically(WithWallet(db, u, w))
  PROVE  StepFair
<1> DEFINE b == WithWallet(db, u, w)
<1>1. db \in Books /\ Agree(db)
  BY DEF BooksInv, PvPInv, TypeOK
<1>2. b \in Books /\ b.offer = db.offer /\ b.stake = db.stake
  BY <1>1, WalletWrite
<1>3. b.wallet = [db.wallet EXCEPT ![u] = w] /\ b.games = db.games
  BY <1>1, BookParts DEF WithWallet
<1>4. db' = b /\ work' = b
  BY DEF Atomically
<1>. HIDE DEF b
<1>5. ASSUME NEW v \in Users PROVE Backed(b, v) /\ Counted(b, v)
  <2>1. HeldRows(b, v) = HeldRows(db, v) /\ Sizes(b) = Sizes(db)
    BY <1>2 DEF HeldRows, Sizes
  <2>2. Counted(b, v)
    BY <1>1, <1>2, <1>3, CountKept DEF Agree
  <2>3. SumOver(Sizes(db), HeldRows(db, v)) \in Int
    <3>1. IsFiniteSet(HeldRows(db, v)) /\ HeldRows(db, v) \in SUBSET HeldRows(db, v)
      BY RowsFinite, FS_Subset DEF HeldRows
    <3>2. \A x \in HeldRows(db, v) : Sizes(db)[x] \in Int
      BY <1>1, OfferParts DEF HeldRows, Sizes, Rows
    <3>. QED
      BY <3>1, <3>2, SumInt
  <2>4. Net(b.wallet[v]) = Net(db.wallet[v])
    BY <1>1, <1>3, BookParts
  <2>5. Backed(db, v)
    BY <1>1 DEF Agree
  <2>6. Welcome \in Int
    BY PvPAssumption, MaxAmountAssumption
  <2>7. Backed(b, v)
    BY <1>1, <1>2, <2>1, <2>3, <2>4, <2>5, <2>6, WalletParts DEF Backed, Net, Worth
  <2>. QED
    BY <2>2, <2>7
<1>6. Agree(b)
  BY <1>5 DEF Agree
<1>. QED
  BY <1>2, <1>4, <1>6, CommitFair

LEMMA OtherFair ==
  ASSUME BooksInv, NEW u \in Users, NEW amount \in Flows, Earn(u, amount) \/ Spend(u, amount)
  PROVE  StepFair
<1>1. db \in Books /\ amount \in Nat
  BY PvPAssumption DEF BooksInv, PvPInv, TypeOK
<1>2. /\ db.wallet[u] \in Wallets /\ db.wallet[u].balance \in Int
      /\ db.wallet[u].earned \in Nat /\ db.wallet[u].spent \in Nat
  BY <1>1, WalletParts
<1>3. CASE Earn(u, amount)
  <2> DEFINE w == Credited(db.wallet[u], amount)
  <2>1. Atomically(WithWallet(db, u, w)) /\ CanCredit(db.wallet[u], amount)
    BY <1>3 DEF Earn, WithWallet
  <2>2. w \in Wallets
    BY <1>1, <1>2, <2>1, WalletWrites
  <2>3. /\ w.balance = db.wallet[u].balance + amount /\ w.earned = db.wallet[u].earned + amount
        /\ w.spent = db.wallet[u].spent
    BY <1>2 DEF Credited, Released, Wallets
  <2>. HIDE DEF w
  <2>4. Net(w) = Net(db.wallet[u])
    BY <1>1, <1>2, <2>3 DEF Net
  <2>. QED
    BY <2>1, <2>2, <2>4, FlowFair
<1>4. CASE Spend(u, amount)
  <2> DEFINE w == Debited(db.wallet[u], amount)
  <2>1. Atomically(WithWallet(db, u, w)) /\ CanDebit(db.wallet[u], amount)
    BY <1>4 DEF Spend, WithWallet
  <2>2. w \in Wallets
    BY <1>1, <1>2, <2>1, WalletWrites
  <2>3. /\ w.balance = db.wallet[u].balance - amount /\ w.earned = db.wallet[u].earned
        /\ w.spent = db.wallet[u].spent + amount
    BY <1>2 DEF Debited, Held, Wallets
  <2>. HIDE DEF w
  <2>4. Net(w) = Net(db.wallet[u])
    BY <1>1, <1>2, <2>3 DEF Net
  <2>. QED
    BY <2>1, <2>2, <2>4, FlowFair
<1>. QED
  BY <1>3, <1>4

LEMMA StepAgrees ==
  ASSUME BooksInv, [Next]_vars
  PROVE  BooksInv' /\ StepFair
<1>1. PvPInv'
  BY StepHolds DEF BooksInv, StepSound
<1>2. ASSUME NEW p \in Procs, Accept(p) PROVE StepFair
  <2>1. ASSUME NEW u \in Users, NEW o \in Offers, AcceptRead(p, u, o) PROVE StepFair
    BY <2>1, FileStays DEF AcceptRead, BooksInv
  <2>. QED
    BY <1>2, <2>1, ClaimFair, ResolveFair, ExpireFair DEF Accept
<1>3. ASSUME \/ \E p \in Procs : BusyTimeout(p)
             \/ \E o \in Offers : Age(o)
             \/ UNCHANGED vars
      PROVE  StepFair
  <2>1. db' = db /\ work' = work
    BY <1>3 DEF BusyTimeout, Age, vars
  <2>. QED
    BY <2>1, FileStays DEF BooksInv
<1>4. ASSUME Crash PROVE StepFair
  BY <1>4, QuietSame, FileStays DEF Crash, BooksInv
<1>5. StepFair
  <2>1. ASSUME NEW u \in Users, NEW bet \in Bets, NEW game \in Games, CreateOffer(u, bet, game)
        PROVE  StepFair
    BY <2>1, CreateFair
  <2>2. ASSUME NEW o \in Offers, Cancel(o) PROVE StepFair
    BY <2>2, RetireFair
  <2>3. ASSUME NEW p \in Procs, Sweep(p) PROVE StepFair
    BY <2>3, SweepFair
  <2>4. ASSUME NEW u \in Users, NEW amount \in Flows, Earn(u, amount) \/ Spend(u, amount)
        PROVE  StepFair
    BY <2>4, OtherFair
  <2>. QED
    BY <1>2, <1>3, <1>4, <2>1, <2>2, <2>3, <2>4 DEF Next
<1>6. Agree(db)' /\ Agree(work)' /\ Quiet(db, work)'
  BY <1>5 DEF StepFair, Agree, Backed, Counted, HeldRows, Sizes, Done, WonBy, Quiet
<1>7. BooksInv'
  BY <1>1, <1>6, Zenon DEF BooksInv
<1>. QED
  BY <1>5, <1>7

LEMMA InitAgrees == Init => BooksInv
<1> SUFFICES ASSUME Init PROVE Agree(db)
  BY InitHolds, QuietSame DEF BooksInv, Init
<1>1. db \in Books
  BY InitHolds DEF PvPInv, TypeOK
<1>2. /\ \A u \in Users : db.wallet[u] = Seeded(Welcome)
      /\ \A o \in Offers : db.offer[o].status = "none"
      /\ \A s \in Rows : db.stake[s] = "none"
      /\ \A u \in Users : db.games[u].played = 0 /\ db.games[u].won = 0
  BY DEF Init, NoOffer, Rows
<1>3. ASSUME NEW u \in Users PROVE Backed(db, u) /\ Counted(db, u)
  <2>1. HeldRows(db, u) = {}
    BY <1>2 DEF HeldRows
  <2>2. SumOver(Sizes(db), HeldRows(db, u)) = 0
    BY <2>1, SumEmpty
  <2>3. Welcome \in Int
    BY PvPAssumption, MaxAmountAssumption
  <2>4. /\ db.wallet[u].balance = Welcome /\ db.wallet[u].earned = 0 /\ db.wallet[u].spent = 0
    BY <1>2 DEF Seeded
  <2>5. Done(db, u, "creator") = {} /\ Done(db, u, "opponent") = {} /\ WonBy(db, u) = {}
    BY <1>2 DEF Done, WonBy
  <2>6. Cardinality({}) = 0
    BY FS_EmptySet
  <2>. QED
    <3>1. Backed(db, u)
      BY <2>2, <2>3, <2>4 DEF Backed, Worth
    <3>2. Counted(db, u)
      <4>1. Cardinality(Done(db, u, "creator")) = 0 /\ Cardinality(Done(db, u, "opponent")) = 0
            /\ Cardinality(WonBy(db, u)) = 0
        BY <2>5, <2>6, Zenon
      <4>2. db.games[u].played = 0 /\ db.games[u].won = 0
        BY <1>2
      <4>. QED
        BY <4>1, <4>2 DEF Counted
    <3>. QED
      BY <3>1, <3>2
<1>. QED
  BY <1>3 DEF Agree

LEMMA BooksInvariant == Spec => []BooksInv
<1>1. BooksInv /\ [Next]_vars => BooksInv'
  BY StepAgrees
<1>. QED
  BY InitAgrees, <1>1, PTL DEF Spec

\* Every coin is in a wallet or in a stake the escrow table holds for its owner, and
\* every finished game is counted once for each of its players, whatever meets.
THEOREM BooksAlwaysAgree == Spec => []BooksAgree
<1>1. BooksInv => BooksAgree
  <2> SUFFICES ASSUME BooksInv PROVE BooksAgree
    OBVIOUS
  <2>1. TypeOK
    BY DEF BooksInv, PvPInv
  <2>2. StakesAreBacked
    BY DEF BooksInv, Agree, Backed, HeldRows, Sizes, Rows, StakesAreBacked, HeldBy
  <2>3. GamesMatchOffers
    BY DEF BooksInv, Agree, Counted, Done, WonBy, Rows, GamesMatchOffers
  <2>. QED
    BY <2>1, <2>2, <2>3 DEF BooksAgree
<1>. QED
  BY BooksInvariant, <1>1, PTL

\* A decided game moves coins between its players and burns the rake, and that is
\* all: games make no coins and lose none.
THEOREM PotsPayForThemselves == Spec => PotPaysForItself
<1>1. BooksInv /\ [Next]_vars =>
        [\A o \in Offers :
           db.offer[o].status # "finished" /\ db'.offer[o].status = "finished"
             => Lost(db') - Lost(db) = db'.burned - db.burned]_vars
  BY StepAgrees DEF StepFair, Even
<1>. QED
  BY BooksInvariant, <1>1, PTL DEF Spec, PotPaysForItself
=============================================================================
