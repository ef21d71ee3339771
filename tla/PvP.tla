--------------------------------- MODULE PvP ---------------------------------
(***************************************************************************)
(* Staked challenges (/pvp_coin, /pvp_dice): PvpService over pvp_offers,   *)
(* pvp_escrow and the wallets.  The creator's stake is held with the       *)
(* offer, the opponent's when he accepts, and the accept resolves the game *)
(* and pays the pot less the rake, which is burned.                        *)
(*                                                                         *)
(* As in P2P, "db" is the committed file and "work" what the holder of the *)
(* writer lock sees; they are equal while nobody holds it.  accept reads   *)
(* the offer and the wallet before it takes the lock; the balance check of *)
(* create only refuses earlier what hold() refuses anyway.                 *)
(***************************************************************************)
EXTENDS Wallet, FiniteSets, FiniteSetsExt

CONSTANTS
  Users, Procs, None,
  Offers,              \* the ids the table will hand out, ascending
  Welcome,             \* balance of a new wallet
  Multiplier,          \* PVP_PAYOUT_MULTIPLIER, in percent of one stake
  ScanLimit            \* _EXPIRY_SCAN_LIMIT

CONSTANTS              \* bounds of the exploration
  Bets, Games, Flows, MaxFlow

ASSUME PvPAssumption ==
  /\ None \notin Users \cup Procs
  /\ Offers \subseteq Nat /\ IsFiniteSet(Offers) /\ IsFiniteSet(Users)
  /\ Welcome \in 0..MaxAmount
  /\ {ScanLimit, MaxFlow} \subseteq Nat
  /\ Multiplier \in 0..200                   \* the rake is never negative
  /\ Bets \subseteq Nat \ {0} /\ Flows \subseteq Nat
  /\ Games \subseteq {"coin", "dice"}

VARIABLES db, work, writer, job, stale       \* as in P2P; stale: past the offer TTL

vars == <<db, work, writer, job, stale>>

Seats    == {"creator", "opponent"}
Statuses == {"none", "pending", "active", "finished", "cancelled", "expired"}
Offer ==
  [status : Statuses, game : Games \cup {"none"}, creator : Users \cup {None},
   opponent : Users \cup {None}, bet : Nat, winner : Seats \cup {"none"}]
NoOffer == [status |-> "none", game |-> "none", creator |-> None, opponent |-> None,
            bet |-> 0, winner |-> "none"]

Books == [wallet : [Users -> Wallets],
          offer  : [Offers -> Offer],
          stake  : [Offers \X Seats -> {"none", "held", "released", "refunded"}],
          games  : [Users -> [played : Nat, won : Nat]],
          burned : Nat]                      \* sum of the pvp_rake ledger rows

Steps == {"idle", "claim", "resolve", "expire", "listed", "sweep"}
Idle == [step |-> "idle", user |-> None, offer |-> None, scan |-> {}]
Job  == [step : Steps, user : Users \cup {None}, offer : Offers \cup {None},
         scan : SUBSET Offers]

Init ==
  /\ db = [wallet |-> [u \in Users |-> Seeded(Welcome)],
           offer  |-> [o \in Offers |-> NoOffer],
           stake  |-> [s \in Offers \X Seats |-> "none"],
           games  |-> [u \in Users |-> [played |-> 0, won |-> 0]],
           burned |-> 0]
  /\ work = db
  /\ writer = None
  /\ job = [p \in Procs |-> Idle]
  /\ stale = {}

Unlocked == writer = None
At(p, step) == job[p].step = step
Become(p, state) == job' = [job EXCEPT ![p] = state]

\* The process takes the lock, or has it, and what it writes is not committed.
Write(p, book) == work' = book /\ writer' = p /\ UNCHANGED <<db, stale>>

\* The session commits and the handler returns.
Commit(p, book) ==
  /\ db' = book /\ work' = book
  /\ writer' = None
  /\ Become(p, Idle)
  /\ UNCHANGED stale

\* A transaction no other step can come between.
Atomically(book) ==
  /\ Unlocked
  /\ db' = book /\ work' = book
  /\ UNCHANGED <<writer, job, stale>>

User(row, seat) == IF seat = "creator" THEN row.creator ELSE row.opponent

-----------------------------------------------------------------------------
CreateOffer(u, bet, game) ==
  LET free == {o \in Offers : db.offer[o].status = "none"}
      o == Min(free)
  IN /\ free # {}                                       \* bound: ids
     /\ CanDebit(db.wallet[u], bet)
     /\ Atomically([db EXCEPT
          !.wallet[u] = Held(@, bet),
          !.offer[o] = [status |-> "pending", game |-> game, creator |-> u,
                        opponent |-> None, bet |-> bet, winner |-> "none"],
          !.stake[<<o, "creator">>] = "held"])

\* A tap on Accept in the chat of the offer: the unlocked reads.  A stale offer
\* is expired instead.
AcceptRead(p, u, o) ==
  /\ At(p, "idle")
  /\ db.offer[o].status = "pending"
  /\ \/ o \in stale /\ Become(p, [Idle EXCEPT !.step = "expire", !.offer = o])
     \/ /\ o \notin stale
        /\ u # db.offer[o].creator
        /\ CanDebit(db.wallet[u], db.offer[o].bet)
        /\ Become(p, [Idle EXCEPT !.step = "claim", !.user = u, !.offer = o])
  /\ UNCHANGED <<db, work, writer, stale>>

ClaimableMutant(book, o) == book.offer[o].creator # None   \* mutant: guard dropped

Claimable(book, o) ==                        \* claim_for_accept, by the first only
  book.offer[o].status = "pending" /\ book.offer[o].opponent = None

Claimed(book, o, u) ==
  [book EXCEPT !.offer[o] = [@ EXCEPT !.status = "active", !.opponent = u]]

Reverted(book, o) ==
  [book EXCEPT !.offer[o] = [@ EXCEPT !.status = "pending", !.opponent = None]]

AcceptClaim(p) ==
  LET o == job[p].offer
      u == job[p].user
      bet == work.offer[o].bet
      claimed == Claimed(work, o, u)
  IN /\ At(p, "claim") /\ Unlocked
     /\ \/ ~ Claimable(work, o) /\ Commit(p, work)      \* ALREADY_TAKEN
        \/ /\ Claimable(work, o) /\ ~ CanDebit(work.wallet[u], bet)
           /\ Commit(p, Reverted(claimed, o))
        \/ /\ Claimable(work, o) /\ CanDebit(work.wallet[u], bet)
           /\ Write(p, [claimed EXCEPT !.wallet[u] = Held(@, bet),
                                       !.stake[<<o, "opponent">>] = "held"])
           /\ Become(p, [job[p] EXCEPT !.step = "resolve"])

-----------------------------------------------------------------------------
(* The resolution: what a tie or a winner makes of the books. *)

Payout(bet) == (bet * Multiplier) \div 100              \* split_pot
Rake(bet)   == 2 * bet - Payout(bet)

Played(book, u, won) ==                                 \* record_game
  [book EXCEPT !.games[u].played = @ + 1, !.games[u].won = IF won THEN @ + 1 ELSE @]

RecordGames(book, o, winner) ==
  LET row == book.offer[o]
  IN [Played(Played(book, row.creator, winner = "creator"), row.opponent, winner = "opponent")
        EXCEPT !.offer[o] = [@ EXCEPT !.status = "finished", !.winner = winner]]

Tie(book, o) ==
  LET row == book.offer[o]
  IN RecordGames([book EXCEPT !.wallet[row.creator] = Released(@, row.bet),
                              !.wallet[row.opponent] = Released(@, row.bet),
                              !.stake[<<o, "creator">>] = "refunded",
                              !.stake[<<o, "opponent">>] = "refunded"], o, "none")

StakeSpentMutant(wallet, row, seat, winner) ==  \* mutant: only the loser's stake is settled
  [wallet EXCEPT ![User(row, seat)].spent = IF seat = winner THEN @ ELSE @ + row.bet]

StakeSpent(wallet, row, seat, winner) ==                \* bump_totals, both seats
  [wallet EXCEPT ![User(row, seat)].spent = @ + row.bet]

Win(book, o, winner) ==
  LET row  == book.offer[o]
      paid == [book.wallet EXCEPT ![User(row, winner)] = Credited(@, Payout(row.bet))]
      both == StakeSpent(StakeSpent(paid, row, "creator", winner), row, "opponent", winner)
  IN RecordGames([book EXCEPT !.wallet = both,
                              !.stake[<<o, "creator">>] = "released",
                              !.stake[<<o, "opponent">>] = "released",
                              !.burned = @ + Rake(row.bet)], o, winner)

\* The credits of a result; one refused raises, which undoes the accept.
Payable(book, o, result) ==
  LET row == book.offer[o]
  IN IF result = "tie"
     THEN \A seat \in Seats : CanCredit(book.wallet[User(row, seat)], row.bet)
     ELSE CanCredit(book.wallet[User(row, result)], Payout(row.bet))

AcceptResolve(p) ==
  LET o == job[p].offer
      results == IF work.offer[o].game = "dice" THEN Seats \cup {"tie"} ELSE Seats
  IN /\ At(p, "resolve")
     /\ \E result \in results :
          \/ /\ Payable(work, o, result)
             /\ Commit(p, IF result = "tie" THEN Tie(work, o) ELSE Win(work, o, result))
          \/ ~ Payable(work, o, result) /\ Commit(p, db)

-----------------------------------------------------------------------------
(* Cancel and expiry: a status flip and the creator's refund, under one    *)
(* savepoint.                                                              *)

RefundFailedMutant(book, flipped) == flipped     \* mutant: a bare flip before the refund

RefundFailed(book, flipped) == book

Retired(book, o, status) ==
  LET row == book.offer[o]
      flipped == [book EXCEPT !.offer[o].status = status]
  IN IF CanCredit(book.wallet[row.creator], row.bet)
     THEN [flipped EXCEPT !.wallet[row.creator] = Released(@, row.bet),
                          !.stake[<<o, "creator">>] = "refunded"]
     ELSE RefundFailed(book, flipped)

Cancel(o) ==
  /\ db.offer[o].status = "pending"
  /\ Atomically(Retired(db, o, "cancelled"))

\* expire: the guard re-checks that nobody accepted or cancelled meanwhile.
Expired(book, o) ==
  IF book.offer[o].status = "pending" THEN Retired(book, o, "expired") ELSE book

ExpireOnAccept(p) ==
  /\ At(p, "expire") /\ Unlocked
  /\ Commit(p, Expired(work, job[p].offer))

\* The money sweeper's pass, one at a time: an unlocked list, oldest first, then
\* one savepoint and one try per offer in a single transaction.
StaleOffers ==
  LET found == {o \in stale : db.offer[o].status = "pending"}
  IN {o \in found : Cardinality({s \in found : s < o}) < ScanLimit}

SweepList(p) ==
  /\ At(p, "idle") /\ StaleOffers # {}
  /\ \A q \in Procs : job[q].step \notin {"listed", "sweep"}
  /\ Become(p, [Idle EXCEPT !.step = "listed", !.scan = StaleOffers])
  /\ UNCHANGED <<db, work, writer, stale>>

SweepLock(p) ==
  /\ At(p, "listed") /\ Unlocked
  /\ Write(p, work)
  /\ Become(p, [job[p] EXCEPT !.step = "sweep"])

RestMutant(p) ==                             \* mutant: a refused refund ends the pass
  IF Expired(work, Min(job[p].scan)) = work THEN {} ELSE job[p].scan \ {Min(job[p].scan)}

Rest(p) == job[p].scan \ {Min(job[p].scan)}

SweepOne(p) ==
  /\ At(p, "sweep") /\ job[p].scan # {}
  /\ Write(p, Expired(work, Min(job[p].scan)))
  /\ Become(p, [job[p] EXCEPT !.scan = Rest(p)])

SweepDone(p) ==
  /\ At(p, "sweep") /\ job[p].scan = {}
  /\ Commit(p, work)

-----------------------------------------------------------------------------
Age(o) ==
  /\ db.offer[o].status = "pending"
  /\ stale' = stale \cup {o}
  /\ UNCHANGED <<db, work, writer, job>>

Earn(u, amount) ==
  /\ CanCredit(db.wallet[u], amount)
  /\ db.wallet[u].earned + amount <= MaxFlow            \* bound
  /\ Atomically([db EXCEPT !.wallet[u] = Credited(@, amount)])

Spend(u, amount) ==
  /\ CanDebit(db.wallet[u], amount)
  /\ db.wallet[u].spent + amount <= MaxFlow             \* bound
  /\ Atomically([db EXCEPT !.wallet[u] = Debited(@, amount)])

BusyTimeout(p) ==
  /\ job[p].step \in {"claim", "expire", "listed"} /\ ~ Unlocked
  /\ Become(p, Idle)
  /\ UNCHANGED <<db, work, writer, stale>>

Crash ==
  /\ job # [p \in Procs |-> Idle]
  /\ job' = [p \in Procs |-> Idle]
  /\ writer' = None /\ work' = db
  /\ UNCHANGED <<db, stale>>

Accept(p) ==
  \/ \E u \in Users, o \in Offers : AcceptRead(p, u, o)
  \/ AcceptClaim(p) \/ AcceptResolve(p) \/ ExpireOnAccept(p)

Sweep(p) == SweepList(p) \/ SweepLock(p) \/ SweepOne(p) \/ SweepDone(p)

Next ==
  \/ \E u \in Users, bet \in Bets, game \in Games : CreateOffer(u, bet, game)
  \/ \E p \in Procs : Accept(p) \/ Sweep(p) \/ BusyTimeout(p)
  \/ \E o \in Offers : Cancel(o) \/ Age(o)
  \/ \E u \in Users, amount \in Flows : Earn(u, amount) \/ Spend(u, amount)
  \/ Crash

Spec == Init /\ [][Next]_vars

(* As in P2P: the sweeper ticks for ever, not always into a held lock, and *)
(* is not killed at the same step of every pass; a handler that holds the  *)
(* lock, or waits for a free one, goes on.                                 *)
FairSpec ==
  /\ Spec
  /\ \A p \in Procs : WF_vars(AcceptClaim(p) \/ AcceptResolve(p) \/ ExpireOnAccept(p))
  /\ SF_vars(\E p \in Procs : SweepList(p) /\ Unlocked)
  /\ SF_vars(\E p \in Procs : SweepLock(p))
  /\ \A o \in Offers : SF_vars(\E p \in Procs : SweepOne(p) /\ o = Min(job[p].scan))
  /\ SF_vars(\E p \in Procs : SweepDone(p))

-----------------------------------------------------------------------------
\* Every variable stays in its set.
TypeOK ==
  /\ db \in Books /\ work \in Books
  /\ writer \in Procs \cup {None}
  /\ job \in [Procs -> Job]
  /\ stale \subseteq Offers

HeldBy(u) ==
  {s \in Offers \X Seats : db.stake[s] = "held" /\ User(db.offer[s[1]], s[2]) = u}

\* What the lifetime counters say a user owns is in his wallet or in the stakes
\* the escrow table holds for him, whichever way his games ended: hold and
\* release leave the counters alone, a decided game settles both seats (#1559).
StakesAreBacked ==
  \A u \in Users :
    db.wallet[u].balance + SumOver([s \in Offers \X Seats |-> db.offer[s[1]].bet], HeldBy(u))
      = Worth(db.wallet[u], Welcome)

\* The escrow rows follow the offer: a pending offer holds its creator's stake
\* alone, a finished one holds nothing, and no accept is ever left half done.
StakesFollowTheOffer ==
  \A o \in Offers :
    LET status == db.offer[o].status
    IN /\ status # "active"
       /\ db.stake[<<o, "creator">>] = "held" <=> status = "pending"
       /\ db.stake[<<o, "opponent">>] # "none" <=> status = "finished"

\* Games make no coins and lose none: when an offer is decided, what its two
\* players lose between them is the rake that is burned.
Lost(book) == SumOver([u \in Users |-> book.wallet[u].spent - book.wallet[u].earned], Users)

PotPaysForItself ==
  [][\A o \in Offers :
       db.offer[o].status # "finished" /\ db'.offer[o].status = "finished"
         => Lost(db') - Lost(db) = db'.burned - db.burned]_vars

\* The players' game counters count the finished offers, also when two taps,
\* an expiry and a crash meet at the deadline.
GamesMatchOffers ==
  LET done(u, seat) == {o \in Offers : /\ db.offer[o].status = "finished"
                                       /\ User(db.offer[o], seat) = u}
  IN \A u \in Users :
       /\ db.games[u].played = Cardinality(done(u, "creator")) + Cardinality(done(u, "opponent"))
       /\ db.games[u].won =
            Cardinality({s \in Offers \X Seats :
                           s[1] \in done(u, s[2]) /\ db.offer[s[1]].winner = s[2]})

\* Every variable in its set, every coin in a wallet or a stake, every game counted.
BooksAgree == TypeOK /\ StakesAreBacked /\ GamesMatchOffers

\* The creator's stake of each offer is an item of escrow: it is paid into a pot
\* or returned, once.  (The opponent's enters and leaves in one transaction.)
EscrowState == [o \in Offers |->
  LET stake == db.stake[<<o, "creator">>]
  IN CASE stake = "released" -> "paid"
       [] stake = "refunded" -> "returned"
       [] OTHER -> stake]

E == INSTANCE Escrow WITH Items <- Offers, state <- EscrowState

\* A double accept, a cancel against an accept or a sweep at the deadline never
\* settles a stake twice.
SettledOnce == E!Spec

\* One offer that cannot be refunded does not stop the pass (#268): a stale
\* offer whose creator can take the stake back is retired in the end.
PoisonBlocksNobody ==
  \A o \in Offers :
    (o \in stale /\ db.offer[o].status = "pending")
      ~> \/ db.offer[o].status # "pending"
         \/ ~ CanCredit(db.wallet[db.offer[o].creator], db.offer[o].bet)
=============================================================================
