----------------------------- MODULE GiftsProofs -----------------------------
(***************************************************************************)
(* Theorems about Gifts and its vouchers, for any users, handlers, groups, *)
(* codes, checks and amounts: type correctness, the books agree to the     *)
(* coin, an open check can always pay, a closed one never pays again.      *)
(*                                                                         *)
(* The invariant adds to BooksAgree what a handler's reads point at.  Each *)
(* write is a chain of purses (wallets and ledger); a purse is Sound when  *)
(* its ledger and the vouchers explain its wallets, and every way to move  *)
(* coins takes a sound purse to a sound one.                               *)
(***************************************************************************)
EXTENDS Gifts, WalletProofs

-----------------------------------------------------------------------------
(* Data: the smallest id, the drawn amount, the price of a check.          *)

LEMMA MinOfTwo ==
  ASSUME NEW a \in Nat, NEW b \in Nat
  PROVE  Min({a, b}) \in Nat /\ Min({a, b}) <= a /\ Min({a, b}) <= b
<1>. {a, b} \in SUBSET Nat /\ {a, b} # {}
  OBVIOUS
<1>. QED
  BY MinOfNats

LEMMA TotalNat == \A spec \in Specs : Total(spec) \in Nat
<1> SUFFICES ASSUME NEW spec \in Specs PROVE Total(spec) \in Nat
  OBVIOUS
<1>1. spec.lo \in Nat /\ spec.hi \in Nat /\ spec.max \in Nat
  BY ChecksAssumption
<1>2. \A a \in Nat, b \in Nat : a * b \in Nat
  OBVIOUS
<1>3. (spec.lo + spec.hi) \div 2 \in Nat
  BY <1>1
<1>. QED
  BY <1>1, <1>2, <1>3 DEF Total

LEMMA FundedCheck ==
  ASSUME NEW spec \in Specs, NEW u \in Users, NEW target \in Users \cup {None}
  PROVE  Funded(spec, u, target) \in Check
  BY TotalNat, ChecksAssumption DEF Funded, Check

LEMMA ReservedCheck ==
  ASSUME NEW row \in Check, NEW amount \in Nat, Reservable(row, amount)
  PROVE  /\ Reserved(row, amount) \in Check
         /\ row.active
         /\ Reserved(row, amount).type = row.type
         /\ Reserved(row, amount).creator = row.creator
         /\ Reserved(row, amount).total = row.total
         /\ Reserved(row, amount).remaining = row.remaining - amount
         /\ Reserved(row, amount).count = row.count + 1
         /\ Reserved(row, amount).max = row.max
         /\ Reserved(row, amount).active =
              (row.remaining > amount /\ (row.max > 0 => row.count + 1 < row.max))
<1> DEFINE open == row.remaining > amount /\ (row.max > 0 => row.count + 1 < row.max)
           after == [row EXCEPT !.remaining = row.remaining - amount,
                                !.count = row.count + 1, !.active = open]
<1>1. Reserved(row, amount) = after
  BY DEF Reserved
<1>2. row.remaining - amount \in Nat /\ row.count + 1 \in Nat /\ row.active
  BY DEF Reservable, Check
<1>3. open \in BOOLEAN
  OBVIOUS
<1>4. /\ after \in Check
      /\ after.type = row.type /\ after.max = row.max
      /\ after.creator = row.creator /\ after.total = row.total
      /\ after.remaining = row.remaining - amount
      /\ after.count = row.count + 1 /\ after.active = open
  <2> HIDE DEF open
  <2>. QED
    BY <1>2, <1>3, Zenon DEF Check
<1>. QED
  BY <1>1, <1>2, <1>4

LEMMA ClosedCheck ==
  ASSUME NEW row \in Check
  PROVE  LET closed == [row EXCEPT !.active = FALSE]
         IN /\ closed \in Check /\ ~ closed.active
            /\ ~ row.active => closed = row
            /\ closed.type = row.type /\ closed.creator = row.creator /\ closed.total = row.total
            /\ closed.remaining = row.remaining /\ closed.count = row.count
  BY DEF Check

-----------------------------------------------------------------------------
(* The inductive invariant: types, and a job that is under way points at a *)
(* check and, for a claim, at its claimer.                                 *)

JobsPoint ==
  \A p \in Procs :
    /\ At(p, "close") => job[p].check \in Ids
    /\ At(p, "claim") => /\ job[p].check \in Ids /\ job[p].user \in Users
                         /\ job[p].amount > 0

CheckInv == TypeOK /\ JobsPoint

\* What a step may do to the books: fund a free id out of the creator's wallet,
\* pay a claimer out of a check, or only close checks.
Funds(u, c, row) ==
  /\ db.check[c].type = "none" /\ row.type # "none"
  /\ row.creator = u /\ row.remaining = row.total /\ row.total \in Nat /\ row.count = 0
  /\ db.wallet[u] \in Wallets /\ CanDebit(db.wallet[u], row.total)
  /\ db' = [wallet |-> [db.wallet EXCEPT ![u] = Debited(@, row.total)],
            check  |-> [db.check EXCEPT ![c] = row],
            claim  |-> db.claim]

Takes(u, c, amount) ==
  /\ amount > 0
  /\ Reservable(db.check[c], amount)
  /\ db.claim[<<c, u>>] = 0
  /\ LET wallet == IF db.wallet[u] = None THEN Seeded(Welcome) ELSE db.wallet[u]
     IN /\ CanCredit(wallet, amount)
        /\ db' = [wallet |-> [db.wallet EXCEPT ![u] = Credited(wallet, amount)],
                  check  |-> [db.check EXCEPT ![c] = Reserved(db.check[c], amount)],
                  claim  |-> [db.claim EXCEPT ![<<c, u>>] = amount]]

Closes ==
  /\ db'.wallet = db.wallet /\ db'.claim = db.claim
  /\ \A c \in Ids : db'.check[c] \in {db.check[c], [db.check[c] EXCEPT !.active = FALSE]}

BooksMove ==
  \/ Closes
  \/ \E u \in Users, c \in Ids, row \in Check : Funds(u, c, row)
  \/ \E u \in Users, c \in Ids, amount \in Nat : Takes(u, c, amount)

\* What a step may do to one check: nothing, fund a free id, close it, or take a
\* claim's amount from it.
CheckMoves(c) ==
  \/ db'.check[c] = db.check[c]
  \/ /\ db.check[c].type = "none"
     /\ db'.check[c].remaining >= 1 /\ db'.check[c].count = 0
  \/ db'.check[c] = [db.check[c] EXCEPT !.active = FALSE]
  \/ \E amount \in Nat : /\ Reservable(db.check[c], amount)
                         /\ db'.check[c] = Reserved(db.check[c], amount)

LEMMA BooksFields ==
  ASSUME TypeOK
  PROVE  /\ db = [wallet |-> db.wallet, check |-> db.check, claim |-> db.claim]
         /\ db.wallet \in [Users -> Wallets \cup {None}]
         /\ db.check \in [Ids -> Check]
         /\ db.claim \in [Ids \X Users -> Nat]
  BY DEF TypeOK, Books

LEMMA SeededWallet == Seeded(Welcome) \in Wallets
  BY ChecksAssumption, MaxAmountAssumption DEF Seeded, Wallets

\* The idle job, and a process that becomes one, keep the jobs typed.
LEMMA Becoming ==
  ASSUME CheckInv, NEW p \in Procs, NEW state \in Job, Become(p, state),
         state.step = "close" => state.check \in Ids,
         state.step = "claim" => state.check \in Ids /\ state.user \in Users /\ state.amount > 0
  PROVE  job' \in [Procs -> Job] /\ JobsPoint'
<1>1. job' = [job EXCEPT ![p] = state] /\ job \in [Procs -> Job]
  BY DEF Become, CheckInv, TypeOK
<1>2. job' \in [Procs -> Job]
  BY <1>1
<1>3. \A q \in Procs : job'[q] = IF q = p THEN state ELSE job[q]
  BY <1>1
<1>. QED
  BY <1>2, <1>3 DEF CheckInv, JobsPoint, At

LEMMA IdleJob == Idle \in Job /\ Idle.step = "idle"
  BY DEF Idle, Job

-----------------------------------------------------------------------------
(* One lemma per action that writes the books.                             *)

LEMMA Funding ==
  ASSUME CheckInv, NEW u \in Users, NEW spec \in Specs, NEW target \in Users \cup {None},
         CreateCheck(u, spec, target)
  PROVE  CheckInv' /\ BooksMove /\ \A c \in Ids : CheckMoves(c)
<1> DEFINE free == {c \in Ids : db.check[c].type = "none"}
           w == Debited(db.wallet[u], Total(spec))
           row == Funded(spec, u, target)
           ws == [db.wallet EXCEPT ![u] = w]
           cs == [db.check EXCEPT ![Min(free)] = row]
<1>1. Min(free) \in free
  <2>1. free \in SUBSET Nat /\ free # {}
    BY ChecksAssumption DEF CreateCheck
  <2>. HIDE DEF free
  <2>. QED
    BY <2>1, MinOfNats
<1>2. w \in Wallets
  <2>1. db.wallet[u] \in Wallets /\ CanDebit(db.wallet[u], Total(spec))
    BY BooksFields DEF CreateCheck, CheckInv
  <2>. QED
    BY <2>1, TotalNat, WalletWrites
<1>3. row \in Check /\ row.remaining >= 1 /\ row.count = 0
  <2>1. Total(spec) \in Nat /\ Total(spec) > 0
    BY TotalNat DEF CreateCheck
  <2>. QED
    BY <2>1, FundedCheck DEF Funded
<1>4. db' = [wallet |-> ws, check |-> cs, claim |-> db.claim]
  BY BooksFields DEF CreateCheck, CheckInv
<1>5. UNCHANGED <<job, past>>
  BY DEF CreateCheck
<1>6. ws \in [Users -> Wallets \cup {None}] /\ cs \in [Ids -> Check]
  <2>. HIDE DEF w, row, free
  <2>. QED
    BY <1>2, <1>3, BooksFields DEF CheckInv
<1>7. CheckInv'
  <2>. HIDE DEF ws, cs
  <2>1. db' \in Books
    BY <1>4, <1>6, BooksFields DEF Books, CheckInv
  <2>. QED
    BY <2>1, <1>5 DEF CheckInv, TypeOK, JobsPoint, At
<1>8. \A c \in Ids : db'.check[c] = IF c = Min(free) THEN row ELSE db.check[c]
  <2>. HIDE DEF ws, row, free
  <2>. QED
    BY <1>4, BooksFields DEF CheckInv
<1>9. BooksMove
  <2>1. db.wallet[u] \in Wallets /\ CanDebit(db.wallet[u], Total(spec))
    BY BooksFields DEF CreateCheck, CheckInv
  <2>2. /\ row.type # "none" /\ row.creator = u /\ row.total = Total(spec)
        /\ row.remaining = Total(spec) /\ Total(spec) \in Nat
    BY TotalNat, ChecksAssumption DEF Funded, Types
  <2>3. db.check[Min(free)].type = "none" /\ Min(free) \in Ids
    BY <1>1
  <2>. HIDE DEF row, free
  <2>4. Funds(u, Min(free), row)
    BY <1>3, <1>4, <2>1, <2>2, <2>3 DEF Funds
  <2>. QED
    BY <1>3, <2>3, <2>4 DEF BooksMove
<1>. QED
  BY <1>1, <1>3, <1>7, <1>8, <1>9 DEF CheckMoves

LEMMA Closing ==
  ASSUME CheckInv, NEW p \in Procs, Close(p)
  PROVE  CheckInv' /\ BooksMove /\ \A c \in Ids : CheckMoves(c)
<1> DEFINE k == job[p].check
           cs == [db.check EXCEPT ![k] = [db.check[k] EXCEPT !.active = FALSE]]
<1>1. k \in Ids
  BY DEF Close, CheckInv, JobsPoint
<1>2. db.check[k] \in Check
  BY <1>1, BooksFields DEF CheckInv
<1>3. [db.check[k] EXCEPT !.active = FALSE] \in Check
  BY <1>2, ClosedCheck
<1>4. db' = [wallet |-> db.wallet, check |-> cs, claim |-> db.claim]
  BY BooksFields DEF Close, CheckInv
<1>5. cs \in [Ids -> Check]
  BY <1>1, <1>3, BooksFields DEF CheckInv
<1>6. CheckInv'
  <2>. HIDE DEF cs
  <2>1. db' \in Books
    BY <1>4, <1>5, BooksFields DEF Books, CheckInv
  <2>2. job' \in [Procs -> Job] /\ JobsPoint'
    BY IdleJob, Becoming DEF Close
  <2>. QED
    BY <2>1, <2>2 DEF CheckInv, TypeOK, Close
<1>7. \A c \in Ids :
        db'.check[c] = IF c = k THEN [db.check[k] EXCEPT !.active = FALSE] ELSE db.check[c]
  BY <1>1, <1>4, BooksFields DEF CheckInv
<1>8. BooksMove
  BY <1>4, <1>7 DEF BooksMove, Closes
<1>. QED
  BY <1>6, <1>7, <1>8 DEF CheckMoves

\* The hygiene pass closes each check whose deadline has gone by, open or not.
LEMMA Hygiene ==
  ASSUME CheckInv, DeactivateExpired
  PROVE  CheckInv' /\ BooksMove /\ \A c \in Ids : CheckMoves(c)
<1> DEFINE cs == [c \in Ids |-> IF c \in past THEN [db.check[c] EXCEPT !.active = FALSE]
                                               ELSE db.check[c]]
<1>1. cs \in [Ids -> Check]
  BY BooksFields, ClosedCheck DEF CheckInv
<1>2. db' = [wallet |-> db.wallet, check |-> cs, claim |-> db.claim]
  BY BooksFields DEF DeactivateExpired, CheckInv
<1>3. db' \in Books
  <2>. HIDE DEF cs
  <2>. QED
    BY <1>1, <1>2, BooksFields DEF Books, CheckInv
<1>4. CheckInv'
  BY <1>3 DEF CheckInv, TypeOK, JobsPoint, At, DeactivateExpired
<1>5. \A c \in Ids : db'.check[c] = cs[c]
  BY <1>2
<1>6. BooksMove
  BY <1>2, <1>5 DEF BooksMove, Closes
<1>. QED
  BY <1>4, <1>5, <1>6 DEF CheckMoves

LEMMA Reading ==
  ASSUME CheckInv, NEW p \in Procs, NEW u \in Users, NEW c \in Ids, ClaimRead(p, u, c)
  PROVE  CheckInv' /\ UNCHANGED db
<1>1. job' \in [Procs -> Job] /\ JobsPoint'
  <2>1. CASE Become(p, [Idle EXCEPT !.step = "close", !.check = c])
    <3> DEFINE state == [Idle EXCEPT !.step = "close", !.check = c]
    <3>1. state \in Job /\ state.step = "close" /\ state.check \in Ids
      BY DEF Idle, Job
    <3>. QED
      BY <2>1, <3>1, Becoming
  <2>2. CASE \E roll \in db.check[c].lo .. db.check[c].hi :
               LET amount == Min({roll, db.check[c].remaining})
               IN /\ amount > 0
                  /\ Become(p, [step |-> "claim", user |-> u, check |-> c, amount |-> amount])
    <3>1. PICK roll \in db.check[c].lo .. db.check[c].hi :
            /\ Min({roll, db.check[c].remaining}) > 0
            /\ Become(p, [step |-> "claim", user |-> u, check |-> c,
                          amount |-> Min({roll, db.check[c].remaining})])
      BY <2>2
    <3> DEFINE amount == Min({roll, db.check[c].remaining})
               state == [step |-> "claim", user |-> u, check |-> c, amount |-> amount]
    <3>2. db.check[c] \in Check
      BY BooksFields DEF CheckInv
    <3>3. roll \in Nat /\ db.check[c].remaining \in Nat
      BY <3>2 DEF Check
    <3>4. amount \in Nat
      BY <3>3, MinOfTwo
    <3>5. /\ state \in Job /\ state.step = "claim" /\ state.check \in Ids /\ state.user \in Users
          /\ state.amount > 0
      <4>1. amount > 0
        BY <3>1
      <4>. HIDE DEF amount
      <4>. QED
        BY <3>4, <4>1 DEF Job
    <3>. QED
      BY <3>1, <3>5, Becoming
  <2>. QED
    BY <2>1, <2>2 DEF ClaimRead
<1>. QED
  BY <1>1 DEF ClaimRead, CheckInv, TypeOK

\* A claim's write touches one check, and that only if its WHERE clause holds.
LEMMA Claiming ==
  ASSUME CheckInv, NEW p \in Procs, ClaimWrite(p)
  PROVE  CheckInv' /\ BooksMove /\ \A c \in Ids : CheckMoves(c)
<1> DEFINE k == job[p].check
           u == job[p].user
           amount == job[p].amount
           wallet == IF db.wallet[u] = None THEN Seeded(Welcome) ELSE db.wallet[u]
           ws == [db.wallet EXCEPT ![u] = Credited(wallet, amount)]
           cs == [db.check EXCEPT ![k] = Reserved(db.check[k], amount)]
           ls == [db.claim EXCEPT ![<<k, u>>] = amount]
           paid == [wallet |-> ws, check |-> cs, claim |-> ls]
<1>1. k \in Ids /\ u \in Users /\ amount \in Nat /\ amount > 0
  BY DEF ClaimWrite, CheckInv, JobsPoint, TypeOK, Job
<1>2. db.check[k] \in Check
  BY <1>1, BooksFields DEF CheckInv
<1>3. job' \in [Procs -> Job] /\ JobsPoint'
  BY IdleJob, Becoming DEF ClaimWrite
<1>4. \/ db' = db
      \/ /\ Reservable(db.check[k], amount) /\ db.claim[<<k, u>>] = 0
         /\ CanCredit(wallet, amount)
         /\ db' = paid
  <2>1. [db EXCEPT !.check[k] = Reserved(@, amount)]
          = [wallet |-> db.wallet, check |-> cs, claim |-> db.claim]
    BY BooksFields DEF CheckInv
  <2>. QED
    BY <2>1, BooksFields DEF ClaimWrite, CheckInv, AlreadyClaimed, CreditFailed
<1>5. CASE db' = db
  BY <1>3, <1>5 DEF CheckInv, TypeOK, CheckMoves, BooksMove, Closes, ClaimWrite
<1>6. CASE /\ Reservable(db.check[k], amount) /\ db.claim[<<k, u>>] = 0
           /\ CanCredit(wallet, amount)
           /\ db' = paid
  <2>1. wallet \in Wallets
    BY <1>1, SeededWallet, BooksFields DEF CheckInv
  <2>2. Credited(wallet, amount) \in Wallets
    <3>. HIDE DEF wallet
    <3>. QED
      BY <1>1, <1>6, <2>1, WalletWrites
  <2>3. Reserved(db.check[k], amount) \in Check
    BY <1>1, <1>2, <1>6, ReservedCheck
  <2>4. paid \in Books
    <3>1. ws \in [Users -> Wallets \cup {None}]
      <4>. HIDE DEF wallet
      <4>. QED
        BY <2>2, BooksFields DEF CheckInv
    <3>2. cs \in [Ids -> Check] /\ ls \in [Ids \X Users -> Nat]
      BY <1>1, <2>3, BooksFields DEF CheckInv
    <3>. HIDE DEF ws, cs, ls
    <3>. QED
      BY <3>1, <3>2 DEF Books
  <2>5. CheckInv'
    BY <1>3, <1>6, <2>4 DEF CheckInv, TypeOK, ClaimWrite
  <2>6. \A c \in Ids : db'.check[c] = IF c = k THEN Reserved(db.check[k], amount)
                                              ELSE db.check[c]
    BY <1>1, <1>6, BooksFields DEF CheckInv
  <2>7. Takes(u, k, amount)
    <3>. HIDE DEF k, u, amount
    <3>. QED
      BY <1>1, <1>6 DEF Takes
  <2>. HIDE DEF k, u, amount, paid
  <2>8. BooksMove
    BY <1>1, <2>7 DEF BooksMove
  <2>. QED
    BY <1>1, <1>6, <2>5, <2>6, <2>8 DEF CheckMoves
<1>. QED
  BY <1>4, <1>5, <1>6

-----------------------------------------------------------------------------
(* Vouchers: the first state, and every step.                              *)

LEMMA InitHolds == Init => CheckInv /\ OpenHasCoins
<1> SUFFICES ASSUME Init PROVE CheckInv /\ OpenHasCoins
  OBVIOUS
<1> DEFINE ws(known) == [u \in Users |-> IF u \in known THEN Seeded(Welcome) ELSE None]
           cs == [c \in Ids |-> NoCheck]
           ls == [s \in Ids \X Users |-> 0]
<1>1. PICK known \in SUBSET Users : db = [wallet |-> ws(known), check |-> cs, claim |-> ls]
  BY DEF Init
<1>2. ws(known) \in [Users -> Wallets \cup {None}]
  BY SeededWallet
<1>3. NoCheck \in Check /\ ~ NoCheck.active
  BY DEF NoCheck, Check
<1>4. cs \in [Ids -> Check] /\ ls \in [Ids \X Users -> Nat]
  BY <1>3
<1>5. db \in Books
  <2>. HIDE DEF ws, cs, ls
  <2>. QED
    BY <1>1, <1>2, <1>4 DEF Books
<1>6. job \in [Procs -> Job] /\ JobsPoint
  BY IdleJob DEF Init, JobsPoint, At
<1>7. OpenHasCoins
  BY <1>1, <1>3 DEF OpenHasCoins
<1>. QED
  BY <1>5, <1>6, <1>7 DEF CheckInv, TypeOK, Init

LEMMA StepHolds ==
  ASSUME CheckInv, [Next]_vars
  PROVE  CheckInv' /\ BooksMove /\ \A c \in Ids : CheckMoves(c)
<1>1. ASSUME NEW u \in Users, NEW spec \in Specs, NEW target \in Users \cup {None},
             CreateCheck(u, spec, target)
      PROVE  CheckInv' /\ BooksMove /\ \A c \in Ids : CheckMoves(c)
  BY <1>1, Funding
<1>2. ASSUME NEW p \in Procs, NEW u \in Users, NEW c \in Ids, ClaimRead(p, u, c)
      PROVE  CheckInv' /\ BooksMove /\ \A d \in Ids : CheckMoves(d)
  BY <1>2, Reading DEF CheckMoves, BooksMove, Closes
<1>3. ASSUME NEW p \in Procs, Close(p)
      PROVE  CheckInv' /\ BooksMove /\ \A c \in Ids : CheckMoves(c)
  BY <1>3, Closing
<1>4. ASSUME NEW p \in Procs, ClaimWrite(p)
      PROVE  CheckInv' /\ BooksMove /\ \A c \in Ids : CheckMoves(c)
  BY <1>4, Claiming
<1>5. ASSUME NEW p \in Procs, Abandon(p)
      PROVE  CheckInv' /\ BooksMove /\ \A c \in Ids : CheckMoves(c)
  <2>1. job' \in [Procs -> Job] /\ JobsPoint'
    BY <1>5, IdleJob, Becoming DEF Abandon
  <2>. QED
    BY <1>5, <2>1 DEF Abandon, CheckInv, TypeOK, CheckMoves, BooksMove, Closes
<1>6. ASSUME NEW c \in Ids, PassDeadline(c)
      PROVE  CheckInv' /\ BooksMove /\ \A d \in Ids : CheckMoves(d)
  BY <1>6 DEF PassDeadline, CheckInv, TypeOK, JobsPoint, At, CheckMoves, BooksMove, Closes
<1>7. CASE DeactivateExpired
  BY <1>7, Hygiene
<1>8. CASE UNCHANGED vars
  BY <1>8 DEF vars, CheckInv, TypeOK, JobsPoint, At, CheckMoves, BooksMove, Closes
<1>. QED
  BY <1>1, <1>2, <1>3, <1>4, <1>5, <1>6, <1>7, <1>8 DEF Next

-----------------------------------------------------------------------------
(* The wallets and the ledger of a transaction.                            *)

Purses == [wallet : [Users -> Wallets \cup {None}], ledger : Ledger]

\* The wallets are explained by the ledger, by what vouchers paid each user (in)
\* and by what he paid for them (out).  WalletsAgree says it of the tables.
Explained(in, out, purse) ==
  /\ \A u \in Users :
       LET income == in[u] + purse.ledger.to[u]
           outlay == out[u] + purse.ledger.from[u]
       IN IF purse.wallet[u] = None THEN income + outlay = 0
          ELSE /\ purse.wallet[u].balance = Welcome + income - outlay
               /\ purse.wallet[u].earned
                    = income - (IF u = Admin THEN purse.ledger.of["tax"] ELSE 0)
               /\ purse.wallet[u].spent = outlay
  /\ Admin # None => purse.ledger.of["tax"] <= purse.ledger.to[Admin]

Flow == [Users -> Nat]

Sound(in, out, purse) == in \in Flow /\ out \in Flow /\ purse \in Purses /\ Explained(in, out, purse)

\* No wallet is lost on the way.
Keeps(before, after) == \A u \in Users : before.wallet[u] # None => after.wallet[u] # None

LEMMA PurseFields ==
  ASSUME NEW purse \in Purses
  PROVE  /\ purse.wallet \in [Users -> Wallets \cup {None}]
         /\ purse.ledger \in Ledger
         /\ purse = [wallet |-> purse.wallet, ledger |-> purse.ledger]
         /\ purse.ledger.to \in [Users -> Nat] /\ purse.ledger.from \in [Users -> Nat]
         /\ purse.ledger.of \in [Kinds -> Nat]
  BY DEF Purses, Ledger

LEMMA WalletMoves ==
  ASSUME NEW w \in Wallets, NEW a \in Nat
  PROVE  /\ w # None
         /\ w.balance \in Nat /\ w.earned \in Nat /\ w.spent \in Nat
         /\ Credited(w, a).balance = w.balance + a
         /\ Credited(w, a).earned = w.earned + a
         /\ Credited(w, a).spent = w.spent
         /\ Released(w, a).balance = w.balance + a
         /\ Released(w, a).earned = w.earned
         /\ Released(w, a).spent = w.spent
         /\ Debited(w, a).balance = w.balance - a
         /\ Debited(w, a).earned = w.earned
         /\ Debited(w, a).spent = w.spent + a
<1>1. /\ w = [balance |-> w.balance, earned |-> w.earned, spent |-> w.spent]
      /\ w.balance \in Nat /\ w.earned \in Nat /\ w.spent \in Nat
  BY MaxAmountAssumption DEF Wallets
<1>2. w # None
  BY ChecksAssumption
<1>. QED
  BY <1>1, <1>2 DEF Credited, Released, Debited, Held

LEMMA RecordedFields ==
  ASSUME NEW ledger \in Ledger, NEW kind \in Kinds, NEW from, NEW to, NEW amount \in Nat
  PROVE  LET after == Recorded(ledger, kind, from, to, amount)
         IN /\ after \in Ledger
            /\ \A u \in Users :
                 /\ after.to[u] = ledger.to[u] + (IF u = to THEN amount ELSE 0)
                 /\ after.from[u] = ledger.from[u] + (IF u = from THEN amount ELSE 0)
            /\ \A k \in Kinds :
                 after.of[k] = IF k = kind THEN ledger.of[k] + amount ELSE ledger.of[k]
<1> DEFINE tos == [u \in Users |-> ledger.to[u] + (IF u = to THEN amount ELSE 0)]
           froms == [u \in Users |-> ledger.from[u] + (IF u = from THEN amount ELSE 0)]
           ofs == [ledger.of EXCEPT ![kind] = @ + amount]
<1>1. /\ ledger.to \in [Users -> Nat] /\ ledger.from \in [Users -> Nat]
      /\ ledger.of \in [Kinds -> Nat]
  BY DEF Ledger
<1>2. tos \in [Users -> Nat] /\ froms \in [Users -> Nat] /\ ofs \in [Kinds -> Nat]
  BY <1>1
<1>3. \A k \in Kinds : ofs[k] = IF k = kind THEN ledger.of[k] + amount ELSE ledger.of[k]
  BY <1>1
<1>4. Recorded(ledger, kind, from, to, amount) = [to |-> tos, from |-> froms, of |-> ofs]
  BY DEF Recorded
<1>5. [to |-> tos, from |-> froms, of |-> ofs] \in Ledger
  <2>. HIDE DEF tos, froms, ofs
  <2>. QED
    BY <1>2 DEF Ledger
<1>. HIDE DEF ofs
<1>. QED
  BY <1>3, <1>4, <1>5

LEMMA SeededFields ==
  /\ Seeded(Welcome) \in Wallets
  /\ Seeded(Welcome).balance = Welcome /\ Seeded(Welcome).earned = 0 /\ Seeded(Welcome).spent = 0
  /\ Welcome \in Nat
  BY ChecksAssumption, MaxAmountAssumption DEF Seeded, Wallets

\* get_or_create: a new wallet belongs to a user nothing was ever paid.
LEMMA OpenedPurse ==
  ASSUME NEW in, NEW out, NEW purse, Sound(in, out, purse), NEW u \in Users
  PROVE  LET after == [purse EXCEPT !.wallet = Opening(purse.wallet, u)]
         IN /\ Sound(in, out, after) /\ Keeps(purse, after)
            /\ after.wallet[u] \in Wallets
            /\ after.wallet = Opening(purse.wallet, u) /\ after.ledger = purse.ledger
<1> DEFINE after == [wallet |-> Opening(purse.wallet, u), ledger |-> purse.ledger]
<1>0. purse \in Purses /\ in \in Flow /\ out \in Flow /\ Explained(in, out, purse)
  BY DEF Sound
<1>1. [purse EXCEPT !.wallet = Opening(purse.wallet, u)] = after
  BY <1>0, PurseFields
<1>2. CASE purse.wallet[u] # None
  <2>1. after = purse
    BY <1>0, <1>2, PurseFields DEF Opening
  <2>. QED
    BY <1>0, <1>1, <1>2, <2>1, PurseFields DEF Sound, Keeps
<1>3. CASE purse.wallet[u] = None
  <2>1. /\ after.wallet \in [Users -> Wallets \cup {None}]
        /\ after.wallet[u] = Seeded(Welcome)
        /\ \A v \in Users : v # u => after.wallet[v] = purse.wallet[v]
    BY <1>0, <1>3, PurseFields, SeededFields DEF Opening
  <2>2. after \in Purses
    <3>1. Opening(purse.wallet, u) \in [Users -> Wallets \cup {None}]
      BY <2>1
    <3>. QED
      BY <1>0, <3>1, PurseFields DEF Purses
  <2>3. after.wallet[u] # None
    BY <2>1, SeededFields, WalletMoves
  <2>4. /\ in[u] \in Nat /\ out[u] \in Nat
        /\ purse.ledger.to[u] \in Nat /\ purse.ledger.from[u] \in Nat
        /\ purse.ledger.of["tax"] \in Nat
    BY <1>0, PurseFields DEF Flow, Kinds
  <2>5. in[u] + purse.ledger.to[u] = 0 /\ out[u] + purse.ledger.from[u] = 0
    <3>1. (in[u] + purse.ledger.to[u]) + (out[u] + purse.ledger.from[u]) = 0
      BY <1>0, <1>3 DEF Explained
    <3>. QED
      BY <2>4, <3>1
  <2>6. u = Admin => purse.ledger.of["tax"] = 0
    <3>1. u = Admin => purse.ledger.of["tax"] <= purse.ledger.to[u]
      BY <1>0, ChecksAssumption DEF Explained
    <3>. QED
      BY <2>4, <2>5, <3>1
  <2>7. Explained(in, out, after)
    <3>1. ASSUME NEW v \in Users, v # u
          PROVE  after.wallet[v] = purse.wallet[v]
      BY <2>1, <3>1
    <3>2. /\ after.wallet[u].balance = Welcome + (in[u] + after.ledger.to[u])
                                              - (out[u] + after.ledger.from[u])
          /\ after.wallet[u].earned = (in[u] + after.ledger.to[u])
               - (IF u = Admin THEN after.ledger.of["tax"] ELSE 0)
          /\ after.wallet[u].spent = out[u] + after.ledger.from[u]
      BY <2>1, <2>5, <2>6, SeededFields
    <3>3. after.ledger = purse.ledger
      OBVIOUS
    <3>. HIDE DEF after
    <3>. QED
      BY <1>0, <2>3, <3>1, <3>2, <3>3 DEF Explained
  <2>8. Keeps(purse, after) /\ after.wallet[u] \in Wallets
    BY <1>3, <2>1, SeededFields DEF Keeps
  <2>. QED
    BY <1>0, <1>1, <2>2, <2>7, <2>8 DEF Sound
<1>. QED
  BY <1>2, <1>3

\* A credit and its ledger row.
LEMMA CreditedPurse ==
  ASSUME NEW in, NEW out, NEW purse, Sound(in, out, purse), NEW u \in Users,
         purse.wallet[u] \in Wallets, NEW amount \in Nat, CanCredit(purse.wallet[u], amount),
         NEW kind \in Kinds \ {"tax"}
  PROVE  LET after == [wallet |-> [purse.wallet EXCEPT ![u] = Credited(@, amount)],
                       ledger |-> Recorded(purse.ledger, kind, None, u, amount)]
         IN Sound(in, out, after) /\ Keeps(purse, after)
<1> DEFINE ws == [purse.wallet EXCEPT ![u] = Credited(@, amount)]
           led == Recorded(purse.ledger, kind, None, u, amount)
           after == [wallet |-> ws, ledger |-> led]
<1>0. purse \in Purses /\ in \in Flow /\ out \in Flow /\ Explained(in, out, purse)
  BY DEF Sound
<1>1. Credited(purse.wallet[u], amount) \in Wallets
  BY WalletWrites
<1>2. /\ ws \in [Users -> Wallets \cup {None}]
      /\ ws[u] = Credited(purse.wallet[u], amount)
      /\ \A v \in Users : v # u => ws[v] = purse.wallet[v]
  BY <1>0, <1>1, PurseFields
<1>3. /\ led \in Ledger
      /\ \A v \in Users : /\ led.to[v] = purse.ledger.to[v] + (IF v = u THEN amount ELSE 0)
                          /\ led.from[v] = purse.ledger.from[v]
      /\ led.of["tax"] = purse.ledger.of["tax"]
  <2>1. \A v \in Users : v # None /\ purse.ledger.from[v] \in Nat
    BY <1>0, PurseFields, ChecksAssumption
  <2>. QED
    BY <1>0, <2>1, RecordedFields, PurseFields DEF Kinds
<1>. HIDE DEF ws, led
<1>4. after \in Purses
  BY <1>2, <1>3 DEF Purses
<1>5. Keeps(purse, after)
  BY <1>1, <1>2, WalletMoves DEF Keeps
<1>6. ASSUME NEW v \in Users
      PROVE  /\ in[v] \in Nat /\ out[v] \in Nat
             /\ purse.ledger.to[v] \in Nat /\ purse.ledger.from[v] \in Nat
             /\ purse.ledger.of["tax"] \in Nat
  BY <1>0, PurseFields DEF Flow, Kinds
<1>7. Explained(in, out, after)
  <2>1. ASSUME NEW v \in Users
        PROVE  LET income == in[v] + led.to[v]
                   outlay == out[v] + led.from[v]
               IN IF ws[v] = None THEN income + outlay = 0
                  ELSE /\ ws[v].balance = Welcome + income - outlay
                       /\ ws[v].earned = income - (IF v = Admin THEN led.of["tax"] ELSE 0)
                       /\ ws[v].spent = outlay
    <3>1. CASE v # u
      BY <1>0, <1>2, <1>3, <1>6, <3>1 DEF Explained
    <3>2. CASE v = u
      <4>1. purse.wallet[u] # None /\ ws[u] # None
        BY <1>1, <1>2, WalletMoves
      <4>2. /\ purse.wallet[u].balance = Welcome + (in[u] + purse.ledger.to[u])
                                                  - (out[u] + purse.ledger.from[u])
            /\ purse.wallet[u].earned = (in[u] + purse.ledger.to[u])
                 - (IF u = Admin THEN purse.ledger.of["tax"] ELSE 0)
            /\ purse.wallet[u].spent = out[u] + purse.ledger.from[u]
        BY <1>0, <4>1 DEF Explained
      <4>3. /\ ws[u].balance = purse.wallet[u].balance + amount
            /\ ws[u].earned = purse.wallet[u].earned + amount
            /\ ws[u].spent = purse.wallet[u].spent
        BY <1>2, WalletMoves
      <4>. QED
        BY <1>3, <1>6, <3>2, <4>1, <4>2, <4>3, SeededFields
    <3>. QED
      BY <3>1, <3>2
  <2>2. Admin # None => led.of["tax"] <= led.to[Admin]
    <3>1. ASSUME Admin # None
          PROVE  Admin \in Users /\ purse.ledger.of["tax"] <= purse.ledger.to[Admin]
      BY <1>0, <3>1, GiftsAssumption DEF Explained
    <3>. QED
      BY <1>3, <1>6, <3>1
  <2>. QED
    BY <2>1, <2>2 DEF Explained
<1>. QED
  BY <1>0, <1>4, <1>5, <1>7 DEF Sound, ws, led

\* A debit and its ledger row.
LEMMA DebitedPurse ==
  ASSUME NEW in, NEW out, NEW purse, Sound(in, out, purse), NEW u \in Users,
         purse.wallet[u] \in Wallets, NEW amount \in Nat, CanDebit(purse.wallet[u], amount),
         NEW kind \in Kinds \ {"tax"}
  PROVE  LET after == [wallet |-> [purse.wallet EXCEPT ![u] = Debited(@, amount)],
                       ledger |-> Recorded(purse.ledger, kind, u, None, amount)]
         IN Sound(in, out, after) /\ Keeps(purse, after)
<1> DEFINE ws == [purse.wallet EXCEPT ![u] = Debited(@, amount)]
           led == Recorded(purse.ledger, kind, u, None, amount)
           after == [wallet |-> ws, ledger |-> led]
<1>0. purse \in Purses /\ in \in Flow /\ out \in Flow /\ Explained(in, out, purse)
  BY DEF Sound
<1>1. Debited(purse.wallet[u], amount) \in Wallets
  BY WalletWrites
<1>2. /\ ws \in [Users -> Wallets \cup {None}]
      /\ ws[u] = Debited(purse.wallet[u], amount)
      /\ \A v \in Users : v # u => ws[v] = purse.wallet[v]
  BY <1>0, <1>1, PurseFields
<1>3. /\ led \in Ledger
      /\ \A v \in Users : /\ led.from[v] = purse.ledger.from[v] + (IF v = u THEN amount ELSE 0)
                          /\ led.to[v] = purse.ledger.to[v]
      /\ led.of["tax"] = purse.ledger.of["tax"]
  <2>1. \A v \in Users : v # None /\ purse.ledger.to[v] \in Nat
    BY <1>0, PurseFields, ChecksAssumption
  <2>. QED
    BY <1>0, <2>1, RecordedFields, PurseFields DEF Kinds
<1>. HIDE DEF ws, led
<1>4. after \in Purses
  BY <1>2, <1>3 DEF Purses
<1>5. Keeps(purse, after)
  BY <1>1, <1>2, WalletMoves DEF Keeps
<1>6. ASSUME NEW v \in Users
      PROVE  /\ in[v] \in Nat /\ out[v] \in Nat
             /\ purse.ledger.to[v] \in Nat /\ purse.ledger.from[v] \in Nat
             /\ purse.ledger.of["tax"] \in Nat
  BY <1>0, PurseFields DEF Flow, Kinds
<1>7. Explained(in, out, after)
  <2>1. ASSUME NEW v \in Users
        PROVE  LET income == in[v] + led.to[v]
                   outlay == out[v] + led.from[v]
               IN IF ws[v] = None THEN income + outlay = 0
                  ELSE /\ ws[v].balance = Welcome + income - outlay
                       /\ ws[v].earned = income - (IF v = Admin THEN led.of["tax"] ELSE 0)
                       /\ ws[v].spent = outlay
    <3>1. CASE v # u
      BY <1>0, <1>2, <1>3, <1>6, <3>1 DEF Explained
    <3>2. CASE v = u
      <4>1. purse.wallet[u] # None /\ ws[u] # None
        BY <1>1, <1>2, WalletMoves
      <4>2. /\ purse.wallet[u].balance = Welcome + (in[u] + purse.ledger.to[u])
                                                  - (out[u] + purse.ledger.from[u])
            /\ purse.wallet[u].earned = (in[u] + purse.ledger.to[u])
                 - (IF u = Admin THEN purse.ledger.of["tax"] ELSE 0)
            /\ purse.wallet[u].spent = out[u] + purse.ledger.from[u]
        BY <1>0, <4>1 DEF Explained
      <4>3. /\ ws[u].balance = purse.wallet[u].balance - amount
            /\ ws[u].earned = purse.wallet[u].earned
            /\ ws[u].spent = purse.wallet[u].spent + amount
        BY <1>2, WalletMoves
      <4>. QED
        BY <1>3, <1>6, <3>2, <4>1, <4>2, <4>3, SeededFields
    <3>. QED
      BY <3>1, <3>2
  <2>2. Admin # None => led.of["tax"] <= led.to[Admin]
    BY <1>0, <1>3, GiftsAssumption DEF Explained
  <2>. QED
    BY <2>1, <2>2 DEF Explained
<1>. QED
  BY <1>0, <1>4, <1>5, <1>7 DEF Sound, ws, led

\* The two main legs of /send: the sender is debited more than the ledger row says
\* he sent, and owes it the tax.
LEMMA SentPurse ==
  ASSUME NEW in, NEW out, NEW purse, Sound(in, out, purse), NEW u \in Users, NEW v \in Users,
         u # v, purse.wallet[u] \in Wallets, purse.wallet[v] \in Wallets,
         NEW net \in Nat, NEW tax \in Nat,
         CanDebit(purse.wallet[u], net + tax), CanCredit(purse.wallet[v], net)
  PROVE  LET debited == [purse.wallet EXCEPT ![u] = Debited(@, net + tax)]
             sent == [wallet |-> [debited EXCEPT ![v] = Credited(@, net)],
                      ledger |-> Recorded(purse.ledger, "transfer", u, v, net)]
         IN Sound(in, [out EXCEPT ![u] = @ + tax], sent) /\ Keeps(purse, sent)
<1> DEFINE debited == [purse.wallet EXCEPT ![u] = Debited(@, net + tax)]
           ws == [debited EXCEPT ![v] = Credited(@, net)]
           led == Recorded(purse.ledger, "transfer", u, v, net)
           owed == [out EXCEPT ![u] = @ + tax]
           sent == [wallet |-> ws, ledger |-> led]
<1>0. purse \in Purses /\ in \in Flow /\ out \in Flow /\ Explained(in, out, purse)
  BY DEF Sound
<1>1. /\ Debited(purse.wallet[u], net + tax) \in Wallets
      /\ Credited(purse.wallet[v], net) \in Wallets
  BY WalletWrites
<1>2. /\ ws \in [Users -> Wallets \cup {None}]
      /\ ws[u] = Debited(purse.wallet[u], net + tax)
      /\ ws[v] = Credited(purse.wallet[v], net)
      /\ \A x \in Users : x # u /\ x # v => ws[x] = purse.wallet[x]
  BY <1>0, <1>1, PurseFields
<1>3. /\ led \in Ledger
      /\ \A x \in Users : /\ led.to[x] = purse.ledger.to[x] + (IF x = v THEN net ELSE 0)
                          /\ led.from[x] = purse.ledger.from[x] + (IF x = u THEN net ELSE 0)
      /\ led.of["tax"] = purse.ledger.of["tax"]
  BY <1>0, RecordedFields, PurseFields DEF Kinds
<1>4. /\ owed \in Flow
      /\ \A x \in Users : owed[x] = out[x] + (IF x = u THEN tax ELSE 0)
  BY <1>0 DEF Flow
<1>. HIDE DEF ws, led, owed
<1>5. sent \in Purses
  BY <1>2, <1>3 DEF Purses
<1>6. Keeps(purse, sent)
  BY <1>1, <1>2, WalletMoves DEF Keeps
<1>7. ASSUME NEW x \in Users
      PROVE  /\ in[x] \in Nat /\ out[x] \in Nat
             /\ purse.ledger.to[x] \in Nat /\ purse.ledger.from[x] \in Nat
             /\ purse.ledger.of["tax"] \in Nat
  BY <1>0, PurseFields DEF Flow, Kinds
<1>8. ASSUME NEW x \in {u, v}
      PROVE  /\ purse.wallet[x] # None /\ ws[x] # None
             /\ purse.wallet[x].balance = Welcome + (in[x] + purse.ledger.to[x])
                                                   - (out[x] + purse.ledger.from[x])
             /\ purse.wallet[x].earned = (in[x] + purse.ledger.to[x])
                  - (IF x = Admin THEN purse.ledger.of["tax"] ELSE 0)
             /\ purse.wallet[x].spent = out[x] + purse.ledger.from[x]
  <2>1. purse.wallet[x] # None /\ ws[x] # None
    BY <1>1, <1>2, WalletMoves
  <2>. QED
    BY <1>0, <2>1 DEF Explained
<1>9. Explained(in, owed, sent)
  <2>1. ASSUME NEW x \in Users
        PROVE  LET income == in[x] + led.to[x]
                   outlay == owed[x] + led.from[x]
               IN IF ws[x] = None THEN income + outlay = 0
                  ELSE /\ ws[x].balance = Welcome + income - outlay
                       /\ ws[x].earned = income - (IF x = Admin THEN led.of["tax"] ELSE 0)
                       /\ ws[x].spent = outlay
    <3>1. CASE x # u /\ x # v
      BY <1>0, <1>2, <1>3, <1>4, <1>7, <3>1 DEF Explained
    <3>2. CASE x = u
      <4>1. /\ ws[u].balance = purse.wallet[u].balance - (net + tax)
            /\ ws[u].earned = purse.wallet[u].earned
            /\ ws[u].spent = purse.wallet[u].spent + (net + tax)
        <5>1. net + tax \in Nat
          OBVIOUS
        <5>. QED
          BY <1>2, <5>1, WalletMoves
      <4>. QED
        BY <1>3, <1>4, <1>7, <1>8, <3>2, <4>1, SeededFields
    <3>3. CASE x = v
      <4>1. /\ ws[v].balance = purse.wallet[v].balance + net
            /\ ws[v].earned = purse.wallet[v].earned + net
            /\ ws[v].spent = purse.wallet[v].spent
        BY <1>2, WalletMoves
      <4>. QED
        BY <1>3, <1>4, <1>7, <1>8, <3>3, <4>1, SeededFields
    <3>. QED
      BY <3>1, <3>2, <3>3
  <2>2. Admin # None => led.of["tax"] <= led.to[Admin]
    <3>1. ASSUME Admin # None
          PROVE  Admin \in Users /\ purse.ledger.of["tax"] <= purse.ledger.to[Admin]
      BY <1>0, <3>1, GiftsAssumption DEF Explained
    <3>. QED
      BY <1>3, <1>7, <3>1
  <2>. QED
    BY <2>1, <2>2 DEF Explained
<1>. QED
  BY <1>0, <1>4, <1>5, <1>6, <1>9 DEF Sound, ws, led, owed

\* What the sender owes is written down, whoever gets it.
LEMMA OwedPurse ==
  ASSUME NEW in, NEW out \in Flow, NEW u \in Users, NEW tax \in Nat, NEW purse,
         Sound(in, [out EXCEPT ![u] = @ + tax], purse)
  PROVE  LET after == [wallet |-> purse.wallet,
                       ledger |-> Recorded(purse.ledger, "burned", u, None, tax)]
         IN Sound(in, out, after) /\ Keeps(purse, after)
<1> DEFINE owed == [out EXCEPT ![u] = @ + tax]
           led == Recorded(purse.ledger, "burned", u, None, tax)
           after == [wallet |-> purse.wallet, ledger |-> led]
<1>0. purse \in Purses /\ in \in Flow /\ Explained(in, owed, purse)
  BY DEF Sound
<1>1. \A x \in Users : owed[x] = out[x] + (IF x = u THEN tax ELSE 0)
  BY DEF Flow
<1>2. /\ led \in Ledger
      /\ \A x \in Users : /\ led.to[x] = purse.ledger.to[x]
                          /\ led.from[x] = purse.ledger.from[x] + (IF x = u THEN tax ELSE 0)
      /\ led.of["tax"] = purse.ledger.of["tax"]
  <2>1. \A x \in Users : x # None /\ purse.ledger.to[x] \in Nat
    BY <1>0, PurseFields, ChecksAssumption
  <2>. QED
    BY <1>0, <2>1, RecordedFields, PurseFields DEF Kinds
<1>. HIDE DEF owed, led
<1>3. after \in Purses
  BY <1>0, <1>2, PurseFields DEF Purses
<1>4. ASSUME NEW x \in Users
      PROVE  /\ in[x] + led.to[x] = in[x] + purse.ledger.to[x]
             /\ out[x] + led.from[x] = owed[x] + purse.ledger.from[x]
  <2>1. /\ in[x] \in Nat /\ out[x] \in Nat
        /\ purse.ledger.to[x] \in Nat /\ purse.ledger.from[x] \in Nat
    BY <1>0, PurseFields DEF Flow
  <2>. QED
    BY <1>1, <1>2, <2>1
<1>5. Explained(in, out, after)
  BY <1>0, <1>2, <1>4, GiftsAssumption DEF Explained
<1>6. Keeps(purse, after)
  BY DEF Keeps
<1>. QED
  BY <1>0, <1>3, <1>5, <1>6 DEF Sound, owed, led

-----------------------------------------------------------------------------
(* The purse after each kind of payment.                                   *)

LEMMA KeepsOn ==
  ASSUME NEW a, NEW b, NEW c, Keeps(a, b), Keeps(b, c)
  PROVE  Keeps(a, c)
  BY DEF Keeps

\* A mint is a credit with its row, or at most a new empty wallet.
LEMMA MintedPurse ==
  ASSUME NEW in, NEW out, NEW purse, Sound(in, out, purse), NEW u \in Users,
         NEW amount \in Nat, NEW kind \in Kinds \ {"tax"}
  PROVE  LET after == Minted(purse, u, amount, kind)
         IN /\ Sound(in, out, after) /\ Keeps(purse, after)
            /\ after.ledger.of = IF Paid(purse, u, amount) /\ amount # 0
                                 THEN [purse.ledger.of EXCEPT ![kind] = @ + amount]
                                 ELSE purse.ledger.of
<1> DEFINE wallet == Opening(purse.wallet, u)
           open == [purse EXCEPT !.wallet = wallet]
           paid == [wallet |-> [open.wallet EXCEPT ![u] = Credited(@, amount)],
                    ledger |-> Recorded(open.ledger, kind, None, u, amount)]
<1>1. /\ Sound(in, out, open) /\ Keeps(purse, open)
      /\ open.wallet[u] \in Wallets
      /\ open.wallet = wallet /\ open.ledger = purse.ledger
  BY OpenedPurse
<1>2. CASE amount = 0
  <2>1. Minted(purse, u, amount, kind) = purse
    BY <1>2 DEF Minted
  <2>. QED
    BY <1>2, <2>1 DEF Keeps
<1>3. CASE amount # 0 /\ ~ Paid(purse, u, amount)
  <2>1. Minted(purse, u, amount, kind) = open
    BY <1>3 DEF Minted
  <2>. HIDE DEF open
  <2>. QED
    BY <1>1, <1>3, <2>1
<1>4. CASE amount # 0 /\ Paid(purse, u, amount)
  <2>1. Minted(purse, u, amount, kind)
          = [wallet |-> [wallet EXCEPT ![u] = Credited(@, amount)],
             ledger |-> Recorded(purse.ledger, kind, None, u, amount)]
    BY <1>4 DEF Minted
  <2>2. Minted(purse, u, amount, kind) = paid
    <3>. HIDE DEF open, wallet
    <3>. QED
      BY <1>1, <2>1
  <2>3. CanCredit(open.wallet[u], amount)
    BY <1>1, <1>4 DEF Paid
  <2>4. Sound(in, out, paid) /\ Keeps(open, paid)
    <3>. HIDE DEF open
    <3>. QED
      BY <1>1, <2>3, CreditedPurse
  <2>5. paid.ledger.of = [purse.ledger.of EXCEPT ![kind] = @ + amount]
    <3>. HIDE DEF open
    <3>. QED
      BY <1>1 DEF Recorded
  <2>. HIDE DEF paid, open
  <2>. QED
    BY <1>1, <1>4, <2>2, <2>4, <2>5, KeepsOn
<1>. QED
  BY <1>2, <1>3, <1>4

LEMMA MaxOfTwo ==
  ASSUME NEW a \in Nat, NEW b \in Nat
  PROVE  Max({a, b}) \in {a, b}
<1>1. \E x \in {a, b} : \A y \in {a, b} : x >= y
  <2>1. CASE a >= b
    BY <2>1
  <2>2. CASE b >= a
    BY <2>2
  <2>. QED
    BY <2>1, <2>2
<1>. QED
  BY <1>1 DEF Max

\* A fee or a share is no more than what it is taken from.
LEMMA CommissionFits ==
  ASSUME NEW amount \in Nat, NEW percent \in 0..100
  PROVE  Commission(amount, percent) \in Nat /\ Commission(amount, percent) <= amount
<1>1. CASE amount = 0 \/ percent = 0
  BY <1>1 DEF Commission
<1>2. CASE amount # 0 /\ percent # 0
  <2> DEFINE cut == (amount * percent) \div 100
  <2>1. amount * percent \in Nat /\ amount * percent <= amount * 100
    OBVIOUS
  <2>2. cut \in Nat /\ cut <= amount
    BY <2>1
  <2>. HIDE DEF cut
  <2>3. amount >= 1
    BY <1>2
  <2>4. Max({1, cut}) \in {1, cut}
    BY <2>2, MaxOfTwo
  <2>. QED
    BY <1>2, <2>2, <2>3, <2>4 DEF Commission, cut
<1>. QED
  BY <1>1, <1>2

\* The tax row says that the sender paid it, whoever got it.
LEMMA TaxedPurse ==
  ASSUME NEW in, NEW out \in Flow, NEW u \in Users, NEW tax \in Nat, NEW purse,
         Sound(in, [out EXCEPT ![u] = @ + tax], purse)
  PROVE  LET after == Taxed(purse, u, tax)
         IN /\ Sound(in, out, after) /\ Keeps(purse, after)
            /\ \A k \in Kinds \ {"tax", "burned"} : after.ledger.of[k] = purse.ledger.of[k]
<1> DEFINE owed == [out EXCEPT ![u] = @ + tax]
           wallet == Opening(purse.wallet, Admin)
           open == [purse EXCEPT !.wallet = wallet]
           burned == [wallet |-> open.wallet,
                      ledger |-> Recorded(open.ledger, "burned", u, None, tax)]
           after == Taxed(purse, u, tax)
<1>0. purse \in Purses /\ in \in Flow /\ Explained(in, owed, purse)
  BY DEF Sound
<1>1. \A x \in Users : owed[x] = out[x] + (IF x = u THEN tax ELSE 0)
  BY DEF Flow
<1>2. CASE tax = 0
  <2>1. owed = out
    BY <1>2 DEF Flow
  <2>2. after = purse
    BY <1>2 DEF Taxed
  <2>. QED
    BY <1>0, <2>1, <2>2 DEF Sound, Keeps
<1>3. CASE tax # 0 /\ Admin = None
  <2>1. after = [wallet |-> purse.wallet,
                 ledger |-> Recorded(purse.ledger, "burned", u, None, tax)]
    BY <1>0, <1>3, PurseFields DEF Taxed
  <2>2. Sound(in, out, after) /\ Keeps(purse, after)
    BY <2>1, OwedPurse
  <2>3. \A k \in Kinds \ {"tax", "burned"} : after.ledger.of[k] = purse.ledger.of[k]
    BY <1>0, <2>1, PurseFields, RecordedFields DEF Kinds
  <2>. QED
    BY <2>2, <2>3
<1>4. CASE tax # 0 /\ Admin # None
  <2>0. Admin \in Users
    BY <1>4, GiftsAssumption
  <2>1. /\ Sound(in, owed, open) /\ Keeps(purse, open)
        /\ open.wallet[Admin] \in Wallets
        /\ open.wallet = wallet /\ open.ledger = purse.ledger
    BY <2>0, OpenedPurse
  <2>2. CASE ~ Paid(purse, Admin, tax)
    <3>1. after = burned
      <4>1. after = [wallet |-> wallet, ledger |-> Recorded(purse.ledger, "burned", u, None, tax)]
        BY <1>4, <2>2 DEF Taxed
      <4>. HIDE DEF open, wallet
      <4>. QED
        BY <2>1, <4>1
    <3>2. Sound(in, out, burned) /\ Keeps(open, burned)
      <4>. HIDE DEF open
      <4>. QED
        BY <2>1, OwedPurse
    <3>3. \A k \in Kinds \ {"tax", "burned"} : burned.ledger.of[k] = purse.ledger.of[k]
      <4>. HIDE DEF open
      <4>. QED
        BY <1>0, <2>1, PurseFields, RecordedFields DEF Kinds
    <3>. HIDE DEF burned, open
    <3>. QED
      BY <2>1, <3>1, <3>2, <3>3, KeepsOn
  <2>3. CASE Paid(purse, Admin, tax)
    <3> DEFINE ws == [open.wallet EXCEPT ![Admin] = Released(@, tax)]
               led == Recorded(open.ledger, "tax", u, Admin, tax)
               taxed == [wallet |-> ws, ledger |-> led]
    <3>1. after = taxed
      <4>1. after = [wallet |-> [wallet EXCEPT ![Admin] = Released(@, tax)],
                     ledger |-> Recorded(purse.ledger, "tax", u, Admin, tax)]
        BY <1>4, <2>3 DEF Taxed
      <4>. HIDE DEF open, wallet
      <4>. QED
        BY <2>1, <4>1
    <3>2. open \in Purses /\ Explained(in, owed, open)
      BY <2>1 DEF Sound
    <3>3. CanCredit(open.wallet[Admin], tax)
      BY <2>1, <2>3 DEF Paid
    <3>. HIDE DEF open, owed
    <3>4. Released(open.wallet[Admin], tax) \in Wallets
      BY <2>1, <3>3, WalletWrites
    <3>5. /\ ws \in [Users -> Wallets \cup {None}]
          /\ ws[Admin] = Released(open.wallet[Admin], tax)
          /\ \A x \in Users : x # Admin => ws[x] = open.wallet[x]
      BY <2>0, <3>2, <3>4, PurseFields
    <3>6. /\ led \in Ledger
          /\ \A x \in Users : /\ led.to[x] = open.ledger.to[x] + (IF x = Admin THEN tax ELSE 0)
                              /\ led.from[x] = open.ledger.from[x] + (IF x = u THEN tax ELSE 0)
          /\ led.of["tax"] = open.ledger.of["tax"] + tax
          /\ \A k \in Kinds \ {"tax", "burned"} : led.of[k] = open.ledger.of[k]
      BY <3>2, RecordedFields, PurseFields DEF Kinds
    <3>. HIDE DEF ws, led
    <3>7. taxed \in Purses
      BY <3>5, <3>6 DEF Purses
    <3>8. Keeps(open, taxed)
      BY <3>4, <3>5, WalletMoves DEF Keeps
    <3>9. ASSUME NEW x \in Users
          PROVE  /\ in[x] \in Nat /\ out[x] \in Nat
                 /\ open.ledger.to[x] \in Nat /\ open.ledger.from[x] \in Nat
                 /\ open.ledger.of["tax"] \in Nat
      BY <1>0, <3>2, PurseFields DEF Flow, Kinds
    <3>10. Explained(in, out, taxed)
      <4>1. ASSUME NEW x \in Users
            PROVE  LET income == in[x] + led.to[x]
                       outlay == out[x] + led.from[x]
                   IN IF ws[x] = None THEN income + outlay = 0
                      ELSE /\ ws[x].balance = Welcome + income - outlay
                           /\ ws[x].earned = income - (IF x = Admin THEN led.of["tax"] ELSE 0)
                           /\ ws[x].spent = outlay
        <5>1. out[x] + led.from[x] = owed[x] + open.ledger.from[x]
          BY <1>1, <3>6, <3>9
        <5>2. CASE x # Admin
          BY <3>2, <3>5, <3>6, <3>9, <5>1, <5>2 DEF Explained
        <5>3. CASE x = Admin
          <6>1. open.wallet[x] # None /\ ws[x] # None
            BY <2>1, <3>4, <3>5, <5>3, WalletMoves
          <6>2. /\ open.wallet[x].balance = Welcome + (in[x] + open.ledger.to[x])
                                                    - (owed[x] + open.ledger.from[x])
                /\ open.wallet[x].earned = (in[x] + open.ledger.to[x]) - open.ledger.of["tax"]
                /\ open.wallet[x].spent = owed[x] + open.ledger.from[x]
            BY <3>2, <5>3, <6>1 DEF Explained
          <6>3. /\ ws[x].balance = open.wallet[x].balance + tax
                /\ ws[x].earned = open.wallet[x].earned
                /\ ws[x].spent = open.wallet[x].spent
            BY <2>1, <3>5, <5>3, WalletMoves
          <6>4. owed[x] \in Nat
            BY <1>1, <3>9
          <6>. QED
            BY <3>6, <3>9, <5>1, <5>3, <6>1, <6>2, <6>3, <6>4, SeededFields
        <5>. QED
          BY <5>2, <5>3
      <4>2. led.of["tax"] <= led.to[Admin]
        <5>1. open.ledger.of["tax"] <= open.ledger.to[Admin]
          BY <1>4, <3>2 DEF Explained
        <5>. QED
          BY <2>0, <3>6, <3>9, <5>1
      <4>. QED
        BY <4>1, <4>2 DEF Explained
    <3>11. Sound(in, out, taxed)
      BY <1>0, <3>7, <3>10 DEF Sound
    <3>12. \A k \in Kinds \ {"tax", "burned"} : taxed.ledger.of[k] = purse.ledger.of[k]
      BY <2>1, <3>6
    <3>. HIDE DEF taxed
    <3>. QED
      BY <2>1, <3>1, <3>8, <3>11, <3>12, KeepsOn
  <2>. QED
    BY <2>2, <2>3
<1>. QED
  BY <1>2, <1>3, <1>4

\* Share and fee together are at most the donation they are taken from.
LEMMA OwnerPaidPurse ==
  ASSUME NEW in, NEW out, NEW purse, Sound(in, out, purse),
         NEW owner \in Users \cup {None}, NEW amount \in Nat
  PROVE  LET after == OwnerPaid(purse, owner, amount)
         IN /\ Sound(in, out, after) /\ Keeps(purse, after)
            /\ \A k \in Kinds \ {"share", "fee"} : after.ledger.of[k] = purse.ledger.of[k]
            /\ after.ledger.of["share"] + after.ledger.of["fee"]
                 <= purse.ledger.of["share"] + purse.ledger.of["fee"] + amount
<1> DEFINE fee == Commission(amount, DeveloperPercent)
           share == amount - fee
           paid == Minted(purse, owner, share, "share")
           done == Minted(paid, Admin, fee, "fee")
           after == OwnerPaid(purse, owner, amount)
<1>1. fee \in Nat /\ share \in Nat /\ share + fee = amount
  <2>1. DeveloperPercent \in 0..100
    BY GiftsAssumption
  <2>2. fee \in Nat /\ fee <= amount
    BY <2>1, CommissionFits
  <2>. HIDE DEF fee
  <2>. QED
    BY <2>2
<1>2. purse \in Purses /\ purse.ledger.of \in [Kinds -> Nat]
  BY PurseFields DEF Sound
<1>3. CASE owner = None
  <2>1. after = purse
    BY <1>3 DEF OwnerPaid
  <2>. QED
    BY <1>2, <2>1 DEF Keeps, Kinds
<1>4. CASE owner # None
  <2>. HIDE DEF fee, share
  <2>1. /\ Sound(in, out, paid) /\ Keeps(purse, paid)
        /\ paid.ledger.of \in {purse.ledger.of, [purse.ledger.of EXCEPT !["share"] = @ + share]}
    <3>1. owner \in Users /\ "share" \in Kinds \ {"tax"}
      BY <1>4 DEF Kinds
    <3>2. /\ Sound(in, out, paid) /\ Keeps(purse, paid)
          /\ paid.ledger.of = IF Paid(purse, owner, share) /\ share # 0
                              THEN [purse.ledger.of EXCEPT !["share"] = @ + share]
                              ELSE purse.ledger.of
      <4>1. share \in Nat
        BY <1>1
      <4>. QED
        BY <3>1, <4>1, MintedPurse, SMTT(60)
    <3>. HIDE DEF paid
    <3>. QED
      BY <3>2, Zenon
  <2>2. /\ \A k \in Kinds \ {"share"} : paid.ledger.of[k] = purse.ledger.of[k]
        /\ paid.ledger.of["share"] <= purse.ledger.of["share"] + share
        /\ paid.ledger.of["share"] \in Nat
        /\ paid.ledger.of \in [Kinds -> Nat]
    <3>. HIDE DEF paid
    <3>. QED
      BY <1>1, <1>2, <2>1 DEF Kinds
  <2>. HIDE DEF paid
  <2>3. CASE after = paid
    <3>1. purse.ledger.of["fee"] \in Nat /\ purse.ledger.of["share"] \in Nat
      BY <1>2 DEF Kinds
    <3>2. paid.ledger.of["fee"] = purse.ledger.of["fee"]
      BY <2>2 DEF Kinds
    <3>. QED
      BY <1>1, <2>1, <2>2, <2>3, <3>1, <3>2
  <2>4. CASE after = done /\ Admin # None
    <3>1. Admin \in Users
      BY <2>4, GiftsAssumption
    <3>2. /\ Sound(in, out, done) /\ Keeps(paid, done)
          /\ done.ledger.of \in {paid.ledger.of, [paid.ledger.of EXCEPT !["fee"] = @ + fee]}
      <4>1. "fee" \in Kinds \ {"tax"}
        BY DEF Kinds
      <4>2. /\ Sound(in, out, done) /\ Keeps(paid, done)
            /\ done.ledger.of = IF Paid(paid, Admin, fee) /\ fee # 0
                                THEN [paid.ledger.of EXCEPT !["fee"] = @ + fee]
                                ELSE paid.ledger.of
        <5>1. fee \in Nat /\ Sound(in, out, paid)
          BY <1>1, <2>1
        <5>. QED
          BY <3>1, <4>1, <5>1, MintedPurse, SMTT(60)
      <4>. HIDE DEF done
      <4>. QED
        BY <4>2, Zenon
    <3>. HIDE DEF done
    <3>3. /\ \A k \in Kinds \ {"fee"} : done.ledger.of[k] = paid.ledger.of[k]
          /\ done.ledger.of["fee"] <= paid.ledger.of["fee"] + fee
          /\ done.ledger.of["fee"] \in Nat
      BY <1>1, <2>2, <3>2 DEF Kinds
    <3>4. /\ purse.ledger.of["fee"] \in Nat /\ purse.ledger.of["share"] \in Nat
          /\ paid.ledger.of["fee"] = purse.ledger.of["fee"]
          /\ done.ledger.of["share"] = paid.ledger.of["share"]
      BY <1>2, <2>2, <3>3 DEF Kinds
    <3>5. done.ledger.of["share"] + done.ledger.of["fee"]
            <= purse.ledger.of["share"] + purse.ledger.of["fee"] + amount
      BY <1>1, <2>2, <3>3, <3>4
    <3>. QED
      BY <2>1, <2>2, <2>4, <3>2, <3>3, <3>5, KeepsOn
  <2>5. after = paid \/ (after = done /\ Admin # None)
    BY <1>4 DEF OwnerPaid, fee, share, paid
  <2>. QED
    BY <2>3, <2>4, <2>5
<1>. QED
  BY <1>3, <1>4

-----------------------------------------------------------------------------
(* Vouchers and wallets.                                                   *)

\* What vouchers paid to each user, and what he paid for them.
ClaimedBy == [u \in Users |-> SumOver([c \in Ids |-> db.claim[<<c, u>>]], Ids)]
FundedBy  == [u \in Users |-> SumOver([c \in Ids |-> db.check[c].total],
                                      {c \in Ids : db.check[c].creator = u})]

\* An id that was not handed out yet has no claims and no creator.
FreeIsBlank ==
  \A c \in Ids : db.check[c].type = "none" =>
    /\ db.check[c].creator = None /\ db.check[c].total = 0
    /\ db.check[c].remaining = 0 /\ db.check[c].count = 0

VouchersAgree == FreeIsBlank /\ CheckMatchesClaims /\ Sound(ClaimedBy, FundedBy, Purse)

LEMMA FlowsAreFlows ==
  ASSUME TypeOK
  PROVE  ClaimedBy \in Flow /\ FundedBy \in Flow
<1>1. IsFiniteSet(Ids)
  BY ChecksAssumption
<1>2. ASSUME NEW u \in Users PROVE ClaimedBy[u] \in Nat
  <2> DEFINE f == [c \in Ids |-> db.claim[<<c, u>>]]
  <2>1. \A c \in Ids : f[c] \in Nat
    BY BooksFields
  <2>2. SumOver(f, Ids) \in Nat
    <3>. HIDE DEF f
    <3>. QED
      BY <1>1, <2>1, SumNat
  <2>. QED
    BY <2>2 DEF ClaimedBy
<1>3. ASSUME NEW u \in Users PROVE FundedBy[u] \in Nat
  <2> DEFINE f == [c \in Ids |-> db.check[c].total]
             S == {c \in Ids : db.check[c].creator = u}
  <2>1. \A c \in Ids : db.check[c] \in Check
    BY BooksFields
  <2>2. \A c \in S : f[c] \in Nat
    BY <2>1 DEF Check
  <2>3. IsFiniteSet(S)
    BY <1>1, FS_Subset
  <2>4. SumOver(f, S) \in Nat
    <3>. HIDE DEF f, S
    <3>. QED
      BY <2>2, <2>3, SumNat
  <2>. QED
    BY <2>4 DEF FundedBy
<1>. QED
  BY <1>2, <1>3 DEF Flow, ClaimedBy, FundedBy

\* One wallet changes, and with it what its user is known to have got and paid.
LEMMA MovedPurse ==
  ASSUME NEW in, NEW out, NEW purse, Sound(in, out, purse),
         NEW u \in Users, NEW more \in Nat, NEW less \in Nat,
         NEW in2 \in Flow, NEW out2 \in Flow, NEW after \in Purses,
         after.ledger = purse.ledger,
         purse.wallet[u] \in Wallets, after.wallet[u] \in Wallets,
         after.wallet[u].balance = purse.wallet[u].balance + more - less,
         after.wallet[u].earned = purse.wallet[u].earned + more,
         after.wallet[u].spent = purse.wallet[u].spent + less,
         \A v \in Users : /\ in2[v] = in[v] + (IF v = u THEN more ELSE 0)
                          /\ out2[v] = out[v] + (IF v = u THEN less ELSE 0)
                          /\ v # u => after.wallet[v] = purse.wallet[v]
  PROVE  Sound(in2, out2, after) /\ Keeps(purse, after)
<1>0. purse \in Purses /\ in \in Flow /\ out \in Flow /\ Explained(in, out, purse)
  BY DEF Sound
<1>1. purse.wallet[u] # None /\ after.wallet[u] # None
  BY WalletMoves
<1>2. ASSUME NEW v \in Users
      PROVE  /\ in[v] \in Nat /\ out[v] \in Nat
             /\ purse.ledger.to[v] \in Nat /\ purse.ledger.from[v] \in Nat
             /\ purse.ledger.of["tax"] \in Nat
  BY <1>0, PurseFields DEF Flow, Kinds
<1>3. ASSUME NEW v \in Users
      PROVE  LET income == in2[v] + after.ledger.to[v]
                 outlay == out2[v] + after.ledger.from[v]
             IN IF after.wallet[v] = None THEN income + outlay = 0
                ELSE /\ after.wallet[v].balance = Welcome + income - outlay
                     /\ after.wallet[v].earned
                          = income - (IF v = Admin THEN after.ledger.of["tax"] ELSE 0)
                     /\ after.wallet[v].spent = outlay
  <2>1. CASE v # u
    BY <1>0, <1>2, <2>1 DEF Explained
  <2>2. CASE v = u
    <3>1. /\ purse.wallet[u].balance = Welcome + (in[u] + purse.ledger.to[u])
                                                - (out[u] + purse.ledger.from[u])
          /\ purse.wallet[u].earned = (in[u] + purse.ledger.to[u])
               - (IF u = Admin THEN purse.ledger.of["tax"] ELSE 0)
          /\ purse.wallet[u].spent = out[u] + purse.ledger.from[u]
      BY <1>0, <1>1 DEF Explained
    <3>. QED
      BY <1>1, <1>2, <2>2, <3>1, SeededFields
  <2>. QED
    BY <2>1, <2>2
<1>4. Explained(in2, out2, after)
  BY <1>0, <1>3 DEF Explained
<1>. QED
  BY <1>1, <1>4 DEF Sound, Keeps

LEMMA PurseOfBooks ==
  ASSUME TypeOK, book \in Book
  PROVE  Purse \in Purses /\ Purse.wallet = db.wallet /\ Purse.ledger = book.ledger
  BY BooksFields DEF Purse, Purses, Book

\* A pass or a late claim that only closes checks.
LEMMA ClosingKeeps ==
  ASSUME TypeOK, TypeOK', VouchersAgree, Closes, UNCHANGED book
  PROVE  VouchersAgree' /\ Keeps(Purse, Purse')
<1>1. \A c \in Ids : db.check[c] \in Check
  BY BooksFields
<1>2. ASSUME NEW c \in Ids
      PROVE  /\ db'.check[c].type = db.check[c].type
             /\ db'.check[c].creator = db.check[c].creator
             /\ db'.check[c].total = db.check[c].total
             /\ db'.check[c].remaining = db.check[c].remaining
             /\ db'.check[c].count = db.check[c].count
  <2>1. db'.check[c] = db.check[c] \/ db'.check[c] = [db.check[c] EXCEPT !.active = FALSE]
    BY DEF Closes
  <2> DEFINE row == db.check[c]
             closed == [row EXCEPT !.active = FALSE]
  <2>2. row \in Check
    BY <1>1
  <2>3. /\ closed.type = row.type /\ closed.creator = row.creator /\ closed.total = row.total
        /\ closed.remaining = row.remaining /\ closed.count = row.count
    <3>. HIDE DEF row
    <3>. QED
      BY <2>2, ClosedCheck
  <2>4. db'.check[c] = row \/ db'.check[c] = closed
    BY <2>1
  <2>. HIDE DEF closed
  <2>. QED
    BY <2>3, <2>4
<1>3. ClaimedBy' = ClaimedBy /\ FundedBy' = FundedBy
  <2>1. [c \in Ids |-> db'.check[c].total] = [c \in Ids |-> db.check[c].total]
    BY <1>2
  <2>2. \A u \in Users : {c \in Ids : db'.check[c].creator = u}
                          = {c \in Ids : db.check[c].creator = u}
    BY <1>2
  <2>. QED
    BY <2>1, <2>2, Zenon DEF ClaimedBy, FundedBy, Closes
<1>4. Purse' = Purse
  BY DEF Purse, Closes
<1>5. FreeIsBlank'
  BY <1>2 DEF VouchersAgree, FreeIsBlank
<1>6. CheckMatchesClaims'
  BY <1>2 DEF VouchersAgree, CheckMatchesClaims, Closes
<1>. QED
  BY <1>3, <1>4, <1>5, <1>6 DEF VouchersAgree, Keeps

\* A check's coins leave the creator's wallet and are all in the check.
LEMMA FundingKeeps ==
  ASSUME TypeOK, TypeOK', book \in Book, VouchersAgree, UNCHANGED book,
         NEW u \in Users, NEW c \in Ids, NEW row \in Check, Funds(u, c, row)
  PROVE  VouchersAgree' /\ Keeps(Purse, Purse')
<1>1. /\ \A k \in Ids : db'.check[k] = IF k = c THEN row ELSE db.check[k]
      /\ \A v \in Users : db'.wallet[v] = IF v = u THEN Debited(db.wallet[u], row.total)
                                          ELSE db.wallet[v]
      /\ db'.claim = db.claim
  BY BooksFields DEF Funds
<1>2. /\ row.type # "none" /\ row.creator = u /\ row.remaining = row.total
      /\ row.total \in Nat /\ row.count = 0
      /\ db.check[c].creator = None /\ db.check[c].total = 0
      /\ db.check[c].remaining = 0 /\ db.check[c].count = 0
  BY DEF Funds, VouchersAgree, FreeIsBlank
<1>3. FreeIsBlank'
  BY <1>1, <1>2 DEF VouchersAgree, FreeIsBlank
<1>4. CheckMatchesClaims'
  <2>1. ASSUME NEW k \in Ids
        PROVE  /\ db'.check[k].remaining
                    + SumOver([v \in Users |-> db'.claim[<<k, v>>]], Users) = db'.check[k].total
               /\ db'.check[k].count = Cardinality({v \in Users : db'.claim[<<k, v>>] # 0})
    <3> DEFINE paid == SumOver([v \in Users |-> db.claim[<<k, v>>]], Users)
    <3>1. paid \in Nat
      <4> DEFINE f == [v \in Users |-> db.claim[<<k, v>>]]
      <4>1. \A v \in Users : f[v] \in Nat
        BY BooksFields
      <4>. HIDE DEF f
      <4>2. SumOver(f, Users) \in Nat
        BY <4>1, ChecksAssumption, SumNat
      <4>. QED
        BY <4>2 DEF f
    <3>2. /\ db.check[k].remaining + paid = db.check[k].total
          /\ db.check[k].count = Cardinality({v \in Users : db.claim[<<k, v>>] # 0})
      BY DEF VouchersAgree, CheckMatchesClaims
    <3>. HIDE DEF paid
    <3>3. db'.check[k].remaining + paid = db'.check[k].total
      BY <1>1, <1>2, <3>1, <3>2
    <3>4. db'.check[k].count = db.check[k].count
      BY <1>1, <1>2
    <3>. QED
      BY <1>1, <3>2, <3>3, <3>4 DEF paid
  <2>. QED
    BY <2>1 DEF CheckMatchesClaims
<1>5. ClaimedBy' = ClaimedBy
  BY <1>1 DEF ClaimedBy
<1>6. ASSUME NEW v \in Users
      PROVE  FundedBy'[v] = FundedBy[v] + (IF v = u THEN row.total ELSE 0)
  <2> DEFINE f == [k \in Ids |-> db.check[k].total]
             g == [k \in Ids |-> db'.check[k].total]
             A == {k \in Ids : db.check[k].creator = v}
             B == {k \in Ids : db'.check[k].creator = v}
  <2>1. \A k \in Ids : db.check[k].total \in Nat /\ db'.check[k].total \in Nat
    BY BooksFields, <1>1 DEF Check
  <2>2. /\ A \in SUBSET Ids /\ B \in SUBSET Ids
        /\ \A k \in A : f[k] \in Int
        /\ \A k \in B : g[k] \in Int
        /\ \A k \in Ids : k # c => (k \in A <=> k \in B) /\ (k \in A => g[k] = f[k])
    BY <1>1, <2>1
  <2>3. g[c] = row.total /\ c \notin A /\ (c \in B <=> v = u)
    BY <1>1, <1>2, ChecksAssumption
  <2>4. FundedBy[v] = SumOver(f, A) /\ FundedBy'[v] = SumOver(g, B)
    BY DEF FundedBy
  <2>. HIDE DEF f, g, A, B
  <2>5. /\ SumOver(f, A) \in Int
        /\ SumOver(g, B) = SumOver(f, A) + (IF c \in B THEN g[c] ELSE 0)
                                         - (IF c \in A THEN f[c] ELSE 0)
    <3>1. IsFiniteSet(Ids)
      BY ChecksAssumption
    <3>. QED
      BY <2>2, <3>1, SumOfRows
  <2>. QED
    BY <1>2, <2>3, <2>4, <2>5
<1>7. /\ Purse.wallet = db.wallet /\ Purse'.wallet = db'.wallet /\ Purse'.ledger = Purse.ledger
      /\ Purse' \in Purses
  <2>1. db'.wallet \in [Users -> Wallets \cup {None}] /\ book.ledger \in Ledger
    BY DEF TypeOK, Books, Book
  <2>. QED
    BY <2>1 DEF Purse, Purses
<1>8. Debited(db.wallet[u], row.total) \in Wallets /\ db.wallet[u] \in Wallets
  BY <1>2, WalletWrites DEF Funds
<1>9. Sound(ClaimedBy, FundedBy, Purse)
  BY DEF VouchersAgree
<1>10. ClaimedBy \in Flow /\ FundedBy' \in Flow
  <2>1. FundedBy \in Flow /\ ClaimedBy \in Flow
    BY FlowsAreFlows
  <2>2. \A v \in Users : FundedBy'[v] \in Nat
    BY <1>2, <1>6, <2>1 DEF Flow
  <2>3. FundedBy' = [v \in Users |-> FundedBy'[v]]
    BY DEF FundedBy
  <2>. QED
    BY <2>1, <2>2, <2>3 DEF Flow
<1>11. /\ db'.wallet[u].balance = db.wallet[u].balance + 0 - row.total
       /\ db'.wallet[u].earned = db.wallet[u].earned + 0
       /\ db'.wallet[u].spent = db.wallet[u].spent + row.total
  <2>1. /\ db.wallet[u].balance \in Nat /\ db.wallet[u].earned \in Nat
        /\ Debited(db.wallet[u], row.total).balance = db.wallet[u].balance - row.total
        /\ Debited(db.wallet[u], row.total).earned = db.wallet[u].earned
        /\ Debited(db.wallet[u], row.total).spent = db.wallet[u].spent + row.total
    BY <1>2, <1>8, WalletMoves
  <2>2. db'.wallet[u] = Debited(db.wallet[u], row.total)
    BY <1>1
  <2>. QED
    BY <1>2, <2>1, <2>2
<1>12. \A v \in Users : ClaimedBy[v] = ClaimedBy[v] + (IF v = u THEN 0 ELSE 0)
  BY <1>10 DEF Flow
<1>13. /\ Sound(ClaimedBy, FundedBy', Purse') /\ Keeps(Purse, Purse')
  <2> DEFINE after == Purse'
             before == Purse
             in == ClaimedBy
             out == FundedBy
             out2 == FundedBy'
             more == 0
             less == row.total
  <2>1. /\ Sound(in, out, before) /\ in \in Flow /\ out2 \in Flow /\ after \in Purses
        /\ more \in Nat /\ less \in Nat
        /\ after.ledger = before.ledger
        /\ before.wallet[u] \in Wallets /\ after.wallet[u] \in Wallets
        /\ after.wallet[u].balance = before.wallet[u].balance + more - less
        /\ after.wallet[u].earned = before.wallet[u].earned + more
        /\ after.wallet[u].spent = before.wallet[u].spent + less
    BY <1>1, <1>2, <1>7, <1>8, <1>9, <1>10, <1>11
  <2>2. \A v \in Users : /\ in[v] = in[v] + (IF v = u THEN more ELSE 0)
                         /\ out2[v] = out[v] + (IF v = u THEN less ELSE 0)
                         /\ v # u => after.wallet[v] = before.wallet[v]
    BY <1>1, <1>6, <1>7, <1>12
  <2>. HIDE DEF after, before, in, out, out2, more, less
  <2>3. Sound(in, out2, after) /\ Keeps(before, after)
    BY <2>1, <2>2, MovedPurse
  <2>. QED
    BY <2>3 DEF after, before, in, out2
<1>. QED
  BY <1>3, <1>4, <1>5, <1>13 DEF VouchersAgree

\* A claim's coins leave the check and reach its claimer's wallet, once.
LEMMA TakingKeeps ==
  ASSUME TypeOK, TypeOK', book \in Book, VouchersAgree, UNCHANGED book,
         NEW u \in Users, NEW c \in Ids, NEW amount \in Nat, Takes(u, c, amount)
  PROVE  VouchersAgree' /\ Keeps(Purse, Purse')
<1> DEFINE wallet == Opening(db.wallet, u)
<1>1. /\ wallet[u] = IF db.wallet[u] = None THEN Seeded(Welcome) ELSE db.wallet[u]
      /\ \A v \in Users : v # u => wallet[v] = db.wallet[v]
  BY BooksFields DEF Opening
<1>2. /\ \A k \in Ids : db'.check[k] = IF k = c THEN Reserved(db.check[c], amount) ELSE db.check[k]
      /\ \A v \in Users : db'.wallet[v] = IF v = u THEN Credited(wallet[u], amount)
                                          ELSE db.wallet[v]
      /\ \A k \in Ids, v \in Users :
           db'.claim[<<k, v>>] = IF k = c /\ v = u THEN amount ELSE db.claim[<<k, v>>]
      /\ db.claim[<<c, u>>] = 0 /\ amount > 0
      /\ CanCredit(wallet[u], amount)
  <2>1. db.claim \in [Ids \X Users -> Nat]
    BY BooksFields
  <2>2. \A k \in Ids, v \in Users : <<k, v>> = <<c, u>> <=> k = c /\ v = u
    OBVIOUS
  <2>3. \A k \in Ids, v \in Users :
          db'.claim[<<k, v>>] = IF k = c /\ v = u THEN amount ELSE db.claim[<<k, v>>]
    <3>1. db'.claim = [db.claim EXCEPT ![<<c, u>>] = amount]
      BY DEF Takes
    <3>. QED
      BY <2>1, <2>2, <3>1
  <2>. HIDE DEF wallet
  <2>. QED
    BY <1>1, <2>3, BooksFields DEF Takes
<1>3. /\ Reserved(db.check[c], amount).type = db.check[c].type
      /\ Reserved(db.check[c], amount).creator = db.check[c].creator
      /\ Reserved(db.check[c], amount).total = db.check[c].total
      /\ Reserved(db.check[c], amount).remaining = db.check[c].remaining - amount
      /\ Reserved(db.check[c], amount).count = db.check[c].count + 1
      /\ db.check[c].active
  BY BooksFields, ReservedCheck DEF Takes
<1>4. \A k \in Ids : db.check[k] \in Check
  BY BooksFields
<1>5. FreeIsBlank'
  <2>1. db.check[c].type = "none" => db.check[c].remaining = 0 /\ db.check[c].remaining >= amount
    BY DEF VouchersAgree, FreeIsBlank, Takes, Reservable
  <2>2. db.check[c].type # "none"
    BY <1>2, <2>1
  <2>. QED
    BY <1>2, <1>3, <2>2 DEF VouchersAgree, FreeIsBlank
<1>6. CheckMatchesClaims'
  <2>1. ASSUME NEW k \in Ids
        PROVE  /\ db'.check[k].remaining
                    + SumOver([v \in Users |-> db'.claim[<<k, v>>]], Users) = db'.check[k].total
               /\ db'.check[k].count = Cardinality({v \in Users : db'.claim[<<k, v>>] # 0})
    <3> DEFINE f == [v \in Users |-> db.claim[<<k, v>>]]
               g == [v \in Users |-> db'.claim[<<k, v>>]]
               A == {v \in Users : db.claim[<<k, v>>] # 0}
               B == {v \in Users : db'.claim[<<k, v>>] # 0}
    <3>1. /\ db.check[k].remaining + SumOver(f, Users) = db.check[k].total
          /\ db.check[k].count = Cardinality(A)
      BY DEF VouchersAgree, CheckMatchesClaims
    <3>2. CASE k # c
      <4>1. g = f /\ B = A /\ db'.check[k] = db.check[k]
        BY <1>2, <3>2
      <4>. QED
        BY <3>1, <4>1
    <3>3. CASE k = c
      <4>1. /\ \A v \in Users : f[v] \in Int
            /\ g[u] \in Int
            /\ \A v \in Users : v # u => g[v] = f[v]
        BY <1>2, <3>3, BooksFields
      <4>0. f[u] = 0 /\ g[u] = amount
        BY <1>2, <3>3
      <4>2. /\ A \in SUBSET Users /\ B \in SUBSET Users
            /\ \A v \in Users : v # u => (v \in A <=> v \in B)
            /\ u \notin A /\ u \in B
        BY <1>2, <3>3
      <4>3. /\ db.check[k].remaining \in Nat /\ db.check[k].count \in Nat
            /\ db'.check[k].remaining = db.check[k].remaining - amount
            /\ db'.check[k].total = db.check[k].total
            /\ db'.check[k].count = db.check[k].count + 1
        BY <1>2, <1>3, <1>4, <3>3 DEF Check
      <4>. HIDE DEF f, g, A, B
      <4>4. IsFiniteSet(Users)
        BY ChecksAssumption
      <4>5. SumOver(f, Users) \in Int /\ SumOver(g, Users) = SumOver(f, Users) + amount
        <5>1. SumOver(g, Users) = SumOver(f, Users) + g[u] - f[u]
          BY <4>1, <4>4, SumUpdate
        <5>2. SumOver(f, Users) \in Int
          BY <4>1, <4>4, SumInt
        <5>. QED
          BY <4>0, <5>1, <5>2
      <4>6. Cardinality(A) \in Nat /\ Cardinality(B) = Cardinality(A) + 1
        <5>1. /\ Cardinality(A) \in Nat /\ Cardinality(B) \in Nat
              /\ Cardinality(B) = Cardinality(A) + (IF u \in B THEN 1 ELSE 0)
                                                 - (IF u \in A THEN 1 ELSE 0)
          BY <4>2, <4>4, CountOfRows
        <5>. QED
          BY <4>2, <5>1
      <4>7. db'.check[k].remaining + SumOver(g, Users) = db'.check[k].total
        BY <3>1, <4>3, <4>5
      <4>8. db'.check[k].count = Cardinality(B)
        BY <3>1, <4>3, <4>6
      <4>. QED
        BY <4>7, <4>8 DEF g, B
    <3>. QED
      BY <3>2, <3>3
  <2>. QED
    BY <2>1 DEF CheckMatchesClaims
<1>7. FundedBy' = FundedBy
  <2>1. \A k \in Ids : /\ db'.check[k].total = db.check[k].total
                       /\ db'.check[k].creator = db.check[k].creator
    BY <1>2, <1>3
  <2>2. [k \in Ids |-> db'.check[k].total] = [k \in Ids |-> db.check[k].total]
    BY <2>1
  <2>3. \A v \in Users : {k \in Ids : db'.check[k].creator = v}
                          = {k \in Ids : db.check[k].creator = v}
    BY <2>1
  <2>. QED
    BY <2>2, <2>3, Zenon DEF FundedBy
<1>8. ASSUME NEW v \in Users
      PROVE  ClaimedBy'[v] = ClaimedBy[v] + (IF v = u THEN amount ELSE 0)
  <2> DEFINE f == [k \in Ids |-> db.claim[<<k, v>>]]
             g == [k \in Ids |-> db'.claim[<<k, v>>]]
  <2>1. ClaimedBy[v] = SumOver(f, Ids) /\ ClaimedBy'[v] = SumOver(g, Ids)
    BY DEF ClaimedBy
  <2>2. CASE v # u
    <3>1. f = g
      BY <1>2, <2>2
    <3>2. ClaimedBy[v] \in Nat
      BY FlowsAreFlows DEF Flow
    <3>. HIDE DEF f, g
    <3>. QED
      BY <2>1, <2>2, <3>1, <3>2
  <2>3. CASE v = u
    <3>1. /\ \A k \in Ids : f[k] \in Int
          /\ g[c] \in Int
          /\ \A k \in Ids : k # c => g[k] = f[k]
      BY <1>2, <2>3, BooksFields
    <3>0. f[c] = 0 /\ g[c] = amount
      BY <1>2, <2>3
    <3>2. IsFiniteSet(Ids)
      BY ChecksAssumption
    <3>. HIDE DEF f, g
    <3>3. SumOver(g, Ids) = SumOver(f, Ids) + g[c] - f[c]
      BY <3>1, <3>2, SumUpdate
    <3>4. SumOver(f, Ids) \in Int
      BY <3>1, <3>2, SumInt
    <3>. QED
      BY <2>1, <2>3, <3>0, <3>3, <3>4
  <2>. QED
    BY <2>2, <2>3
<1> DEFINE before == [wallet |-> wallet, ledger |-> book.ledger]
           after == Purse'
<1>9. Sound(ClaimedBy, FundedBy, before) /\ Keeps(Purse, before) /\ before.wallet[u] \in Wallets
  <2>1. Sound(ClaimedBy, FundedBy, Purse)
    BY DEF VouchersAgree
  <2>2. [Purse EXCEPT !.wallet = Opening(Purse.wallet, u)] = before
    BY DEF Purse
  <2>. QED
    BY <2>1, <2>2, OpenedPurse
<1>10. /\ after.wallet = db'.wallet /\ after.ledger = book.ledger /\ after \in Purses
  <2>1. db'.wallet \in [Users -> Wallets \cup {None}] /\ book.ledger \in Ledger
    BY DEF TypeOK, Books, Book
  <2>. QED
    BY <2>1 DEF Purse, Purses
<1>11. /\ before.wallet = wallet /\ before.ledger = book.ledger
  OBVIOUS
<1>12. ClaimedBy' \in Flow /\ FundedBy \in Flow
  <2>1. FundedBy \in Flow /\ ClaimedBy \in Flow
    BY FlowsAreFlows
  <2>2. \A v \in Users : ClaimedBy'[v] \in Nat
    BY <1>8, <2>1 DEF Flow
  <2>3. ClaimedBy' = [v \in Users |-> ClaimedBy'[v]]
    BY DEF ClaimedBy
  <2>. QED
    BY <2>1, <2>2, <2>3 DEF Flow
<1> DEFINE in == ClaimedBy
           in2 == ClaimedBy'
           out == FundedBy
           less == 0
<1>13. /\ Sound(in, out, before) /\ in2 \in Flow /\ out \in Flow /\ after \in Purses
       /\ less \in Nat /\ after.ledger = before.ledger
       /\ before.wallet[u] \in Wallets /\ after.wallet[u] \in Wallets
       /\ after.wallet[u].balance = before.wallet[u].balance + amount - less
       /\ after.wallet[u].earned = before.wallet[u].earned + amount
       /\ after.wallet[u].spent = before.wallet[u].spent + less
  <2>. HIDE DEF wallet, before, after
  <2>1. after.wallet[u] = Credited(before.wallet[u], amount)
    BY <1>2, <1>10, <1>11
  <2>2. after.wallet[u] \in Wallets
    BY <1>2, <1>9, <1>11, <2>1, WalletWrites
  <2>3. /\ before.wallet[u].balance \in Nat /\ before.wallet[u].spent \in Nat
        /\ after.wallet[u].balance = before.wallet[u].balance + amount
        /\ after.wallet[u].earned = before.wallet[u].earned + amount
        /\ after.wallet[u].spent = before.wallet[u].spent
    BY <1>9, <2>1, WalletMoves
  <2>. QED
    BY <1>9, <1>10, <1>11, <1>12, <2>2, <2>3
<1>14. \A v \in Users : /\ in2[v] = in[v] + (IF v = u THEN amount ELSE 0)
                        /\ out[v] = out[v] + (IF v = u THEN less ELSE 0)
                        /\ v # u => after.wallet[v] = before.wallet[v]
  <2>1. \A v \in Users : out[v] \in Nat
    BY <1>12 DEF Flow
  <2>. HIDE DEF wallet, before, after
  <2>. QED
    BY <1>1, <1>2, <1>8, <1>10, <1>11, <2>1
<1>15. Sound(in2, out, after) /\ Keeps(before, after)
  <2>. HIDE DEF wallet, before, after, in, in2, out, less
  <2>. QED
    BY <1>13, <1>14, MovedPurse
<1>16. Keeps(Purse, after)
  <2>. HIDE DEF before, after
  <2>. QED
    BY <1>9, <1>15, KeepsOn
<1>. QED
  BY <1>5, <1>6, <1>7, <1>15, <1>16 DEF VouchersAgree

-----------------------------------------------------------------------------
(* The invariant of gifts and vouchers together.                           *)

\* What a handler has read still names a row: wallets and codes are never
\* deleted.
Points(t) ==
  /\ t.step = "send" => /\ t.user \in Users /\ t.to \in Users /\ t.user # t.to
                        /\ db.wallet[t.user] # None /\ db.wallet[t.to] # None
  /\ t.step = "donate" => t.user \in Users /\ t.at \in Groups
  /\ t.step = "payout" => t.user \in Users /\ t.at \in Groups
  /\ t.step = "redeem" => t.user \in Users /\ t.at \in Codes /\ book.promo[t.at] # None

TypeInv ==
  /\ CheckInv
  /\ book \in Book /\ task \in [Procs -> Task]
  /\ \A p \in Procs : Points(task[p])

\* Nobody redeemed a code before it was made.
CodesInv ==
  /\ CodesAgree
  /\ \A c \in Codes : book.promo[c] = None => SumOver(book.redeemed[c], Users) = 0

TablesAgree == CodesInv /\ DonationsAgree /\ TreasuriesAgree

GiftsInv == TypeInv /\ VouchersAgree /\ TablesAgree

LEMMA BookFields ==
  ASSUME NEW b \in Book
  PROVE  /\ b = [ledger |-> b.ledger, group |-> b.group, donated |-> b.donated, top |-> b.top,
                 promo |-> b.promo, redeemed |-> b.redeemed, begun |-> b.begun]
         /\ b.ledger \in Ledger /\ b.group \in [Groups -> Group \cup {None}]
         /\ b.donated \in Tally /\ b.top \in Tally
         /\ b.promo \in [Codes -> Promo \cup {None}]
         /\ b.redeemed \in [Codes -> [Users -> Nat]] /\ b.begun \in Nat
  BY DEF Book

LEMMA NewLedger ==
  ASSUME NEW b \in Book, NEW ledger \in Ledger
  PROVE  LET after == [b EXCEPT !.ledger = ledger]
         IN /\ after \in Book /\ after.ledger = ledger
            /\ after.group = b.group /\ after.donated = b.donated /\ after.top = b.top
            /\ after.promo = b.promo /\ after.redeemed = b.redeemed
<1> DEFINE after == [ledger |-> ledger, group |-> b.group, donated |-> b.donated, top |-> b.top,
                     promo |-> b.promo, redeemed |-> b.redeemed, begun |-> b.begun]
<1>1. [b EXCEPT !.ledger = ledger] = after
  BY BookFields
<1>2. after \in Book
  BY BookFields DEF Book
<1>. QED
  BY <1>1, <1>2

LEMMA RestTask == Rest \in Task /\ Rest.step = "idle"
  BY DEF Rest, Task

\* Any step that moves coins by one of the sound ways above and finishes a job, or
\* starts none.
LEMMA Moving ==
  ASSUME TypeInv, VouchersAgree, NEW purse, Sound(ClaimedBy, FundedBy, purse), Keeps(Purse, purse),
         db' = [db EXCEPT !.wallet = purse.wallet],
         book' \in Book, book'.ledger = purse.ledger,
         \A c \in Codes : book.promo[c] # None => book'.promo[c] # None,
         UNCHANGED <<job, past>>,
         task' \in [Procs -> Task],
         \A p \in Procs : task'[p] \in {task[p], Rest}
  PROVE  TypeInv' /\ VouchersAgree'
<1>1. purse \in Purses
  BY DEF Sound
<1>2. db' = [wallet |-> purse.wallet, check |-> db.check, claim |-> db.claim]
  BY BooksFields DEF TypeInv, CheckInv
<1>3. CheckInv'
  <2>1. db' \in Books
    BY <1>1, <1>2, BooksFields, PurseFields DEF Books, TypeInv, CheckInv
  <2>. QED
    BY <2>1 DEF TypeInv, CheckInv, TypeOK, JobsPoint, At
<1>4. ClaimedBy' = ClaimedBy /\ FundedBy' = FundedBy
  BY <1>2 DEF ClaimedBy, FundedBy
<1>5. Purse' = purse
  <2>1. purse = [wallet |-> purse.wallet, ledger |-> purse.ledger]
    BY <1>1, PurseFields
  <2>. QED
    BY <1>2, <2>1 DEF Purse
<1>6. FreeIsBlank' /\ CheckMatchesClaims'
  BY <1>2 DEF VouchersAgree, FreeIsBlank, CheckMatchesClaims
<1>7. \A u \in Users : db.wallet[u] # None => db'.wallet[u] # None
  BY <1>2 DEF Keeps, Purse
<1>8. ASSUME NEW p \in Procs PROVE Points(task[p])'
  <2>1. Points(task[p])
    BY DEF TypeInv
  <2>2. task'[p] = task[p] \/ task'[p] = Rest
    OBVIOUS
  <2>. QED
    BY <1>7, <2>1, <2>2, RestTask DEF Points
<1>. QED
  BY <1>3, <1>4, <1>5, <1>6, <1>8 DEF TypeInv, VouchersAgree

\* The common form of a write: it ends a handler's job.
LEMMA Committing ==
  ASSUME TypeInv, VouchersAgree, NEW p \in Procs, NEW purse, NEW b \in Book, Commit(p, purse, b),
         Sound(ClaimedBy, FundedBy, purse), Keeps(Purse, purse),
         \A c \in Codes : book.promo[c] # None => b.promo[c] # None
  PROVE  /\ TypeInv' /\ VouchersAgree'
         /\ book'.ledger = purse.ledger
         /\ book'.group = b.group /\ book'.donated = b.donated /\ book'.top = b.top
         /\ book'.promo = b.promo /\ book'.redeemed = b.redeemed
<1>1. purse.ledger \in Ledger
  BY PurseFields DEF Sound
<1>2. /\ book' \in Book /\ book'.ledger = purse.ledger
      /\ book'.group = b.group /\ book'.donated = b.donated /\ book'.top = b.top
      /\ book'.promo = b.promo /\ book'.redeemed = b.redeemed
  BY <1>1, NewLedger DEF Commit
<1>3. /\ task' \in [Procs -> Task]
      /\ \A q \in Procs : task'[q] \in {task[q], Rest}
  BY RestTask DEF Commit, TypeInv
<1>4. db' = [db EXCEPT !.wallet = purse.wallet] /\ UNCHANGED <<job, past>>
  BY DEF Commit
<1>. QED
  BY <1>2, <1>3, <1>4, Moving

LEMMA SoundPurse ==
  ASSUME TypeInv, VouchersAgree
  PROVE  /\ Sound(ClaimedBy, FundedBy, Purse) /\ Keeps(Purse, Purse)
         /\ Purse \in Purses /\ Purse.wallet = db.wallet /\ Purse.ledger = book.ledger
  BY PurseOfBooks DEF VouchersAgree, TypeInv, CheckInv, Keeps

-----------------------------------------------------------------------------
(* The tables, one by one: what leaves each as it is.                      *)

Scores     == [g \in Groups |-> IF book.group[g] = None THEN 0 ELSE book.group[g].xp]
Treasuries == [g \in Groups |-> IF book.group[g] = None THEN 0 ELSE book.group[g].treasury]
Issues     == [c \in Codes |-> IF book.promo[c] = None THEN 0
                               ELSE book.promo[c].used * book.promo[c].reward]

LEMMA CodesKept ==
  ASSUME CodesInv, book'.promo = book.promo, book'.redeemed = book.redeemed,
         book'.ledger.of["promo"] = book.ledger.of["promo"]
  PROVE  CodesInv'
  BY DEF CodesInv, CodesAgree

LEMMA DonationsKept ==
  ASSUME DonationsAgree, book'.donated = book.donated, book'.top = book.top,
         Scores' = Scores,
         book'.ledger.of["share"] = book.ledger.of["share"],
         book'.ledger.of["fee"] = book.ledger.of["fee"],
         book'.ledger.of["donate"] = book.ledger.of["donate"]
  PROVE  DonationsAgree'
<1>1. \A g \in Groups : (IF book'.group[g] = None THEN 0 ELSE book'.group[g].xp)
                          = (IF book.group[g] = None THEN 0 ELSE book.group[g].xp)
  <2>. SUFFICES ASSUME NEW g \in Groups
                PROVE  (IF book'.group[g] = None THEN 0 ELSE book'.group[g].xp)
                          = (IF book.group[g] = None THEN 0 ELSE book.group[g].xp)
    OBVIOUS
  <2>1. Scores'[g] = Scores[g]
    OBVIOUS
  <2>. QED
    BY <2>1 DEF Scores
<1>. QED
  BY <1>1 DEF DonationsAgree, TallySum

LEMMA TreasuriesKept ==
  ASSUME TreasuriesAgree, Treasuries' = Treasuries,
         book'.ledger.of["payout"] = book.ledger.of["payout"]
  PROVE  TreasuriesAgree'
  BY DEF TreasuriesAgree, Treasuries

\* A step of wallets alone.
LEMMA TablesKept ==
  ASSUME TablesAgree, book'.promo = book.promo, book'.redeemed = book.redeemed,
         book'.donated = book.donated, book'.top = book.top, book'.group = book.group,
         \A k \in {"promo", "share", "fee", "donate", "payout"} :
           book'.ledger.of[k] = book.ledger.of[k]
  PROVE  TablesAgree'
<1>1. Scores' = Scores /\ Treasuries' = Treasuries
  BY DEF Scores, Treasuries
<1>. QED
  BY <1>1, CodesKept, DonationsKept, TreasuriesKept DEF TablesAgree

\* A refused or dropped command writes nothing.
LEMMA Refusing ==
  ASSUME GiftsInv, NEW p \in Procs, Commit(p, Purse, book)
  PROVE  GiftsInv'
<1>1. /\ TypeInv' /\ VouchersAgree'
      /\ book'.ledger = Purse.ledger
      /\ book'.group = book.group /\ book'.donated = book.donated /\ book'.top = book.top
      /\ book'.promo = book.promo /\ book'.redeemed = book.redeemed
  <2>1. book \in Book
    BY DEF GiftsInv, TypeInv
  <2>. QED
    BY <2>1, SoundPurse, Committing DEF GiftsInv
<1>2. TablesAgree'
  BY <1>1, SoundPurse, TablesKept DEF GiftsInv
<1>. QED
  BY <1>1, <1>2 DEF GiftsInv

LEMMA Beginning ==
  ASSUME GiftsInv, NEW p \in Procs, NEW state \in Task, Points(state), Begin(p, state)
  PROVE  GiftsInv' /\ UNCHANGED db
<1> DEFINE after == [ledger |-> book.ledger, group |-> book.group, donated |-> book.donated,
                     top |-> book.top, promo |-> book.promo, redeemed |-> book.redeemed,
                     begun |-> book.begun + 1]
<1>1. book' = after /\ book' \in Book
  <2>1. book' = after
    BY BookFields DEF Begin, GiftsInv, TypeInv
  <2>2. after \in Book
    BY BookFields DEF Book, GiftsInv, TypeInv
  <2>. QED
    BY <2>1, <2>2
<1>2. /\ book'.ledger = book.ledger /\ book'.group = book.group /\ book'.donated = book.donated
      /\ book'.top = book.top /\ book'.promo = book.promo /\ book'.redeemed = book.redeemed
  BY <1>1
<1>3. UNCHANGED <<db, job, past>> /\ task' = [task EXCEPT ![p] = state]
  BY DEF Begin
<1>4. TypeInv'
  <2>1. CheckInv'
    BY <1>3 DEF GiftsInv, TypeInv, CheckInv, TypeOK, JobsPoint, At
  <2>2. task' \in [Procs -> Task] /\ \A q \in Procs : task'[q] \in {task[q], state}
    BY <1>3 DEF GiftsInv, TypeInv
  <2>3. \A q \in Procs : Points(task[q])'
    BY <1>2, <1>3, <2>2 DEF GiftsInv, TypeInv, Points
  <2>. QED
    BY <1>1, <2>1, <2>2, <2>3 DEF TypeInv
<1>5. VouchersAgree'
  <2>1. ClaimedBy' = ClaimedBy /\ FundedBy' = FundedBy /\ Purse' = Purse
    BY <1>2, <1>3 DEF ClaimedBy, FundedBy, Purse
  <2>. QED
    BY <1>3, <2>1 DEF GiftsInv, VouchersAgree, FreeIsBlank, CheckMatchesClaims
<1>6. TablesAgree'
  BY <1>2, TablesKept DEF GiftsInv
<1>. QED
  BY <1>3, <1>4, <1>5, <1>6 DEF GiftsInv

-----------------------------------------------------------------------------
(* One lemma per command: /start and /send.                                *)

LEMMA OpeningWallet ==
  ASSUME GiftsInv, NEW u \in Users, OpenWallet(u)
  PROVE  GiftsInv' /\ db'.check = db.check
<1> DEFINE purse == [Purse EXCEPT !.wallet = Opening(Purse.wallet, u)]
<1>1. /\ Sound(ClaimedBy, FundedBy, purse) /\ Keeps(Purse, purse)
      /\ purse.wallet = Opening(db.wallet, u) /\ purse.ledger = book.ledger
  BY SoundPurse, OpenedPurse DEF GiftsInv
<1>. HIDE DEF purse
<1>2. /\ db' = [db EXCEPT !.wallet = purse.wallet] /\ UNCHANGED <<job, past, book, task>>
      /\ db'.check = db.check
  BY <1>1, BooksFields DEF OpenWallet, GiftsInv, TypeInv, CheckInv
<1>3. TypeInv' /\ VouchersAgree'
  BY <1>1, <1>2, Moving DEF GiftsInv, TypeInv
<1>4. TablesAgree'
  BY <1>2, TablesKept DEF GiftsInv
<1>. QED
  BY <1>2, <1>3, <1>4 DEF GiftsInv

LEMMA Mul == \A a, b \in Nat : a * b \in Nat
  OBVIOUS

LEMMA TaxNat ==
  ASSUME NEW amount \in Nat, NEW d \in 0..100
  PROVE  Tax(amount, d) \in Nat
<1>1. TaxPercent \in Nat /\ 100 - d \in Nat
  BY GiftsAssumption
<1>2. amount * TaxPercent \in Nat
  BY <1>1, Mul
<1>3. amount * TaxPercent * (100 - d) \in Nat
  BY <1>1, <1>2, Mul
<1>. QED
  BY <1>3 DEF Tax

LEMMA SendReading ==
  ASSUME GiftsInv, NEW p \in Procs, NEW u \in Users, NEW v \in Users, NEW a \in Amounts,
         NEW d \in Discounts, SendRead(p, u, v, a, d)
  PROVE  GiftsInv' /\ UNCHANGED db
<1> DEFINE state == [Rest EXCEPT !.step = "send", !.user = u, !.to = v, !.amount = a,
                                 !.tax = Tax(a, d)]
<1>1. a \in Nat /\ Tax(a, d) \in Nat
  BY TaxNat, GiftsAssumption
<1>2. state \in Task /\ Points(state)
  BY <1>1 DEF Rest, Task, Points, SendRead
<1>. QED
  BY <1>2, Beginning DEF SendRead

LEMMA SendWriting ==
  ASSUME GiftsInv, NEW p \in Procs, SendWrite(p)
  PROVE  GiftsInv' /\ db'.check = db.check
<1> DEFINE t == task[p]
           u == t.user
           v == t.to
           net == t.amount - t.tax
           debited == [db.wallet EXCEPT ![u] = Debited(@, t.amount)]
           sent == [wallet |-> [debited EXCEPT ![v] = Credited(@, net)],
                    ledger |-> Recorded(book.ledger, "transfer", u, v, net)]
           taxed == Taxed(sent, u, t.tax)
<1>0. db'.check = db.check
  BY BooksFields DEF SendWrite, Commit, GiftsInv, TypeInv, CheckInv
<1>1. /\ t \in Task /\ u \in Users /\ v \in Users /\ u # v
      /\ db.wallet[u] \in Wallets /\ db.wallet[v] \in Wallets
      /\ t.amount \in Nat /\ t.tax \in Nat
  BY BooksFields DEF GiftsInv, TypeInv, Points, SendWrite, Doing, Task, CheckInv
<1>2. \/ Commit(p, Purse, book)
      \/ /\ CanDebit(db.wallet[u], t.amount)
         /\ net > 0 /\ CanCredit(debited[v], net)
         /\ Commit(p, taxed, book)
  <2>1. [Purse EXCEPT !.wallet = db.wallet] = Purse
    BY DEF Purse
  <2>. QED
    BY <2>1 DEF SendWrite, TransferRefused
<1>3. CASE Commit(p, Purse, book)
  BY <1>0, <1>3, Refusing
<1>4. CASE /\ CanDebit(db.wallet[u], t.amount)
           /\ net > 0 /\ CanCredit(debited[v], net)
           /\ Commit(p, taxed, book)
  <2>1. net \in Nat /\ net + t.tax = t.amount
    BY <1>1, <1>4
  <2>2. debited[v] = db.wallet[v]
    BY <1>1, BooksFields DEF GiftsInv, TypeInv, CheckInv
  <2>3. Sound(ClaimedBy, [FundedBy EXCEPT ![u] = @ + t.tax], sent) /\ Keeps(Purse, sent)
    <3> DEFINE before == Purse
               amount == net + t.tax
               wallets == [before.wallet EXCEPT ![u] = Debited(@, amount)]
               after == [wallet |-> [wallets EXCEPT ![v] = Credited(@, net)],
                         ledger |-> Recorded(before.ledger, "transfer", u, v, net)]
    <3>1. /\ before.wallet = db.wallet /\ before.ledger = book.ledger
          /\ Sound(ClaimedBy, FundedBy, before)
      BY SoundPurse DEF GiftsInv
    <3>2. amount = t.amount
      BY <2>1
    <3>3. after = sent
      <4>. HIDE DEF before, amount, net
      <4>. QED
        BY <3>1, <3>2
    <3>4. CanDebit(before.wallet[u], amount) /\ CanCredit(before.wallet[v], net)
      <4>. HIDE DEF before, amount, net
      <4>. QED
        BY <1>4, <2>2, <3>1, <3>2
    <3>5. before.wallet[u] \in Wallets /\ before.wallet[v] \in Wallets
      BY <1>1, <3>1
    <3>6. Sound(ClaimedBy, [FundedBy EXCEPT ![u] = @ + t.tax], after) /\ Keeps(before, after)
      <4> DEFINE tax == t.tax
                 in == ClaimedBy
                 out == FundedBy
      <4>1. tax \in Nat /\ net \in Nat /\ u \in Users /\ v \in Users /\ u # v
        BY <1>1, <2>1
      <4>2. Sound(in, out, before) /\ amount = net + tax
        BY <3>1
      <4>. HIDE DEF before, amount, net, u, v, tax, in, out
      <4>3. CanDebit(before.wallet[u], net + tax) /\ CanCredit(before.wallet[v], net)
        BY <3>4, <4>2
      <4>4. LET d == [before.wallet EXCEPT ![u] = Debited(@, net + tax)]
                s == [wallet |-> [d EXCEPT ![v] = Credited(@, net)],
                      ledger |-> Recorded(before.ledger, "transfer", u, v, net)]
            IN Sound(in, [out EXCEPT ![u] = @ + tax], s) /\ Keeps(before, s)
        BY <3>5, <4>1, <4>2, <4>3, SentPurse, ZenonT(60)
      <4>. QED
        BY <4>2, <4>4 DEF tax, in, out
    <3>. HIDE DEF after, sent
    <3>. QED
      BY <3>3, <3>6
  <2>4. /\ Sound(ClaimedBy, FundedBy, taxed) /\ Keeps(sent, taxed)
        /\ \A k \in Kinds \ {"tax", "burned"} : taxed.ledger.of[k] = sent.ledger.of[k]
    <3>1. FundedBy \in Flow
      BY FlowsAreFlows DEF GiftsInv, TypeInv, CheckInv
    <3> DEFINE tax == t.tax
               in == ClaimedBy
               out == FundedBy
    <3>2. tax \in Nat /\ u \in Users /\ Sound(in, [out EXCEPT ![u] = @ + tax], sent)
      BY <1>1, <2>3
    <3>. HIDE DEF sent, u, tax, in, out
    <3>3. LET after == Taxed(sent, u, tax)
          IN /\ Sound(in, out, after) /\ Keeps(sent, after)
             /\ \A k \in Kinds \ {"tax", "burned"} : after.ledger.of[k] = sent.ledger.of[k]
      BY <3>1, <3>2, TaxedPurse DEF out
    <3>. QED
      BY <3>3 DEF tax, in, out
  <2>5. \A k \in {"promo", "share", "fee", "donate", "payout"} :
          sent.ledger.of[k] = book.ledger.of[k]
    <3>1. book.ledger \in Ledger
      BY BookFields DEF GiftsInv, TypeInv
    <3>. HIDE DEF net
    <3>. QED
      BY <2>1, <3>1, RecordedFields DEF Kinds
  <2>6. Keeps(Purse, taxed)
    <3>. HIDE DEF sent, taxed
    <3>. QED
      BY <2>3, <2>4, KeepsOn
  <2>. HIDE DEF taxed, sent
  <2>7. /\ TypeInv' /\ VouchersAgree' /\ book'.ledger = taxed.ledger
        /\ book'.group = book.group /\ book'.donated = book.donated /\ book'.top = book.top
        /\ book'.promo = book.promo /\ book'.redeemed = book.redeemed
    <3>1. book \in Book
      BY DEF GiftsInv, TypeInv
    <3>. QED
      BY <1>4, <2>4, <2>6, <3>1, Committing DEF GiftsInv
  <2>8. TablesAgree'
    <3>1. \A k \in {"promo", "share", "fee", "donate", "payout"} :
            book'.ledger.of[k] = book.ledger.of[k]
      BY <2>4, <2>5, <2>7 DEF Kinds
    <3>. QED
      BY <2>7, <3>1, TablesKept DEF GiftsInv
  <2>. QED
    BY <1>0, <2>7, <2>8 DEF GiftsInv
<1>. QED
  BY <1>2, <1>3, <1>4

-----------------------------------------------------------------------------
(* Donations and slices of purchases.                                      *)

\* One donation raises the donor's row, the group's score and both totals by the
\* same amount.
LEMMA DonatedTables ==
  ASSUME TypeInv, NEW g \in Groups, NEW u \in Users, NEW amount \in Nat, NEW b,
         b = Donated(book, g, u, amount)
  PROVE  /\ b \in Book
         /\ b.group = [book.group EXCEPT ![g] = Scored(book.group[g], amount)]
         /\ b.donated = [book.donated EXCEPT ![g][u] = @ + amount]
         /\ b.top = [book.top EXCEPT ![g][u] = @ + amount]
         /\ b.promo = book.promo /\ b.redeemed = book.redeemed
         /\ b.ledger = book.ledger /\ b.begun = book.begun
         /\ Scored(book.group[g], amount) \in Group
<1> DEFINE row == Scored(book.group[g], amount)
           groups == [book.group EXCEPT ![g] = row]
           donated == [book.donated EXCEPT ![g][u] = @ + amount]
           top == [book.top EXCEPT ![g][u] = @ + amount]
           after == [ledger |-> book.ledger, group |-> groups, donated |-> donated, top |-> top,
                     promo |-> book.promo, redeemed |-> book.redeemed, begun |-> book.begun]
<1>0. book \in Book
  BY DEF TypeInv
<1>1. row \in Group
  <2>1. CASE book.group[g] = None
    BY <2>1 DEF Group, Scored
  <2>2. CASE book.group[g] # None
    <3>1. book.group[g] \in Group
      BY <1>0, <2>2, BookFields
    <3>. QED
      BY <2>2, <3>1 DEF Group, Scored
  <2>. QED
    BY <2>1, <2>2
<1>2. groups \in [Groups -> Group \cup {None}]
  BY <1>0, <1>1, BookFields
<1>3. donated \in Tally /\ top \in Tally
  BY <1>0, BookFields DEF Tally
<1>4. after \in Book
  <2>. HIDE DEF groups, donated, top
  <2>. QED
    BY <1>0, <1>2, <1>3, BookFields DEF Book
<1>5. b = after
  <2>1. b = [book EXCEPT !.group[g] = Scored(@, amount), !.donated[g][u] = @ + amount,
                         !.top[g][u] = @ + amount]
    BY DEF Donated
  <2>2. book = [ledger |-> book.ledger, group |-> book.group, donated |-> book.donated,
                top |-> book.top, promo |-> book.promo, redeemed |-> book.redeemed,
                begun |-> book.begun]
    BY <1>0, BookFields
  <2>. QED
    BY <2>1, <2>2
<1>. HIDE DEF groups, donated, top, row
<1>. QED
  BY <1>1, <1>4, <1>5 DEF groups, donated, top, row

LEMMA DonatedKeeps ==
  ASSUME TypeInv, NEW g \in Groups, NEW u \in Users, NEW amount \in Nat, NEW b,
         b = Donated(book, g, u, amount)
  PROVE  /\ b \in Book /\ b.promo = book.promo /\ b.redeemed = book.redeemed
         /\ b.ledger = book.ledger /\ b.begun = book.begun
<1>1. b \in Book
  BY DonatedTables, Zenon
<1>2. b = [book EXCEPT !.group[g] = Scored(@, amount), !.donated[g][u] = @ + amount,
                       !.top[g][u] = @ + amount]
  BY DEF Donated
<1>3. book = [ledger |-> book.ledger, group |-> book.group, donated |-> book.donated,
              top |-> book.top, promo |-> book.promo, redeemed |-> book.redeemed,
              begun |-> book.begun]
  BY BookFields DEF TypeInv
<1>. QED
  BY <1>1, <1>2, <1>3

LEMMA TallyNat ==
  ASSUME NEW tally \in Tally
  PROVE  /\ \A g \in Groups : SumOver(tally[g], Users) \in Nat
         /\ TallySum(tally) \in Nat
<1>1. \A g \in Groups : SumOver(tally[g], Users) \in Nat
  <2> SUFFICES ASSUME NEW g \in Groups PROVE SumOver(tally[g], Users) \in Nat
    OBVIOUS
  <2> DEFINE f == tally[g]
  <2>1. \A u \in Users : f[u] \in Nat
    BY DEF Tally
  <2>2. IsFiniteSet(Users)
    BY ChecksAssumption
  <2>. HIDE DEF f
  <2>3. SumOver(f, Users) \in Nat
    BY <2>1, <2>2, SumNat
  <2>. QED
    BY <2>3 DEF f
<1>2. TallySum(tally) \in Nat
  <2> DEFINE f == [g \in Groups |-> SumOver(tally[g], Users)]
  <2>1. \A g \in Groups : f[g] \in Nat
    BY <1>1
  <2>2. IsFiniteSet(Groups)
    BY GiftsAssumption
  <2>3. SumOver(f, Groups) \in Nat
    <3>. HIDE DEF f
    <3>. QED
      BY <2>1, <2>2, SumNat
  <2>. QED
    BY <2>3 DEF TallySum
<1>. QED
  BY <1>1, <1>2

LEMMA TallyGrows ==
  ASSUME NEW tally \in Tally, NEW g \in Groups, NEW u \in Users, NEW amount \in Nat
  PROVE  LET after == [tally EXCEPT ![g][u] = @ + amount]
         IN /\ \A x \in Groups : SumOver(after[x], Users)
                                   = SumOver(tally[x], Users) + (IF x = g THEN amount ELSE 0)
            /\ TallySum(after) = TallySum(tally) + amount
<1> DEFINE after == [tally EXCEPT ![g][u] = @ + amount]
<1>0. IsFiniteSet(Users) /\ IsFiniteSet(Groups)
  BY ChecksAssumption, GiftsAssumption
<1>1. /\ \A x \in Groups : x # g => after[x] = tally[x]
      /\ \A v \in Users : v # u => after[g][v] = tally[g][v]
      /\ after[g][u] = tally[g][u] + amount
      /\ \A v \in Users : tally[g][v] \in Nat
  BY DEF Tally
<1>2. \A x \in Groups : SumOver(tally[x], Users) \in Nat
  BY TallyNat
<1>. HIDE DEF after
<1>3. SumOver(after[g], Users) = SumOver(tally[g], Users) + amount
  <2> DEFINE f == tally[g]
             h == after[g]
  <2>1. /\ \A v \in Users : f[v] \in Int
        /\ h[u] \in Int
        /\ \A v \in Users : v # u => h[v] = f[v]
    BY <1>1
  <2>2. h[u] = f[u] + amount /\ f[u] \in Nat /\ SumOver(f, Users) \in Nat
    BY <1>1, <1>2
  <2>. HIDE DEF f, h
  <2>3. SumOver(h, Users) = SumOver(f, Users) + h[u] - f[u]
    BY <1>0, <2>1, SumUpdate
  <2>4. SumOver(h, Users) = SumOver(f, Users) + amount
    BY <2>2, <2>3
  <2>. QED
    BY <2>4 DEF f, h
<1>4. \A x \in Groups : SumOver(after[x], Users)
                          = SumOver(tally[x], Users) + (IF x = g THEN amount ELSE 0)
  BY <1>1, <1>2, <1>3
<1>5. TallySum(after) = TallySum(tally) + amount
  <2> DEFINE f == [x \in Groups |-> SumOver(tally[x], Users)]
             h == [x \in Groups |-> SumOver(after[x], Users)]
  <2>1. /\ \A x \in Groups : f[x] \in Int
        /\ h[g] \in Int
        /\ \A x \in Groups : x # g => h[x] = f[x]
    BY <1>2, <1>4
  <2>2. h[g] = f[g] + amount /\ f[g] \in Nat
    BY <1>2, <1>3
  <2>3. TallySum(after) = SumOver(h, Groups) /\ TallySum(tally) = SumOver(f, Groups)
    BY DEF TallySum
  <2>. HIDE DEF f, h
  <2>4. SumOver(h, Groups) = SumOver(f, Groups) + h[g] - f[g]
    BY <1>0, <2>1, SumUpdate
  <2>5. SumOver(f, Groups) \in Nat
    BY <2>3, TallyNat
  <2>. QED
    BY <2>2, <2>3, <2>4, <2>5
<1>. QED
  BY <1>4, <1>5 DEF after

\* The books after a donation whose shares were cut from it.
LEMMA DonationTables ==
  ASSUME TypeInv, TablesAgree, NEW g \in Groups, NEW u \in Users, NEW amount \in Nat,
         NEW b, b = Donated(book, g, u, amount),
         book'.group = b.group, book'.donated = b.donated, book'.top = b.top,
         book'.promo = book.promo, book'.redeemed = book.redeemed, book' \in Book,
         \A k \in {"promo", "payout"} : book'.ledger.of[k] = book.ledger.of[k],
         book'.ledger.of["share"] + book'.ledger.of["fee"]
           <= book.ledger.of["share"] + book.ledger.of["fee"] + amount,
         book'.ledger.of["donate"] <= book.ledger.of["donate"] + amount
  PROVE  TablesAgree'
<1> DEFINE row == Scored(book.group[g], amount)
<1>0. book \in Book /\ row \in Group
  BY DonatedTables DEF TypeInv
<1>1. /\ book'.group = [book.group EXCEPT ![g] = row]
      /\ book'.donated = [book.donated EXCEPT ![g][u] = @ + amount]
      /\ book'.top = [book.top EXCEPT ![g][u] = @ + amount]
  BY DonatedTables
<1>2. /\ row # None
      /\ row.xp = (IF book.group[g] = None THEN 0 ELSE book.group[g].xp) + amount
      /\ row.treasury = IF book.group[g] = None THEN 0 ELSE book.group[g].treasury
  <2>1. row # None
    BY <1>0, GiftsAssumption
  <2>2. CASE book.group[g] = None
    BY <2>1, <2>2 DEF Scored
  <2>3. CASE book.group[g] # None
    <3>1. book.group[g] \in Group
      BY <1>0, <2>3, BookFields
    <3>. QED
      BY <2>1, <2>3, <3>1 DEF Group, Scored
  <2>. QED
    BY <2>2, <2>3
<1>. HIDE DEF row
<1>3. \A x \in Groups : book'.group[x] = IF x = g THEN row ELSE book.group[x]
  BY <1>0, <1>1, BookFields
<1>4. CodesInv'
  BY CodesKept DEF TablesAgree
<1>5. TreasuriesAgree'
  <2>1. Treasuries' = Treasuries
    BY <1>2, <1>3 DEF Treasuries
  <2>. QED
    BY <2>1, TreasuriesKept DEF TablesAgree
<1>6. DonationsAgree'
  <2>1. book.donated \in Tally /\ book.top = book.donated
    BY <1>0, BookFields DEF TablesAgree, DonationsAgree
  <2>2. /\ \A x \in Groups : SumOver(book'.donated[x], Users)
             = SumOver(book.donated[x], Users) + (IF x = g THEN amount ELSE 0)
        /\ TallySum(book'.donated) = TallySum(book.donated) + amount
    BY <1>1, <2>1, TallyGrows
  <2>3. /\ \A x \in Groups : SumOver(book.donated[x], Users) \in Nat
        /\ TallySum(book.donated) \in Nat
    BY <2>1, TallyNat
  <2>4. ASSUME NEW x \in Groups
        PROVE  SumOver(book'.donated[x], Users)
                 = IF book'.group[x] = None THEN 0 ELSE book'.group[x].xp
    <3>1. SumOver(book.donated[x], Users)
            = IF book.group[x] = None THEN 0 ELSE book.group[x].xp
      BY DEF TablesAgree, DonationsAgree
    <3>. QED
      BY <1>2, <1>3, <2>2, <2>3, <3>1
  <2>5. /\ book'.ledger.of["share"] + book'.ledger.of["fee"] <= TallySum(book'.donated)
        /\ book'.ledger.of["donate"] <= TallySum(book'.donated)
    <3>1. /\ book.ledger.of["share"] + book.ledger.of["fee"] <= TallySum(book.donated)
          /\ book.ledger.of["donate"] <= TallySum(book.donated)
      BY DEF TablesAgree, DonationsAgree
    <3>2. /\ book.ledger.of["share"] \in Nat /\ book.ledger.of["fee"] \in Nat
          /\ book.ledger.of["donate"] \in Nat
          /\ book'.ledger.of["share"] \in Nat /\ book'.ledger.of["fee"] \in Nat
          /\ book'.ledger.of["donate"] \in Nat
      BY <1>0 DEF Book, Ledger, Kinds
    <3>. QED
      BY <2>2, <2>3, <3>1, <3>2
  <2>. QED
    BY <1>1, <2>1, <2>4, <2>5 DEF DonationsAgree
<1>. QED
  BY <1>4, <1>5, <1>6 DEF TablesAgree

LEMMA DonateReading ==
  ASSUME GiftsInv, NEW p \in Procs, NEW u \in Users, NEW g \in Groups, NEW a \in Amounts,
         NEW o \in Users \cup {None}, DonateRead(p, u, g, a, o)
  PROVE  GiftsInv' /\ UNCHANGED db
<1> DEFINE state == [Rest EXCEPT !.step = "donate", !.user = u, !.to = o, !.at = g,
                                 !.amount = a]
<1>1. a \in Nat
  BY GiftsAssumption
<1>2. state \in Task /\ Points(state)
  BY <1>1 DEF Rest, Task, Points
<1>. QED
  BY <1>2, Beginning DEF DonateRead

LEMMA DonateWriting ==
  ASSUME GiftsInv, NEW p \in Procs, DonateWrite(p)
  PROVE  GiftsInv' /\ db'.check = db.check
<1> DEFINE t == task[p]
           u == t.user
           wallet == Opening(db.wallet, u)
           open == [wallet |-> wallet, ledger |-> book.ledger]
           debited == [wallet |-> [wallet EXCEPT ![u] = Debited(@, t.amount)],
                       ledger |-> Recorded(book.ledger, "donate", u, None, t.amount)]
           after == OwnerPaid(debited, t.to, t.amount)
           b == Donated(book, t.at, u, t.amount)
<1>0. db'.check = db.check
  BY BooksFields DEF DonateWrite, Commit, GiftsInv, TypeInv, CheckInv
<1>1. /\ t \in Task /\ u \in Users /\ t.at \in Groups /\ t.to \in Users \cup {None}
      /\ t.amount \in Nat
  BY DEF GiftsInv, TypeInv, Points, DonateWrite, Doing, Task
<1>2. CASE Commit(p, Purse, book)
  BY <1>0, <1>2, Refusing
<1>3. CASE CanDebit(wallet[u], t.amount) /\ Commit(p, after, b)
  <2>1. /\ Sound(ClaimedBy, FundedBy, open) /\ Keeps(Purse, open)
        /\ open.wallet[u] \in Wallets
    <3>1. [Purse EXCEPT !.wallet = Opening(Purse.wallet, u)] = open
      BY DEF Purse
    <3>2. LET x == [Purse EXCEPT !.wallet = Opening(Purse.wallet, u)]
          IN /\ Sound(ClaimedBy, FundedBy, x) /\ Keeps(Purse, x)
             /\ x.wallet[u] \in Wallets
      BY <1>1, SoundPurse, OpenedPurse DEF GiftsInv
    <3>. HIDE DEF open
    <3>. QED
      BY <3>1, <3>2
  <2>2. open.wallet = wallet /\ open.ledger = book.ledger
    OBVIOUS
  <2> DEFINE amount == t.amount
  <2>3. Sound(ClaimedBy, FundedBy, debited) /\ Keeps(open, debited)
    <3>1. debited = [wallet |-> [open.wallet EXCEPT ![u] = Debited(@, amount)],
                     ledger |-> Recorded(open.ledger, "donate", u, None, amount)]
      OBVIOUS
    <3>2. CanDebit(open.wallet[u], amount) /\ amount \in Nat /\ u \in Users
      BY <1>1, <1>3
    <3>3. "donate" \in Kinds \ {"tax"}
      BY DEF Kinds
    <3>. HIDE DEF open, debited, u, amount
    <3>4. LET x == [wallet |-> [open.wallet EXCEPT ![u] = Debited(@, amount)],
                    ledger |-> Recorded(open.ledger, "donate", u, None, amount)]
          IN Sound(ClaimedBy, FundedBy, x) /\ Keeps(open, x)
      BY <2>1, <3>2, <3>3, DebitedPurse, ZenonT(60)
    <3>. QED
      BY <3>1, <3>4
  <2>4. /\ \A k \in {"promo", "payout", "share", "fee"} : debited.ledger.of[k] = book.ledger.of[k]
        /\ debited.ledger.of["donate"] = book.ledger.of["donate"] + t.amount
    <3>1. book.ledger \in Ledger
      BY BookFields DEF GiftsInv, TypeInv
    <3>. QED
      BY <1>1, <3>1, RecordedFields DEF Kinds
  <2>5. /\ Sound(ClaimedBy, FundedBy, after) /\ Keeps(debited, after)
        /\ \A k \in Kinds \ {"share", "fee"} : after.ledger.of[k] = debited.ledger.of[k]
        /\ after.ledger.of["share"] + after.ledger.of["fee"]
             <= debited.ledger.of["share"] + debited.ledger.of["fee"] + t.amount
    <3> DEFINE owner == t.to
    <3>1. owner \in Users \cup {None} /\ amount \in Nat
      BY <1>1
    <3>. HIDE DEF debited, amount, owner
    <3>2. LET x == OwnerPaid(debited, owner, amount)
          IN /\ Sound(ClaimedBy, FundedBy, x) /\ Keeps(debited, x)
             /\ \A k \in Kinds \ {"share", "fee"} : x.ledger.of[k] = debited.ledger.of[k]
             /\ x.ledger.of["share"] + x.ledger.of["fee"]
                  <= debited.ledger.of["share"] + debited.ledger.of["fee"] + amount
      BY <2>3, <3>1, OwnerPaidPurse
    <3>. QED
      BY <3>2 DEF owner, amount
  <2>. HIDE DEF debited, after, open
  <2>6. Keeps(Purse, after)
    BY <2>1, <2>3, <2>5, KeepsOn
  <2>7. /\ b \in Book /\ b.promo = book.promo /\ b.redeemed = book.redeemed
    <3> DEFINE g == t.at
    <3>1. g \in Groups /\ u \in Users /\ amount \in Nat /\ TypeInv
      BY <1>1 DEF GiftsInv
    <3>2. b = Donated(book, g, u, amount)
      OBVIOUS
    <3>. HIDE DEF b, g, u, amount
    <3>. QED
      BY <3>1, <3>2, DonatedKeeps
  <2>8. /\ TypeInv' /\ VouchersAgree' /\ book'.ledger = after.ledger
        /\ book'.group = b.group /\ book'.donated = b.donated /\ book'.top = b.top
        /\ book'.promo = b.promo /\ book'.redeemed = b.redeemed
    <3>. HIDE DEF b
    <3>. QED
      BY <1>3, <2>5, <2>6, <2>7, Committing DEF GiftsInv
  <2>9. TablesAgree'
    <3>1. /\ \A k \in {"promo", "payout"} : book'.ledger.of[k] = book.ledger.of[k]
          /\ book'.ledger.of["share"] + book'.ledger.of["fee"]
               <= book.ledger.of["share"] + book.ledger.of["fee"] + t.amount
          /\ book'.ledger.of["donate"] = book.ledger.of["donate"] + t.amount
      BY <2>4, <2>5, <2>8 DEF Kinds
    <3>2. book.ledger.of["donate"] \in Nat /\ book' \in Book
      BY <2>8 DEF GiftsInv, TypeInv, Book, Ledger, Kinds
    <3>3. book'.ledger.of["donate"] <= book.ledger.of["donate"] + t.amount
      BY <1>1, <3>1, <3>2
    <3>. QED
      BY <1>1, <2>7, <2>8, <3>1, <3>2, <3>3, DonationTables DEF GiftsInv
  <2>. QED
    BY <1>0, <2>8, <2>9 DEF GiftsInv
<1>. QED
  BY <1>2, <1>3 DEF DonateWrite

LEMMA Routing ==
  ASSUME GiftsInv, NEW u \in Users, NEW g \in Groups, NEW price \in Prices,
         NEW o \in Users \cup {None}, RouteSlice(u, g, price, o)
  PROVE  GiftsInv' /\ db'.check = db.check
<1> DEFINE amount == Commission(price, SlicePercent)
           after == OwnerPaid(Purse, o, amount)
           b == Donated(book, g, u, amount)
<1>1. amount \in Nat
  <2>1. price \in Nat /\ SlicePercent \in 0..100
    BY GiftsAssumption
  <2>. QED
    BY <2>1, CommissionFits
<1>. HIDE DEF amount
<1>2. /\ db' = [db EXCEPT !.wallet = after.wallet]
      /\ book' = [b EXCEPT !.ledger = after.ledger, !.begun = book.begun + 1]
      /\ UNCHANGED <<job, past, task>>
  <2>1. b.begun = book.begun
    <3>1. TypeInv /\ b = Donated(book, g, u, amount)
      BY DEF GiftsInv
    <3>. HIDE DEF b
    <3>. QED
      BY <1>1, <3>1, DonatedKeeps
  <2>. QED
    BY <2>1 DEF RouteSlice, amount
<1>3. /\ Sound(ClaimedBy, FundedBy, after) /\ Keeps(Purse, after)
      /\ \A k \in Kinds \ {"share", "fee"} : after.ledger.of[k] = book.ledger.of[k]
      /\ after.ledger.of["share"] + after.ledger.of["fee"]
           <= book.ledger.of["share"] + book.ledger.of["fee"] + amount
  <2> DEFINE before == Purse
  <2>1. Sound(ClaimedBy, FundedBy, before) /\ before.ledger = book.ledger
    BY SoundPurse DEF GiftsInv
  <2>. HIDE DEF before
  <2>2. LET x == OwnerPaid(before, o, amount)
        IN /\ Sound(ClaimedBy, FundedBy, x) /\ Keeps(before, x)
           /\ \A k \in Kinds \ {"share", "fee"} : x.ledger.of[k] = before.ledger.of[k]
           /\ x.ledger.of["share"] + x.ledger.of["fee"]
                <= before.ledger.of["share"] + before.ledger.of["fee"] + amount
    BY <1>1, <2>1, OwnerPaidPurse
  <2>. QED
    BY <2>1, <2>2 DEF before
<1>4. b \in Book /\ b.promo = book.promo /\ b.redeemed = book.redeemed
  <2>1. TypeInv /\ b = Donated(book, g, u, amount)
    BY DEF GiftsInv
  <2>. HIDE DEF b
  <2>. QED
    BY <1>1, <2>1, DonatedKeeps
<1>. HIDE DEF after
<1>5. /\ book' \in Book /\ book'.ledger = after.ledger
      /\ book'.group = b.group /\ book'.donated = b.donated /\ book'.top = b.top
      /\ book'.promo = b.promo /\ book'.redeemed = b.redeemed
  <2> DEFINE r == [ledger |-> after.ledger, group |-> b.group, donated |-> b.donated,
                   top |-> b.top, promo |-> b.promo, redeemed |-> b.redeemed,
                   begun |-> book.begun + 1]
  <2>. HIDE DEF b
  <2>1. book' = r
    <3>1. b = [ledger |-> b.ledger, group |-> b.group, donated |-> b.donated, top |-> b.top,
               promo |-> b.promo, redeemed |-> b.redeemed, begun |-> b.begun]
      BY <1>4, BookFields
    <3>2. book' = [b EXCEPT !.ledger = after.ledger, !.begun = book.begun + 1]
      BY <1>2
    <3>. QED
      BY <3>1, <3>2
  <2>2. after.ledger \in Ledger
    BY <1>3, PurseFields DEF Sound
  <2>3. book.begun \in Nat
    BY BookFields DEF GiftsInv, TypeInv
  <2>4. r \in Book
    BY <1>4, <2>2, <2>3, BookFields DEF Book
  <2>. QED
    BY <2>1, <2>4
<1>6. TypeInv' /\ VouchersAgree'
  <2>. HIDE DEF b
  <2>. QED
    BY <1>2, <1>3, <1>4, <1>5, Moving DEF GiftsInv, TypeInv
<1>7. TablesAgree'
  <2>1. /\ \A k \in {"promo", "payout"} : book'.ledger.of[k] = book.ledger.of[k]
        /\ book'.ledger.of["share"] + book'.ledger.of["fee"]
             <= book.ledger.of["share"] + book.ledger.of["fee"] + amount
        /\ book'.ledger.of["donate"] = book.ledger.of["donate"]
    BY <1>3, <1>5 DEF Kinds
  <2>2. book.ledger.of["donate"] \in Nat
    BY DEF GiftsInv, TypeInv, Book, Ledger, Kinds
  <2>3. book'.ledger.of["donate"] <= book.ledger.of["donate"] + amount
    BY <1>1, <2>1, <2>2
  <2>. QED
    BY <1>1, <1>4, <1>5, <2>1, <2>3, DonationTables DEF GiftsInv
<1>8. db'.check = db.check
  BY <1>2, BooksFields DEF GiftsInv, TypeInv, CheckInv
<1>. QED
  BY <1>6, <1>7, <1>8 DEF GiftsInv

-----------------------------------------------------------------------------
(* /group_pay and the change of a group's id.                              *)

LEMMA TreasuryNat ==
  ASSUME book \in Book
  PROVE  \A g \in Groups : Treasuries[g] \in Nat
<1> SUFFICES ASSUME NEW g \in Groups PROVE Treasuries[g] \in Nat
  OBVIOUS
<1>1. book.group[g] \in Group \cup {None}
  BY BookFields
<1>. QED
  BY <1>1 DEF Treasuries, Group

LEMMA PayoutReading ==
  ASSUME GiftsInv, NEW p \in Procs, NEW u \in Users, NEW g \in Groups, NEW a \in Amounts,
         PayoutRead(p, u, g, a)
  PROVE  GiftsInv' /\ UNCHANGED db
<1> DEFINE state == [Rest EXCEPT !.step = "payout", !.user = u, !.at = g, !.amount = a]
<1>1. a \in Nat
  BY GiftsAssumption
<1>2. state \in Task /\ Points(state)
  BY <1>1 DEF Rest, Task, Points
<1>. QED
  BY <1>2, Beginning DEF PayoutRead

\* The treasury pays what the caller is credited.
LEMMA PayoutWriting ==
  ASSUME GiftsInv, NEW p \in Procs, PayoutWrite(p)
  PROVE  GiftsInv' /\ db'.check = db.check
<1> DEFINE t == task[p]
           u == t.user
           g == t.at
           amount == t.amount
           row == [book.group[g] EXCEPT !.treasury = @ - amount]
           groups == [book.group EXCEPT ![g] = row]
           b == [book EXCEPT !.group[g].treasury = @ - amount]
           after == Minted(Purse, u, amount, "payout")
<1>0. db'.check = db.check
  BY BooksFields DEF PayoutWrite, Commit, GiftsInv, TypeInv, CheckInv
<1>1. u \in Users /\ g \in Groups /\ amount \in Nat /\ book \in Book
  BY DEF GiftsInv, TypeInv, Points, PayoutWrite, Doing, Task
<1>2. CASE Commit(p, Purse, book)
  BY <1>0, <1>2, Refusing
<1>3. CASE Holds(g, amount) /\ Paid(Purse, u, amount) /\ Commit(p, after, b)
  <2>1. /\ row \in Group /\ row.xp = book.group[g].xp
        /\ row.treasury = book.group[g].treasury - amount
        /\ book.group[g] \in Group
    <3>1. book.group[g] \in Group
      BY <1>1, <1>3, BookFields DEF Holds
    <3>2. book.group[g].treasury - amount \in Nat
      BY <1>1, <1>3, <3>1 DEF Holds, Group
    <3>. QED
      BY <3>1, <3>2 DEF Group
  <2>. HIDE DEF row
  <2>2. /\ groups \in [Groups -> Group \cup {None}]
        /\ \A x \in Groups : groups[x] = IF x = g THEN row ELSE book.group[x]
    BY <1>1, <2>1, BookFields
  <2>3. /\ b \in Book /\ b.group = groups /\ b.donated = book.donated /\ b.top = book.top
        /\ b.promo = book.promo /\ b.redeemed = book.redeemed
    <3> DEFINE r == [ledger |-> book.ledger, group |-> groups, donated |-> book.donated,
                     top |-> book.top, promo |-> book.promo, redeemed |-> book.redeemed,
                     begun |-> book.begun]
    <3>1. b = r
      <4>1. book = [ledger |-> book.ledger, group |-> book.group, donated |-> book.donated,
                    top |-> book.top, promo |-> book.promo, redeemed |-> book.redeemed,
                    begun |-> book.begun]
        BY <1>1, BookFields
      <4>. QED
        BY <4>1 DEF row
    <3>2. r \in Book
      <4>. HIDE DEF groups
      <4>. QED
        BY <1>1, <2>2, BookFields DEF Book
    <3>. HIDE DEF b, groups
    <3>. QED
      BY <3>1, <3>2
  <2>4. /\ Sound(ClaimedBy, FundedBy, after) /\ Keeps(Purse, after)
        /\ \A k \in Kinds \ {"payout"} : after.ledger.of[k] = book.ledger.of[k]
        /\ after.ledger.of["payout"] = book.ledger.of["payout"] + amount
    <3> DEFINE before == Purse
    <3>1. Sound(ClaimedBy, FundedBy, before) /\ before.ledger = book.ledger
      BY SoundPurse DEF GiftsInv
    <3>2. "payout" \in Kinds \ {"tax"} /\ Paid(before, u, amount)
      BY <1>3 DEF Kinds
    <3>. HIDE DEF before, u, amount
    <3>3. LET x == Minted(before, u, amount, "payout")
          IN /\ Sound(ClaimedBy, FundedBy, x) /\ Keeps(before, x)
             /\ x.ledger.of = IF Paid(before, u, amount) /\ amount # 0
                              THEN [before.ledger.of EXCEPT !["payout"] = @ + amount]
                              ELSE before.ledger.of
      BY <1>1, <3>1, <3>2, MintedPurse
    <3>4. book.ledger.of \in [Kinds -> Nat]
      BY <1>1 DEF Book, Ledger
    <3>5. /\ \A k \in Kinds \ {"payout"} : after.ledger.of[k] = book.ledger.of[k]
          /\ after.ledger.of["payout"] = book.ledger.of["payout"] + amount
      <4>1. after.ledger.of = IF amount # 0
                              THEN [book.ledger.of EXCEPT !["payout"] = @ + amount]
                              ELSE book.ledger.of
        BY <3>1, <3>2, <3>3 DEF before, u, amount
      <4>. HIDE DEF after
      <4>2. CASE amount # 0
        BY <3>2, <3>4, <4>1, <4>2
      <4>3. CASE amount = 0
        BY <3>2, <3>4, <4>1, <4>3
      <4>. QED
        BY <4>2, <4>3
    <3>. QED
      BY <3>3, <3>5 DEF before, u, amount
  <2>. HIDE DEF b, after, groups
  <2>5. /\ TypeInv' /\ VouchersAgree' /\ book'.ledger = after.ledger
        /\ book'.group = groups /\ book'.donated = book.donated /\ book'.top = book.top
        /\ book'.promo = book.promo /\ book'.redeemed = book.redeemed
    BY <1>3, <2>3, <2>4, Committing DEF GiftsInv
  <2>6. None \notin Group
    BY GiftsAssumption
  <2>7. CodesInv'
    <3>1. book'.ledger.of["promo"] = book.ledger.of["promo"]
      BY <2>4, <2>5 DEF Kinds
    <3>. QED
      BY <2>5, <3>1, CodesKept DEF GiftsInv, TablesAgree
  <2>8. DonationsAgree'
    <3>1. \A x \in Groups : (IF book'.group[x] = None THEN 0 ELSE book'.group[x].xp)
                              = (IF book.group[x] = None THEN 0 ELSE book.group[x].xp)
      BY <2>1, <2>2, <2>5, <2>6
    <3>2. Scores' = Scores
      BY <3>1 DEF Scores
    <3>3. /\ book'.ledger.of["share"] = book.ledger.of["share"]
          /\ book'.ledger.of["fee"] = book.ledger.of["fee"]
          /\ book'.ledger.of["donate"] = book.ledger.of["donate"]
      BY <2>4, <2>5 DEF Kinds
    <3>. QED
      BY <2>5, <3>2, <3>3, DonationsKept DEF GiftsInv, TablesAgree
  <2>9. TreasuriesAgree'
    <3> DEFINE f == Treasuries
               h == Treasuries'
    <3>1. \A x \in Groups : f[x] \in Nat
      BY <1>1, TreasuryNat
    <3>2. book' \in Book
      BY <2>5 DEF TypeInv
    <3>3. /\ h[g] = f[g] - amount /\ h[g] \in Int
          /\ \A x \in Groups : x # g => h[x] = f[x]
      <4>1. \A x \in Groups : h[x] = IF book'.group[x] = None THEN 0
                                     ELSE book'.group[x].treasury
        BY DEF Treasuries
      <4>2. \A x \in Groups : f[x] = IF book.group[x] = None THEN 0
                                     ELSE book.group[x].treasury
        BY DEF Treasuries
      <4>3. h[g] = f[g] - amount
        BY <1>1, <2>1, <2>2, <2>5, <2>6, <4>1, <4>2
      <4>4. f[g] \in Nat
        BY <1>1, <3>1
      <4>. HIDE DEF f, h
      <4>5. \A x \in Groups : x # g => h[x] = f[x]
        BY <2>2, <2>5, <4>1, <4>2
      <4>. QED
        BY <1>1, <4>3, <4>4, <4>5
    <3>4. /\ SumOver(f, Groups) + book.ledger.of["payout"] <= Residue * Cardinality(OldGroups)
          /\ TreasuriesAgree' <=> (SumOver(h, Groups) + book'.ledger.of["payout"]
                                     <= Residue * Cardinality(OldGroups))
      BY DEF GiftsInv, TablesAgree, TreasuriesAgree, Treasuries
    <3>. HIDE DEF f, h
    <3>5. IsFiniteSet(Groups) /\ \A x \in Groups : f[x] \in Int
      BY <3>1, GiftsAssumption
    <3>6. SumOver(h, Groups) = SumOver(f, Groups) + h[g] - f[g]
      <4>1. g \in Groups /\ h[g] \in Int /\ \A x \in Groups : x # g => h[x] = f[x]
        BY <1>1, <3>3
      <4>. HIDE DEF g
      <4>. QED
        BY <3>5, <4>1, SumUpdate
    <3>7. SumOver(f, Groups) \in Int /\ f[g] \in Nat
      BY <1>1, <3>1, <3>5, SumInt
    <3>8. SumOver(h, Groups) = SumOver(f, Groups) - amount
      BY <1>1, <3>3, <3>6, <3>7
    <3>9. book'.ledger.of["payout"] = book.ledger.of["payout"] + amount
          /\ book.ledger.of["payout"] \in Nat
      BY <1>1, <2>4, <2>5 DEF Book, Ledger, Kinds
    <3>. QED
      BY <1>1, <3>4, <3>7, <3>8, <3>9
  <2>. QED
    BY <1>0, <2>5, <2>7, <2>8, <2>9 DEF GiftsInv, TablesAgree
<1>. QED
  BY <1>2, <1>3 DEF PayoutWrite

LEMMA MovedTally ==
  ASSUME NEW tally \in Tally, NEW old \in Groups, NEW new \in Groups, old # new
  PROVE  LET after == Moved(tally, old, new)
         IN /\ after \in Tally
            /\ SumOver(after[new], Users) = SumOver(tally[new], Users) + SumOver(tally[old], Users)
            /\ SumOver(after[old], Users) = 0
            /\ \A g \in Groups : g # old /\ g # new => after[g] = tally[g]
            /\ TallySum(after) = TallySum(tally)
<1> DEFINE after == Moved(tally, old, new)
<1>0. IsFiniteSet(Users) /\ IsFiniteSet(Groups)
  BY ChecksAssumption, GiftsAssumption
<1>1. /\ after \in Tally
      /\ \A u \in Users : after[new][u] = tally[new][u] + tally[old][u]
      /\ \A u \in Users : after[old][u] = 0
      /\ \A g \in Groups : g # old /\ g # new => after[g] = tally[g]
  BY DEF Moved, Tally
<1>2. \A g \in Groups : SumOver(tally[g], Users) \in Nat /\ SumOver(after[g], Users) \in Nat
  BY <1>1, TallyNat
<1>. HIDE DEF after
<1>3. SumOver(after[new], Users) = SumOver(tally[new], Users) + SumOver(tally[old], Users)
  <2> DEFINE f == tally[new]
             g == tally[old]
             h == after[new]
  <2>1. \A u \in Users : f[u] \in Int /\ g[u] \in Int /\ h[u] = f[u] + g[u]
    BY <1>1 DEF Tally
  <2>. HIDE DEF f, g, h
  <2>2. SumOver(h, Users) = SumOver(f, Users) + SumOver(g, Users)
    BY <1>0, <2>1, SumPlus
  <2>. QED
    BY <2>2 DEF f, g, h
<1>4. SumOver(after[old], Users) = 0
  BY <1>0, <1>1, SumZero
<1>5. TallySum(after) = TallySum(tally)
  <2> DEFINE f == [g \in Groups |-> SumOver(tally[g], Users)]
             h == [g \in Groups |-> SumOver(after[g], Users)]
  <2>1. /\ \A g \in Groups : f[g] \in Int
        /\ h[old] \in Int /\ h[new] \in Int
        /\ \A g \in Groups : g # old /\ g # new => h[g] = f[g]
    BY <1>1, <1>2
  <2>2. h[old] = 0 /\ h[new] = f[new] + f[old] /\ f[old] \in Int /\ f[new] \in Int
    BY <1>2, <1>3, <1>4
  <2>3. TallySum(after) = SumOver(h, Groups) /\ TallySum(tally) = SumOver(f, Groups)
    BY DEF TallySum
  <2>. HIDE DEF f, h
  <2>4. SumOver(h, Groups) = SumOver(f, Groups) + h[old] - f[old] + h[new] - f[new]
    BY <1>0, <2>1, SumUpdateTwo
  <2>5. SumOver(f, Groups) \in Int
    BY <1>0, <2>1, SumInt
  <2>. QED
    BY <2>2, <2>3, <2>4, <2>5
<1>. QED
  BY <1>1, <1>3, <1>4, <1>5 DEF after

\* Two treasuries become one, which holds at most what both did.
OneOfTwo(f, h, old, new) ==
  /\ \A x \in Groups : f[x] \in Nat
  /\ \A x \in Groups : x # old /\ x # new => h[x] = f[x]
  /\ h[old] = 0 /\ h[new] \in Nat /\ h[new] <= f[new] + f[old]

LEMMA FoldingSums ==
  ASSUME NEW f, NEW h, NEW old \in Groups, NEW new \in Groups, old # new,
         OneOfTwo(f, h, old, new)
  PROVE  /\ SumOver(h, Groups) <= SumOver(f, Groups)
         /\ SumOver(h, Groups) \in Int /\ SumOver(f, Groups) \in Int
<1>1. IsFiniteSet(Groups)
  BY GiftsAssumption
<1>2. /\ \A x \in Groups : f[x] \in Int
      /\ h[old] \in Int /\ h[new] \in Int
      /\ \A x \in Groups : x # old /\ x # new => h[x] = f[x]
  BY DEF OneOfTwo
<1>3. SumOver(h, Groups) = SumOver(f, Groups) + h[old] - f[old] + h[new] - f[new]
  BY <1>1, <1>2, SumUpdateTwo
<1>4. SumOver(f, Groups) \in Int /\ f[old] \in Nat /\ f[new] \in Nat
  BY <1>1, <1>2, SumInt DEF OneOfTwo
<1>5. h[old] = 0 /\ h[new] \in Nat /\ h[new] <= f[new] + f[old]
  BY DEF OneOfTwo
<1>. QED
  BY <1>3, <1>4, <1>5

\* A group's new id takes over its score and its donations; a treasury may get
\* lost on the way, and never grows.
LEMMA Migrating ==
  ASSUME GiftsInv, NEW move \in Upgrades, Migrate(move[1], move[2])
  PROVE  GiftsInv' /\ UNCHANGED db
<1> DEFINE old == move[1]
           new == move[2]
           row == Folded(book.group[new], book.group[old])
           groups == [book.group EXCEPT ![new] = row, ![old] = None]
           donated == Moved(book.donated, old, new)
           top == Moved(book.top, old, new)
           r == [ledger |-> book.ledger, group |-> groups, donated |-> donated, top |-> top,
                 promo |-> book.promo, redeemed |-> book.redeemed, begun |-> book.begun]
<1>0. old \in Groups /\ new \in Groups /\ old # new
  BY GiftsAssumption
<1>1. book \in Book /\ book.top = book.donated /\ book.donated \in Tally
  BY BookFields DEF GiftsInv, TypeInv, TablesAgree, DonationsAgree
<1>2. book.group[old] \in Group /\ book.group[new] \in Group \cup {None}
  BY <1>0, <1>1, BookFields DEF Migrate
<1>3. /\ row \in Group
      /\ row.xp = book.group[old].xp
                    + (IF book.group[new] = None THEN 0 ELSE book.group[new].xp)
      /\ row.treasury = IF book.group[new] = None THEN book.group[old].treasury
                        ELSE book.group[new].treasury
  <2>1. CASE book.group[new] = None
    BY <1>2, <2>1 DEF Folded, Group
  <2>2. CASE book.group[new] # None
    BY <1>2, <2>2 DEF Folded, Group
  <2>. QED
    BY <2>1, <2>2
<1>. HIDE DEF row, old, new
<1>4. /\ groups \in [Groups -> Group \cup {None}]
      /\ \A x \in Groups : groups[x] = IF x = old THEN None
                                        ELSE IF x = new THEN row ELSE book.group[x]
  BY <1>0, <1>1, <1>3, BookFields
<1>5. /\ donated \in Tally /\ top = donated
      /\ SumOver(donated[new], Users)
           = SumOver(book.donated[new], Users) + SumOver(book.donated[old], Users)
      /\ SumOver(donated[old], Users) = 0
      /\ \A g \in Groups : g # old /\ g # new => donated[g] = book.donated[g]
      /\ TallySum(donated) = TallySum(book.donated)
  BY <1>0, <1>1, MovedTally
<1>6. UNCHANGED <<db, job, past, task>> /\ book' = r
  <2>1. book' = [book EXCEPT !.group = [book.group EXCEPT ![new] = row, ![old] = None],
                             !.donated = Moved(book.donated, old, new),
                             !.top = Moved(book.top, old, new)]
    BY DEF Migrate, old, new, row
  <2>2. book = [ledger |-> book.ledger, group |-> book.group, donated |-> book.donated,
                top |-> book.top, promo |-> book.promo, redeemed |-> book.redeemed,
                begun |-> book.begun]
    BY <1>1, BookFields
  <2>3. UNCHANGED <<db, job, past, task>>
    BY DEF Migrate
  <2>. QED
    BY <2>1, <2>2, <2>3
<1>. HIDE DEF groups, donated, top
<1>7. /\ book' \in Book /\ book'.ledger = book.ledger /\ book'.group = groups
      /\ book'.donated = donated /\ book'.top = top
      /\ book'.promo = book.promo /\ book'.redeemed = book.redeemed
  <2>1. r \in Book
    BY <1>1, <1>4, <1>5, BookFields DEF Book
  <2>. QED
    BY <1>6, <2>1
<1>. HIDE DEF r
<1>8. TypeInv'
  <2>1. CheckInv'
    BY <1>6 DEF GiftsInv, TypeInv, CheckInv, TypeOK, JobsPoint, At
  <2>2. \A q \in Procs : Points(task[q])'
    BY <1>6, <1>7 DEF GiftsInv, TypeInv, Points
  <2>. QED
    BY <1>6, <1>7, <2>1, <2>2 DEF GiftsInv, TypeInv
<1>9. VouchersAgree'
  <2>1. ClaimedBy' = ClaimedBy /\ FundedBy' = FundedBy /\ Purse' = Purse
    BY <1>6, <1>7 DEF ClaimedBy, FundedBy, Purse
  <2>. QED
    BY <1>6, <2>1 DEF GiftsInv, VouchersAgree, FreeIsBlank, CheckMatchesClaims
<1>10. CodesInv'
  BY <1>7, CodesKept DEF GiftsInv, TablesAgree
<1>11. None \notin Group
  BY GiftsAssumption
<1>12. DonationsAgree'
  <2>1. ASSUME NEW x \in Groups
        PROVE  SumOver(donated[x], Users) = IF groups[x] = None THEN 0 ELSE groups[x].xp
    <3>1. \A y \in Groups : SumOver(book.donated[y], Users)
                               = IF book.group[y] = None THEN 0 ELSE book.group[y].xp
      BY DEF GiftsInv, TablesAgree, DonationsAgree
    <3>2. CASE x = old
      BY <1>4, <1>5, <3>2
    <3>3. CASE x = new
      <4>1. groups[x] = row /\ groups[x] # None
        BY <1>0, <1>3, <1>4, <1>11, <3>3
      <4>2. book.group[old] # None
        BY <1>2, <1>11
      <4>3. /\ SumOver(book.donated[old], Users) = book.group[old].xp
            /\ SumOver(book.donated[new], Users)
                 = IF book.group[new] = None THEN 0 ELSE book.group[new].xp
        BY <1>0, <3>1, <4>2
      <4>4. /\ book.group[old].xp \in Nat
            /\ (IF book.group[new] = None THEN 0 ELSE book.group[new].xp) \in Nat
        BY <1>2 DEF Group
      <4>. QED
        BY <1>3, <1>5, <3>3, <4>1, <4>3, <4>4
    <3>4. CASE x # old /\ x # new
      BY <1>4, <1>5, <3>1, <3>4
    <3>. QED
      BY <3>2, <3>3, <3>4
  <2>2. /\ book.ledger.of["share"] + book.ledger.of["fee"] <= TallySum(book.donated)
        /\ book.ledger.of["donate"] <= TallySum(book.donated)
    BY DEF GiftsInv, TablesAgree, DonationsAgree
  <2>. QED
    BY <1>5, <1>7, <2>1, <2>2 DEF DonationsAgree
<1>13. TreasuriesAgree'
  <2> DEFINE f == Treasuries
             h == Treasuries'
  <2>1. \A x \in Groups : f[x] \in Nat
    BY <1>1, TreasuryNat
  <2>2. /\ h[old] = 0 /\ h[new] \in Nat /\ h[new] <= f[new] + f[old]
        /\ \A x \in Groups : x # old /\ x # new => h[x] = f[x]
    <3>1. \A x \in Groups : h[x] = IF groups[x] = None THEN 0 ELSE groups[x].treasury
      BY <1>7 DEF Treasuries
    <3>2. \A x \in Groups : f[x] = IF book.group[x] = None THEN 0
                                    ELSE book.group[x].treasury
      BY DEF Treasuries
    <3>3. book.group[old] # None /\ row # None
      BY <1>2, <1>3, <1>11
    <3>. HIDE DEF f, h
    <3>4. h[old] = 0 /\ h[new] = row.treasury /\ f[old] = book.group[old].treasury
      BY <1>0, <1>4, <3>1, <3>2, <3>3
    <3>5. h[new] \in Nat /\ h[new] <= f[new] + f[old]
      <4>1. h[new] = IF book.group[new] = None THEN f[old] ELSE f[new]
        BY <1>0, <1>3, <3>2, <3>4
      <4>2. f[old] \in Nat /\ f[new] \in Nat
        BY <1>0, <2>1
      <4>. QED
        BY <4>1, <4>2
    <3>6. \A x \in Groups : x # old /\ x # new => h[x] = f[x]
      BY <1>4, <3>1, <3>2
    <3>. QED
      BY <3>4, <3>5, <3>6
  <2>3. /\ SumOver(f, Groups) + book.ledger.of["payout"] <= Residue * Cardinality(OldGroups)
        /\ TreasuriesAgree' <=> (SumOver(h, Groups) + book'.ledger.of["payout"]
                                   <= Residue * Cardinality(OldGroups))
    BY DEF GiftsInv, TablesAgree, TreasuriesAgree, Treasuries
  <2>. HIDE DEF f, h
  <2>5. \A x \in Groups : x # old /\ x # new => h[x] = f[x]
    BY <2>2
  <2>6. h[old] = 0 /\ h[new] \in Nat /\ h[new] <= f[new] + f[old]
    BY <2>2
  <2>7. SumOver(h, Groups) <= SumOver(f, Groups) /\ SumOver(h, Groups) \in Int
        /\ SumOver(f, Groups) \in Int
    BY <1>0, <2>1, <2>5, <2>6, FoldingSums, Zenon DEF OneOfTwo
  <2>8. book'.ledger = book.ledger /\ book.ledger.of["payout"] \in Nat
    BY <1>1, <1>7 DEF Book, Ledger, Kinds
  <2>9. OldGroups \subseteq Groups /\ Residue * Cardinality(OldGroups) \in Nat
    <3>1. OldGroups \subseteq Groups /\ IsFiniteSet(Groups) /\ Residue \in Nat
      BY GiftsAssumption
    <3>2. Cardinality(OldGroups) \in Nat
      BY <3>1, FS_Subset, FS_CardinalityType
    <3>. QED
      BY <3>1, <3>2, Mul
  <2>. QED
    BY <2>3, <2>7, <2>8, <2>9
<1>. QED
  BY <1>6, <1>8, <1>9, <1>10, <1>12, <1>13 DEF GiftsInv, TablesAgree

-----------------------------------------------------------------------------
(* Promo codes.                                                            *)

LEMMA IssueNat ==
  ASSUME book \in Book
  PROVE  \A c \in Codes : Issues[c] \in Nat
<1> SUFFICES ASSUME NEW c \in Codes PROVE Issues[c] \in Nat
  OBVIOUS
<1>1. book.promo[c] \in Promo \cup {None}
  BY BookFields
<1>2. CASE book.promo[c] = None
  BY <1>2 DEF Issues
<1>3. CASE book.promo[c] # None
  <2>1. book.promo[c].used \in Nat /\ book.promo[c].reward \in Nat
    BY <1>1, <1>3 DEF Promo
  <2>2. book.promo[c].used * book.promo[c].reward \in Nat
    BY <2>1, Mul
  <2>. QED
    BY <1>3, <2>2 DEF Issues
<1>. QED
  BY <1>2, <1>3

\* What CodesAgree says of one code.
CodeAgrees(promo, redeemed) ==
  /\ promo.used = SumOver(redeemed, Users)
  /\ promo.max > 0 => promo.used <= promo.max
  /\ promo.once => \A u \in Users : redeemed[u] <= 1
  /\ promo.active <=> (promo.max > 0 => promo.used < promo.max)

LEMMA CodesInvParts ==
  CodesInv <=> /\ \A c \in Codes : book.promo[c] # None
                                      => CodeAgrees(book.promo[c], book.redeemed[c])
               /\ \A c \in Codes : book.promo[c] = None => SumOver(book.redeemed[c], Users) = 0
               /\ book.ledger.of["promo"] = SumOver(Issues, Codes)
  BY Zenon DEF CodesInv, CodesAgree, CodeAgrees, Issues

LEMMA FreshCode ==
  ASSUME NEW offer \in Offers, NEW redeemed \in [Users -> Nat], SumOver(redeemed, Users) = 0
  PROVE  /\ Fresh(offer) \in Promo /\ Fresh(offer) # None
         /\ Fresh(offer).used = 0
         /\ CodeAgrees(Fresh(offer), redeemed)
<1>1. /\ offer.reward \in Nat /\ offer.max \in Nat /\ offer.once \in BOOLEAN
  BY GiftsAssumption
<1>2. /\ Fresh(offer) \in Promo /\ Fresh(offer).used = 0 /\ Fresh(offer).active
      /\ Fresh(offer).max = offer.max
  BY <1>1 DEF Fresh, Promo
<1>3. Fresh(offer) # None
  BY <1>2, GiftsAssumption
<1>4. \A u \in Users : redeemed[u] <= SumOver(redeemed, Users)
  BY ChecksAssumption, SumNat
<1>. QED
  BY <1>1, <1>2, <1>3, <1>4 DEF CodeAgrees

\* A new code is unused, and nobody had redeemed it.
LEMMA Minting ==
  ASSUME GiftsInv, NEW c \in Codes, NEW offer \in Offers, MintCode(c, offer)
  PROVE  GiftsInv' /\ UNCHANGED db
<1> DEFINE promos == [book.promo EXCEPT ![c] = Fresh(offer)]
           r == [ledger |-> book.ledger, group |-> book.group, donated |-> book.donated,
                 top |-> book.top, promo |-> promos, redeemed |-> book.redeemed,
                 begun |-> book.begun + 1]
<1>1. book \in Book /\ book.redeemed[c] \in [Users -> Nat] /\ book.promo[c] = None
  BY BookFields DEF GiftsInv, TypeInv, MintCode
<1>2. SumOver(book.redeemed[c], Users) = 0
  BY <1>1 DEF GiftsInv, TablesAgree, CodesInv
<1>3. /\ Fresh(offer) \in Promo /\ Fresh(offer) # None
      /\ Fresh(offer).used = 0
      /\ CodeAgrees(Fresh(offer), book.redeemed[c])
  BY <1>1, <1>2, FreshCode
<1>4. /\ promos \in [Codes -> Promo \cup {None}]
      /\ \A d \in Codes : promos[d] = IF d = c THEN Fresh(offer) ELSE book.promo[d]
  BY <1>1, <1>3, BookFields
<1>5. UNCHANGED <<db, job, past, task>> /\ book' = r
  <2>1. book = [ledger |-> book.ledger, group |-> book.group, donated |-> book.donated,
                top |-> book.top, promo |-> book.promo, redeemed |-> book.redeemed,
                begun |-> book.begun]
    BY <1>1, BookFields
  <2>2. book' = [book EXCEPT !.promo[c] = Fresh(offer), !.begun = @ + 1]
    BY DEF MintCode
  <2>. QED
    BY <2>1, <2>2 DEF MintCode
<1>. HIDE DEF promos
<1>6. /\ book' \in Book /\ book'.ledger = book.ledger /\ book'.group = book.group
      /\ book'.donated = book.donated /\ book'.top = book.top
      /\ book'.promo = promos /\ book'.redeemed = book.redeemed
  <2>1. r \in Book
    BY <1>1, <1>4, BookFields DEF Book
  <2>. QED
    BY <1>5, <2>1
<1>. HIDE DEF r
<1>7. TypeInv'
  <2>1. CheckInv'
    BY <1>5 DEF GiftsInv, TypeInv, CheckInv, TypeOK, JobsPoint, At
  <2>2. \A d \in Codes : book.promo[d] # None => promos[d] # None
    BY <1>3, <1>4
  <2>3. \A q \in Procs : Points(task[q])'
    BY <1>5, <1>6, <2>2 DEF GiftsInv, TypeInv, Points
  <2>. QED
    BY <1>5, <1>6, <2>1, <2>3 DEF GiftsInv, TypeInv
<1>8. VouchersAgree'
  <2>1. ClaimedBy' = ClaimedBy /\ FundedBy' = FundedBy /\ Purse' = Purse
    BY <1>5, <1>6 DEF ClaimedBy, FundedBy, Purse
  <2>. QED
    BY <1>5, <2>1 DEF GiftsInv, VouchersAgree, FreeIsBlank, CheckMatchesClaims
<1>9. CodesInv'
  <2>0. /\ \A d \in Codes : book.promo[d] # None
                              => CodeAgrees(book.promo[d], book.redeemed[d])
        /\ \A d \in Codes : book.promo[d] = None => SumOver(book.redeemed[d], Users) = 0
        /\ book.ledger.of["promo"] = SumOver(Issues, Codes)
    BY CodesInvParts DEF GiftsInv, TablesAgree
  <2>1. \A d \in Codes : promos[d] # None => CodeAgrees(promos[d], book.redeemed[d])
    BY <1>3, <1>4, <2>0
  <2>2. \A d \in Codes : promos[d] = None => SumOver(book.redeemed[d], Users) = 0
    BY <1>3, <1>4, <2>0
  <2>3. Issues' = Issues
    <3>1. \A d \in Codes : Issues[d] = IF book.promo[d] = None THEN 0
                                       ELSE book.promo[d].used * book.promo[d].reward
      BY DEF Issues
    <3>2. ASSUME NEW d \in Codes
          PROVE  (IF promos[d] = None THEN 0 ELSE promos[d].used * promos[d].reward) = Issues[d]
      <4>1. CASE d = c
        <5>1. promos[d] = Fresh(offer) /\ promos[d].reward \in Nat /\ promos[d].used = 0
          BY <1>3, <1>4, <4>1 DEF Promo
        <5>2. promos[d].used * promos[d].reward = 0
          BY <5>1
        <5>. QED
          BY <1>1, <1>3, <3>1, <4>1, <5>1, <5>2
      <4>2. CASE d # c
        BY <1>4, <3>1, <4>2
      <4>. QED
        BY <4>1, <4>2
    <3>. QED
      BY <1>6, <3>2 DEF Issues
  <2>. QED
    BY <1>6, <2>0, <2>1, <2>2, <2>3, CodesInvParts DEF CodesInv, CodesAgree, CodeAgrees, Issues
<1>10. DonationsAgree' /\ TreasuriesAgree'
  <2>1. Scores' = Scores /\ Treasuries' = Treasuries
    BY <1>6 DEF Scores, Treasuries
  <2>. QED
    BY <1>6, <2>1, DonationsKept, TreasuriesKept DEF GiftsInv, TablesAgree
<1>. QED
  BY <1>5, <1>7, <1>8, <1>9, <1>10 DEF GiftsInv, TablesAgree

LEMMA RedeemReading ==
  ASSUME GiftsInv, NEW p \in Procs, NEW u \in Users, NEW c \in Codes, RedeemRead(p, u, c)
  PROVE  GiftsInv' /\ UNCHANGED db
<1> DEFINE state == [Rest EXCEPT !.step = "redeem", !.user = u, !.at = c]
<1>1. state \in Task /\ Points(state)
  BY DEF Rest, Task, Points, RedeemRead
<1>. QED
  BY <1>1, Beginning DEF RedeemRead

LEMMA UsedFields ==
  ASSUME NEW row \in Promo
  PROVE  /\ Used(row) \in Promo
         /\ Used(row).used = row.used + 1
         /\ Used(row).reward = row.reward /\ Used(row).max = row.max /\ Used(row).once = row.once
         /\ Used(row).active = (row.active /\ (row.max > 0 => row.used + 1 < row.max))
<1> DEFINE open == row.active /\ (row.max > 0 => row.used + 1 < row.max)
           after == [row EXCEPT !.used = row.used + 1, !.active = open]
<1>1. Used(row) = after
  BY DEF Used
<1>2. row.used + 1 \in Nat /\ open \in BOOLEAN
  BY DEF Promo
<1>3. /\ after \in Promo
      /\ after.used = row.used + 1 /\ after.active = open
      /\ after.reward = row.reward /\ after.max = row.max /\ after.once = row.once
  <2>. HIDE DEF open
  <2>. QED
    BY <1>2, Zenon DEF Promo
<1>. QED
  BY <1>1, <1>3

\* One more use of a code, by a user who may: once, and below the cap.
LEMMA UsedAgrees ==
  ASSUME NEW row \in Promo, NEW redeemed \in [Users -> Nat], NEW u \in Users,
         CodeAgrees(row, redeemed), Usable(row), row.once => redeemed[u] = 0
  PROVE  CodeAgrees(Used(row), [redeemed EXCEPT ![u] = @ + 1])
<1> DEFINE after == [redeemed EXCEPT ![u] = @ + 1]
<1>1. /\ after[u] = redeemed[u] + 1
      /\ \A v \in Users : v # u => after[v] = redeemed[v]
  OBVIOUS
<1>2. IsFiniteSet(Users) /\ redeemed[u] \in Nat /\ row.used \in Nat /\ row.max \in Nat
  BY ChecksAssumption DEF Promo
<1>. HIDE DEF after
<1>3. SumOver(after, Users) = SumOver(redeemed, Users) + 1
  <2>1. /\ \A v \in Users : redeemed[v] \in Int
        /\ after[u] \in Int
        /\ \A v \in Users : v # u => after[v] = redeemed[v]
    BY <1>1, <1>2
  <2>2. SumOver(after, Users) = SumOver(redeemed, Users) + after[u] - redeemed[u]
    BY <1>2, <2>1, SumUpdate
  <2>3. SumOver(redeemed, Users) \in Int
    BY <1>2, SumInt
  <2>. QED
    BY <1>1, <1>2, <2>2, <2>3
<1>4. row.once => \A v \in Users : after[v] <= 1
  <2>. SUFFICES ASSUME row.once, NEW v \in Users PROVE after[v] <= 1
    OBVIOUS
  <2>1. CASE v = u
    BY <1>1, <2>1
  <2>2. CASE v # u
    BY <1>1, <2>2 DEF CodeAgrees
  <2>. QED
    BY <2>1, <2>2
<1>5. CodeAgrees(Used(row), after)
  <2>1. /\ row.used = SumOver(redeemed, Users)
        /\ row.active
        /\ row.max > 0 => row.used < row.max
    BY DEF CodeAgrees, Usable
  <2>2. /\ Used(row).used = row.used + 1
        /\ Used(row).max = row.max /\ Used(row).once = row.once
        /\ Used(row).active <=> (row.max > 0 => row.used + 1 < row.max)
    BY <2>1, UsedFields
  <2>. QED
    BY <1>2, <1>3, <1>4, <2>1, <2>2 DEF CodeAgrees
<1>. QED
  BY <1>5 DEF after

LEMMA UsedPays ==
  ASSUME NEW row \in Promo
  PROVE  /\ row.used * row.reward \in Nat
         /\ Used(row).used * Used(row).reward = row.used * row.reward + row.reward
<1>1. row.used \in Nat /\ row.reward \in Nat
  BY DEF Promo
<1>2. \A a, b \in Nat : (a + 1) * b = a * b + b
  OBVIOUS
<1>. QED
  BY <1>1, <1>2, Mul, UsedFields

LEMMA RedeemWriting ==
  ASSUME GiftsInv, NEW p \in Procs, RedeemWrite(p)
  PROVE  GiftsInv' /\ db'.check = db.check
<1> DEFINE c == task[p].at
           u == task[p].user
           row == book.promo[c]
           b == [book EXCEPT !.promo[c] = Used(@), !.redeemed[c][u] = @ + 1]
           promos == [book.promo EXCEPT ![c] = Used(row)]
           redeemed == [book.redeemed EXCEPT ![c][u] = @ + 1]
           after == Minted(Purse, u, row.reward, "promo")
<1>0. db'.check = db.check
  BY BooksFields DEF RedeemWrite, Commit, GiftsInv, TypeInv, CheckInv
<1>1. u \in Users /\ c \in Codes /\ row # None /\ book \in Book
  BY DEF GiftsInv, TypeInv, Points, RedeemWrite, Doing
<1>2. row \in Promo /\ row.reward \in Nat /\ book.redeemed[c] \in [Users -> Nat]
  BY <1>1, BookFields DEF Promo
<1>3. CASE Commit(p, Purse, book)
  BY <1>0, <1>3, Refusing
<1>4. CASE /\ Usable(row)
           /\ row.once => book.redeemed[c][u] = 0
           /\ Paid(Purse, u, row.reward)
           /\ Commit(p, after, b)
  <2>1. /\ promos \in [Codes -> Promo \cup {None}]
        /\ \A d \in Codes : promos[d] = IF d = c THEN Used(row) ELSE book.promo[d]
    BY <1>1, <1>2, BookFields, UsedFields
  <2>2. /\ redeemed \in [Codes -> [Users -> Nat]]
        /\ \A d \in Codes : redeemed[d] = IF d = c THEN [book.redeemed[c] EXCEPT ![u] = @ + 1]
                                          ELSE book.redeemed[d]
    BY <1>1, <1>2, BookFields
  <2>3. /\ b \in Book /\ b.group = book.group /\ b.donated = book.donated /\ b.top = book.top
        /\ b.promo = promos /\ b.redeemed = redeemed
    <3> DEFINE r == [ledger |-> book.ledger, group |-> book.group, donated |-> book.donated,
                     top |-> book.top, promo |-> promos, redeemed |-> redeemed,
                     begun |-> book.begun]
    <3>1. b = r
      <4>1. book = [ledger |-> book.ledger, group |-> book.group, donated |-> book.donated,
                    top |-> book.top, promo |-> book.promo, redeemed |-> book.redeemed,
                    begun |-> book.begun]
        BY <1>1, BookFields
      <4>2. b = [book EXCEPT !.promo[c] = Used(@), !.redeemed[c][u] = @ + 1]
        OBVIOUS
      <4>. HIDE DEF b, c, u
      <4>. QED
        BY <4>1, <4>2
    <3>2. r \in Book
      <4>. HIDE DEF promos, redeemed
      <4>. QED
        BY <1>1, <2>1, <2>2, BookFields DEF Book
    <3>. HIDE DEF b, promos, redeemed
    <3>. QED
      BY <3>1, <3>2
  <2> DEFINE reward == row.reward
  <2>4. /\ Sound(ClaimedBy, FundedBy, after) /\ Keeps(Purse, after)
        /\ \A k \in Kinds \ {"promo"} : after.ledger.of[k] = book.ledger.of[k]
        /\ after.ledger.of["promo"] = book.ledger.of["promo"] + reward
    <3> DEFINE before == Purse
    <3>1. Sound(ClaimedBy, FundedBy, before) /\ before.ledger = book.ledger
      BY SoundPurse DEF GiftsInv
    <3>2. "promo" \in Kinds \ {"tax"} /\ Paid(before, u, reward)
      BY <1>4 DEF Kinds
    <3>0. u \in Users /\ reward \in Nat
      BY <1>1, <1>2
    <3>. HIDE DEF before, u, reward
    <3>3. LET x == Minted(before, u, reward, "promo")
          IN /\ Sound(ClaimedBy, FundedBy, x) /\ Keeps(before, x)
             /\ x.ledger.of = IF Paid(before, u, reward) /\ reward # 0
                              THEN [before.ledger.of EXCEPT !["promo"] = @ + reward]
                              ELSE before.ledger.of
      BY <3>0, <3>1, <3>2, MintedPurse, ZenonT(60)
    <3>4. book.ledger.of \in [Kinds -> Nat]
      BY <1>1 DEF Book, Ledger
    <3>5. /\ \A k \in Kinds \ {"promo"} : after.ledger.of[k] = book.ledger.of[k]
          /\ after.ledger.of["promo"] = book.ledger.of["promo"] + reward
      <4>1. after.ledger.of = IF reward # 0
                              THEN [book.ledger.of EXCEPT !["promo"] = @ + reward]
                              ELSE book.ledger.of
        BY <3>1, <3>2, <3>3 DEF before, u, reward
      <4>. HIDE DEF after
      <4>2. CASE reward # 0
        BY <3>0, <3>2, <3>4, <4>1, <4>2
      <4>3. CASE reward = 0
        BY <3>0, <3>2, <3>4, <4>1, <4>3
      <4>. QED
        BY <4>2, <4>3
    <3>. QED
      BY <3>3, <3>5 DEF before, u, reward
  <2>. HIDE DEF b, after, promos, redeemed
  <2>5. \A d \in Codes : book.promo[d] # None => promos[d] # None
    <3>1. Used(row) # None
      BY <1>2, UsedFields, GiftsAssumption
    <3>. QED
      BY <2>1, <3>1
  <2>6. /\ TypeInv' /\ VouchersAgree' /\ book'.ledger = after.ledger
        /\ book'.group = book.group /\ book'.donated = book.donated /\ book'.top = book.top
        /\ book'.promo = promos /\ book'.redeemed = redeemed
    BY <1>4, <2>3, <2>4, <2>5, Committing DEF GiftsInv
  <2>7. DonationsAgree' /\ TreasuriesAgree'
    <3>1. Scores' = Scores /\ Treasuries' = Treasuries
      BY <2>6 DEF Scores, Treasuries
    <3>2. /\ book'.ledger.of["share"] = book.ledger.of["share"]
          /\ book'.ledger.of["fee"] = book.ledger.of["fee"]
          /\ book'.ledger.of["donate"] = book.ledger.of["donate"]
          /\ book'.ledger.of["payout"] = book.ledger.of["payout"]
      BY <2>4, <2>6 DEF Kinds
    <3>. QED
      BY <2>6, <3>1, <3>2, DonationsKept, TreasuriesKept DEF GiftsInv, TablesAgree
  <2>8. CodesInv'
    <3>0. /\ \A d \in Codes : book.promo[d] # None
                              => CodeAgrees(book.promo[d], book.redeemed[d])
          /\ \A d \in Codes : book.promo[d] = None => SumOver(book.redeemed[d], Users) = 0
          /\ book.ledger.of["promo"] = SumOver(Issues, Codes)
      BY CodesInvParts DEF GiftsInv, TablesAgree
    <3>1. CodeAgrees(promos[c], redeemed[c])
      <4>1. CodeAgrees(row, book.redeemed[c])
        BY <1>1, <3>0
      <4>2. promos[c] = Used(row) /\ redeemed[c] = [book.redeemed[c] EXCEPT ![u] = @ + 1]
        BY <1>1, <2>1, <2>2
      <4>3. CodeAgrees(Used(row), [book.redeemed[c] EXCEPT ![u] = @ + 1])
        BY <1>1, <1>2, <1>4, <4>1, UsedAgrees
      <4>. QED
        BY <4>2, <4>3
    <3>2. \A d \in Codes : promos[d] # None => CodeAgrees(promos[d], redeemed[d])
      BY <2>1, <2>2, <3>0, <3>1
    <3>3. \A d \in Codes : promos[d] = None => SumOver(redeemed[d], Users) = 0
      <4>1. promos[c] # None
        BY <1>1, <2>5
      <4>. QED
        BY <2>1, <2>2, <3>0, <4>1
    <3> DEFINE f == Issues
               h == Issues'
    <3>4. \A d \in Codes : f[d] \in Int
      BY <1>1, IssueNat
    <3>5. h[c] = f[c] + reward /\ \A d \in Codes : d # c => h[d] = f[d]
      <4>1. \A d \in Codes : h[d] = IF promos[d] = None THEN 0
                                    ELSE promos[d].used * promos[d].reward
        BY <2>6 DEF Issues
      <4>2. \A d \in Codes : f[d] = IF book.promo[d] = None THEN 0
                                    ELSE book.promo[d].used * book.promo[d].reward
        BY DEF Issues
      <4>. HIDE DEF f, h
      <4>3. promos[c] # None /\ promos[c] = Used(row)
        BY <1>1, <2>1, <2>5
      <4>4. h[c] = Used(row).used * Used(row).reward /\ f[c] = row.used * row.reward
        BY <1>1, <4>1, <4>2, <4>3
      <4>5. h[c] = f[c] + reward
        BY <1>2, <4>4, UsedPays
      <4>6. \A d \in Codes : d # c => h[d] = f[d]
        BY <2>1, <4>1, <4>2
      <4>. QED
        BY <4>5, <4>6
    <3>6. IsFiniteSet(Codes) /\ c \in Codes /\ reward \in Int
      BY <1>1, <1>2, GiftsAssumption
    <3>. HIDE DEF f, h, c, reward
    <3>7. f[c] \in Int /\ h[c] \in Int
      BY <3>4, <3>5, <3>6
    <3>8. SumOver(h, Codes) = SumOver(f, Codes) + reward
      <4>1. /\ \A d \in Codes : f[d] \in Int
            /\ h[c] \in Int
            /\ \A d \in Codes : d # c => h[d] = f[d]
        BY <3>4, <3>5, <3>7
      <4>0. IsFiniteSet(Codes) /\ c \in Codes
        BY <3>6
      <4>2. SumOver(h, Codes) = SumOver(f, Codes) + h[c] - f[c]
        BY <4>0, <4>1, SumUpdate
      <4>3. SumOver(f, Codes) \in Int
        BY <3>4, <3>6, SumInt
      <4>. QED
        BY <3>5, <3>6, <3>7, <4>2, <4>3
    <3>9. book'.ledger.of["promo"] = SumOver(h, Codes)
      BY <2>4, <2>6, <3>0, <3>8 DEF f
    <3>10. /\ \A d \in Codes : book'.promo[d] # None
                                => CodeAgrees(book'.promo[d], book'.redeemed[d])
           /\ \A d \in Codes : book'.promo[d] = None
                                => SumOver(book'.redeemed[d], Users) = 0
      BY <2>6, <3>2, <3>3
    <3>. QED
      BY <3>9, <3>10, Zenon DEF CodesInv, CodesAgree, CodeAgrees, Issues, h
  <2>. QED
    BY <1>0, <2>6, <2>7, <2>8 DEF GiftsInv, TablesAgree
<1>. QED
  BY <1>3, <1>4 DEF RedeemWrite

-----------------------------------------------------------------------------
(* A voucher's step, the first state, and every step.                      *)

LEMMA VoucherStep ==
  ASSUME GiftsInv, Voucher
  PROVE  GiftsInv' /\ \A c \in Ids : CheckMoves(c)
<1>1. [Next]_vars /\ CheckInv /\ UNCHANGED <<book, task>>
  BY DEF Voucher, GiftsInv, TypeInv
<1>2. CheckInv' /\ BooksMove /\ \A c \in Ids : CheckMoves(c)
  BY <1>1, StepHolds
<1>3. TypeOK /\ TypeOK' /\ book \in Book /\ VouchersAgree /\ UNCHANGED book
  BY <1>1, <1>2 DEF CheckInv, GiftsInv, TypeInv
<1>4. VouchersAgree' /\ Keeps(Purse, Purse')
  <2>1. CASE Closes
    BY <1>3, <2>1, ClosingKeeps
  <2>2. ASSUME NEW u \in Users, NEW c \in Ids, NEW row \in Check, Funds(u, c, row)
        PROVE  VouchersAgree' /\ Keeps(Purse, Purse')
    BY <1>3, <2>2, FundingKeeps
  <2>3. ASSUME NEW u \in Users, NEW c \in Ids, NEW amount \in Nat, Takes(u, c, amount)
        PROVE  VouchersAgree' /\ Keeps(Purse, Purse')
    BY <1>3, <2>3, TakingKeeps
  <2>. QED
    BY <1>2, <2>1, <2>2, <2>3 DEF BooksMove
<1>5. TypeInv'
  <2>1. \A u \in Users : db.wallet[u] # None => db'.wallet[u] # None
    BY <1>4 DEF Keeps, Purse
  <2>2. \A q \in Procs : Points(task[q])'
    BY <1>1, <2>1 DEF GiftsInv, TypeInv, Points
  <2>. QED
    BY <1>1, <1>2, <2>2 DEF GiftsInv, TypeInv
<1>6. TablesAgree'
  BY <1>1, TablesKept DEF GiftsInv
<1>. QED
  BY <1>2, <1>4, <1>5, <1>6 DEF GiftsInv

\* Nothing was claimed, funded or paid yet.
LEMMA FirstPurse ==
  ASSUME Init, CheckInv, Purse \in Purses,
         \A u \in Users : book.ledger.to[u] = 0 /\ book.ledger.from[u] = 0,
         book.ledger.of["tax"] = 0
  PROVE  VouchersAgree
<1>0. IsFiniteSet(Ids) /\ IsFiniteSet(Users)
  BY ChecksAssumption
<1>1. PICK known \in SUBSET Users :
        db = [wallet |-> [u \in Users |-> IF u \in known THEN Seeded(Welcome) ELSE None],
              check  |-> [c \in Ids |-> NoCheck],
              claim  |-> [s \in Ids \X Users |-> 0]]
  BY DEF Init
<1>2. /\ \A u \in Users : db.wallet[u] \in {Seeded(Welcome), None}
      /\ \A c \in Ids : db.check[c] = NoCheck
      /\ \A c \in Ids, u \in Users : db.claim[<<c, u>>] = 0
  BY <1>1
<1>3. ClaimedBy \in Flow /\ FundedBy \in Flow
  BY FlowsAreFlows DEF CheckInv
<1>4. \A u \in Users : ClaimedBy[u] = 0
  <2> SUFFICES ASSUME NEW u \in Users PROVE ClaimedBy[u] = 0
    OBVIOUS
  <2> DEFINE f == [c \in Ids |-> db.claim[<<c, u>>]]
  <2>1. \A c \in Ids : f[c] = 0
    BY <1>2
  <2>2. SumOver(f, Ids) = 0
    <3>. HIDE DEF f
    <3>. QED
      BY <1>0, <2>1, SumZero
  <2>. QED
    BY <2>2 DEF ClaimedBy
<1>5. \A u \in Users : FundedBy[u] = 0
  <2> SUFFICES ASSUME NEW u \in Users PROVE FundedBy[u] = 0
    OBVIOUS
  <2> DEFINE f == [c \in Ids |-> db.check[c].total]
             S == {c \in Ids : db.check[c].creator = u}
  <2>1. \A c \in S : f[c] = 0
    BY <1>2 DEF NoCheck
  <2>2. IsFiniteSet(S)
    BY <1>0, FS_Subset
  <2>3. SumOver(f, S) = 0
    <3>. HIDE DEF f, S
    <3>. QED
      BY <2>1, <2>2, SumZero
  <2>. QED
    BY <2>3 DEF FundedBy
<1>6. FreeIsBlank
  BY <1>2 DEF FreeIsBlank, NoCheck
<1>7. CheckMatchesClaims
  <2> SUFFICES ASSUME NEW c \in Ids
               PROVE  /\ db.check[c].remaining
                           + SumOver([u \in Users |-> db.claim[<<c, u>>]], Users)
                           = db.check[c].total
                      /\ db.check[c].count = Cardinality({u \in Users : db.claim[<<c, u>>] # 0})
    BY DEF CheckMatchesClaims
  <2> DEFINE f == [u \in Users |-> db.claim[<<c, u>>]]
  <2>1. \A u \in Users : f[u] = 0
    BY <1>2
  <2>2. SumOver(f, Users) = 0
    <3>. HIDE DEF f
    <3>. QED
      BY <1>0, <2>1, SumZero
  <2>3. {u \in Users : db.claim[<<c, u>>] # 0} = {}
    BY <1>2
  <2>4. Cardinality({u \in Users : db.claim[<<c, u>>] # 0}) = 0
    BY <2>3, FS_EmptySet
  <2>. QED
    BY <1>2, <2>2, <2>4 DEF NoCheck
<1>8. Explained(ClaimedBy, FundedBy, Purse)
  <2>1. Purse.wallet = db.wallet /\ Purse.ledger = book.ledger
    BY DEF Purse
  <2>2. /\ Seeded(Welcome) # None /\ Welcome \in Nat
        /\ Seeded(Welcome).balance = Welcome
        /\ Seeded(Welcome).earned = 0 /\ Seeded(Welcome).spent = 0
    BY SeededFields, ChecksAssumption
  <2>3. Admin # None => Admin \in Users
    BY GiftsAssumption
  <2> DEFINE in == ClaimedBy
             out == FundedBy
             purse == Purse
  <2>4. /\ \A u \in Users : in[u] = 0 /\ out[u] = 0
        /\ \A u \in Users : purse.ledger.to[u] = 0 /\ purse.ledger.from[u] = 0
        /\ \A u \in Users : purse.wallet[u] \in {Seeded(Welcome), None}
        /\ purse.ledger.of["tax"] = 0
    BY <1>2, <1>4, <1>5, <2>1
  <2>. HIDE DEF in, out, purse
  <2>5. Explained(in, out, purse)
    BY <2>2, <2>3, <2>4 DEF Explained
  <2>. QED
    BY <2>5 DEF in, out, purse
<1>. QED
  BY <1>3, <1>6, <1>7, <1>8 DEF VouchersAgree, Sound

LEMMA GiftsInitHolds == GiftsInit => GiftsInv /\ OpenHasCoins
<1> SUFFICES ASSUME GiftsInit PROVE GiftsInv /\ OpenHasCoins
  OBVIOUS
<1>0. IsFiniteSet(Users) /\ IsFiniteSet(Groups) /\ IsFiniteSet(Codes)
  BY ChecksAssumption, GiftsAssumption
<1>1. Init /\ CheckInv /\ OpenHasCoins
  BY InitHolds DEF GiftsInit
<1> DEFINE nobody == [u \in Users |-> 0]
           ledger == [to |-> nobody, from |-> nobody, of |-> [k \in Kinds |-> 0]]
           groups == [g \in Groups |-> IF g \in OldGroups
                                       THEN [treasury |-> Residue, xp |-> 0] ELSE None]
           tally == [g \in Groups |-> nobody]
           redeemed == [c \in Codes |-> nobody]
<1>2. PICK promo \in [Codes -> {Fresh(offer) : offer \in Offers} \cup {None}] :
        book = [ledger |-> ledger, group |-> groups, donated |-> tally, top |-> tally,
                promo |-> promo, redeemed |-> redeemed, begun |-> 0]
  BY DEF GiftsInit
<1>3. nobody \in [Users -> Nat] /\ \A u \in Users : nobody[u] = 0
  OBVIOUS
<1>4. /\ ledger.of \in [Kinds -> Nat] /\ \A k \in Kinds : ledger.of[k] = 0
      /\ ledger.to = nobody /\ ledger.from = nobody
  OBVIOUS
<1>5. SumOver(nobody, Users) = 0
  <2>. HIDE DEF nobody
  <2>. QED
    BY <1>0, <1>3, SumZero
<1>6. /\ groups \in [Groups -> Group \cup {None}]
      /\ \A g \in Groups : groups[g] = IF g \in OldGroups
                                       THEN [treasury |-> Residue, xp |-> 0] ELSE None
      /\ [treasury |-> Residue, xp |-> 0] \in Group
  BY GiftsAssumption DEF Group
<1>. HIDE DEF nobody, groups
<1>7. /\ tally \in Tally /\ \A g \in Groups : tally[g] = nobody
      /\ redeemed \in [Codes -> [Users -> Nat]] /\ \A c \in Codes : redeemed[c] = nobody
  BY <1>3 DEF Tally
<1>8. \A offer \in Offers : /\ Fresh(offer) \in Promo /\ Fresh(offer).used = 0
                            /\ CodeAgrees(Fresh(offer), nobody)
  BY <1>3, <1>5, FreshCode
<1>9. promo \in [Codes -> Promo \cup {None}]
  BY <1>8
<1>10. ledger \in Ledger
  BY <1>3, <1>4 DEF Ledger
<1>. HIDE DEF ledger, tally, redeemed
<1>11. book \in Book
  BY <1>2, <1>6, <1>7, <1>9, <1>10 DEF Book
<1>12. TypeInv
  <2>1. task = [p \in Procs |-> Rest]
    BY DEF GiftsInit
  <2>. QED
    BY <1>1, <1>11, <2>1, RestTask DEF TypeInv, Points
<1>13. VouchersAgree
  <2>1. Purse \in Purses
    BY <1>1, <1>11, PurseOfBooks DEF CheckInv
  <2>2. /\ \A u \in Users : book.ledger.to[u] = 0 /\ book.ledger.from[u] = 0
        /\ book.ledger.of["tax"] = 0
    BY <1>2, <1>3, <1>4 DEF Kinds
  <2>. QED
    BY <1>1, <2>1, <2>2, FirstPurse
<1>14. CodesInv
  <2>1. \A c \in Codes : promo[c] # None => \E offer \in Offers : promo[c] = Fresh(offer)
    OBVIOUS
  <2>2. \A c \in Codes : promo[c] # None => CodeAgrees(promo[c], redeemed[c])
    BY <1>7, <1>8, <2>1
  <2>3. \A c \in Codes : SumOver(redeemed[c], Users) = 0
    BY <1>5, <1>7
  <2>4. ASSUME NEW c \in Codes PROVE Issues[c] = 0
    <3>1. CASE promo[c] = None
      BY <1>2, <3>1 DEF Issues
    <3>2. CASE promo[c] # None
      <4>1. promo[c].used = 0 /\ promo[c].reward \in Nat
        BY <1>8, <1>9, <2>1, <3>2 DEF Promo
      <4>2. promo[c].used * promo[c].reward = 0
        BY <4>1
      <4>. QED
        BY <1>2, <3>2, <4>2 DEF Issues
    <3>. QED
      BY <3>1, <3>2
  <2>5. SumOver(Issues, Codes) = 0
    BY <1>0, <2>4, SumZero
  <2>6. book.promo = promo /\ book.redeemed = redeemed /\ book.ledger.of["promo"] = 0
    BY <1>2, <1>4 DEF Kinds
  <2>. QED
    BY <2>2, <2>3, <2>5, <2>6, CodesInvParts
<1>15. DonationsAgree
  <2>1. /\ book.group = groups /\ book.donated = tally /\ book.top = tally
        /\ book.ledger.of["share"] = 0 /\ book.ledger.of["fee"] = 0
        /\ book.ledger.of["donate"] = 0
    BY <1>2, <1>4 DEF Kinds
  <2>2. \A g \in Groups : SumOver(tally[g], Users) = 0
    BY <1>5, <1>7
  <2>3. \A g \in Groups : groups[g] # None => groups[g].xp = 0
    BY <1>6
  <2>4. TallySum(tally) \in Nat
    BY <1>7, TallyNat
  <2>. QED
    BY <2>1, <2>2, <2>3, <2>4 DEF DonationsAgree
<1>16. TreasuriesAgree
  <2> DEFINE f == Treasuries
             S == Groups
             T == OldGroups
             r == Residue
  <2>1. \A g \in S : f[g] = IF g \in T THEN r ELSE 0
    <3>1. \A g \in Groups : Treasuries[g] = IF groups[g] = None THEN 0 ELSE groups[g].treasury
      BY <1>2 DEF Treasuries
    <3>2. None \notin Group
      BY GiftsAssumption
    <3>. QED
      BY <1>6, <3>1, <3>2
  <2>2. T \in SUBSET S /\ r \in Nat /\ IsFiniteSet(S)
    BY GiftsAssumption
  <2>. HIDE DEF f, S, T, r
  <2>3. SumOver(f, S) = r * Cardinality(T)
    BY <2>1, <2>2, SumConstant
  <2>4. r * Cardinality(T) \in Nat
    <3>1. Cardinality(T) \in Nat
      BY <2>2, FS_Subset, FS_CardinalityType
    <3>. QED
      BY <2>2, <3>1, Mul
  <2>5. book.ledger.of["payout"] = 0
    BY <1>2, <1>4 DEF Kinds
  <2>6. SumOver(f, S) + book.ledger.of["payout"] <= r * Cardinality(T)
    BY <2>3, <2>4, <2>5
  <2>. QED
    BY <2>6 DEF TreasuriesAgree, Treasuries, f, S, T, r
<1>. QED
  BY <1>1, <1>12, <1>13, <1>14, <1>15, <1>16 DEF GiftsInv, TablesAgree

LEMMA GiftStep ==
  ASSUME GiftsInv, Gift
  PROVE  GiftsInv' /\ db'.check = db.check
<1>1. ASSUME NEW u \in Users, OpenWallet(u) PROVE GiftsInv' /\ db'.check = db.check
  BY <1>1, OpeningWallet
<1>2. ASSUME NEW p \in Procs, NEW u \in Users, NEW v \in Users, NEW a \in Amounts,
             NEW d \in Discounts, SendRead(p, u, v, a, d)
      PROVE  GiftsInv' /\ db'.check = db.check
  BY <1>2, SendReading
<1>3. ASSUME NEW p \in Procs, NEW u \in Users, NEW g \in Groups, NEW a \in Amounts,
             NEW o \in Users \cup {None}, DonateRead(p, u, g, a, o)
      PROVE  GiftsInv' /\ db'.check = db.check
  BY <1>3, DonateReading
<1>4. ASSUME NEW u \in Users, NEW g \in Groups, NEW price \in Prices,
             NEW o \in Users \cup {None}, RouteSlice(u, g, price, o)
      PROVE  GiftsInv' /\ db'.check = db.check
  BY <1>4, Routing
<1>5. ASSUME NEW p \in Procs, NEW u \in Users, NEW g \in Groups, NEW a \in Amounts,
             PayoutRead(p, u, g, a)
      PROVE  GiftsInv' /\ db'.check = db.check
  BY <1>5, PayoutReading
<1>6. ASSUME NEW p \in Procs, NEW u \in Users, NEW c \in Codes, RedeemRead(p, u, c)
      PROVE  GiftsInv' /\ db'.check = db.check
  BY <1>6, RedeemReading
<1>7. ASSUME NEW p \in Procs, SendWrite(p) PROVE GiftsInv' /\ db'.check = db.check
  BY <1>7, SendWriting
<1>8. ASSUME NEW p \in Procs, DonateWrite(p) PROVE GiftsInv' /\ db'.check = db.check
  BY <1>8, DonateWriting
<1>9. ASSUME NEW p \in Procs, PayoutWrite(p) PROVE GiftsInv' /\ db'.check = db.check
  BY <1>9, PayoutWriting
<1>10. ASSUME NEW p \in Procs, RedeemWrite(p) PROVE GiftsInv' /\ db'.check = db.check
  BY <1>10, RedeemWriting
<1>11. ASSUME NEW p \in Procs, Drop(p) PROVE GiftsInv' /\ db'.check = db.check
  <2>1. Commit(p, Purse, book)
    BY <1>11 DEF Drop
  <2>2. db'.check = db.check
    BY <2>1, BooksFields DEF Commit, GiftsInv, TypeInv, CheckInv
  <2>. QED
    BY <2>1, <2>2, Refusing
<1>12. ASSUME NEW c \in Codes, NEW offer \in Offers, MintCode(c, offer)
       PROVE  GiftsInv' /\ db'.check = db.check
  BY <1>12, Minting
<1>13. ASSUME NEW move \in Upgrades, Migrate(move[1], move[2])
       PROVE  GiftsInv' /\ db'.check = db.check
  BY <1>13, Migrating
<1>. QED
  BY <1>1, <1>2, <1>3, <1>4, <1>5, <1>6, <1>7, <1>8, <1>9, <1>10, <1>11, <1>12, <1>13 DEF Gift

LEMMA GiftsStep ==
  ASSUME GiftsInv, [GiftsNext]_allVars
  PROVE  GiftsInv' /\ \A c \in Ids : CheckMoves(c)
<1>1. CASE Voucher
  BY <1>1, VoucherStep
<1>2. CASE Gift
  BY <1>2, GiftStep DEF CheckMoves
<1>3. CASE UNCHANGED allVars
  <2>1. UNCHANGED <<db, job, past, book, task>>
    BY <1>3 DEF allVars
  <2>2. TypeInv'
    <3>1. CheckInv'
      BY <2>1 DEF GiftsInv, TypeInv, CheckInv, TypeOK, JobsPoint, At
    <3>2. \A q \in Procs : Points(task[q])'
      BY <2>1 DEF GiftsInv, TypeInv, Points
    <3>. QED
      BY <2>1, <3>1, <3>2 DEF GiftsInv, TypeInv
  <2>3. VouchersAgree'
    <3>1. ClaimedBy' = ClaimedBy /\ FundedBy' = FundedBy /\ Purse' = Purse
      BY <2>1 DEF ClaimedBy, FundedBy, Purse
    <3>. QED
      BY <2>1, <3>1 DEF GiftsInv, VouchersAgree, FreeIsBlank, CheckMatchesClaims
  <2>4. TablesAgree'
    BY <2>1, TablesKept DEF GiftsInv
  <2>. QED
    BY <2>1, <2>2, <2>3, <2>4 DEF GiftsInv, CheckMoves
<1>. QED
  BY <1>1, <1>2, <1>3 DEF GiftsNext

-----------------------------------------------------------------------------
(* The theorems.                                                           *)

\* Every balance stays in 0.._MAX_AMOUNT and no check, treasury or tally falls
\* below zero.
THEOREM TypeCorrect == GiftsSpec => []GiftsTypeOK
<1>1. GiftsInv /\ [GiftsNext]_allVars => GiftsInv'
  BY GiftsStep
<1>2. GiftsInv => GiftsTypeOK
  BY DEF GiftsInv, TypeInv, CheckInv, GiftsTypeOK
<1>. QED
  BY GiftsInitHolds, <1>1, <1>2, PTL DEF GiftsSpec

\* Vouchers, transfers, donations, treasuries, promo codes, the ledger and the
\* wallets tell one story, to the coin, for any number of commands that read
\* before and write after one another.
THEOREM BooksAlwaysAgree == GiftsSpec => []BooksAgree
<1>1. GiftsInv /\ [GiftsNext]_allVars => GiftsInv'
  BY GiftsStep
<1>2. GiftsInv => BooksAgree
  <2> SUFFICES ASSUME GiftsInv PROVE BooksAgree
    OBVIOUS
  <2>1. GiftsTypeOK /\ CheckMatchesClaims /\ CodesAgree /\ DonationsAgree /\ TreasuriesAgree
    BY DEF GiftsInv, TypeInv, CheckInv, GiftsTypeOK, VouchersAgree, TablesAgree, CodesInv
  <2>2. WalletsAgree
    <3>1. Explained(ClaimedBy, FundedBy, Purse)
      BY DEF GiftsInv, VouchersAgree, Sound
    <3>2. Purse.wallet = db.wallet /\ Purse.ledger = book.ledger
      BY SoundPurse DEF GiftsInv
    <3>. SUFFICES ASSUME NEW u \in Users
                  PROVE  LET claimed == SumOver([c \in Ids |-> db.claim[<<c, u>>]], Ids)
                             funded  == SumOver([c \in Ids |-> db.check[c].total],
                                                {c \in Ids : db.check[c].creator = u})
                             income  == claimed + book.ledger.to[u]
                             outlay  == funded + book.ledger.from[u]
                         IN IF db.wallet[u] = None THEN income + outlay = 0
                            ELSE /\ db.wallet[u].balance = Welcome + income - outlay
                                 /\ db.wallet[u].earned
                                      = income - (IF u = Admin THEN book.ledger.of["tax"] ELSE 0)
                                 /\ db.wallet[u].spent = outlay
      BY DEF WalletsAgree
    <3>3. /\ ClaimedBy[u] = SumOver([c \in Ids |-> db.claim[<<c, u>>]], Ids)
          /\ FundedBy[u] = SumOver([c \in Ids |-> db.check[c].total],
                                   {c \in Ids : db.check[c].creator = u})
      BY DEF ClaimedBy, FundedBy
    <3> DEFINE claimed == SumOver([c \in Ids |-> db.claim[<<c, u>>]], Ids)
               funded  == SumOver([c \in Ids |-> db.check[c].total],
                                  {c \in Ids : db.check[c].creator = u})
    <3>. HIDE DEF claimed, funded
    <3>. QED
      BY <3>1, <3>2, <3>3 DEF Explained, claimed, funded
  <2>. QED
    BY <2>1, <2>2 DEF BooksAgree
<1>. QED
  BY GiftsInitHolds, <1>1, <1>2, PTL DEF GiftsSpec

\* "An active check always has remaining >= 1": the claim that drains a check or
\* fills its cap closes it, for any number of claims between their read and
\* their write.
THEOREM OpenAlwaysHasCoins == GiftsSpec => []OpenHasCoins
<1>1. GiftsInv /\ OpenHasCoins /\ [GiftsNext]_allVars => (GiftsInv /\ OpenHasCoins)'
  <2> SUFFICES ASSUME GiftsInv, OpenHasCoins, [GiftsNext]_allVars PROVE GiftsInv' /\ OpenHasCoins'
    OBVIOUS
  <2>1. GiftsInv' /\ \A c \in Ids : CheckMoves(c)
    BY GiftsStep
  <2>2. ASSUME NEW c \in Ids, db'.check[c].active
        PROVE  /\ db'.check[c].remaining >= 1
               /\ db'.check[c].max > 0 => db'.check[c].count < db'.check[c].max
    <3>1. db.check[c] \in Check /\ db'.check[c] \in Check
      BY <2>1 DEF GiftsInv, TypeInv, CheckInv, TypeOK, Books
    <3>2. CASE db'.check[c] = db.check[c]
      BY <2>2, <3>2 DEF OpenHasCoins
    <3>3. CASE db'.check[c].remaining >= 1 /\ db'.check[c].count = 0
      BY <3>1, <3>3 DEF Check
    <3>4. CASE db'.check[c] = [db.check[c] EXCEPT !.active = FALSE]
      BY <2>2, <3>1, <3>4, ClosedCheck
    <3>5. CASE \E amount \in Nat : /\ Reservable(db.check[c], amount)
                                   /\ db'.check[c] = Reserved(db.check[c], amount)
      <4>1. PICK amount \in Nat : /\ Reservable(db.check[c], amount)
                                  /\ db'.check[c] = Reserved(db.check[c], amount)
        BY <3>5
      <4>2. /\ db.check[c].remaining \in Nat /\ db.check[c].count \in Nat
            /\ db.check[c].max \in Nat
        BY <3>1 DEF Check
      <4>3. /\ db'.check[c].remaining = db.check[c].remaining - amount
            /\ db'.check[c].count = db.check[c].count + 1
            /\ db'.check[c].max = db.check[c].max
        BY <3>1, <4>1, ReservedCheck
      <4>4. /\ db.check[c].remaining > amount
            /\ db.check[c].max > 0 => db.check[c].count + 1 < db.check[c].max
        BY <2>2, <3>1, <4>1, ReservedCheck
      <4>. QED
        BY <4>2, <4>3, <4>4
    <3>. QED
      BY <2>1, <3>2, <3>3, <3>4, <3>5 DEF CheckMoves
  <2>. QED
    BY <2>1, <2>2 DEF OpenHasCoins
<1>. QED
  BY GiftsInitHolds, <1>1, PTL DEF GiftsSpec

\* A closed check stays closed and pays no more, also to a claim that read it
\* while it was open.
THEOREM ClosedStaysClosed == GiftsSpec => ClosedForGood
<1>1. GiftsInv /\ [GiftsNext]_allVars => GiftsInv'
  BY GiftsStep
<1>2. GiftsInv /\ [GiftsNext]_allVars
        => \A c \in Ids : (db.check[c].type # "none" /\ ~ db.check[c].active)
                            => db'.check[c] = db.check[c]
  <2> SUFFICES ASSUME GiftsInv, [GiftsNext]_allVars, NEW c \in Ids,
                      db.check[c].type # "none", ~ db.check[c].active
               PROVE  db'.check[c] = db.check[c]
    OBVIOUS
  <2>1. CheckMoves(c)
    BY GiftsStep
  <2>2. db.check[c] \in Check
    BY BooksFields DEF GiftsInv, TypeInv, CheckInv
  <2>. QED
    BY <2>1, <2>2, ClosedCheck, ReservedCheck DEF CheckMoves
<1>. QED
  BY GiftsInitHolds, <1>1, <1>2, PTL DEF GiftsSpec, ClosedForGood

=============================================================================
