------------------------------- MODULE Checks -------------------------------
(***************************************************************************)
(* Coin vouchers ("checks"): CheckService over checks, check_claims and    *)
(* the wallets.  The creator funds a check from his wallet; whoever holds  *)
(* its code claims a part of it once, until it is drained, claimed         *)
(* max_claims times or past its deadline.                                  *)
(*                                                                         *)
(* claim_check reads the check, the claimer's earlier claim and the gates  *)
(* with no lock, and then writes in one savepoint; the session commits     *)
(* right after it, so that each writing part is one step here.  The gates  *)
(* on language, premium, subscription, age and activity only refuse, and a *)
(* refused claim changes nothing: they are left out.                       *)
(***************************************************************************)
EXTENDS Wallet, FiniteSets, FiniteSetsExt

CONSTANTS
  Users, Procs, None,
  Ids,                 \* the ids the checks table will hand out, ascending
  Welcome,             \* balance of a new wallet
  Specs                \* the checks a creator may ask for

Types == {"random", "fixed", "individual"}

ASSUME ChecksAssumption ==
  /\ None \notin Users \cup Procs \cup Ids \cup Wallets
  /\ IsFiniteSet(Users) /\ IsFiniteSet(Ids)
  /\ Ids \subseteq Nat
  /\ Welcome \in 0..MaxAmount
  /\ Specs \subseteq [type : Types, lo : Nat \ {0}, hi : Nat \ {0}, max : Nat]
  /\ \A spec \in Specs : /\ spec.lo <= spec.hi          \* else INVALID_AMOUNT
                         /\ spec.type # "random" => spec.lo = spec.hi

VARIABLES
  db,          \* economy.db
  job,         \* what each handler has read, between its reads and its write
  past         \* the checks whose deadline has gone by

vars == <<db, job, past>>

Check ==
  [type : Types \cup {"none"}, creator : Users \cup {None}, target : Users \cup {None},
   lo : Nat, hi : Nat, max : Nat, total : Nat, remaining : Nat, count : Nat,
   active : BOOLEAN]
NoCheck == [type |-> "none", creator |-> None, target |-> None, lo |-> 0, hi |-> 0,
            max |-> 0, total |-> 0, remaining |-> 0, count |-> 0, active |-> FALSE]

Books == [wallet : [Users -> Wallets \cup {None}],      \* None: no users row yet
          check  : [Ids -> Check],
          claim  : [Ids \X Users -> Nat]]               \* 0: no check_claims row

Idle == [step |-> "idle", user |-> None, check |-> None, amount |-> 0]
Job  == [step : {"idle", "close", "claim"}, user : Users \cup {None},
         check : Ids \cup {None}, amount : Nat]

Init ==
  /\ \E known \in SUBSET Users :
       db = [wallet |-> [u \in Users |-> IF u \in known THEN Seeded(Welcome) ELSE None],
             check  |-> [c \in Ids |-> NoCheck],
             claim  |-> [s \in Ids \X Users |-> 0]]
  /\ job = [p \in Procs |-> Idle]
  /\ past = {}

At(p, step) == job[p].step = step
Become(p, state) == job' = [job EXCEPT ![p] = state]

-----------------------------------------------------------------------------
\* _compute_total.
Total(spec) ==
  CASE spec.type = "random" -> ((spec.lo + spec.hi) \div 2) * spec.max
    [] spec.type = "fixed"  -> spec.lo * spec.max
    [] OTHER                -> spec.lo

Funded(spec, u, target) ==
  [type |-> spec.type, creator |-> u, target |-> target, lo |-> spec.lo, hi |-> spec.hi,
   max |-> spec.max, total |-> Total(spec), remaining |-> Total(spec), count |-> 0,
   active |-> TRUE]

CreateCheck(u, spec, target) ==
  LET free == {c \in Ids : db.check[c].type = "none"}
  IN /\ free # {}                                       \* bound: ids
     /\ target # None <=> spec.type = "individual"
     /\ Total(spec) > 0
     /\ db.wallet[u] # None /\ CanDebit(db.wallet[u], Total(spec))
     /\ db' = [db EXCEPT !.wallet[u] = Debited(@, Total(spec)),
                         !.check[Min(free)] = Funded(spec, u, target)]
     /\ UNCHANGED <<job, past>>

Over(c) == c \in past \/ (db.check[c].max > 0 /\ db.check[c].count >= db.check[c].max)

\* The unlocked reads: a check that is over is closed, the amount is drawn and
\* clamped to what remains.
ClaimRead(p, u, c) ==
  LET row == db.check[c]
  IN /\ At(p, "idle") /\ row.active
     /\ \/ Over(c) /\ Become(p, [Idle EXCEPT !.step = "close", !.check = c])
        \/ /\ ~ Over(c)
           /\ row.target \in {None, u}
           /\ db.claim[<<c, u>>] = 0                    \* has_claimed
           /\ \E roll \in row.lo .. row.hi :
                LET amount == Min({roll, row.remaining})
                IN /\ amount > 0
                   /\ Become(p, [step |-> "claim", user |-> u, check |-> c, amount |-> amount])
     /\ UNCHANGED <<db, past>>

Close(p) ==                                             \* deactivate
  /\ At(p, "close")
  /\ db' = [db EXCEPT !.check[job[p].check].active = FALSE]
  /\ Become(p, Idle)
  /\ UNCHANGED past

ReservableMutant(row, amount) ==         \* mutant: a closed check still pays
  row.remaining >= amount /\ (row.max > 0 => row.count < row.max)

Reservable(row, amount) ==               \* claim_decrement, its WHERE clause
  row.active /\ row.remaining >= amount /\ (row.max > 0 => row.count < row.max)

ReservedMutant(row, amount) ==           \* mutant: only the cap closes a check
  [row EXCEPT !.remaining = @ - amount, !.count = @ + 1,
              !.active = row.max = 0 \/ row.count + 1 < row.max]

Reserved(row, amount) ==                 \* claim_decrement, its SET clause
  [row EXCEPT !.remaining = @ - amount, !.count = @ + 1,
              !.active = row.remaining > amount /\ (row.max > 0 => row.count + 1 < row.max)]

AlreadyClaimed(book, reserved) == book                  \* the savepoint is rolled back

CreditFailedMutant(book, taken) == taken                \* mutant: an unchecked credit

CreditFailed(book, taken) == book

\* The writing part: decrement, claim row under UNIQUE(check, user), wallet and
\* credit, all or nothing.
ClaimWrite(p) ==
  LET c == job[p].check
      u == job[p].user
      amount == job[p].amount
      reserved == [db EXCEPT !.check[c] = Reserved(@, amount)]
      taken  == [reserved EXCEPT !.claim[<<c, u>>] = amount]
      wallet == IF db.wallet[u] = None THEN Seeded(Welcome) ELSE db.wallet[u]
  IN /\ At(p, "claim")
     /\ \/ ~ Reservable(db.check[c], amount) /\ UNCHANGED db        \* RACE_LOST
        \/ /\ Reservable(db.check[c], amount)
           /\ db.claim[<<c, u>>] # 0
           /\ db' = AlreadyClaimed(db, reserved)
        \/ /\ Reservable(db.check[c], amount) /\ db.claim[<<c, u>>] = 0
           /\ ~ CanCredit(wallet, amount)
           /\ db' = CreditFailed(db, taken)
        \/ /\ Reservable(db.check[c], amount) /\ db.claim[<<c, u>>] = 0
           /\ CanCredit(wallet, amount)
           /\ db' = [taken EXCEPT !.wallet[u] = Credited(wallet, amount)]
     /\ Become(p, Idle)
     /\ UNCHANGED past

\* The hourly hygiene pass closes what nobody tried to claim; no refund.
DeactivateExpired ==
  /\ \E c \in past : db.check[c].active
  /\ db' = [db EXCEPT !.check = [c \in Ids |->
             IF c \in past THEN [db.check[c] EXCEPT !.active = FALSE] ELSE db.check[c]]]
  /\ UNCHANGED <<job, past>>

PassDeadline(c) ==
  /\ db.check[c].type # "none" /\ c \notin past
  /\ past' = past \cup {c}
  /\ UNCHANGED <<db, job>>

\* The process dies, or the wait for the writer lock times out, before it wrote.
Abandon(p) ==
  /\ ~ At(p, "idle")
  /\ Become(p, Idle)
  /\ UNCHANGED <<db, past>>

Next ==
  \/ \E u \in Users, spec \in Specs, target \in Users \cup {None} : CreateCheck(u, spec, target)
  \/ \E p \in Procs, u \in Users, c \in Ids : ClaimRead(p, u, c)
  \/ \E p \in Procs : Close(p) \/ ClaimWrite(p) \/ Abandon(p)
  \/ \E c \in Ids : PassDeadline(c)
  \/ DeactivateExpired

Spec == Init /\ [][Next]_vars

-----------------------------------------------------------------------------
\* Every variable stays in its set; a check never pays below zero.
TypeOK ==
  /\ db \in Books
  /\ job \in [Procs -> Job]
  /\ past \subseteq Ids

\* The counters of a check are its claim rows: what is left and what was claimed
\* make up what the creator paid, however claims of one user or of many race.
CheckMatchesClaims ==
  \A c \in Ids :
    /\ db.check[c].remaining + SumOver([u \in Users |-> db.claim[<<c, u>>]], Users)
         = db.check[c].total
    /\ db.check[c].count = Cardinality({u \in Users : db.claim[<<c, u>>] # 0})

\* "An active check always has remaining >= 1": the claim that drains a check or
\* fills its cap closes it, whatever another claim read before.
OpenHasCoins ==
  \A c \in Ids :
    LET row == db.check[c]
    IN row.active => row.remaining >= 1 /\ (row.max > 0 => row.count < row.max)

\* A closed check stays closed and pays no more, also to a claim that read it
\* while it was open: the flag is an absolute value in claim_decrement.
ClosedForGood ==
  [][\A c \in Ids : (db.check[c].type # "none" /\ ~ db.check[c].active)
                      => db'.check[c] = db.check[c]]_vars
=============================================================================
