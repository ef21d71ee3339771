----------------------------- MODULE StakeGames -----------------------------
(***************************************************************************)
(* The games' play budget and the single-player stake games: /roulette,    *)
(* /roll and /flip, and the challenges that draw on the same budget        *)
(* (/duel, /cpc, /pvp and their accepts).  A play takes the player's lock  *)
(* in PLAY_LOCKS, checks the caps, plays, stamps the play and commits      *)
(* inside the lock; GameLimitService reads the stamps that are committed.  *)
(*                                                                         *)
(* Time is a counter; a tap is one command or button press.  What a        *)
(* challenge does besides the stamp is in Duel and PvP.                    *)
(***************************************************************************)
EXTENDS KeyedLocks, Wallet

CONSTANTS
  Welcome,                \* balance of a new wallet
  Cooldown, Hour, Day,    \* COOLDOWN_SEC and the two windows
  HourCap, DayCap,        \* MAX_PER_HOUR, MAX_PER_DAY
  Retention,              \* _GAME_PLAYS_RETENTION of the cleanup
  Bet, Payout,            \* a stake, and what a win of it pays
  MaxTime,                \* bound: the clock
  MaxFlow                 \* bound: coins that come and go by other means

ASSUME StakeGamesAssumption ==
  /\ {Cooldown, Hour, Day, HourCap, DayCap, Retention, MaxTime, MaxFlow} \subseteq Nat
  /\ {Bet, Payout} \subseteq Nat /\ Welcome \in 0..MaxAmount
  /\ Hour <= Day /\ Cooldown <= Day /\ Day <= Retention
  /\ Tasks \subseteq Nat                                \* updates are numbered

VARIABLES
  tap,         \* each handler: where it is and what it holds in its variables
  plays,       \* economy.game_plays, as far as it is committed
  history,     \* every play ever committed, pruned or not
  wallet,      \* economy.users, committed
  flow,        \* what each wallet got and gave by other means
  writer,      \* who holds the write transaction of economy.db
  clock

gameVars == <<plays, history, wallet, flow>>
vars == <<lockVars, tap, gameVars, writer, clock>>

Users == Keys
Taps == Tasks

Steps == {"idle", "queued", "checked", "spent", "short", "played", "leaving", "left", "done"}
Fresh == [step |-> "idle", user |-> None, solo |-> FALSE, now |-> 0,
          coins |-> 0,        \* what its transaction moves in the wallet
          profit |-> 0]       \* what its games row says

Init ==
  /\ LockInit
  /\ tap = [t \in Taps |-> Fresh]
  /\ plays = {} /\ history = {}
  /\ wallet = [u \in Users |-> Welcome]
  /\ flow = [u \in Users |-> 0]
  /\ writer = None
  /\ clock = 0

At(t, step) == tap[t].step = step
Become(t, step) == tap' = [tap EXCEPT ![t].step = step]

-----------------------------------------------------------------------------
\* A command arrives: the stamp is taken, the player's lock is asked for.
Arrive(t, u, solo) ==
  /\ At(t, "idle") /\ \A s \in Taps : s < t => ~ At(s, "idle")
  /\ tap' = [tap EXCEPT ![t] = [Fresh EXCEPT !.step = "queued", !.user = u,
                                              !.solo = solo, !.now = clock]]
  /\ Acquire(t, u)
  /\ UNCHANGED <<gameVars, writer, clock>>

PlaysOf(u) == {t \in plays : tap[t].user = u}

CountSince(u, since) == Cardinality({t \in PlaysOf(u) : tap[t].now >= since})

CooledDownMutant(t) == TRUE                \* mutant: the cooldown is for challenges only

CooledDown(t) ==                           \* last_play_at, skipped for a challenge
  tap[t].solo => \A p \in PlaysOf(tap[t].user) : tap[t].now - tap[p].now >= Cooldown

Allowed(t) ==                              \* GameLimitService.check
  /\ CooledDown(t)
  /\ CountSince(tap[t].user, tap[t].now - Hour) < HourCap
  /\ CountSince(tap[t].user, tap[t].now - Day) < DayCap

\* The caps are read and the verdict acted on, inside the lock.
Check(t) ==
  /\ At(t, "queued") /\ Holds(t)
  /\ Become(t, IF Allowed(t) THEN "checked" ELSE "leaving")
  /\ UNCHANGED <<lockVars, gameVars, writer, clock>>

\* Whatever fails before the commit (a database, a Telegram call, a payout the
\* ceiling refuses) ends the handler and rolls its transaction back.
Fail(t) ==
  /\ tap[t].step \in {"queued", "checked", "spent", "played"} /\ Holds(t)
  /\ tap' = [tap EXCEPT ![t].step = "leaving", ![t].coins = 0, ![t].profit = 0]
  /\ writer' = IF writer = t THEN None ELSE writer
  /\ UNCHANGED <<lockVars, gameVars, clock>>

\* The affordability pre-check refuses: nothing was written.
Decline(t) ==
  /\ At(t, "checked") /\ tap[t].solo
  /\ wallet[tap[t].user] < Bet
  /\ Become(t, "leaving")
  /\ UNCHANGED <<lockVars, gameVars, writer, clock>>

\* debit: it opens the write transaction, whether it matches the row or not.
Stake(t) ==
  /\ At(t, "checked") /\ tap[t].solo
  /\ writer = None
  /\ writer' = t
  /\ IF wallet[tap[t].user] >= Bet
       THEN tap' = [tap EXCEPT ![t].step = "spent", ![t].coins = - Bet]
       ELSE Become(t, "short")                         \* INSUFFICIENT_FUNDS
  /\ UNCHANGED <<lockVars, gameVars, clock>>

Creditable(t) == wallet[tap[t].user] + tap[t].coins + Payout <= MaxAmount

SettleMutant(t, won) ==           \* mutant: a win is booked although it cannot be paid
  /\ At(t, "spent")
  /\ tap' = [tap EXCEPT ![t].step = "played",
                        ![t].coins = @ + (IF won /\ Creditable(t) THEN Payout ELSE 0),
                        ![t].profit = (IF won THEN Payout ELSE 0) - Bet]
  /\ UNCHANGED <<lockVars, gameVars, writer, clock>>

\* The draw.  A win that cannot be credited raises (Fail); else the games row is
\* written and the play stamped.
Settle(t, won) ==
  /\ At(t, "spent")
  /\ won => Creditable(t)
  /\ LET gain == IF won THEN Payout ELSE 0
     IN tap' = [tap EXCEPT ![t].step = "played", ![t].coins = @ + gain,
                           ![t].profit = gain - Bet]
  /\ UNCHANGED <<lockVars, gameVars, writer, clock>>

\* A challenge goes up or is accepted: only the stamp is its own.
Challenge(t) ==
  /\ At(t, "checked") /\ ~ tap[t].solo
  /\ writer = None
  /\ writer' = t
  /\ Become(t, "played")
  /\ UNCHANGED <<lockVars, gameVars, clock>>

\* The commit of the handler's session: stake, win, games row and stamp.
Commit(t) ==
  /\ writer = t
  /\ writer' = None
  /\ IF At(t, "short")
       THEN UNCHANGED <<plays, history, wallet>>
       ELSE /\ plays' = plays \cup {t}
            /\ history' = history \cup {t}
            /\ wallet' = [wallet EXCEPT ![tap[t].user] = @ + tap[t].coins]
  /\ UNCHANGED <<flow, clock>>

CheckpointMutant(t) ==                     \* mutant: left to the middleware (#222-B)
  /\ tap[t].step \in {"short", "played"} /\ Become(t, "leaving")
  /\ UNCHANGED <<lockVars, gameVars, writer, clock>>

Checkpoint(t) ==
  /\ tap[t].step \in {"short", "played"} /\ Commit(t)
  /\ Become(t, "leaving")
  /\ UNCHANGED lockVars

LeaveMutant(t) ==                          \* mutant: a refusal returns with the lock
  /\ At(t, "leaving")
  /\ IF t \in history THEN Release(t) ELSE UNCHANGED lockVars
  /\ Become(t, "left")
  /\ UNCHANGED <<gameVars, writer, clock>>

Leave(t) ==                                \* the end of the locked block
  /\ At(t, "leaving") /\ Release(t)
  /\ Become(t, "left")
  /\ UNCHANGED <<gameVars, writer, clock>>

\* What outlives a handler: the rows of a play that was committed.
Ended(t) ==
  [IF t \in history' THEN tap[t] ELSE Fresh EXCEPT !.step = "done", !.coins = 0]

\* The handler returns: the middleware commits what is still open, or nothing.
Return(t) ==
  /\ At(t, "left")
  /\ IF writer = t THEN Commit(t) ELSE UNCHANGED <<gameVars, writer, clock>>
  /\ tap' = [tap EXCEPT ![t] = Ended(t)]
  /\ UNCHANGED lockVars

-----------------------------------------------------------------------------
\* Other commands move the player's coins, while no write transaction is open.
Move(u, coins) ==
  /\ writer = None
  /\ wallet[u] + coins \in 0..MaxAmount
  /\ flow[u] + coins \in (- MaxFlow)..0                \* bound
  /\ wallet' = [wallet EXCEPT ![u] = @ + coins]
  /\ flow' = [flow EXCEPT ![u] = @ + coins]
  /\ UNCHANGED <<lockVars, tap, plays, history, writer, clock>>

Kept == {t \in plays : tap[t].now >= clock - Retention}

Prune ==                                   \* delete_older_than, by the cleanup
  /\ writer = None
  /\ plays' = Kept
  /\ UNCHANGED <<lockVars, tap, history, wallet, flow, writer, clock>>

\* A play is given up long before it could wait for a day (bound).
Patience == Retention - Day

Tick ==
  /\ clock < MaxTime                                    \* bound
  /\ \A t \in Taps : tap[t].step \in {"idle", "done"} \/ clock - tap[t].now < Patience
  /\ clock' = clock + 1
  /\ UNCHANGED <<lockVars, tap, gameVars, writer>>

\* The process dies and starts again: the locks and the open transaction go.
Crash ==
  /\ entries' = [k \in Keys |-> None]
  /\ users' = [s \in Slots |-> 0]
  /\ queue' = [s \in Slots |-> <<>>]
  /\ slot' = [t \in Taps |-> None]
  /\ key' = [t \in Taps |-> None]
  /\ \E t \in Taps : tap[t].step \notin {"idle", "done"}
  /\ UNCHANGED <<gameVars, clock>>
  /\ tap' = [t \in Taps |-> IF At(t, "idle") THEN tap[t] ELSE Ended(t)]
  /\ writer' = None

Proceed(t) ==
  \/ Check(t) \/ Decline(t) \/ Stake(t) \/ Challenge(t) \/ Fail(t)
  \/ \E won \in BOOLEAN : Settle(t, won)
  \/ Checkpoint(t) \/ Leave(t) \/ Return(t)

Next ==
  \/ \E t \in Taps : Proceed(t)
  \/ \E t \in Taps, u \in Users, solo \in BOOLEAN : Arrive(t, u, solo)
  \/ \E u \in Users, coins \in {-1, 1} : Move(u, coins)
  \/ Prune \/ Tick \/ Crash

Spec == Init /\ [][Next]_vars

\* A handler that can go on does: nobody waits for ever inside a lock.
FairSpec == Spec /\ \A t \in Taps : WF_vars(Proceed(t))

-----------------------------------------------------------------------------
\* Every variable stays in its set.
TypeOK ==
  /\ tap \in [Taps -> [step : Steps, user : Users \cup {None}, solo : BOOLEAN, now : Nat,
                       coins : Int, profit : Int]]
  /\ plays \subseteq history /\ history \subseteq Taps
  /\ wallet \in [Users -> 0..MaxAmount] /\ flow \in [Users -> Int]
  /\ writer \in Taps \cup {None}
  /\ clock \in Nat

\* The caps are real: no player ever gets more plays into a rolling hour, or a
\* rolling day, than they allow, however many updates arrive at once, whatever
\* restarts, and although the cleanup deletes stamps (#222-B).
Within(p, window) ==
  {q \in history : tap[q].user = tap[p].user /\ tap[q].now \in tap[p].now - window .. tap[p].now}

CapsHold ==
  \A p \in history : /\ Cardinality(Within(p, Hour)) <= HourCap
                     /\ Cardinality(Within(p, Day)) <= DayCap

\* No solo play starts within the cooldown of another play of the same player,
\* although the stamp is older than the lock (it is taken before the wait).
CooldownHolds ==
  \A p, q \in history :
    p # q /\ tap[p].solo /\ tap[p].user = tap[q].user /\ tap[q].now \in 0..tap[p].now
      => \/ tap[p].now - tap[q].now >= Cooldown
         \/ ~ tap[q].solo /\ tap[q].now = tap[p].now

\* The games rows say what the wallet got: a win the ceiling refused books no
\* profit (#1560), a failed play costs nothing.
ProfitIsPaid ==
  \A u \in Users :
    wallet[u] = Welcome + flow[u]
      + SumOver([t \in Taps |-> tap[t].profit], {t \in history : tap[t].user = u})

\* Every variable in its set, every coin on the games rows.
BooksAgree == TypeOK /\ ProfitIsPaid

\* Every command is answered: no refusal, failure or lost race keeps the lock.
TapIsAnswered == \A t \in Taps : At(t, "queued") ~> At(t, "done")
=============================================================================
