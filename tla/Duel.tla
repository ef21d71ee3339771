-------------------------------- MODULE Duel --------------------------------
(***************************************************************************)
(* /duel in one group chat: challenge, accept or decline, a roll of either *)
(* seat, as many rounds as it takes, one settlement; /cancel from outside; *)
(* and the sweeper that retires what nobody finished.  A match lives in    *)
(* the FSM record under its challenger's key (fsm.db), its coins stay in   *)
(* economy.db until the last round: the two files commit apart.            *)
(*                                                                         *)
(* An await is a step where others can see or change what matters.  Under  *)
(* the match lock that is the Telegram call and the money's transaction;   *)
(* /duel itself takes no match lock.  KeyedLocks shows that a lock here is *)
(* one holder's; StakeGames shows the caps.                                *)
(***************************************************************************)
EXTENDS Naturals, FiniteSets

CONSTANTS
  DuelUsers, Challengers, \* bound: who types /duel and /cancel
  Handlers, Nobody,
  Stuck,                  \* records an earlier run left, whose notice always raises
  Rounds,                 \* values of max_wins
  DuelWelcome, DuelMaxAmount,     \* balance of a new wallet, and the ceiling of one
  DuelBet, DuelPayout,            \* a stake, and the pot less the rake
  Budget, MaxStrikes,     \* expire_budget, max_expire_failures
  MaxMatch,               \* bound: challenges that go up
  MaxFaults               \* bound: crashes and Telegram failures

ASSUME DuelAssumption ==
  /\ Challengers \subseteq DuelUsers /\ Stuck \cap Challengers = {}
  /\ Rounds \subseteq Nat \ {0}
  /\ {DuelBet, DuelPayout, DuelMaxAmount, Budget, MaxStrikes, MaxMatch, MaxFaults} \subseteq Nat
  /\ DuelWelcome \in 0..DuelMaxAmount /\ DuelPayout <= 2 * DuelBet
  /\ Nobody \notin DuelUsers \cup Handlers /\ "sweeper" \notin Handlers \cup {Nobody}
  /\ IsFiniteSet(Handlers)

VARIABLES
  fsm,       \* the record of each challenger's key
  duelWallet, \* economy.users, committed
  burned,    \* rake
  play,      \* PLAY_LOCKS: the holder of each user's
  match,     \* _match_locks: the holder of each key's
  duelWriter, \* who holds the write transaction of economy.db
  job,       \* each handler: where it is and its variables
  sweep,     \* the sweeper: its snapshot, and the key it works on
  strikes,   \* _expire_failures: of the keys whose notice raises
  matches,   \* how many challenges went up
  settled,   \* how often each of them moved coins
  wiped,     \* the matches cleared without the lock
  overwritten, \* the matches that were written over, and those whose challenge did it
  faults

moneyVars == <<duelWallet, burned, settled>>
duelLockVars == <<play, match>>
lostVars == <<wiped, overwritten>>
duelVars == <<fsm, moneyVars, duelLockVars, duelWriter, job, sweep, strikes, matches, lostVars, faults>>

Seats == {"challenger", "opponent"}
Matches == 1..MaxMatch

Blank == [state |-> "none", match |-> 0, opponent |-> Nobody, goal |-> 1,
          rolled |-> {}, wins |-> [s \in Seats |-> 0],
          stamped |-> FALSE,      \* state_entered_at is in the data
          due |-> FALSE]          \* and older than the rule's timeout

Idle == [step |-> "idle", user |-> Nobody, key |-> Nobody, opponent |-> Nobody, goal |-> 1,
         match |-> 0, wins |-> [s \in Seats |-> 0], outcome |-> Nobody]

RecordKeys == Challengers \cup Stuck

Asleep == [seen |-> {}, key |-> Nobody, step |-> "idle", tried |-> 0]

DuelInit ==
  /\ fsm = [c \in Challengers |-> Blank]
  /\ duelWallet = [u \in DuelUsers |-> DuelWelcome] /\ burned = 0
  /\ play = [u \in DuelUsers |-> Nobody] /\ match = [c \in Challengers |-> Nobody]
  /\ duelWriter = Nobody
  /\ job = [p \in Handlers |-> Idle]
  /\ sweep = Asleep /\ strikes = [k \in Stuck |-> 0]
  /\ matches = 0 /\ settled = [m \in Matches |-> 0]
  /\ wiped = {} /\ overwritten = {} /\ faults = 0

AtDuel(p, step) == job[p].step = step
ToStep(p, step) == job' = [job EXCEPT ![p].step = step]
End(p) == job' = [job EXCEPT ![p] = Idle]

Free(lock, k) == lock[k] = Nobody
Taken(lock, k, p) == [lock EXCEPT ![k] = p]
Given(lock, k) == [lock EXCEPT ![k] = Nobody]

Seat(u, c) == IF u = c THEN "challenger" ELSE "opponent"
InMatch(u, c) == u = c \/ u = fsm[c].opponent
Active(c) == fsm[c].state # "none"

IsUserAnOpponent(u) == \E c \in Challengers : Active(c) /\ fsm[c].opponent = u
IsUserBusy(u, except) == \E c \in Challengers \ {except} : Active(c) /\ InMatch(u, c)

\* The tail of every guarded region: the handler is gone and its lock with it.
Drop(p) ==
  /\ match' = [c \in Challengers |-> IF match[c] = p THEN Nobody ELSE match[c]]
  /\ play' = [u \in DuelUsers |-> IF play[u] = p THEN Nobody ELSE play[u]]
  /\ End(p)

Fault == faults < MaxFaults /\ faults' = faults + 1     \* bound

-----------------------------------------------------------------------------
\* /duel: the wallets, the caller's own key and the scan for the other seat are
\* read before any lock.
DuelRead(p, u, o, n) ==
  /\ AtDuel(p, "idle")
  /\ matches + Cardinality({q \in Handlers : job[q].step = "duel"}) < MaxMatch   \* bound
  /\ duelWallet[u] >= DuelBet /\ duelWallet[o] >= DuelBet
  /\ ~ Active(u) /\ ~ IsUserAnOpponent(u)
  /\ job' = [job EXCEPT ![p] = [Idle EXCEPT !.step = "duel", !.user = u, !.key = u,
                                            !.opponent = o, !.goal = n]]
  /\ UNCHANGED <<fsm, moneyVars, duelLockVars, duelWriter, sweep, strikes, matches, lostVars, faults>>

\* PLAY_LOCKS, then the caps, that may refuse; then set_state: it writes over
\* whatever came meanwhile, and the data stays.
DuelState(p, allowed) ==
  /\ AtDuel(p, "duel") /\ Free(play, job[p].user)
  /\ IF allowed
       THEN LET k == job[p].key IN
            /\ play' = Taken(play, job[p].user, p)
            /\ matches' = matches + 1
            /\ fsm' = [fsm EXCEPT ![k].state = "acceptance", ![k].match = matches + 1]
            /\ overwritten' = IF fsm[k] = Blank THEN overwritten
                              ELSE overwritten \cup {fsm[k].match, matches + 1}
            /\ ToStep(p, "fill")
       ELSE End(p) /\ UNCHANGED <<play, matches, fsm, overwritten>>
  /\ UNCHANGED <<moneyVars, match, duelWriter, sweep, strikes, wiped, faults>>

\* set_data: all of it, with the stamp.  Then the card goes up or it does not, the
\* play is stamped, and the lock goes back.
DuelData(p) ==
  /\ AtDuel(p, "fill")
  /\ LET k == job[p].key
     IN fsm' = [fsm EXCEPT ![k] = [Blank EXCEPT
                  !.state = fsm[k].state, !.match = fsm[k].match, !.stamped = TRUE,
                  !.opponent = job[p].opponent, !.goal = job[p].goal]]
  /\ Drop(p)
  /\ UNCHANGED <<moneyVars, duelWriter, sweep, strikes, matches, lostVars, faults>>

-----------------------------------------------------------------------------
\* Accept: the acceptor's play lock and caps, then the match lock.
AcceptLock(p, u, c) ==
  /\ AtDuel(p, "idle") /\ Active(c) /\ Free(play, u)
  /\ play' = Taken(play, u, p)
  /\ job' = [job EXCEPT ![p] = [Idle EXCEPT !.step = "accept", !.user = u, !.key = c]]
  /\ UNCHANGED <<fsm, moneyVars, match, duelWriter, sweep, strikes, matches, lostVars, faults>>

Acceptable(u, c) ==
  /\ fsm[c].state = "acceptance" /\ fsm[c].opponent = u
  /\ ~ IsUserBusy(u, c)

AcceptMatch(p) ==
  /\ AtDuel(p, "accept") /\ Free(match, job[p].key)
  /\ IF Acceptable(job[p].user, job[p].key)
       THEN match' = Taken(match, job[p].key, p) /\ ToStep(p, "flip") /\ UNCHANGED play
       ELSE Drop(p)
  /\ UNCHANGED <<fsm, moneyVars, duelWriter, sweep, strikes, matches, lostVars, faults>>

\* set_state and update_data, a new stamp with them, whatever became of the
\* record; the play is stamped and both locks go back.
AcceptFlip(p) ==
  /\ AtDuel(p, "flip")
  /\ fsm' = [fsm EXCEPT ![job[p].key] =
               [@ EXCEPT !.state = "rolls", !.rolled = {}, !.stamped = TRUE, !.due = FALSE]]
  /\ Drop(p)
  /\ UNCHANGED <<moneyVars, duelWriter, sweep, strikes, matches, lostVars, faults>>

\* Decline: check and clear, under the match lock.
DeclineDuel(c) ==
  /\ Free(match, c) /\ fsm[c].state = "acceptance" /\ fsm[c].stamped
  /\ fsm' = [fsm EXCEPT ![c] = Blank]
  /\ UNCHANGED <<moneyVars, duelLockVars, duelWriter, job, sweep, strikes, matches, lostVars, faults>>

-----------------------------------------------------------------------------
RollableMutant(u, c) ==           \* mutant: a second roll of a seat replaces the first
  /\ fsm[c].state = "rolls" /\ fsm[c].opponent # Nobody
  /\ InMatch(u, c)

Rollable(u, c) ==
  /\ fsm[c].state = "rolls" /\ fsm[c].opponent # Nobody
  /\ InMatch(u, c) /\ Seat(u, c) \notin fsm[c].rolled

\* Roll, under the match lock: check, stamp the roll, read the record again.  The
\* first of the two ends there, with a toast and the card.
RollStamp(p, u, c) ==
  /\ AtDuel(p, "idle") /\ Free(match, c) /\ Rollable(u, c)
  /\ LET rolled == fsm[c].rolled \cup {Seat(u, c)}
     IN /\ fsm' = [fsm EXCEPT ![c].rolled = rolled]
        /\ IF rolled # Seats THEN UNCHANGED <<job, match>>
           ELSE /\ match' = Taken(match, c, p)
                /\ job' = [job EXCEPT ![p] = [Idle EXCEPT !.step = "decided",
                             !.user = u, !.key = c, !.opponent = fsm[c].opponent,
                             !.goal = fsm[c].goal, !.match = fsm[c].match, !.wins = fsm[c].wins]]
  /\ UNCHANGED <<moneyVars, play, duelWriter, sweep, strikes, matches, lostVars, faults>>

\* The toast, the settlement or its commit raises: what is stamped stays
\* stamped, what is not committed is rolled back.
RollLost(p) ==
  /\ job[p].step \in {"decided", "held"} /\ Fault
  /\ Drop(p)
  /\ duelWriter' = IF duelWriter = p THEN Nobody ELSE duelWriter
  /\ UNCHANGED <<fsm, moneyVars, sweep, strikes, matches, lostVars>>

Tallied(p, winner) ==
  [s \in Seats |-> IF s = winner THEN job[p].wins[s] + 1 ELSE job[p].wins[s]]

\* A round nobody wins is played again in a best-of-N, and ends a best-of-1.
Over(p, winner) ==
  \/ job[p].goal = 1
  \/ \E s \in Seats : Tallied(p, winner)[s] >= job[p].goal

RollOn(p, winner) ==
  /\ AtDuel(p, "decided") /\ ~ Over(p, winner)
  /\ fsm' = [fsm EXCEPT ![job[p].key] =
               [@ EXCEPT !.rolled = {}, !.wins = Tallied(p, winner), !.stamped = TRUE, !.due = FALSE]]
  /\ Drop(p)
  /\ UNCHANGED <<moneyVars, duelWriter, sweep, strikes, matches, lostVars, faults>>

Player(p, seat) == IF seat = "challenger" THEN job[p].key ELSE job[p].opponent
Players(p) == {Player(p, s) : s \in Seats}

\* DuelService.play: it holds both stakes and pays, or finds a wallet short.  A
\* payout that the ceiling refuses raises.
RollPlay(p, winner) ==
  /\ AtDuel(p, "decided") /\ Over(p, winner)
  /\ duelWriter = Nobody
  /\ IF \E u \in Players(p) : duelWallet[u] < DuelBet
       THEN ToStep(p, "clear") /\ UNCHANGED <<duelLockVars, duelWriter>>
       ELSE IF winner \in Seats /\ duelWallet[Player(p, winner)] - DuelBet + DuelPayout > DuelMaxAmount
       THEN Drop(p) /\ UNCHANGED duelWriter
       ELSE /\ duelWriter' = p
            /\ job' = [job EXCEPT ![p].step = "held", ![p].outcome = winner]
            /\ UNCHANGED duelLockVars
  /\ UNCHANGED <<fsm, moneyVars, sweep, strikes, matches, lostVars, faults>>

\* The checkpoint: stakes, payout and rake are durable before the next call.
RollCommit(p) ==
  /\ AtDuel(p, "held")
  /\ duelWriter' = Nobody
  /\ IF job[p].outcome = Nobody
       THEN UNCHANGED moneyVars                          \* a draw: both released
       ELSE /\ duelWallet' = [u \in DuelUsers |->
                 IF u \notin Players(p) THEN duelWallet[u]
                 ELSE IF u = Player(p, job[p].outcome) THEN duelWallet[u] - DuelBet + DuelPayout
                 ELSE duelWallet[u] - DuelBet]
            /\ burned' = burned + 2 * DuelBet - DuelPayout
            /\ settled' = [settled EXCEPT ![job[p].match] = @ + 1]
  /\ ToStep(p, "clear")
  /\ UNCHANGED <<fsm, duelLockVars, sweep, strikes, matches, lostVars, faults>>

RollClear(p) ==
  /\ AtDuel(p, "clear")
  /\ fsm' = [fsm EXCEPT ![job[p].key] = Blank]
  /\ Drop(p)
  /\ UNCHANGED <<moneyVars, duelWriter, sweep, strikes, matches, lostVars, faults>>

-----------------------------------------------------------------------------
\* /cancel of the challenger: the state and the data are read before the lock.  A
\* record without its data names no chat, hence no lock.
CancelRead(p, c) ==
  /\ AtDuel(p, "idle") /\ Active(c)
  /\ job' = [job EXCEPT ![p] = [Idle EXCEPT !.key = c,
                                  !.step = IF fsm[c].stamped THEN "cancel" ELSE "wipe"]]
  /\ UNCHANGED <<fsm, moneyVars, duelLockVars, duelWriter, sweep, strikes, matches, lostVars, faults>>

CancelClearMutant(p) ==           \* mutant: the clear that /cancel used to do itself (#259)
  /\ AtDuel(p, "cancel")
  /\ fsm' = [fsm EXCEPT ![job[p].key] = Blank]
  /\ Drop(p)
  /\ UNCHANGED <<moneyVars, duelWriter, sweep, strikes, matches, lostVars, faults>>

CancelClear(p) ==                 \* cancel_match_from_global
  /\ AtDuel(p, "cancel") /\ Free(match, job[p].key)
  /\ fsm' = [fsm EXCEPT ![job[p].key] = Blank]
  /\ Drop(p)
  /\ UNCHANGED <<moneyVars, duelWriter, sweep, strikes, matches, lostVars, faults>>

\* The notice to the group raises: the lock is gone, the clear still comes.
CancelRaises(p) ==
  /\ AtDuel(p, "cancel") /\ Free(match, job[p].key) /\ Fault
  /\ ToStep(p, "wipe")
  /\ UNCHANGED <<fsm, moneyVars, duelLockVars, duelWriter, sweep, strikes, matches, lostVars>>

CancelWipe(p) ==
  /\ AtDuel(p, "wipe")
  /\ wiped' = wiped \cup ({fsm[job[p].key].match} \ {0})
  /\ fsm' = [fsm EXCEPT ![job[p].key] = Blank]
  /\ End(p)
  /\ UNCHANGED <<moneyVars, duelLockVars, duelWriter, sweep, strikes, matches, overwritten, faults>>

-----------------------------------------------------------------------------
\* The sweeper (scheduler/fsm_sweeper.py), with the duel's rules and those of the
\* forms, which take no guard.

Expirable(k) == k \in Stuck \/ (Active(k) /\ fsm[k].stamped /\ fsm[k].due)
State(k) == IF k \in Stuck THEN "form" ELSE fsm[k].state
FreeGuard(k) == IF k \in Stuck THEN TRUE ELSE Free(match, k)

SweepList ==                       \* one read of all records
  /\ sweep.step = "idle"
  /\ sweep' = [Asleep EXCEPT !.step = "scan",
                             !.seen = {<<k, State(k)>> : k \in {q \in RecordKeys : Expirable(q)}}]
  /\ UNCHANGED <<fsm, moneyVars, duelLockVars, duelWriter, job, strikes, matches, lostVars, faults>>

PoisonedMutant(k) == k \notin RecordKeys \* mutant: a failing notice is tried on every pass

Poisoned(k) == k \in Stuck /\ strikes[k] >= MaxStrikes

\* The key whose turn it is: records come oldest first.
Turn(k) ==
  /\ \E s \in sweep.seen : s[1] = k
  /\ k \in Challengers => \A s \in sweep.seen : s[1] \notin Stuck
Without(k) == {s \in sweep.seen : s[1] # k}

\* A key that struck out, one beyond the pass's budget, or one whose lock is not to
\* be had in time, is left for later.
SweepSkip(k) ==
  /\ sweep.step = "scan" /\ Turn(k)
  /\ Poisoned(k) \/ sweep.tried >= Budget \/ ~ FreeGuard(k)
  /\ sweep' = [sweep EXCEPT !.seen = Without(k)]
  /\ UNCHANGED <<fsm, moneyVars, duelLockVars, duelWriter, job, strikes, matches, lostVars, faults>>

Unchanged(k) == <<k, State(k)>> \in sweep.seen /\ Expirable(k)

SweepGuard(k) ==                   \* the match lock, then a second look
  /\ sweep.step = "scan" /\ Turn(k)
  /\ ~ Poisoned(k) /\ sweep.tried < Budget /\ FreeGuard(k)
  /\ IF Unchanged(k)
       THEN /\ match' = IF k \in Stuck THEN match ELSE Taken(match, k, "sweeper")
            /\ sweep' = [sweep EXCEPT !.step = "notify", !.key = k, !.tried = @ + 1]
       ELSE /\ sweep' = [sweep EXCEPT !.seen = Without(k)]
            /\ UNCHANGED match
  /\ UNCHANGED <<fsm, moneyVars, play, duelWriter, job, strikes, matches, lostVars, faults>>

GuardGiven == IF sweep.key \in Stuck THEN match ELSE Given(match, sweep.key)

\* The notice went out, or its chat is unreachable: the record goes, if it is
\* still the one that was due.
SweepClear ==
  /\ sweep.step = "notify" /\ sweep.key \in Challengers
  /\ fsm' = IF Unchanged(sweep.key) THEN [fsm EXCEPT ![sweep.key] = Blank] ELSE fsm
  /\ match' = GuardGiven
  /\ sweep' = [sweep EXCEPT !.step = "scan", !.seen = Without(sweep.key), !.key = Nobody]
  /\ UNCHANGED <<moneyVars, play, duelWriter, job, strikes, matches, lostVars, faults>>

\* It raised: a strike, and the record stays.
SweepStrike ==
  /\ sweep.step = "notify" /\ sweep.key \in Stuck
  /\ strikes' = [strikes EXCEPT ![sweep.key] = IF @ < MaxStrikes THEN @ + 1 ELSE @]   \* bound
  /\ match' = GuardGiven
  /\ sweep' = [sweep EXCEPT !.step = "scan", !.seen = Without(sweep.key), !.key = Nobody]
  /\ UNCHANGED <<fsm, moneyVars, play, duelWriter, job, matches, lostVars, faults>>

\* Flood wait: the pass ends here.
SweepFlood ==
  /\ sweep.step = "notify" /\ Fault
  /\ match' = GuardGiven
  /\ sweep' = Asleep
  /\ UNCHANGED <<fsm, moneyVars, play, duelWriter, job, strikes, matches, lostVars>>

SweepEnd ==
  /\ sweep.step = "scan" /\ sweep.seen = {}
  /\ sweep' = Asleep
  /\ UNCHANGED <<fsm, moneyVars, duelLockVars, duelWriter, job, strikes, matches, lostVars, faults>>

-----------------------------------------------------------------------------
\* A record outlives its rule's timeout.
Age(c) ==
  /\ Active(c) /\ fsm[c].stamped /\ ~ fsm[c].due
  /\ fsm' = [fsm EXCEPT ![c].due = TRUE]
  /\ UNCHANGED <<moneyVars, duelLockVars, duelWriter, job, sweep, strikes, matches, lostVars, faults>>

\* The process dies and starts again: fsm.db and economy.db stay.
DuelCrash ==
  /\ Fault
  /\ job' = [p \in Handlers |-> Idle] /\ sweep' = Asleep
  /\ play' = [u \in DuelUsers |-> Nobody] /\ match' = [c \in Challengers |-> Nobody]
  /\ duelWriter' = Nobody /\ strikes' = [k \in Stuck |-> 0]
  /\ UNCHANGED <<fsm, moneyVars, matches, lostVars>>

ProceedDuel(p) ==
  \/ \E allowed \in BOOLEAN : DuelState(p, allowed)
  \/ DuelData(p) \/ AcceptMatch(p) \/ AcceptFlip(p)
  \/ RollCommit(p) \/ RollClear(p)
  \/ \E winner \in Seats \cup {Nobody} : RollOn(p, winner) \/ RollPlay(p, winner)
  \/ CancelClear(p) \/ CancelWipe(p)

ArriveDuel(p) ==
  \/ \E u \in Challengers, o \in DuelUsers, n \in Rounds : u # o /\ DuelRead(p, u, o, n)
  \/ \E u \in DuelUsers, c \in Challengers :
       AcceptLock(p, u, c) \/ RollStamp(p, u, c)
  \/ \E c \in Challengers : CancelRead(p, c)

Sweep ==
  \/ SweepList \/ SweepClear \/ SweepStrike \/ SweepEnd
  \/ \E k \in RecordKeys : SweepSkip(k) \/ SweepGuard(k)

DuelNext ==
  \/ \E p \in Handlers : ArriveDuel(p) \/ ProceedDuel(p) \/ RollLost(p) \/ CancelRaises(p)
  \/ \E c \in Challengers : DeclineDuel(c) \/ Age(c)
  \/ Sweep \/ SweepFlood \/ DuelCrash

DuelSpec == DuelInit /\ [][DuelNext]_duelVars

\* Handlers go on, and so does the sweeper, pass after pass.
FairDuelSpec ==
  /\ DuelSpec
  /\ \A p \in Handlers : SF_duelVars(ProceedDuel(p))
  /\ WF_duelVars(Sweep)
  /\ \A c \in Challengers : SF_duelVars(SweepGuard(c))

-----------------------------------------------------------------------------
\* Every variable stays in its set.
DuelTypeOK ==
  /\ \A c \in Challengers :
       /\ fsm[c].state \in {"none", "acceptance", "rolls"} /\ fsm[c].match \in 0..MaxMatch
       /\ fsm[c].opponent \in DuelUsers \cup {Nobody} /\ fsm[c].rolled \subseteq Seats
  /\ duelWallet \in [DuelUsers -> 0..DuelMaxAmount] /\ burned \in Nat
  /\ play \in [DuelUsers -> Handlers \cup {Nobody}]
  /\ match \in [Challengers -> Handlers \cup {Nobody, "sweeper"}]
  /\ duelWriter \in Handlers \cup {Nobody}

\* A match moves coins at most once, although its record may outlive the commit
\* (a crash, a notice that raised) and its buttons stay on the card (#1665).  Not so
\* the two of which one was written over the other's record: the seats and the
\* rolls of one serve both.
PaidOnce == \A m \in Matches : m \in overwritten \/ settled[m] <= 1

\* Every variable in its set, no match paid twice.
MatchesPayOnce == DuelTypeOK /\ PaidOnce

\* Coins move only for a match that is still on the record, accepted, and rolled by
\* both seats: no cancel, decline or timeout comes between the decisive roll and
\* the commit (#126, #259), except a /cancel whose own notice failed and a second
\* /duel that was typed before the first was on the record.
OnlyLiveMatchesPay ==
  [][\A m \in Matches : settled'[m] # settled[m] =>
       \/ m \in wiped \cup overwritten
       \/ \E c \in Challengers : fsm[c].match = m /\ fsm[c].state = "rolls" /\ fsm[c].rolled = Seats]_duelVars

\* Handlers end and hand back both locks (the play lock is taken before the match
\* lock by all that take both), and what nobody finishes is retired, however many
\* other notices keep failing.
NothingHangs ==
  /\ \A p \in Handlers : ~ AtDuel(p, "idle") ~> AtDuel(p, "idle")
  /\ \A c \in Challengers : Expirable(c) ~> ~ Expirable(c)
=============================================================================
