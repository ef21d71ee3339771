-------------------------- MODULE StakeGamesProofs --------------------------
(***************************************************************************)
(* StakeGames for every number of players, taps and caps: the locks        *)
(* exclude, the caps hold, the cooldown holds and the wallets agree with   *)
(* the games rows.  The first part is about KeyedLocks alone, for every    *)
(* number of keys, tasks and slots: what each step of a per-key lock       *)
(* preserves.  The last part is about Duel.                                *)
(***************************************************************************)
EXTENDS StakeGames, Duel, WalletProofs

-----------------------------------------------------------------------------
(* The locks. *)

LocksType ==
  /\ entries \in [Keys -> Slots \cup {None}]
  /\ users \in [Slots -> Nat]
  /\ queue \in [Slots -> Seq(Tasks)]
  /\ slot \in [Tasks -> Slots \cup {None}]
  /\ key \in [Tasks -> Keys \cup {None}]

Using(s) == {t \in Tasks : slot[t] = s}

UsersCounted == \A s \in Slots : users[s] = Cardinality(Using(s))

KeyOfSlot ==
  \A t \in Tasks : /\ slot[t] = None <=> key[t] = None
                   /\ slot[t] # None => entries[key[t]] = slot[t]

EntriesApart ==
  \A k1, k2 \in Keys : entries[k1] # None /\ entries[k1] = entries[k2] => k1 = k2

EntriesUsed == \A k \in Keys : entries[k] # None => \E t \in Tasks : key[t] = k

LockInv == LocksType /\ UsersCounted /\ KeyOfSlot /\ EntriesApart /\ EntriesUsed

-----------------------------------------------------------------------------
\* What the invariant is for: one slot per key, so one head of one queue.
LEMMA LockInvExcludes == LockInv => LocksExclude /\ SlotsLiveWhileUsed
<1> SUFFICES ASSUME LockInv PROVE LocksExclude /\ SlotsLiveWhileUsed
  OBVIOUS
<1>1. LocksExclude
  BY DEF LockInv, KeyOfSlot, LocksExclude, Holds
<1>2. SlotsLiveWhileUsed
  BY LocksAssumption DEF LockInv, LocksType, KeyOfSlot, EntriesUsed, SlotsLiveWhileUsed
<1> QED BY <1>1, <1>2

\* No lock exists when the process starts.
LEMMA LockInitInv == LockInit => LockInv
<1> SUFFICES ASSUME LockInit PROVE LockInv
  OBVIOUS
<1>1. LocksType
  <2>1. <<>> \in Seq(Tasks) OBVIOUS
  <2> QED BY <2>1 DEF LockInit, LocksType
<1>2. UsersCounted
  <2> SUFFICES ASSUME NEW s \in Slots PROVE users[s] = Cardinality(Using(s))
    BY DEF UsersCounted
  <2>1. Using(s) = {} BY LocksAssumption DEF LockInit, Using
  <2> QED BY <2>1, FS_EmptySet DEF LockInit
<1> QED BY <1>1, <1>2 DEF LockInit, LockInv, KeyOfSlot, EntriesApart, EntriesUsed

\* Nor when it starts again: this is the state a crash leads to.
LEMMA LockResetInv == LockInit' => LockInv'
BY LockInitInv, PTL

LEMMA LockStutter == LockInv /\ UNCHANGED lockVars => LockInv'
BY DEF LockInv, lockVars, LocksType, UsersCounted, Using, KeyOfSlot, EntriesApart, EntriesUsed

\* acquire claims the key's own slot, or one that nothing refers to.
LEMMA AcquireInv ==
  ASSUME NEW t \in Tasks, NEW k \in Keys, LockInv, Acquire(t, k)
  PROVE  LockInv'
<1>1. PICK s \in Slots :
        /\ SlotFor(k, s)
        /\ entries' = [entries EXCEPT ![k] = s]
        /\ users' = [users EXCEPT ![s] = @ + 1]
        /\ queue' = [queue EXCEPT ![s] = Append(@, t)]
        /\ slot' = [slot EXCEPT ![t] = s]
  BY DEF Acquire
<1>2. slot[t] = None /\ key[t] = None /\ key' = [key EXCEPT ![t] = k]
  BY DEF Acquire, LockInv, KeyOfSlot
<1>3. k # None /\ s # None /\ None \notin Slots /\ None \notin Keys
  BY LocksAssumption
<1>4. LocksType'
  <2>1. Append(queue[s], t) \in Seq(Tasks) BY DEF LockInv, LocksType
  <2>2. users[s] + 1 \in Nat BY DEF LockInv, LocksType
  <2> QED BY <1>1, <1>2, <2>1, <2>2 DEF LockInv, LocksType
<1>5. UsersCounted'
  <2> SUFFICES ASSUME NEW n \in Slots PROVE users'[n] = Cardinality(Using(n)')
    BY DEF UsersCounted
  <2>1. CASE n = s
    <3>1. Using(s)' = Using(s) \cup {t} BY <1>1, <1>2 DEF LockInv, LocksType, Using
    <3>2. t \notin Using(s) BY <1>2, <1>3 DEF Using
    <3>3. IsFiniteSet(Using(s)) BY LocksAssumption, FS_Subset DEF Using
    <3>4. Cardinality(Using(s) \cup {t}) = Cardinality(Using(s)) + 1
      BY <3>2, <3>3, FS_AddElement
    <3> QED BY <1>1, <2>1, <3>1, <3>4 DEF LockInv, LocksType, UsersCounted
  <2>2. CASE n # s
    <3>1. Using(n)' = Using(n) BY <1>1, <1>2, <1>3, <2>2 DEF LockInv, LocksType, Using
    <3> QED BY <1>1, <2>2, <3>1 DEF LockInv, LocksType, UsersCounted
  <2> QED BY <2>1, <2>2
<1>6. \A k2 \in Keys \ {k} : entries[k2] # s
  <2> SUFFICES ASSUME NEW k2 \in Keys, k2 # k, entries[k2] = s PROVE FALSE
    OBVIOUS
  <2>1. PICK u \in Tasks : key[u] = k2
    BY <1>3 DEF LockInv, EntriesUsed
  <2>2. slot[u] = s BY <1>3, <2>1 DEF LockInv, KeyOfSlot
  <2>3. InUse(s) BY <2>2 DEF InUse
  <2> QED BY <1>1, <1>3, <2>3 DEF SlotFor, New, LockInv, EntriesApart
<1>7. KeyOfSlot'
  <2> SUFFICES ASSUME NEW u \in Tasks
               PROVE  /\ slot'[u] = None <=> key'[u] = None
                      /\ slot'[u] # None => entries'[key'[u]] = slot'[u]
    BY DEF KeyOfSlot
  <2>1. CASE u = t
    BY <1>1, <1>2, <1>3, <2>1 DEF LockInv, LocksType
  <2>2. CASE u # t
    <3>1. slot'[u] = slot[u] /\ key'[u] = key[u] BY <1>1, <1>2, <2>2 DEF LockInv, LocksType
    <3>2. slot[u] # None => key[u] \in Keys BY DEF LockInv, LocksType, KeyOfSlot
    <3>3. key[u] = k /\ slot[u] # None => entries[k] = slot[u] /\ s = entries[k]
      BY <1>1 DEF LockInv, KeyOfSlot, SlotFor
    <3> QED BY <1>1, <3>1, <3>2, <3>3 DEF LockInv, LocksType, KeyOfSlot
  <2> QED BY <2>1, <2>2
<1>8. EntriesApart'
  BY <1>1, <1>6 DEF LockInv, LocksType, EntriesApart
<1>9. EntriesUsed'
  <2> SUFFICES ASSUME NEW k2 \in Keys, entries'[k2] # None
               PROVE  \E u \in Tasks : key'[u] = k2
    BY DEF EntriesUsed
  <2>1. CASE k2 = k BY <1>2, <2>1 DEF LockInv, LocksType
  <2>2. CASE k2 # k
    <3>1. PICK u \in Tasks : key[u] = k2 BY <1>1, <2>2 DEF LockInv, LocksType, EntriesUsed
    <3>2. u # t BY <1>2, <1>3, <3>1
    <3> QED BY <1>2, <3>1, <3>2 DEF LockInv, LocksType
  <2> QED BY <2>1, <2>2
<1> QED BY <1>4, <1>5, <1>7, <1>8, <1>9 DEF LockInv

\* Who holds a lock keeps it while others queue up.
LEMMA AcquireKeeps ==
  ASSUME NEW t \in Tasks, NEW k \in Keys, LockInv, Acquire(t, k),
         NEW u \in Tasks, slot[u] # None
  PROVE  /\ slot'[u] = slot[u] /\ key'[u] = key[u]
         /\ Holds(u) => Holds(u)'
<1>1. u # t BY DEF Acquire
<1>2. slot'[u] = slot[u] /\ key'[u] = key[u]
  BY <1>1 DEF Acquire, LockInv, LocksType
<1>3. PICK s \in Slots : queue' = [queue EXCEPT ![s] = Append(@, t)]
  BY DEF Acquire
<1>4. ASSUME Holds(u) PROVE Holds(u)'
  <2>1. slot[u] \in Slots /\ queue[slot[u]] \in Seq(Tasks)
    BY DEF LockInv, LocksType
  <2>2. queue[slot[u]] # <<>> => /\ Append(queue[slot[u]], t) # <<>>
                                  /\ Head(Append(queue[slot[u]], t)) = Head(queue[slot[u]])
    BY <2>1
  <2> QED BY <1>2, <1>3, <1>4, <2>1, <2>2 DEF Holds, LockInv, LocksType
<1> QED BY <1>2, <1>4

\* The last user frees the slot of his key; before that nobody does.
LEMMA ReleaseInv ==
  ASSUME NEW t \in Tasks, LockInv, Release(t)
  PROVE  LockInv'
<1>0. PICK s \in Slots, k \in Keys : slot[t] = s /\ key[t] = k
  BY DEF Release, Holds, LockInv, LocksType, KeyOfSlot
<1>1. /\ s \in Slots /\ k \in Keys /\ entries[k] = s
      /\ slot[t] = s /\ key[t] = k
      /\ s # None /\ k # None /\ queue[s] # <<>>
  BY <1>0 DEF Release, Holds, LockInv, LocksType, KeyOfSlot
<1>2. /\ users' = [users EXCEPT ![s] = @ - 1]
      /\ queue' = [queue EXCEPT ![s] = Tail(@)]
      /\ slot' = [slot EXCEPT ![t] = None]
      /\ key' = [key EXCEPT ![t] = None]
      /\ entries' = IF users[s] - 1 <= 0 THEN [entries EXCEPT ![k] = None] ELSE entries
  BY <1>1 DEF Release, Freed
<1>3. IsFiniteSet(Using(s)) /\ t \in Using(s)
  BY <1>1, LocksAssumption, FS_Subset DEF Using
<1>4. users[s] = Cardinality(Using(s)) BY <1>1 DEF LockInv, UsersCounted
<1>5. /\ Cardinality(Using(s) \ {t}) = Cardinality(Using(s)) - 1
      /\ Cardinality(Using(s) \ {t}) \in Nat
      /\ IsFiniteSet(Using(s) \ {t})
  BY <1>3, FS_RemoveElement, FS_CardinalityType
<1>6. Using(s)' = Using(s) \ {t} BY <1>1, <1>2, LocksAssumption DEF LockInv, LocksType, Using
<1>7. LocksType'
  <2>1. Tail(queue[s]) \in Seq(Tasks) BY <1>1 DEF LockInv, LocksType
  <2>2. users[s] - 1 \in Nat BY <1>4, <1>5
  <2>3. users' \in [Slots -> Nat] BY <1>1, <1>2, <2>2 DEF LockInv, LocksType
  <2>4. queue' \in [Slots -> Seq(Tasks)] BY <1>1, <1>2, <2>1 DEF LockInv, LocksType
  <2> QED BY <1>1, <1>2, <2>3, <2>4 DEF LockInv, LocksType
<1>8. UsersCounted'
  <2> SUFFICES ASSUME NEW n \in Slots PROVE users'[n] = Cardinality(Using(n)')
    BY DEF UsersCounted
  <2>1. CASE n = s
    BY <1>1, <1>2, <1>4, <1>5, <1>6, <2>1 DEF LockInv, LocksType
  <2>2. CASE n # s
    <3>1. Using(n)' = Using(n) BY <1>1, <1>2, <2>2, LocksAssumption DEF LockInv, LocksType, Using
    <3> QED BY <1>2, <2>2, <3>1 DEF LockInv, LocksType, UsersCounted
  <2> QED BY <2>1, <2>2
<1>9. users[s] - 1 <= 0 <=> Using(s) \ {t} = {}
  <2>1. Cardinality(Using(s) \ {t}) = 0 <=> Using(s) \ {t} = {}
    BY <1>5, FS_EmptySet
  <2>2. users[s] - 1 = Cardinality(Using(s) \ {t}) BY <1>4, <1>5
  <2>3. \A n \in Nat : n <= 0 <=> n = 0 OBVIOUS
  <2>4. Cardinality(Using(s) \ {t}) <= 0 <=> Using(s) \ {t} = {}
    BY <1>5, <2>1, <2>3, Zenon
  <2> QED BY <2>2, <2>4, Zenon
<1>10. \A u \in Tasks : u # t /\ key[u] = k => u \in Using(s) \ {t}
  BY <1>1 DEF LockInv, KeyOfSlot, Using
<1>11. KeyOfSlot'
  <2> SUFFICES ASSUME NEW u \in Tasks
               PROVE  /\ slot'[u] = None <=> key'[u] = None
                      /\ slot'[u] # None => entries'[key'[u]] = slot'[u]
    BY DEF KeyOfSlot
  <2>1. CASE u = t
    BY <1>2, <2>1 DEF LockInv, LocksType
  <2>2. CASE u # t
    <3>1. slot'[u] = slot[u] /\ key'[u] = key[u] BY <1>2, <2>2 DEF LockInv, LocksType
    <3>2. slot[u] # None => key[u] \in Keys BY DEF LockInv, LocksType, KeyOfSlot
    <3>3. users[s] - 1 <= 0 => key[u] # k BY <1>9, <1>10, <2>2
    <3> QED BY <1>1, <1>2, <3>1, <3>2, <3>3 DEF LockInv, LocksType, KeyOfSlot
  <2> QED BY <2>1, <2>2
<1>12. EntriesApart'
  BY <1>1, <1>2 DEF LockInv, LocksType, EntriesApart
<1>13. EntriesUsed'
  <2> SUFFICES ASSUME NEW k2 \in Keys, entries'[k2] # None
               PROVE  \E u \in Tasks : key'[u] = k2
    BY DEF EntriesUsed
  <2>0. entries[k2] # None BY <1>1, <1>2 DEF LockInv, LocksType
  <2>1. CASE k2 = k
    <3>1. ~ (users[s] - 1 <= 0) BY <1>2, <2>1 DEF LockInv, LocksType
    <3>2. PICK u \in Using(s) \ {t} : TRUE BY <3>1, <1>9
    <3>3. u \in Tasks /\ u # t /\ slot[u] = s BY <3>2 DEF Using
    <3>4. key[u] \in Keys /\ entries[key[u]] = s
      BY <1>1, <3>3 DEF LockInv, LocksType, KeyOfSlot
    <3>5. key[u] = k BY <1>1, <3>4 DEF LockInv, EntriesApart
    <3> QED BY <1>2, <2>1, <3>3, <3>5 DEF LockInv, LocksType
  <2>2. CASE k2 # k
    <3>1. PICK u \in Tasks : key[u] = k2 BY <2>0 DEF LockInv, EntriesUsed
    <3>2. u # t BY <1>1, <2>2, <3>1
    <3> QED BY <1>2, <3>1, <3>2 DEF LockInv, LocksType
  <2> QED BY <2>1, <2>2
<1> QED BY <1>7, <1>8, <1>11, <1>12, <1>13 DEF LockInv

\* A release by one task takes no lock away from another.
LEMMA ReleaseKeeps ==
  ASSUME NEW t \in Tasks, LockInv, Release(t),
         NEW u \in Tasks, u # t
  PROVE  /\ slot'[u] = slot[u] /\ key'[u] = key[u]
         /\ Holds(u) => Holds(u)'
<1>1. slot'[u] = slot[u] /\ key'[u] = key[u]
  BY DEF Release, LockInv, LocksType
<1>2. ASSUME Holds(u) PROVE Holds(u)'
  <2>1. slot[u] # slot[t] BY <1>2 DEF Release, Holds
  <2>2. queue'[slot[u]] = queue[slot[u]]
    BY <1>2, <2>1 DEF Release, Holds, LockInv, LocksType
  <2> QED BY <1>1, <1>2, <2>2 DEF Holds
<1> QED BY <1>1, <1>2

-----------------------------------------------------------------------------
(* The games. *)

Tap == [step : Steps, user : Users \cup {None}, solo : BOOLEAN, now : Nat,
        coins : Int, profit : Int]

Inside == {"checked", "spent", "short", "played", "leaving"}
Playing == {"checked", "spent", "played"}

\* Where a handler is tells which lock it has, and that its stamp is recent.
Locked ==
  \A t \in Taps :
    /\ tap[t].step \in Inside => Holds(t)
    /\ tap[t].step \in Inside \cup {"queued"} =>
         key[t] = tap[t].user /\ tap[t].user \in Users /\ slot[t] # None
    /\ tap[t].step \notin {"idle", "done"} => clock - tap[t].now <= Patience

\* What the open transaction would commit fits the wallet.
Affordable ==
  \A t \in Taps :
    /\ writer = t => tap[t].step \in {"spent", "short", "played"}
    /\ tap[t].step \in {"idle", "queued", "checked", "short"} => tap[t].coins = 0
    /\ At(t, "spent") => tap[t].coins = - Bet
    /\ tap[t].step \in {"spent", "played"} =>
         writer = t /\ wallet[tap[t].user] + tap[t].coins \in 0..MaxAmount

\* A committed play is over; its stamp goes only when no cap reads it.
Recorded ==
  /\ \A t \in history : tap[t].step \in {"leaving", "left", "done"}
  /\ \A t \in history \ plays : tap[t].now < clock - Retention

Since(t, window) ==
  {q \in history : tap[q].user = tap[t].user /\ tap[q].now >= tap[t].now - window}

\* What Allowed found still holds when the play is stamped.
Room ==
  \A t \in Taps : tap[t].step \in Playing =>
    Cardinality(Since(t, Hour)) < HourCap /\ Cardinality(Since(t, Day)) < DayCap

StakeInv == TypeOK /\ LockInv /\ Locked /\ Affordable /\ Recorded /\ Room /\ CapsHold

-----------------------------------------------------------------------------
LEMMA Constants ==
  /\ Patience \in Nat /\ Hour \in Nat /\ Day \in Nat /\ Retention \in Nat
  /\ HourCap \in Nat /\ DayCap \in Nat /\ Bet \in Nat /\ Payout \in Nat
  /\ MaxAmount \in Nat /\ Welcome \in 0..MaxAmount /\ Hour <= Day
  /\ Patience = Retention - Day /\ MaxFlow \in Nat
  /\ None \notin Users /\ None \notin Taps /\ IsFiniteSet(Taps)
BY MaxAmountAssumption, StakeGamesAssumption, LocksAssumption DEF Patience, Users, Taps

LEMMA InitInv == Init => StakeInv
<1> SUFFICES ASSUME Init PROVE StakeInv
  OBVIOUS
<1>1. Fresh \in Tap /\ Fresh.step = "idle" /\ Fresh.coins = 0
  BY DEF Fresh, Tap, Steps
<1>2. LockInv BY LockInitInv DEF Init
<1>3. TypeOK BY <1>1, Constants DEF Init, TypeOK, Tap, Taps, Users
<1>4. Locked /\ Room BY <1>1 DEF Init, Locked, Room, Inside, Playing
<1>5. Affordable BY <1>1, Constants DEF Init, Affordable, At
<1>6. Recorded /\ CapsHold BY DEF Init, Recorded, CapsHold
<1> QED BY <1>2, <1>3, <1>4, <1>5, <1>6 DEF StakeInv

LEMMA StutterInv == StakeInv /\ UNCHANGED vars => StakeInv'
<1> SUFFICES ASSUME StakeInv, UNCHANGED vars PROVE StakeInv'
  OBVIOUS
<1>1. LockInv' BY LockStutter DEF StakeInv, vars
<1>2. TypeOK' /\ Affordable' /\ Recorded'
  BY DEF StakeInv, vars, gameVars, TypeOK, Affordable, Recorded, At
<1>3. Locked' BY DEF StakeInv, vars, gameVars, lockVars, Locked, Holds
<1>4. Room' /\ CapsHold'
  BY DEF StakeInv, vars, gameVars, Room, Since, CapsHold, Within
<1> QED BY <1>1, <1>2, <1>3, <1>4 DEF StakeInv

LEMMA LocksStep ==
  ASSUME StakeInv, Next PROVE LockInv'
<1>1. LockInv BY DEF StakeInv
<1>2. ASSUME NEW t \in Taps, Leave(t) PROVE LockInv'
  BY <1>1, <1>2, ReleaseInv DEF Leave, Taps
<1>3. ASSUME NEW t \in Taps, NEW u \in Users, NEW solo \in BOOLEAN, Arrive(t, u, solo)
      PROVE  LockInv'
  BY <1>1, <1>3, AcquireInv DEF Arrive, Taps, Users
<1>4. ASSUME Crash PROVE LockInv'
  <2>1. LockInit' BY <1>4 DEF Crash, LockInit, Taps
  <2> QED BY <2>1, LockResetInv
<1>5. ASSUME NEW t \in Taps, Proceed(t), ~ Leave(t) PROVE UNCHANGED lockVars
  BY <1>5 DEF Proceed, Check, Decline, Stake, Challenge, Fail, Settle, Checkpoint, Return,
     Commit
<1>6. ASSUME \/ \E u \in Users, coins \in {-1, 1} : Move(u, coins)
             \/ Prune \/ Tick
      PROVE  UNCHANGED lockVars
  BY <1>6 DEF Move, Prune, Tick
<1> QED BY <1>1, <1>2, <1>3, <1>4, <1>5, <1>6, LockStutter DEF Next

\* A step that changes one handler's record changes no other.
LEMMA TypeStep ==
  ASSUME StakeInv, Next PROVE TypeOK'
<1>1. TypeOK BY DEF StakeInv
<1>2. ASSUME NEW t \in Taps, NEW u \in Users, NEW solo \in BOOLEAN, Arrive(t, u, solo)
      PROVE  TypeOK'
  <2> DEFINE r == [Fresh EXCEPT !.step = "queued", !.user = u, !.solo = solo, !.now = clock]
  <2>0. Fresh \in Tap BY DEF Tap, Fresh, Steps
  <2>f. PICK f \in Tap : f = Fresh BY <2>0, Zenon
  <2>1. r \in Tap BY <1>1, <2>f DEF TypeOK, Tap, Steps
  <2>2. tap' = [tap EXCEPT ![t] = r] BY <1>2 DEF Arrive
  <2>3. tap' \in [Taps -> Tap] BY <1>1, <2>1, <2>2 DEF TypeOK, Tap
  <2> QED BY <1>1, <1>2, <2>3 DEF Arrive, TypeOK, Tap, gameVars
<1>3. ASSUME NEW t \in Taps, Check(t) \/ Decline(t) \/ Leave(t) PROVE TypeOK'
  BY <1>1, <1>3 DEF Check, Decline, Leave, Become, TypeOK, Steps, gameVars
<1>4. ASSUME NEW t \in Taps, Fail(t) PROVE TypeOK'
  <2>0. PICK zero \in Int : zero = 0 OBVIOUS
  <2>1. tap' = [tap EXCEPT ![t] = [tap[t] EXCEPT !.step = "leaving", !.coins = zero,
                                                 !.profit = zero]]
    BY <1>1, <1>4, <2>0 DEF Fail, TypeOK
  <2>2. tap[t] \in Tap /\ "leaving" \in Steps BY <1>1 DEF TypeOK, Tap, Steps
  <2>3. [tap[t] EXCEPT !.step = "leaving", !.coins = zero, !.profit = zero] \in Tap
    BY <2>2 DEF Tap
  <2>4. tap' \in [Taps -> Tap] BY <1>1, <2>1, <2>3 DEF TypeOK, Tap
  <2> QED BY <1>1, <1>4, <2>4 DEF Fail, TypeOK, Tap, gameVars
<1>5. ASSUME NEW t \in Taps, Stake(t) \/ Challenge(t) PROVE TypeOK'
  <2>1. - Bet \in Int /\ {"spent", "short", "played"} \subseteq Steps BY Constants DEF Steps
  <2>2. \/ tap' = [tap EXCEPT ![t] = [tap[t] EXCEPT !.step = "spent", !.coins = - Bet]]
        \/ \E step \in {"short", "played"} : tap' = [tap EXCEPT ![t] = [tap[t] EXCEPT !.step = step]]
    BY <1>1, <1>5 DEF Stake, Challenge, Become, TypeOK
  <2>3. tap[t] \in Tap BY <1>1 DEF TypeOK, Tap
  <2>4. /\ [tap[t] EXCEPT !.step = "spent", !.coins = - Bet] \in Tap
        /\ \A step \in {"short", "played"} : [tap[t] EXCEPT !.step = step] \in Tap
    BY <2>1, <2>3 DEF Tap
  <2>5. tap' \in [Taps -> Tap] BY <1>1, <2>2, <2>4 DEF TypeOK, Tap
  <2> QED BY <1>1, <1>5, <2>5 DEF Stake, Challenge, TypeOK, Tap, gameVars
<1>6. ASSUME NEW t \in Taps, NEW won \in BOOLEAN, Settle(t, won) PROVE TypeOK'
  <2> DEFINE gain == IF won THEN Payout ELSE 0
  <2>1. gain \in Int /\ tap[t].coins + gain \in Int /\ gain - Bet \in Int /\ "played" \in Steps
    BY <1>1, Constants DEF TypeOK, Steps
  <2>2. tap' = [tap EXCEPT ![t] = [tap[t] EXCEPT !.step = "played", !.coins = @ + gain,
                                                 !.profit = gain - Bet]]
    BY <1>1, <1>6 DEF Settle, TypeOK
  <2> HIDE DEF gain
  <2>3. tap[t] \in Tap BY <1>1 DEF TypeOK, Tap
  <2>4. [tap[t] EXCEPT !.step = "played", !.coins = @ + gain, !.profit = gain - Bet] \in Tap
    BY <2>1, <2>3 DEF Tap
  <2>5. tap' \in [Taps -> Tap] BY <1>1, <2>2, <2>4 DEF TypeOK, Tap
  <2> QED BY <1>1, <1>6, <2>5 DEF Settle, TypeOK, Tap, gameVars
<1>7. ASSUME NEW t \in Taps, Commit(t), tap[t].step \in {"short", "played"}
      PROVE  /\ plays' \subseteq history' /\ history' \subseteq Taps
             /\ wallet' \in [Users -> 0..MaxAmount]
             /\ writer' = None /\ UNCHANGED <<flow, clock>>
             /\ history' \subseteq history \cup {t}
  <2>1. CASE At(t, "short")
    BY <1>1, <1>7, <2>1 DEF Commit, TypeOK
  <2>2. CASE ~ At(t, "short")
    <3>1. tap[t].step = "played" BY <1>7, <2>2 DEF At
    <3>2. tap[t].user \in Users
      BY <3>1 DEF StakeInv, Locked, Inside
    <3>3. wallet[tap[t].user] + tap[t].coins \in 0..MaxAmount
      BY <3>1 DEF StakeInv, Affordable
    <3> QED BY <1>1, <1>7, <2>2, <3>2, <3>3 DEF Commit, TypeOK
  <2> QED BY <2>1, <2>2
<1>8. ASSUME NEW t \in Taps, Checkpoint(t) PROVE TypeOK'
  <2>1. tap' \in [Taps -> Tap]
    BY <1>1, <1>8 DEF Checkpoint, Become, TypeOK, Tap, Steps
  <2> QED BY <1>1, <1>7, <1>8, <2>1, Constants DEF Checkpoint, TypeOK, Tap
<1>9. \A t \in Taps : Ended(t) \in Tap
  <2> SUFFICES ASSUME NEW t \in Taps PROVE Ended(t) \in Tap
    OBVIOUS
  <2>1. Fresh \in Tap /\ tap[t] \in Tap BY <1>1 DEF TypeOK, Tap, Fresh, Steps
  <2>2. PICK r \in Tap : r = IF t \in history' THEN tap[t] ELSE Fresh
    BY <2>1, Zenon
  <2>3. PICK zero \in Int : zero = 0 OBVIOUS
  <2>4. Ended(t) = [r EXCEPT !.step = "done", !.coins = zero] BY <2>2, <2>3, Zenon DEF Ended
  <2>5. [r EXCEPT !.step = "done", !.coins = zero] \in Tap
    BY <2>2 DEF Tap, Steps
  <2> QED BY <2>4, <2>5
<1>10. ASSUME NEW t \in Taps, Return(t) PROVE TypeOK'
  <2>1. writer # t
    BY <1>10 DEF StakeInv, Affordable, Return, At
  <2> QED BY <1>1, <1>9, <1>10, <2>1 DEF Return, TypeOK, Tap, gameVars
<1>11. ASSUME NEW u \in Users, NEW coins \in {-1, 1}, Move(u, coins) PROVE TypeOK'
  BY <1>1, <1>11, Constants DEF Move, TypeOK
<1>12. ASSUME Prune PROVE TypeOK'
  BY <1>1, <1>12 DEF Prune, Kept, TypeOK
<1>13. ASSUME Tick PROVE TypeOK'
  BY <1>1, <1>13 DEF Tick, TypeOK, gameVars
<1>14. ASSUME Crash PROVE TypeOK'
  BY <1>1, <1>9, <1>14 DEF Crash, TypeOK, Tap, gameVars
<1> QED BY <1>2, <1>3, <1>4, <1>5, <1>6, <1>8, <1>10, <1>11, <1>12, <1>13, <1>14
        DEF Next, Proceed

\* What a step of a handler leaves of the records, where locks and clock stay.
Onward(t) ==
  /\ UNCHANGED <<lockVars, clock>>
  /\ \A v \in Taps : tap'[v].user = tap[v].user /\ tap'[v].now = tap[v].now
  /\ \A v \in Taps \ {t} : tap'[v] = tap[v]
  /\ Holds(t) /\ tap[t].step \in Inside \cup {"queued"}
  /\ tap'[t].step \in Inside

LEMMA OnwardSteps ==
  ASSUME StakeInv, NEW t \in Taps, Proceed(t), ~ Leave(t), ~ Return(t)
  PROVE  Onward(t)
<1>0. TypeOK /\ Locked BY DEF StakeInv
<1>1. CASE Check(t) \/ Decline(t)
  BY <1>0, <1>1 DEF Check, Decline, Become, At, Onward, Locked, Inside, TypeOK, gameVars
<1>2. CASE Stake(t) \/ Challenge(t)
  BY <1>0, <1>2 DEF Stake, Challenge, Become, At, Onward, Locked, Inside, TypeOK, gameVars
<1>3. CASE Fail(t)
  BY <1>0, <1>3 DEF Fail, Onward, Locked, Inside, TypeOK, gameVars
<1>4. ASSUME NEW won \in BOOLEAN, Settle(t, won) PROVE Onward(t)
  BY <1>0, <1>4 DEF Settle, At, Onward, Locked, Inside, TypeOK, gameVars
<1>5. CASE Checkpoint(t)
  BY <1>0, <1>5 DEF Checkpoint, Become, Commit, Onward, Locked, Inside, TypeOK
<1> QED BY <1>1, <1>2, <1>3, <1>4, <1>5 DEF Proceed

LEMMA LockedStep ==
  ASSUME StakeInv, Next PROVE Locked'
<1>0. TypeOK /\ LockInv /\ Locked /\ LockInv' /\ TypeOK'
  BY LocksStep, TypeStep DEF StakeInv
<1>1. ASSUME NEW t \in Taps, NEW u \in Users, NEW solo \in BOOLEAN, Arrive(t, u, solo)
      PROVE  Locked'
  <2>1. Acquire(t, u) /\ clock' = clock /\ \A v \in Taps \ {t} : tap'[v] = tap[v]
    BY <1>0, <1>1 DEF Arrive, TypeOK
  <2>2. tap'[t].user = u /\ tap'[t].now = clock /\ tap'[t].step = "queued"
    BY <1>0, <1>1 DEF Arrive, TypeOK, Fresh
  <2>3. key'[t] = u /\ slot'[t] # None
    BY <1>0, <2>1, Constants DEF Acquire, LockInv, LocksType, KeyOfSlot, Taps, Users
  <2>4. clock - clock <= Patience BY <1>0, Constants DEF TypeOK
  <2>5. \A v \in Taps \ {t} : slot[v] # None =>
          /\ slot'[v] = slot[v] /\ key'[v] = key[v]
          /\ Holds(v) => Holds(v)'
    BY <1>0, <2>1, AcquireKeeps DEF Taps, Users
  <2>6. \A v \in Taps \ {t} :
          /\ tap'[v].step \in Inside => Holds(v)'
          /\ tap'[v].step \in Inside \cup {"queued"} =>
               key'[v] = tap'[v].user /\ tap'[v].user \in Users /\ slot'[v] # None
          /\ tap'[v].step \notin {"idle", "done"} => clock' - tap'[v].now <= Patience
    BY <1>0, <2>1, <2>5 DEF Locked
  <2> QED BY <2>1, <2>2, <2>3, <2>4, <2>6 DEF Locked, Inside
<1>2. ASSUME NEW t \in Taps, Leave(t) PROVE Locked'
  <2>1. /\ Release(t) /\ clock' = clock /\ \A v \in Taps \ {t} : tap'[v] = tap[v]
        /\ tap'[t].step = "left" /\ tap'[t].now = tap[t].now /\ At(t, "leaving")
    BY <1>0, <1>2 DEF Leave, Become, TypeOK, gameVars
  <2>2. \A v \in Taps \ {t} :
          /\ slot'[v] = slot[v] /\ key'[v] = key[v]
          /\ Holds(v) => Holds(v)'
    BY <1>0, <2>1, ReleaseKeeps DEF Taps
  <2> QED BY <1>0, <2>1, <2>2 DEF Locked, Inside, At
<1>3. ASSUME NEW t \in Taps, Return(t) PROVE Locked'
  <2>1. /\ UNCHANGED <<lockVars, clock>> /\ \A v \in Taps \ {t} : tap'[v] = tap[v]
        /\ tap' = [tap EXCEPT ![t] = Ended(t)]
    BY <1>0, <1>3 DEF Return, Commit, TypeOK
  <2>2. Ended(t).step = "done"
    BY <1>0 DEF Ended, TypeOK, Fresh
  <2>3. tap'[t].step = "done" BY <1>0, <2>1, <2>2 DEF TypeOK
  <2>4. \A v \in Taps : Holds(v)' = Holds(v) BY <2>1 DEF Holds, lockVars
  <2>5. UNCHANGED <<key, slot, clock>> BY <2>1 DEF lockVars
  <2> QED BY <1>0, <2>1, <2>3, <2>4, <2>5 DEF Locked, Inside
<1>4. ASSUME NEW t \in Taps, Onward(t) PROVE Locked'
  BY <1>0, <1>4 DEF Onward, Locked, Inside, Holds, lockVars
<1>5. ASSUME UNCHANGED <<lockVars, tap, clock>> PROVE Locked'
  BY <1>0, <1>5 DEF Locked, Holds, lockVars
<1>6. ASSUME Tick PROVE Locked'
  <2>1. UNCHANGED <<lockVars, tap>> /\ clock' = clock + 1 BY <1>6 DEF Tick
  <2>2. \A t \in Taps : tap[t].step \notin {"idle", "done"} => clock' - tap[t].now <= Patience
    BY <1>0, <1>6, Constants DEF Tick, TypeOK
  <2>3. \A t \in Taps : Holds(t)' = Holds(t) BY <2>1 DEF Holds, lockVars
  <2>4. UNCHANGED <<key, slot>> BY <2>1 DEF lockVars
  <2>5. tap' = tap BY <2>1
  <2> QED BY <1>0, <2>2, <2>3, <2>4, <2>5 DEF Locked
<1>7. ASSUME Crash PROVE Locked'
  <2>1. \A t \in Taps : tap'[t].step \in {"idle", "done"}
    BY <1>0, <1>7 DEF Crash, At, Ended, Fresh, TypeOK
  <2> QED BY <2>1 DEF Locked, Inside
<1> QED BY <1>1, <1>2, <1>3, <1>4, <1>5, <1>6, <1>7, OnwardSteps DEF Next, Move, Prune, Proceed

LEMMA AffordableStep ==
  ASSUME StakeInv, Next PROVE Affordable'
<1>0. TypeOK /\ Affordable /\ Locked BY DEF StakeInv
<1>1. ASSUME NEW t \in Taps, NEW u \in Users, NEW solo \in BOOLEAN, Arrive(t, u, solo)
      PROVE  Affordable'
  <2>1. /\ UNCHANGED <<wallet, writer>> /\ \A v \in Taps \ {t} : tap'[v] = tap[v]
        /\ tap'[t].coins = 0 /\ tap'[t].step = "queued" /\ At(t, "idle")
    BY <1>0, <1>1 DEF Arrive, TypeOK, Fresh, gameVars
  <2> QED BY <1>0, <2>1 DEF Affordable, At
<1>2. ASSUME NEW t \in Taps, Check(t) \/ Decline(t) \/ Leave(t) PROVE Affordable'
  <2>1. /\ UNCHANGED <<wallet, writer>> /\ \A v \in Taps \ {t} : tap'[v] = tap[v]
        /\ tap'[t].coins = tap[t].coins
        /\ \/ tap[t].step \in {"queued", "checked"} /\ tap'[t].step \in {"checked", "leaving"}
           \/ tap[t].step = "leaving" /\ tap'[t].step = "left"
    BY <1>0, <1>2 DEF Check, Decline, Leave, Become, At, TypeOK, gameVars
  <2> QED BY <1>0, <2>1 DEF Affordable, At
<1>3. ASSUME NEW t \in Taps, Fail(t) PROVE Affordable'
  <2>1. /\ wallet' = wallet /\ \A v \in Taps \ {t} : tap'[v] = tap[v]
        /\ tap'[t].step = "leaving" /\ writer' = IF writer = t THEN None ELSE writer
    BY <1>0, <1>3 DEF Fail, TypeOK, gameVars
  <2> QED BY <1>0, <2>1, Constants DEF Affordable, At
<1>4. ASSUME NEW t \in Taps, Stake(t) \/ Challenge(t) PROVE Affordable'
  <2>1. /\ wallet' = wallet /\ \A v \in Taps \ {t} : tap'[v] = tap[v]
        /\ writer = None /\ writer' = t /\ tap[t].coins = 0
        /\ \/ tap'[t].step = "spent" /\ tap'[t].coins = - Bet /\ wallet[tap[t].user] >= Bet
           \/ tap'[t].step \in {"short", "played"} /\ tap'[t].coins = 0
        /\ tap'[t].user = tap[t].user
    BY <1>0, <1>4 DEF Stake, Challenge, Become, At, TypeOK, Affordable, gameVars
  <2>2. tap[t].user \in Users
    BY <1>0, <1>4 DEF Stake, Challenge, At, Locked, Inside
  <2>3. wallet[tap[t].user] \in 0..MaxAmount BY <1>0, <2>2 DEF TypeOK
  <2>4. \A v \in Taps : tap[v].step \notin {"spent", "played"}
    BY <1>0, <2>1, Constants DEF Affordable
  <2>5. tap'[t].step \in {"spent", "played"} => wallet[tap[t].user] + tap'[t].coins \in 0..MaxAmount
    BY <2>1, <2>3, Constants
  <2> QED BY <1>0, <2>1, <2>4, <2>5, Constants DEF Affordable, At
<1>5. ASSUME NEW t \in Taps, NEW won \in BOOLEAN, Settle(t, won) PROVE Affordable'
  <2> DEFINE gain == IF won THEN Payout ELSE 0
  <2>1. /\ UNCHANGED <<wallet, writer>> /\ \A v \in Taps \ {t} : tap'[v] = tap[v]
        /\ tap'[t].coins = tap[t].coins + gain /\ tap'[t].user = tap[t].user
        /\ tap'[t].step = "played" /\ tap[t].step = "spent"
    BY <1>0, <1>5 DEF Settle, At, TypeOK, gameVars
  <2>2. writer = t /\ wallet[tap[t].user] + tap[t].coins \in 0..MaxAmount /\ tap[t].coins \in Int
    BY <1>0, <2>1 DEF Affordable, TypeOK
  <2>3. tap[t].user \in Users BY <1>0, <2>1 DEF Locked, Inside
  <2>4. wallet[tap[t].user] \in Int BY <1>0, <2>3 DEF TypeOK
  <2>5. won => wallet[tap[t].user] + tap[t].coins + Payout <= MaxAmount
    BY <1>5 DEF Settle, Creditable
  <2>6. wallet[tap[t].user] + tap'[t].coins \in 0..MaxAmount
    BY <2>1, <2>2, <2>4, <2>5, Constants
  <2> QED BY <1>0, <2>1, <2>2, <2>6 DEF Affordable, At
<1>6. ASSUME NEW t \in Taps, Checkpoint(t) PROVE Affordable'
  <2>1. /\ writer = t /\ writer' = None /\ \A v \in Taps \ {t} : tap'[v] = tap[v]
        /\ tap'[t].step = "leaving"
    BY <1>0, <1>6 DEF Checkpoint, Commit, Become, TypeOK
  <2>2. \A v \in Taps \ {t} : tap[v].step \notin {"spent", "played"}
    BY <1>0, <2>1 DEF Affordable
  <2> QED BY <1>0, <2>1, <2>2, Constants DEF Affordable, At
<1>7. \A t \in Taps : Ended(t).step = "done"
  BY <1>0 DEF Ended, TypeOK, Fresh
<1>8. ASSUME NEW t \in Taps, Return(t) PROVE Affordable'
  <2>1. writer # t BY <1>0, <1>8 DEF Return, At, Affordable
  <2>2. /\ UNCHANGED <<wallet, writer>> /\ \A v \in Taps \ {t} : tap'[v] = tap[v]
        /\ tap'[t].step = "done"
    BY <1>0, <1>7, <1>8, <2>1 DEF Return, TypeOK, gameVars
  <2> QED BY <1>0, <2>1, <2>2 DEF Affordable, At
<1>9. ASSUME NEW u \in Users, NEW coins \in {-1, 1}, Move(u, coins) PROVE Affordable'
  <2>1. \A v \in Taps : tap[v].step \notin {"spent", "played"}
    BY <1>0, <1>9, Constants DEF Affordable, Move
  <2> QED BY <1>0, <1>9, <2>1 DEF Affordable, At, Move
<1>10. ASSUME UNCHANGED <<tap, wallet, writer>> PROVE Affordable'
  BY <1>0, <1>10 DEF Affordable, At
<1>11. ASSUME Crash PROVE Affordable'
  <2>1. writer' = None /\ \A t \in Taps : tap'[t].step = "done" \/ (tap'[t] = tap[t] /\ At(t, "idle"))
    BY <1>0, <1>7, <1>11 DEF Crash
  <2> QED BY <1>0, <2>1, Constants DEF Affordable, At
<1> QED BY <1>1, <1>2, <1>3, <1>4, <1>5, <1>6, <1>8, <1>9, <1>10, <1>11
        DEF Next, Proceed, Prune, Tick, gameVars

\* What a step may do to the stamps: keep them, or add that of a tap which holds
\* its player's lock and has just played.
StampedBy(t) ==
  /\ history' = history \cup {t} /\ plays' = plays \cup {t}
  /\ At(t, "played") /\ Onward(t) /\ At(t, "leaving")'

LEMMA StampsKept ==
  ASSUME StakeInv, Next
  PROVE  /\ \A q \in history : tap'[q].user = tap[q].user /\ tap'[q].now = tap[q].now
         /\ history' = history \/ \E t \in Taps : StampedBy(t)
<1>0. TypeOK /\ Affordable /\ Recorded BY DEF StakeInv
<1>1. ASSUME NEW t \in Taps, NEW u \in Users, NEW solo \in BOOLEAN, Arrive(t, u, solo)
      PROVE  history' = history /\ \A q \in history : tap'[q] = tap[q]
  BY <1>0, <1>1 DEF Arrive, At, Recorded, TypeOK, gameVars
<1>2. ASSUME NEW t \in Taps, Checkpoint(t)
      PROVE  history' = history \/ StampedBy(t)
  <2>1. Onward(t) BY <1>2, OnwardSteps DEF Proceed, Checkpoint, Leave, Return, At
  <2> QED BY <1>0, <1>2, <2>1 DEF Checkpoint, Commit, Become, At, StampedBy, TypeOK
<1>3. ASSUME NEW t \in Taps, Onward(t)
      PROVE  \A q \in history : tap'[q].user = tap[q].user /\ tap'[q].now = tap[q].now
  BY <1>0, <1>3 DEF Onward, TypeOK
<1>4. ASSUME NEW t \in Taps, Check(t) \/ Decline(t) \/ Stake(t) \/ Challenge(t) \/ Fail(t)
      PROVE  history' = history
  BY <1>4 DEF Check, Decline, Stake, Challenge, Fail, gameVars
<1>5. ASSUME NEW t \in Taps, NEW won \in BOOLEAN, Settle(t, won) PROVE history' = history
  BY <1>5 DEF Settle, gameVars
<1>6. ASSUME NEW t \in Taps, Leave(t)
      PROVE  /\ history' = history
             /\ \A q \in history : tap'[q].user = tap[q].user /\ tap'[q].now = tap[q].now
  BY <1>0, <1>6 DEF Leave, Become, TypeOK, gameVars
<1>7. ASSUME history' = history
      PROVE  \A q \in history : Ended(q).user = tap[q].user /\ Ended(q).now = tap[q].now
  BY <1>0, <1>7 DEF Ended, TypeOK
<1>8. ASSUME NEW t \in Taps, Return(t)
      PROVE  /\ history' = history
             /\ \A q \in history : tap'[q].user = tap[q].user /\ tap'[q].now = tap[q].now
  <2>1. writer # t BY <1>0, <1>8 DEF Return, At, Affordable
  <2>2. history' = history /\ tap' = [tap EXCEPT ![t] = Ended(t)]
    BY <1>8, <2>1 DEF Return, gameVars
  <2> QED BY <1>0, <1>7, <2>2 DEF TypeOK
<1>9. ASSUME Crash
      PROVE  /\ history' = history
             /\ \A q \in history : tap'[q].user = tap[q].user /\ tap'[q].now = tap[q].now
  BY <1>0, <1>7, <1>9 DEF Crash, TypeOK, gameVars
<1>10. ASSUME \/ \E u \in Users, coins \in {-1, 1} : Move(u, coins)
              \/ Prune \/ Tick
       PROVE  UNCHANGED <<tap, history>>
  BY <1>10 DEF Move, Prune, Tick, gameVars
<1>11. ASSUME NEW t \in Taps, Proceed(t)
       PROVE  Leave(t) \/ Return(t) \/ Onward(t)
  BY <1>11, OnwardSteps
<1> QED BY <1>1, <1>2, <1>3, <1>4, <1>5, <1>6, <1>8, <1>9, <1>10, <1>11 DEF Next, Proceed

\* Who plays was playing already, or has just been allowed to.
LEMMA PlayingWas ==
  ASSUME StakeInv, Next, NEW v \in Taps, tap'[v].step \in Playing
  PROVE  /\ tap'[v].user = tap[v].user /\ tap'[v].now = tap[v].now
         /\ \/ tap[v].step \in Playing
            \/ At(v, "queued") /\ Allowed(v) /\ history' = history
<1>0. TypeOK /\ TypeOK' BY TypeStep DEF StakeInv
<1>1. ASSUME NEW t \in Taps, NEW u \in Users, NEW solo \in BOOLEAN, Arrive(t, u, solo)
      PROVE  tap'[v] = tap[v]
  BY <1>0, <1>1 DEF Arrive, TypeOK, Fresh, Playing
<1>2. ASSUME NEW t \in Taps, Onward(t)
      PROVE  tap'[v].user = tap[v].user /\ tap'[v].now = tap[v].now /\ (v # t => tap'[v] = tap[v])
  BY <1>2 DEF Onward
<1>3. Check(v) => At(v, "queued") /\ Allowed(v) /\ history' = history
  BY <1>0 DEF Check, Become, TypeOK, Playing, gameVars
<1>4. Stake(v) \/ Challenge(v) \/ (\E won \in BOOLEAN : Settle(v, won)) => tap[v].step \in Playing
  BY DEF Stake, Challenge, Settle, At, Playing
<1>5. ~ Decline(v) /\ ~ Fail(v) /\ ~ Checkpoint(v) /\ ~ Leave(v)
  BY <1>0 DEF Decline, Fail, Checkpoint, Leave, Become, TypeOK, Playing
<1>6. \A t \in Taps : Ended(t).step = "done"
  BY <1>0 DEF Ended, TypeOK, Fresh
<1>7. ASSUME NEW t \in Taps, Leave(t) \/ Return(t) PROVE tap'[v] = tap[v]
  <2>1. CASE Leave(t) BY <1>0, <2>1 DEF Leave, Become, TypeOK, Playing
  <2>2. CASE Return(t) BY <1>0, <1>6, <2>2 DEF Return, TypeOK, Playing
  <2> QED BY <1>7, <2>1, <2>2
<1>8. ASSUME Crash PROVE FALSE
  <2>1. tap'[v].step = "done" \/ tap'[v].step = "idle"
    BY <1>0, <1>6, <1>8 DEF Crash, At
  <2> QED BY <2>1 DEF Playing
<1>9. ASSUME \/ \E u \in Users, coins \in {-1, 1} : Move(u, coins)
             \/ Prune \/ Tick
      PROVE  tap' = tap
  BY <1>9 DEF Move, Prune, Tick
<1>10. ASSUME NEW t \in Taps, Proceed(t)
       PROVE  Leave(t) \/ Return(t) \/ Onward(t)
  BY <1>10, OnwardSteps
<1>11. ASSUME NEW t \in Taps, Proceed(t)
       PROVE  /\ tap'[v].user = tap[v].user /\ tap'[v].now = tap[v].now
              /\ \/ tap[v].step \in Playing
                 \/ At(v, "queued") /\ Allowed(v) /\ history' = history
  <2>1. CASE Leave(t) \/ Return(t) BY <1>7, <2>1
  <2>2. CASE Onward(t) /\ t # v BY <1>2, <2>2
  <2>3. CASE Onward(t) /\ t = v
    <3>1. ~ Return(v) BY <1>0, <1>6 DEF Return, TypeOK, Playing
    <3> QED BY <1>2, <1>3, <1>4, <1>5, <1>11, <2>3, <3>1 DEF Proceed
  <2> QED BY <1>10, <1>11, <2>1, <2>2, <2>3
<1> QED BY <1>1, <1>8, <1>9, <1>11 DEF Next

LEMMA RecordedStep ==
  ASSUME StakeInv, Next PROVE Recorded'
<1>0. TypeOK /\ TypeOK' /\ Affordable /\ Recorded BY TypeStep DEF StakeInv
<1>1. \A q \in history : tap'[q].now = tap[q].now BY StampsKept
<1>2. ASSUME NEW t \in Taps, StampedBy(t), Checkpoint(t) PROVE Recorded'
  <2>1. /\ history' = history \cup {t} /\ plays' = plays \cup {t} /\ clock' = clock
        /\ tap'[t].step = "leaving" /\ \A v \in Taps \ {t} : tap'[v] = tap[v]
    BY <1>2 DEF StampedBy, Onward, At
  <2> QED BY <1>0, <1>1, <2>1 DEF Recorded, TypeOK
<1>3. ASSUME NEW t \in Taps, Checkpoint(t), ~ StampedBy(t) PROVE Recorded'
  <2>1. Onward(t) BY <1>3, OnwardSteps DEF Proceed, Checkpoint, Leave, Return, At
  <2>2. UNCHANGED <<plays, history, clock>> /\ tap'[t].step = "leaving"
    BY <1>0, <1>3, <2>1 DEF Checkpoint, Commit, Become, At, StampedBy, TypeOK
  <2> QED BY <1>0, <1>1, <2>1, <2>2 DEF Recorded, Onward, TypeOK
<1>4. ASSUME NEW t \in Taps, Check(t) \/ Decline(t) \/ Stake(t) \/ Challenge(t) \/ Fail(t)
                             \/ \E won \in BOOLEAN : Settle(t, won)
      PROVE  Recorded'
  <2>1. UNCHANGED <<plays, history, clock>> /\ tap[t].step \notin {"leaving", "left", "done"}
    BY <1>4 DEF Check, Decline, Stake, Challenge, Fail, Settle, At, gameVars
  <2>2. \A v \in Taps \ {t} : tap'[v] = tap[v]
    BY <1>0, <1>4 DEF Check, Decline, Stake, Challenge, Fail, Settle, Become, TypeOK
  <2> QED BY <1>0, <1>1, <2>1, <2>2 DEF Recorded, TypeOK
<1>5. \A t \in Taps : Ended(t).step = "done"
  BY <1>0 DEF Ended, TypeOK, Fresh
<1>6. ASSUME NEW t \in Taps, Leave(t) \/ Return(t) PROVE Recorded'
  <2>1. writer # t BY <1>0, <1>6 DEF Leave, Return, At, Affordable
  <2>2. UNCHANGED <<plays, history, clock>>
    BY <1>6, <2>1 DEF Leave, Return, gameVars
  <2>3. /\ tap'[t].step \in {"left", "done"}
        /\ \A v \in Taps \ {t} : tap'[v] = tap[v]
    BY <1>0, <1>5, <1>6 DEF Leave, Return, Become, TypeOK
  <2> QED BY <1>0, <1>1, <2>2, <2>3 DEF Recorded, TypeOK
<1>7. ASSUME NEW t \in Taps, NEW u \in Users, NEW solo \in BOOLEAN, Arrive(t, u, solo)
      PROVE  Recorded'
  <2>1. t \notin history /\ UNCHANGED <<plays, history, clock>>
    BY <1>0, <1>7 DEF Arrive, At, Recorded, gameVars
  <2>2. \A v \in Taps \ {t} : tap'[v] = tap[v] BY <1>0, <1>7 DEF Arrive, TypeOK
  <2> QED BY <1>0, <2>1, <2>2 DEF Recorded, TypeOK
<1>8. ASSUME NEW u \in Users, NEW coins \in {-1, 1}, Move(u, coins) PROVE Recorded'
  BY <1>0, <1>8 DEF Move, Recorded
<1>9. ASSUME Prune PROVE Recorded'
  <2>1. \A t \in history : t \notin plays' => t \notin plays \/ tap[t].now < clock - Retention
    BY <1>0, <1>9, Constants DEF Prune, Kept, TypeOK
  <2> QED BY <1>0, <1>9, <2>1 DEF Prune, Recorded
<1>10. ASSUME Tick PROVE Recorded'
  <2>1. UNCHANGED <<tap, history, plays>> BY <1>10 DEF Tick, gameVars
  <2>2. \A t \in history : tap[t].now < clock - Retention => tap[t].now < clock' - Retention
    BY <1>0, <1>10, Constants DEF Tick, TypeOK
  <2> QED BY <1>0, <2>1, <2>2 DEF Recorded
<1>11. ASSUME Crash PROVE Recorded'
  <2>1. UNCHANGED <<plays, history, clock>> BY <1>11 DEF Crash, gameVars
  <2>2. \A t \in history : tap'[t].step = "done"
    BY <1>0, <1>5, <1>11 DEF Crash, At, Recorded, TypeOK
  <2> QED BY <1>0, <1>1, <2>1, <2>2 DEF Recorded
<1> QED BY <1>2, <1>3, <1>4, <1>6, <1>7, <1>8, <1>9, <1>10, <1>11 DEF Next, Proceed

\* Nobody stamps a play between the reading of the caps and the player's own
\* stamp, and the cleanup has deleted nothing that the caps should have read.
LEMMA RoomStep ==
  ASSUME StakeInv, Next PROVE Room'
<1>0. TypeOK /\ LockInv /\ Locked /\ Recorded /\ Room BY DEF StakeInv
<1> SUFFICES ASSUME NEW v \in Taps, tap'[v].step \in Playing
             PROVE  /\ Cardinality(Since(v, Hour)') < HourCap
                    /\ Cardinality(Since(v, Day)') < DayCap
  BY DEF Room
<1>1. /\ tap'[v].user = tap[v].user /\ tap'[v].now = tap[v].now
      /\ \/ tap[v].step \in Playing
         \/ At(v, "queued") /\ Allowed(v) /\ history' = history
  BY PlayingWas
<1>2. /\ \A q \in history : tap'[q].user = tap[q].user /\ tap'[q].now = tap[q].now
      /\ history' = history \/ \E t \in Taps : StampedBy(t)
  BY StampsKept
<1>3. ASSUME history' = history
      PROVE  Since(v, Hour)' = Since(v, Hour) /\ Since(v, Day)' = Since(v, Day)
  BY <1>1, <1>2, <1>3 DEF Since
<1>4. CASE history' = history /\ tap[v].step \in Playing
  BY <1>0, <1>3, <1>4 DEF Room
<1>5. CASE history' = history /\ At(v, "queued") /\ Allowed(v)
  <2>1. clock - tap[v].now <= Patience
    BY <1>0, <1>5 DEF Locked, At
  <2>2. \A q \in history : tap[q].now >= tap[v].now - Day => q \in plays
    BY <1>0, <2>1, Constants DEF Recorded, TypeOK
  <2>3. \A q \in history : tap[q].now >= tap[v].now - Hour => q \in plays
    BY <1>0, <2>2, Constants DEF TypeOK
  <2>4. Since(v, Hour) = {q \in PlaysOf(tap[v].user) : tap[q].now >= tap[v].now - Hour}
    BY <1>0, <2>3 DEF Since, PlaysOf, TypeOK
  <2>5. Since(v, Day) = {q \in PlaysOf(tap[v].user) : tap[q].now >= tap[v].now - Day}
    BY <1>0, <2>2 DEF Since, PlaysOf, TypeOK
  <2> QED BY <1>3, <1>5, <2>4, <2>5 DEF Allowed, CountSince
<1>6. ASSUME NEW t \in Taps, StampedBy(t), tap[v].step \in Playing
      PROVE  Since(v, Hour)' = Since(v, Hour) /\ Since(v, Day)' = Since(v, Day)
  <2>1. t # v BY <1>6 DEF StampedBy, At, Playing
  <2>2. Holds(t) /\ Holds(v) /\ key[t] = tap[t].user /\ key[v] = tap[v].user
    BY <1>0, <1>6 DEF StampedBy, At, Locked, Inside, Playing
  <2>3. tap[t].user # tap[v].user
    BY <1>0, <2>1, <2>2, LockInvExcludes DEF LocksExclude, Taps
  <2>4. tap'[t].user = tap[t].user BY <1>6 DEF StampedBy, Onward
  <2>5. history' = history \cup {t} BY <1>6 DEF StampedBy
  <2> QED BY <1>1, <1>2, <2>3, <2>4, <2>5 DEF Since
<1> QED BY <1>0, <1>1, <1>2, <1>4, <1>5, <1>6 DEF Room, StampedBy

\* A stamp enters only windows in which there was room for it.
LEMMA CapsStep ==
  ASSUME StakeInv, Next PROVE CapsHold'
<1>0. TypeOK /\ Locked /\ Room /\ CapsHold BY DEF StakeInv
<1>2. \A q \in history : tap'[q].user = tap[q].user /\ tap'[q].now = tap[q].now
  BY StampsKept
<1>3. CASE history' = history
  <2>1. \A p \in history, w \in {Hour, Day} : Within(p, w)' = Within(p, w)
    BY <1>2, <1>3 DEF Within
  <2> QED BY <1>0, <1>3, <2>1 DEF CapsHold
<1>4. ASSUME NEW t \in Taps, StampedBy(t) PROVE CapsHold'
  <2>1. /\ history' = history \cup {t} /\ tap'[t].user = tap[t].user /\ tap'[t].now = tap[t].now
        /\ tap[t].step = "played" /\ TypeOK'
    BY <1>4, TypeStep DEF StampedBy, Onward, At
  <2>2. ASSUME NEW w \in {Hour, Day}, NEW cap \in {HourCap, DayCap}, NEW p \in history',
               Cardinality(Since(t, w)) < cap, p \in history => Cardinality(Within(p, w)) <= cap
        PROVE  Cardinality(Within(p, w)') <= cap
    <3>1. CASE t \notin Within(p, w)'
      <4>1. p \in history /\ Within(p, w)' = Within(p, w)
        <5>1. p # t
          <6>1. tap[t].now \in tap[t].now - w .. tap[t].now BY <1>0, Constants DEF TypeOK
          <6> QED BY <2>1, <3>1, <6>1 DEF Within
        <5> QED BY <1>2, <2>1, <3>1, <5>1 DEF Within
      <4> QED BY <2>2, <4>1
    <3>2. CASE t \in Within(p, w)'
      <4>1. tap'[p].user = tap[t].user /\ tap[t].now <= tap'[p].now /\ tap'[p].now \in Nat
        BY <2>1, <3>2 DEF Within, TypeOK
      <4>2. Within(p, w)' \subseteq Since(t, w) \cup {t}
        <5> SUFFICES ASSUME NEW q \in history, q # t, q \in Within(p, w)'
                     PROVE  q \in Since(t, w)
          BY <2>1 DEF Within
        <5>1. tap[q].user = tap[t].user BY <1>2, <4>1 DEF Within
        <5>2. tap[q].now >= tap'[p].now - w BY <1>0, <1>2, <4>1, Constants DEF Within, TypeOK
        <5>3. tap[q].now >= tap[t].now - w
          BY <1>0, <4>1, <5>2, Constants DEF TypeOK
        <5> QED BY <5>1, <5>3 DEF Since
      <4>3. IsFiniteSet(Since(t, w)) /\ IsFiniteSet(Since(t, w) \cup {t})
        BY <1>0, Constants, FS_Subset, FS_AddElement DEF Since, TypeOK
      <4>4. Cardinality(Since(t, w) \cup {t}) <= Cardinality(Since(t, w)) + 1
        BY <4>3, FS_AddElement, FS_CardinalityType
      <4>5. Cardinality(Within(p, w)') <= Cardinality(Since(t, w) \cup {t})
        BY <4>2, <4>3, FS_Subset
      <4>6. /\ Cardinality(Within(p, w)') \in Nat /\ Cardinality(Since(t, w)) \in Nat
            /\ Cardinality(Since(t, w) \cup {t}) \in Nat
        BY <4>2, <4>3, FS_Subset, FS_CardinalityType
      <4> QED BY <2>2, <4>4, <4>5, <4>6, Constants
    <3> QED BY <3>1, <3>2
  <2>3. Cardinality(Since(t, Hour)) < HourCap /\ Cardinality(Since(t, Day)) < DayCap
    BY <1>0, <2>1 DEF Room, Playing
  <2> QED BY <1>0, <2>2, <2>3 DEF CapsHold
<1> QED BY <1>3, <1>4, StampsKept

-----------------------------------------------------------------------------
LEMMA Invariance == Spec => []StakeInv
<1>1. StakeInv /\ [Next]_vars => StakeInv'
  BY LocksStep, TypeStep, LockedStep, AffordableStep, RecordedStep, RoomStep, CapsStep,
     StutterInv DEF StakeInv
<1> QED BY <1>1, InitInv, PTL DEF Spec

\* The wallets stay in 0.._MAX_AMOUNT, whatever games end in whatever order.
THEOREM TypeCorrect == Spec => []TypeOK
<1>1. StakeInv => TypeOK BY DEF StakeInv
<1> QED BY <1>1, Invariance, PTL

\* PLAY_LOCKS: one handler of a player at a time, whatever restarts, and _entries
\* holds a key exactly as long as a call of acquire uses it.
THEOREM LocksAreAlwaysSound == Spec => []LocksAreSound
<1>1. StakeInv => LocksAreSound BY LockInvExcludes DEF StakeInv, LocksAreSound
<1> QED BY <1>1, Invariance, PTL

\* The hourly and the daily cap hold for every rolling window.
THEOREM CapsAreReal == Spec => []CapsHold
<1>1. StakeInv => CapsHold BY DEF StakeInv
<1> QED BY <1>1, Invariance, PTL

-----------------------------------------------------------------------------
(* The queues of the locks: who has a slot stands in its queue, once.      *)

Lined == \A t \in Tasks : slot[t] # None =>
           \E i \in 1..Len(queue[slot[t]]) : queue[slot[t]][i] = t
Waiting == \A s \in Slots : \A i \in 1..Len(queue[s]) :
             queue[s][i] \in Tasks /\ slot[queue[s][i]] = s
NoneTwice == \A s \in Slots : \A i, j \in 1..Len(queue[s]) :
               queue[s][i] = queue[s][j] => i = j

QueueInv == Lined /\ Waiting /\ NoneTwice

LEMMA QueueReset ==
  ASSUME queue' = [s \in Slots |-> <<>>], slot' = [t \in Tasks |-> None]
  PROVE  QueueInv'
  BY DEF QueueInv, Lined, Waiting, NoneTwice

LEMMA QueueInit == LockInit => QueueInv
  BY DEF LockInit, QueueInv, Lined, Waiting, NoneTwice

LEMMA QueueStutter == QueueInv /\ UNCHANGED lockVars => QueueInv'
  BY DEF QueueInv, Lined, Waiting, NoneTwice, lockVars

\* What acquire does to one queue: the others keep their tasks.
LEMMA AcquireLines ==
  ASSUME NEW t \in Tasks, NEW k \in Keys, LockInv, QueueInv, Acquire(t, k)
  PROVE  /\ QueueInv'
         /\ \E s \in Slots :
              /\ queue' = [queue EXCEPT ![s] = Append(@, t)]
              /\ \A i \in 1..Len(queue[s]) : queue[s][i] # t
<1>1. PICK s \in Slots : /\ queue' = [queue EXCEPT ![s] = Append(@, t)]
                         /\ slot' = [slot EXCEPT ![t] = s]
  BY DEF Acquire
<1>2. /\ slot[t] = None /\ None \notin Slots
      /\ queue \in [Slots -> Seq(Tasks)] /\ slot \in [Tasks -> Slots \cup {None}]
  BY LocksAssumption DEF Acquire, LockInv, LocksType
<1>3. /\ queue'[s] = Append(queue[s], t) /\ queue[s] \in Seq(Tasks)
      /\ Len(queue'[s]) = Len(queue[s]) + 1 /\ queue'[s][Len(queue[s]) + 1] = t
      /\ \A i \in 1..Len(queue[s]) : queue'[s][i] = queue[s][i]
      /\ Len(queue[s]) \in Nat
      /\ \A r \in Slots \ {s} : queue'[r] = queue[r]
  BY <1>1, <1>2
<1>4. slot'[t] = s /\ \A v \in Tasks \ {t} : slot'[v] = slot[v]
  BY <1>1, <1>2
<1>5. \A r \in Slots : \A i \in 1..Len(queue[r]) : queue[r][i] # t
  BY <1>2 DEF QueueInv, Waiting
<1>6. Lined'
  <2>1. ASSUME NEW v \in Tasks, slot'[v] # None
        PROVE  \E i \in 1..Len(queue'[slot'[v]]) : queue'[slot'[v]][i] = v
    <3>1. CASE v = t
      BY <1>3, <1>4, <3>1
    <3>2. CASE v # t
      <4>1. slot'[v] = slot[v] /\ slot[v] \in Slots
        BY <1>2, <1>4, <2>1, <3>2
      <4>2. PICK i \in 1..Len(queue[slot[v]]) : queue[slot[v]][i] = v
        BY <2>1, <4>1 DEF QueueInv, Lined
      <4>3. CASE slot[v] = s
        BY <1>3, <4>1, <4>2, <4>3
      <4>4. CASE slot[v] # s
        BY <1>3, <4>1, <4>2, <4>4
      <4>. QED
        BY <4>3, <4>4
    <3>. QED
      BY <3>1, <3>2
  <2>. QED
    BY <2>1 DEF Lined
<1>7. Waiting'
  <2>1. ASSUME NEW r \in Slots, NEW i \in 1..Len(queue'[r])
        PROVE  queue'[r][i] \in Tasks /\ slot'[queue'[r][i]] = r
    <3>1. CASE r # s
      BY <1>3, <1>4, <1>5, <3>1 DEF QueueInv, Waiting
    <3>2. CASE r = s /\ i = Len(queue[s]) + 1
      BY <1>3, <1>4, <3>2
    <3>3. CASE r = s /\ i # Len(queue[s]) + 1
      <4>1. i \in 1..Len(queue[s])
        BY <1>3, <3>3
      <4>. QED
        BY <1>3, <1>4, <1>5, <3>3, <4>1 DEF QueueInv, Waiting
    <3>. QED
      BY <3>1, <3>2, <3>3
  <2>. QED
    BY <2>1 DEF Waiting
<1>8. NoneTwice'
  <2>1. ASSUME NEW r \in Slots, NEW i \in 1..Len(queue'[r]), NEW j \in 1..Len(queue'[r]),
               queue'[r][i] = queue'[r][j]
        PROVE  i = j
    <3>1. CASE r # s
      BY <1>3, <2>1, <3>1 DEF QueueInv, NoneTwice
    <3>2. CASE r = s
      <4>1. \/ i \in 1..Len(queue[s]) /\ queue'[s][i] = queue[s][i] /\ queue[s][i] # t
            \/ i = Len(queue[s]) + 1 /\ queue'[s][i] = t
        BY <1>3, <1>5, <3>2
      <4>2. \/ j \in 1..Len(queue[s]) /\ queue'[s][j] = queue[s][j] /\ queue[s][j] # t
            \/ j = Len(queue[s]) + 1 /\ queue'[s][j] = t
        BY <1>3, <1>5, <3>2
      <4>. QED
        BY <2>1, <3>2, <4>1, <4>2 DEF QueueInv, NoneTwice
    <3>. QED
      BY <3>1, <3>2
  <2>. QED
    BY <2>1 DEF NoneTwice
<1>. QED
  BY <1>1, <1>5, <1>6, <1>7, <1>8 DEF QueueInv

\* A release takes the head of one queue away.
LEMMA ReleaseLines ==
  ASSUME NEW t \in Tasks, LockInv, QueueInv, Release(t)
  PROVE  /\ QueueInv'
         /\ \A r \in Slots :
              \/ queue'[r] = queue[r]
              \/ /\ Len(queue'[r]) = Len(queue[r]) - 1 /\ Len(queue[r]) \in Nat
                 /\ \A i \in 1..Len(queue'[r]) : queue'[r][i] = queue[r][i + 1]
<1> DEFINE s == slot[t]
<1>1. /\ s \in Slots /\ queue \in [Slots -> Seq(Tasks)] /\ slot \in [Tasks -> Slots \cup {None}]
      /\ None \notin Slots
      /\ queue[s] # <<>> /\ queue[s][1] = t
      /\ queue' = [queue EXCEPT ![s] = Tail(@)] /\ slot' = [slot EXCEPT ![t] = None]
  BY LocksAssumption DEF Release, Holds, LockInv, LocksType
<1> HIDE DEF s
<1>2. /\ queue'[s] = Tail(queue[s]) /\ Len(queue'[s]) = Len(queue[s]) - 1
      /\ Len(queue[s]) \in Nat /\ Len(queue[s]) >= 1
      /\ \A i \in 1..Len(queue'[s]) : queue'[s][i] = queue[s][i + 1]
      /\ \A r \in Slots \ {s} : queue'[r] = queue[r]
  BY <1>1
<1>3. slot'[t] = None /\ \A v \in Tasks \ {t} : slot'[v] = slot[v]
  BY <1>1
<1>4. \A i \in 1..Len(queue'[s]) : i + 1 \in 1..Len(queue[s]) /\ queue[s][i + 1] # t
  BY <1>1, <1>2 DEF QueueInv, NoneTwice
<1>5. Lined'
  <2>1. ASSUME NEW v \in Tasks, slot'[v] # None
        PROVE  \E i \in 1..Len(queue'[slot'[v]]) : queue'[slot'[v]][i] = v
    <3>1. v # t /\ slot'[v] = slot[v] /\ slot[v] \in Slots
      BY <1>1, <1>3, <2>1
    <3>2. PICK i \in 1..Len(queue[slot[v]]) : queue[slot[v]][i] = v
      BY <2>1, <3>1 DEF QueueInv, Lined
    <3>3. CASE slot[v] # s
      BY <1>2, <3>1, <3>2, <3>3
    <3>4. CASE slot[v] = s
      <4>1. i # 1 /\ i - 1 \in 1..Len(queue'[s])
        BY <1>1, <1>2, <3>1, <3>2, <3>4
      <4>2. queue'[s][i - 1] = queue[s][i]
        BY <1>2, <4>1
      <4>. QED
        BY <3>1, <3>2, <3>4, <4>1, <4>2
    <3>. QED
      BY <3>3, <3>4
  <2>. QED
    BY <2>1 DEF Lined
<1>6. Waiting'
  <2>1. ASSUME NEW r \in Slots, NEW i \in 1..Len(queue'[r])
        PROVE  queue'[r][i] \in Tasks /\ slot'[queue'[r][i]] = r
    <3>1. CASE r # s
      <4>1. queue'[r][i] \in Tasks /\ slot[queue'[r][i]] = r
        BY <1>2, <3>1 DEF QueueInv, Waiting
      <4>2. slot[t] = s
        BY DEF s
      <4>. QED
        BY <1>3, <3>1, <4>1, <4>2
    <3>2. CASE r = s
      <4>1. /\ queue'[s][i] = queue[s][i + 1] /\ i + 1 \in 1..Len(queue[s])
            /\ queue[s][i + 1] # t
        BY <1>2, <1>4, <3>2
      <4>2. queue[s][i + 1] \in Tasks /\ slot[queue[s][i + 1]] = s
        BY <1>1, <4>1 DEF QueueInv, Waiting
      <4>. QED
        BY <1>3, <3>2, <4>1, <4>2
    <3>. QED
      BY <3>1, <3>2
  <2>. QED
    BY <2>1 DEF Waiting
<1>7. NoneTwice'
  <2>1. ASSUME NEW r \in Slots, NEW i \in 1..Len(queue'[r]), NEW j \in 1..Len(queue'[r]),
               queue'[r][i] = queue'[r][j]
        PROVE  i = j
    <3>1. CASE r # s
      BY <1>2, <2>1, <3>1 DEF QueueInv, NoneTwice
    <3>2. CASE r = s
      <4>1. i + 1 = j + 1
        <5>1. /\ i + 1 \in 1..Len(queue[s]) /\ j + 1 \in 1..Len(queue[s])
              /\ queue'[s][i] = queue[s][i + 1] /\ queue'[s][j] = queue[s][j + 1]
          BY <1>2, <1>4, <3>2
        <5>2. queue[s][i + 1] = queue[s][j + 1]
          BY <2>1, <3>2, <5>1
        <5>. QED
          BY <1>1, <5>1, <5>2 DEF QueueInv, NoneTwice
      <4>. QED
        BY <4>1
    <3>. QED
      BY <3>1, <3>2
  <2>. QED
    BY <2>1 DEF NoneTwice
<1>. QED
  BY <1>2, <1>5, <1>6, <1>7 DEF QueueInv

-----------------------------------------------------------------------------
(* The games rows and the wallets.                                         *)

\* What a handler is about to commit is what its games row will say.
Stated ==
  \A t \in Taps :
    /\ tap[t].step \in {"idle", "queued", "checked", "spent"} => tap[t].profit = 0
    /\ At(t, "played") => tap[t].coins = tap[t].profit

\* The rows of a committed play are never written again.
LEMMA RowsKept ==
  ASSUME StakeInv, Next
  PROVE  \A q \in history :
           /\ tap'[q].user = tap[q].user /\ tap'[q].now = tap[q].now
           /\ tap'[q].solo = tap[q].solo /\ tap'[q].profit = tap[q].profit
<1>0. TypeOK /\ Affordable /\ Recorded BY DEF StakeInv
<1>1. ASSUME NEW t \in Taps, t \notin history, \A v \in Taps \ {t} : tap'[v] = tap[v]
      PROVE  \A q \in history : tap'[q].solo = tap[q].solo /\ tap'[q].profit = tap[q].profit
  BY <1>0, <1>1 DEF TypeOK
<1>2. ASSUME NEW t \in Taps, NEW u \in Users, NEW solo \in BOOLEAN, Arrive(t, u, solo)
      PROVE  \A q \in history : tap'[q].solo = tap[q].solo /\ tap'[q].profit = tap[q].profit
  <2>1. t \notin history BY <1>0, <1>2 DEF Arrive, At, Recorded
  <2>2. \A v \in Taps \ {t} : tap'[v] = tap[v] BY <1>0, <1>2 DEF Arrive, TypeOK
  <2> QED BY <1>1, <2>1, <2>2
<1>3. ASSUME NEW t \in Taps, \/ Check(t) \/ Decline(t) \/ Stake(t) \/ Challenge(t) \/ Fail(t)
                             \/ Checkpoint(t) \/ \E won \in BOOLEAN : Settle(t, won)
      PROVE  \A q \in history : tap'[q].solo = tap[q].solo /\ tap'[q].profit = tap[q].profit
  <2>1. tap[t].step \notin {"leaving", "left", "done"}
    BY <1>3 DEF Check, Decline, Stake, Challenge, Fail, Checkpoint, Settle, At
  <2>2. t \notin history BY <1>0, <2>1 DEF Recorded
  <2>3. \A v \in Taps \ {t} : tap'[v] = tap[v]
    BY <1>0, <1>3 DEF Check, Decline, Stake, Challenge, Fail, Checkpoint, Settle, Become, TypeOK
  <2> QED BY <1>1, <2>2, <2>3
<1>4. ASSUME NEW t \in Taps, Leave(t)
      PROVE  \A q \in history : tap'[q].solo = tap[q].solo /\ tap'[q].profit = tap[q].profit
  BY <1>0, <1>4 DEF Leave, Become, TypeOK
<1>5. ASSUME history' = history
      PROVE  \A q \in history : Ended(q).solo = tap[q].solo /\ Ended(q).profit = tap[q].profit
  BY <1>0, <1>5 DEF Ended, TypeOK
<1>6. ASSUME NEW t \in Taps, Return(t)
      PROVE  \A q \in history : tap'[q].solo = tap[q].solo /\ tap'[q].profit = tap[q].profit
  <2>1. writer # t BY <1>0, <1>6 DEF Return, At, Affordable
  <2>2. history' = history /\ tap' = [tap EXCEPT ![t] = Ended(t)]
    BY <1>6, <2>1 DEF Return, gameVars
  <2> QED BY <1>0, <1>5, <2>2 DEF TypeOK
<1>7. ASSUME Crash
      PROVE  \A q \in history : tap'[q].solo = tap[q].solo /\ tap'[q].profit = tap[q].profit
  BY <1>0, <1>5, <1>7 DEF Crash, TypeOK, gameVars
<1>8. ASSUME \/ \E u \in Users, coins \in {-1, 1} : Move(u, coins)
             \/ Prune \/ Tick
      PROVE  tap' = tap
  BY <1>8 DEF Move, Prune, Tick
<1>9. \A q \in history : tap'[q].solo = tap[q].solo /\ tap'[q].profit = tap[q].profit
  BY <1>2, <1>3, <1>4, <1>6, <1>7, <1>8 DEF Next, Proceed
<1> QED BY <1>9, StampsKept

\* The coins of a handler are committed with its row, as the row says; nothing
\* else moves a wallet but the coins counted in flow.
Booked(t) ==
  /\ t \notin history /\ history' = history \cup {t}
  /\ tap[t].user \in Users /\ tap'[t].user = tap[t].user /\ tap'[t].profit = tap[t].profit
  /\ wallet' = [wallet EXCEPT ![tap[t].user] = @ + tap[t].profit]
  /\ flow' = flow

Moved(u, coins) ==
  /\ wallet' = [wallet EXCEPT ![u] = @ + coins]
  /\ flow' = [flow EXCEPT ![u] = @ + coins]
  /\ history' = history

LEMMA WalletSteps ==
  ASSUME StakeInv, Stated, Next
  PROVE  \/ UNCHANGED <<wallet, flow, history>>
         \/ \E t \in Taps : Booked(t)
         \/ \E u \in Users, coins \in {-1, 1} : Moved(u, coins)
<1>0. TypeOK /\ Affordable /\ Recorded /\ Locked BY DEF StakeInv
<1>1. ASSUME NEW t \in Taps, Checkpoint(t)
      PROVE  UNCHANGED <<wallet, flow, history>> \/ Booked(t)
  <2>1. CASE At(t, "short")
    BY <1>1, <2>1 DEF Checkpoint, Commit
  <2>2. CASE At(t, "played")
    <3>1. t \notin history BY <1>0, <2>2 DEF Recorded, At
    <3>2. tap[t].user \in Users BY <1>0, <2>2 DEF Locked, Inside, At
    <3>3. tap[t].coins = tap[t].profit BY <2>2 DEF Stated
    <3>4. tap'[t].user = tap[t].user /\ tap'[t].profit = tap[t].profit
      BY <1>0, <1>1 DEF Checkpoint, Become, TypeOK
    <3> QED BY <1>1, <2>2, <3>1, <3>2, <3>3, <3>4 DEF Checkpoint, Commit, At, Booked
  <2> QED BY <1>1, <2>1, <2>2 DEF Checkpoint, At
<1>2. ASSUME NEW t \in Taps, Return(t)
      PROVE  UNCHANGED <<wallet, flow, history>>
  BY <1>0, <1>2 DEF Return, At, Affordable, gameVars
<1>3. ASSUME NEW t \in Taps, \/ Check(t) \/ Decline(t) \/ Stake(t) \/ Challenge(t) \/ Fail(t)
                             \/ Leave(t) \/ \E won \in BOOLEAN : Settle(t, won)
      PROVE  UNCHANGED <<wallet, flow, history>>
  BY <1>3 DEF Check, Decline, Stake, Challenge, Fail, Leave, Settle, gameVars
<1>4. ASSUME \/ \E t \in Taps, u \in Users, solo \in BOOLEAN : Arrive(t, u, solo)
             \/ Prune \/ Tick \/ Crash
      PROVE  UNCHANGED <<wallet, flow, history>>
  BY <1>4 DEF Arrive, Prune, Tick, Crash, gameVars
<1>5. ASSUME NEW u \in Users, NEW coins \in {-1, 1}, Move(u, coins) PROVE Moved(u, coins)
  BY <1>5 DEF Move, Moved
<1> QED BY <1>1, <1>2, <1>3, <1>4, <1>5 DEF Next, Proceed

LEMMA StatedStep ==
  ASSUME StakeInv, Stated, Next PROVE Stated'
<1>0. TypeOK /\ Affordable BY DEF StakeInv
<1>1. ASSUME NEW t \in Taps, \A v \in Taps \ {t} : tap'[v] = tap[v],
             /\ tap'[t].step \in {"idle", "queued", "checked", "spent"} => tap'[t].profit = 0
             /\ At(t, "played")' => tap'[t].coins = tap'[t].profit
      PROVE  Stated'
  BY <1>1 DEF Stated, At
<1>2. ASSUME NEW t \in Taps, NEW u \in Users, NEW solo \in BOOLEAN, Arrive(t, u, solo)
      PROVE  Stated'
  <2>1. \A v \in Taps \ {t} : tap'[v] = tap[v] BY <1>0, <1>2 DEF Arrive, TypeOK
  <2>2. tap'[t].step = "queued" /\ tap'[t].profit = 0
    BY <1>0, <1>2 DEF Arrive, TypeOK, Fresh
  <2> QED BY <1>1, <2>1, <2>2 DEF At
<1>3. ASSUME NEW t \in Taps, Check(t) \/ Decline(t) \/ Fail(t) \/ Checkpoint(t) \/ Leave(t)
      PROVE  Stated'
  <2>1. \A v \in Taps \ {t} : tap'[v] = tap[v]
    BY <1>0, <1>3 DEF Check, Decline, Fail, Checkpoint, Leave, Become, TypeOK
  <2>2. \/ tap'[t].step \in {"leaving", "left"}
        \/ At(t, "queued") /\ tap'[t].step = "checked" /\ tap'[t].profit = tap[t].profit
    BY <1>0, <1>3 DEF Check, Decline, Fail, Checkpoint, Leave, Become, TypeOK
  <2> QED BY <1>1, <2>1, <2>2 DEF Stated, At
<1>4. ASSUME NEW t \in Taps, Stake(t) \/ Challenge(t) PROVE Stated'
  <2>1. \A v \in Taps \ {t} : tap'[v] = tap[v]
    BY <1>0, <1>4 DEF Stake, Challenge, Become, TypeOK
  <2>2. tap[t].profit = 0 /\ tap[t].coins = 0
    BY <1>0, <1>4 DEF Stake, Challenge, Stated, Affordable, At
  <2>3. CASE Stake(t)
    <3>1. tap'[t].step \in {"spent", "short"} /\ tap'[t].profit = tap[t].profit
      BY <1>0, <2>3 DEF Stake, Become, TypeOK
    <3> QED BY <1>1, <2>1, <2>2, <3>1 DEF At
  <2>4. CASE Challenge(t)
    <3>1. /\ tap'[t].step = "played" /\ tap'[t].profit = tap[t].profit
          /\ tap'[t].coins = tap[t].coins
      BY <1>0, <2>4 DEF Challenge, Become, TypeOK
    <3> QED BY <1>1, <2>1, <2>2, <3>1 DEF At
  <2> QED BY <1>4, <2>3, <2>4
<1>5. ASSUME NEW t \in Taps, NEW won \in BOOLEAN, Settle(t, won) PROVE Stated'
  <2> DEFINE gain == IF won THEN Payout ELSE 0
  <2>1. \A v \in Taps \ {t} : tap'[v] = tap[v] BY <1>0, <1>5 DEF Settle, TypeOK
  <2>2. tap[t].coins = - Bet /\ gain \in Int /\ Bet \in Int
    BY <1>0, <1>5, Constants DEF Settle, Affordable, At
  <2>3. tap'[t].step = "played" /\ tap'[t].coins = tap[t].coins + gain /\ tap'[t].profit = gain - Bet
    BY <1>0, <1>5 DEF Settle, TypeOK
  <2> HIDE DEF gain
  <2>4. tap'[t].coins = tap'[t].profit BY <2>2, <2>3
  <2> QED BY <1>1, <2>1, <2>3, <2>4
<1>6. \A t \in Taps : Ended(t).step = "done"
  BY <1>0 DEF Ended, TypeOK, Fresh
<1>7. ASSUME NEW t \in Taps, Return(t) PROVE Stated'
  <2>1. /\ \A v \in Taps \ {t} : tap'[v] = tap[v]
        /\ tap'[t].step = "done"
    BY <1>0, <1>6, <1>7 DEF Return, TypeOK
  <2> QED BY <1>1, <2>1 DEF At
<1>8. ASSUME Crash PROVE Stated'
  <2>1. \A t \in Taps : tap'[t].step = "done" \/ (tap'[t] = tap[t] /\ At(t, "idle"))
    BY <1>0, <1>6, <1>8 DEF Crash
  <2> QED BY <2>1 DEF Stated, At
<1>9. ASSUME tap' = tap PROVE Stated'
  BY <1>9 DEF Stated, At
<1> QED BY <1>2, <1>3, <1>4, <1>5, <1>7, <1>8, <1>9 DEF Next, Proceed, Move, Prune, Tick

\* The rows of u, summed.
Booking(u) == SumOver([t \in Taps |-> tap[t].profit], {t \in history : tap[t].user = u})

LEMMA BookedSum ==
  ASSUME StakeInv, Next, NEW t \in Taps, Booked(t), NEW u \in Users
  PROVE  /\ Booking(u) \in Int
         /\ Booking(u)' = Booking(u) + (IF u = tap[t].user THEN tap[t].profit ELSE 0)
<1> DEFINE f == [v \in Taps |-> tap[v].profit]
           g == [v \in Taps |-> tap'[v].profit]
           A == {v \in history : tap[v].user = u}
           B == {v \in history' : tap'[v].user = u}
<1>0. TypeOK /\ TypeOK' BY TypeStep DEF StakeInv
<1>1. IsFiniteSet(Taps) BY Constants
<1>2. /\ A \in SUBSET Taps /\ B \in SUBSET Taps
      /\ \A y \in A : f[y] \in Int
      /\ \A y \in B : g[y] \in Int
      /\ \A y \in Taps : y # t => /\ y \in A <=> y \in B
                                  /\ y \in A => g[y] = f[y]
  <2>1. \A v \in Taps : tap[v].profit \in Int /\ tap'[v].profit \in Int
    BY <1>0 DEF TypeOK
  <2> QED BY <1>0, <2>1, RowsKept DEF TypeOK, Booked
<1>3. /\ t \notin A /\ (t \in B <=> u = tap[t].user)
      /\ g[t] = tap[t].profit /\ tap[t].profit \in Int
  BY <1>0 DEF Booked, TypeOK
<1>4. Booking(u) = SumOver(f, A) /\ Booking(u)' = SumOver(g, B)
  BY DEF Booking
<1> HIDE DEF f, g, A, B
<1>5. SumOver(g, B) = SumOver(f, A) + (IF t \in B THEN g[t] ELSE 0)
                                    - (IF t \in A THEN f[t] ELSE 0)
  BY <1>1, <1>2, SumOfRows
<1>6. SumOver(f, A) \in Int
  <2>1. IsFiniteSet(A) /\ A \in SUBSET A BY <1>1, <1>2, FS_Subset
  <2> QED BY <1>2, <2>1, SumInt
<1> QED BY <1>3, <1>4, <1>5, <1>6

LEMMA UnbookedSum ==
  ASSUME StakeInv, Next, history' = history, NEW u \in Users
  PROVE  /\ Booking(u) \in Int /\ Booking(u)' = Booking(u)
<1> DEFINE f == [v \in Taps |-> tap[v].profit]
           g == [v \in Taps |-> tap'[v].profit]
           A == {v \in history : tap[v].user = u}
<1>0. TypeOK BY DEF StakeInv
<1>1. IsFiniteSet(A) /\ A \in SUBSET A
  BY <1>0, Constants, FS_Subset DEF TypeOK
<1>2. {v \in history' : tap'[v].user = u} = A
  BY RowsKept
<1>3. /\ \A v \in A : f[v] \in Int
      /\ \A v \in A : f[v] = g[v]
  BY <1>0, RowsKept DEF TypeOK
<1>4. Booking(u) = SumOver(f, A) /\ Booking(u)' = SumOver(g, A)
  BY <1>2 DEF Booking
<1> HIDE DEF f, g, A
<1>5. SumOver(f, A) = SumOver(g, A) BY <1>1, <1>3, SumSame
<1>6. SumOver(f, A) \in Int BY <1>1, <1>3, SumInt
<1> QED BY <1>4, <1>5, <1>6

LEMMA PaidStep ==
  ASSUME StakeInv, Stated, ProfitIsPaid, Next PROVE ProfitIsPaid'
<1> SUFFICES ASSUME NEW u \in Users
             PROVE  wallet'[u] = Welcome + flow'[u] + Booking(u)'
  BY DEF ProfitIsPaid, Booking
<1>1. /\ wallet[u] = Welcome + flow[u] + Booking(u)
      /\ wallet \in [Users -> 0..MaxAmount] /\ flow \in [Users -> Int]
      /\ wallet[u] \in Int /\ flow[u] \in Int /\ Welcome \in Int
  BY Constants DEF ProfitIsPaid, Booking, StakeInv, TypeOK
<1>2. ASSUME UNCHANGED <<wallet, flow, history>>
      PROVE  wallet'[u] = Welcome + flow'[u] + Booking(u)'
  BY <1>1, <1>2, UnbookedSum
<1>3. ASSUME NEW t \in Taps, Booked(t)
      PROVE  wallet'[u] = Welcome + flow'[u] + Booking(u)'
  <2>1. /\ Booking(u) \in Int
        /\ Booking(u)' = Booking(u) + (IF u = tap[t].user THEN tap[t].profit ELSE 0)
    BY <1>3, BookedSum
  <2>2. /\ wallet'[u] = IF u = tap[t].user THEN wallet[u] + tap[t].profit ELSE wallet[u]
        /\ flow'[u] = flow[u] /\ tap[t].profit \in Int
    BY <1>1, <1>3 DEF Booked, StakeInv, TypeOK
  <2> QED BY <1>1, <2>1, <2>2
<1>4. ASSUME NEW v \in Users, NEW coins \in {-1, 1}, Moved(v, coins)
      PROVE  wallet'[u] = Welcome + flow'[u] + Booking(u)'
  <2>1. Booking(u) \in Int /\ Booking(u)' = Booking(u)
    BY <1>4, UnbookedSum DEF Moved
  <2>2. /\ wallet'[u] = IF u = v THEN wallet[u] + coins ELSE wallet[u]
        /\ flow'[u] = IF u = v THEN flow[u] + coins ELSE flow[u]
    BY <1>1, <1>4 DEF Moved
  <2>3. coins \in Int OBVIOUS
  <2> QED BY <1>1, <2>1, <2>2, <2>3
<1> QED BY <1>2, <1>3, <1>4, WalletSteps

-----------------------------------------------------------------------------
(* The cooldown.  A stamp is taken before the wait for the lock, so what it *)
(* rests on is that the lock is handed on in the order of the stamps.       *)

Away == \A t \in Taps : tap[t].step \in {"idle", "left", "done"} => slot[t] = None

StampsPast == \A t \in Taps : tap[t].now <= clock

FirstCome ==
  \A s \in Slots : \A i, j \in 1..Len(queue[s]) :
    i < j => tap[queue[s][i]].now <= tap[queue[s][j]].now

\* Nobody who still waits or plays has an older stamp than a committed play.
Behind ==
  \A p \in history, t \in Taps :
    tap[t].step \in {"queued"} \cup Playing /\ tap[p].user = tap[t].user
      => tap[p].now <= tap[t].now

\* What CooledDown found still holds when the play is stamped.
Cooled ==
  \A t \in Taps : tap[t].step \in Playing /\ tap[t].solo =>
    \A p \in history : tap[p].user = tap[t].user => tap[t].now - tap[p].now >= Cooldown

TurnInv == QueueInv /\ Away /\ StampsPast /\ FirstCome

LEMMA AwayStep ==
  ASSUME StakeInv, Away, Next PROVE Away'
<1>0. TypeOK /\ LockInv /\ Locked BY DEF StakeInv
<1>1. ASSUME NEW t \in Taps, NEW u \in Users, NEW solo \in BOOLEAN, Arrive(t, u, solo)
      PROVE  Away'
  <2>1. tap'[t].step = "queued" /\ \A v \in Taps \ {t} : tap'[v] = tap[v] /\ slot'[v] = slot[v]
    BY <1>0, <1>1 DEF Arrive, Acquire, TypeOK, Fresh, LockInv, LocksType, Taps
  <2> QED BY <2>1 DEF Away
<1>2. ASSUME NEW t \in Taps, Onward(t) PROVE Away'
  BY <1>2 DEF Onward, Away, Inside, lockVars
<1>3. ASSUME NEW t \in Taps, Leave(t) PROVE Away'
  <2>1. slot'[t] = None /\ \A v \in Taps \ {t} : tap'[v] = tap[v] /\ slot'[v] = slot[v]
    BY <1>0, <1>3 DEF Leave, Release, Become, TypeOK, LockInv, LocksType, Taps
  <2> QED BY <2>1 DEF Away
<1>4. ASSUME NEW t \in Taps, Return(t) PROVE Away'
  <2>1. slot[t] = None /\ slot' = slot /\ \A v \in Taps \ {t} : tap'[v] = tap[v]
    BY <1>0, <1>4 DEF Return, Away, At, TypeOK, lockVars
  <2> QED BY <2>1 DEF Away
<1>5. ASSUME Crash PROVE Away'
  BY <1>5 DEF Crash, Away, Taps
<1>6. ASSUME UNCHANGED <<tap, slot>> PROVE Away'
  BY <1>6 DEF Away
<1> QED BY <1>1, <1>2, <1>3, <1>4, <1>5, <1>6, OnwardSteps
        DEF Next, Move, Prune, Tick, lockVars, Proceed

\* A stamp is never later than the clock, and never changes while it counts.
LEMMA StampsStep ==
  ASSUME StakeInv, Away, StampsPast, Next
  PROVE  /\ StampsPast'
         /\ \A v \in Taps : slot[v] # None /\ slot'[v] # None => tap'[v].now = tap[v].now
<1>0. TypeOK /\ LockInv /\ Locked BY DEF StakeInv
<1>1. ASSUME NEW t \in Taps, NEW u \in Users, NEW solo \in BOOLEAN, Arrive(t, u, solo)
      PROVE  /\ StampsPast'
             /\ \A v \in Taps : slot[v] # None => tap'[v].now = tap[v].now
  <2>1. /\ tap'[t].now = clock /\ clock' = clock /\ clock \in Nat /\ slot[t] = None
        /\ \A v \in Taps \ {t} : tap'[v] = tap[v]
    BY <1>0, <1>1 DEF Arrive, Acquire, TypeOK, Fresh
  <2> QED BY <2>1 DEF StampsPast
<1>2. ASSUME NEW t \in Taps, Onward(t)
      PROVE  StampsPast' /\ \A v \in Taps : tap'[v].now = tap[v].now
  BY <1>2 DEF Onward, StampsPast
<1>3. ASSUME NEW t \in Taps, Leave(t)
      PROVE  StampsPast' /\ \A v \in Taps : tap'[v].now = tap[v].now
  <2>1. clock' = clock /\ \A v \in Taps : tap'[v].now = tap[v].now
    BY <1>0, <1>3 DEF Leave, Become, TypeOK
  <2> QED BY <2>1 DEF StampsPast
<1>4. \A t \in Taps : Ended(t).now \in {tap[t].now, 0}
  BY <1>0 DEF Ended, TypeOK, Fresh
<1>5. ASSUME NEW t \in Taps, Return(t)
      PROVE  /\ StampsPast'
             /\ \A v \in Taps : slot[v] # None => tap'[v].now = tap[v].now
  <2>1. /\ clock' = clock /\ clock \in Nat /\ slot[t] = None
        /\ tap'[t].now \in {tap[t].now, 0} /\ \A v \in Taps \ {t} : tap'[v] = tap[v]
    BY <1>0, <1>4, <1>5 DEF Return, Commit, Away, At, TypeOK, gameVars
  <2> QED BY <2>1 DEF StampsPast
<1>6. ASSUME Crash
      PROVE  StampsPast' /\ \A v \in Taps : slot'[v] = None
  <2>1. /\ clock' = clock /\ clock \in Nat
        /\ \A v \in Taps : tap'[v].now \in {tap[v].now, 0} /\ slot'[v] = None
    BY <1>0, <1>4, <1>6 DEF Crash, TypeOK
  <2> QED BY <2>1 DEF StampsPast
<1>7. ASSUME tap' = tap, clock' = clock \/ clock' = clock + 1
      PROVE  StampsPast' /\ \A v \in Taps : tap'[v].now = tap[v].now
  <2>1. clock \in Nat /\ \A v \in Taps : tap[v].now \in Nat
    BY <1>0 DEF TypeOK
  <2> QED BY <1>7, <2>1 DEF StampsPast
<1>8. ASSUME \/ \E u \in Users, coins \in {-1, 1} : Move(u, coins)
             \/ Prune \/ Tick
      PROVE  tap' = tap /\ (clock' = clock \/ clock' = clock + 1)
  BY <1>8 DEF Move, Prune, Tick
<1>9. ASSUME NEW t \in Taps, Proceed(t)
      PROVE  Leave(t) \/ Return(t) \/ Onward(t)
  BY <1>9, OnwardSteps
<1> QED BY <1>1, <1>2, <1>3, <1>5, <1>6, <1>7, <1>8, <1>9 DEF Next

\* acquire adds the newest stamp at the end, release takes the oldest away.
LEMMA FirstComeStep ==
  ASSUME StakeInv, TurnInv, Next PROVE QueueInv' /\ FirstCome'
<1>0. TypeOK /\ LockInv /\ LockInv' /\ QueueInv /\ Waiting /\ FirstCome
      /\ queue \in [Slots -> Seq(Taps)]
  BY LocksStep DEF StakeInv, TurnInv, QueueInv, LockInv, LocksType, Taps
<1>1. \A v \in Taps : slot[v] # None /\ slot'[v] # None => tap'[v].now = tap[v].now
  BY StampsStep DEF TurnInv
<1>2. ASSUME NEW t \in Taps, NEW u \in Users, NEW solo \in BOOLEAN, Arrive(t, u, solo)
      PROVE  QueueInv' /\ FirstCome'
  <2>0. Acquire(t, u) /\ t \in Tasks /\ u \in Keys BY <1>2 DEF Arrive, Taps, Users
  <2>1. QueueInv' BY <1>0, <2>0, AcquireLines
  <2>2. PICK s \in Slots : /\ queue' = [queue EXCEPT ![s] = Append(@, t)]
                           /\ \A i \in 1..Len(queue[s]) : queue[s][i] # t
    BY <1>0, <2>0, AcquireLines
  <2>3. /\ queue'[s] = Append(queue[s], t) /\ queue[s] \in Seq(Taps)
        /\ Len(queue'[s]) = Len(queue[s]) + 1 /\ queue'[s][Len(queue[s]) + 1] = t
        /\ \A i \in 1..Len(queue[s]) : queue'[s][i] = queue[s][i]
        /\ Len(queue[s]) \in Nat
        /\ \A r \in Slots \ {s} : queue'[r] = queue[r]
    BY <1>0, <2>2
  <2>4. /\ tap'[t].now = clock /\ \A v \in Taps \ {t} : tap'[v] = tap[v]
        /\ slot[t] = None /\ None \notin Slots
    BY <1>0, <1>2, LocksAssumption DEF Arrive, Acquire, TypeOK, Fresh
  <2>5. \A r \in Slots : \A i \in 1..Len(queue[r]) :
          /\ queue[r][i] \in Taps \ {t} /\ tap'[queue[r][i]] = tap[queue[r][i]]
          /\ tap[queue[r][i]].now <= clock
    BY <1>0, <2>4 DEF Waiting, TurnInv, StampsPast, Taps
  <2>6. ASSUME NEW r \in Slots, NEW i \in 1..Len(queue'[r]), NEW j \in 1..Len(queue'[r]), i < j
        PROVE  tap'[queue'[r][i]].now <= tap'[queue'[r][j]].now
    <3>1. CASE r # s
      <4>1. /\ queue'[r] = queue[r] /\ i \in 1..Len(queue[r]) /\ j \in 1..Len(queue[r])
        BY <2>3, <3>1
      <4>2. tap[queue[r][i]].now <= tap[queue[r][j]].now
        BY <1>0, <2>6, <4>1 DEF FirstCome
      <4>3. /\ tap'[queue[r][i]] = tap[queue[r][i]]
            /\ tap'[queue[r][j]] = tap[queue[r][j]]
        BY <2>5, <4>1
      <4>4. queue'[r][i] = queue[r][i] /\ queue'[r][j] = queue[r][j] BY <4>1
      <4> QED BY <4>2, <4>3, <4>4
    <3>2. CASE r = s /\ j = Len(queue[s]) + 1
      <4>1. i \in 1..Len(queue[s]) BY <2>3, <2>6, <3>2
      <4> QED BY <2>3, <2>4, <2>5, <3>2, <4>1
    <3>3. CASE r = s /\ j # Len(queue[s]) + 1
      <4>1. i \in 1..Len(queue[s]) /\ j \in 1..Len(queue[s]) BY <2>3, <2>6, <3>3
      <4>2. tap[queue[s][i]].now <= tap[queue[s][j]].now
        BY <1>0, <2>6, <4>1 DEF FirstCome
      <4>3. queue'[r][i] = queue[s][i] /\ queue'[r][j] = queue[s][j] BY <2>3, <3>3, <4>1
      <4>4. /\ tap'[queue[s][i]] = tap[queue[s][i]]
            /\ tap'[queue[s][j]] = tap[queue[s][j]]
        BY <2>5, <4>1
      <4> QED BY <4>2, <4>3, <4>4
    <3> QED BY <3>1, <3>2, <3>3
  <2> QED BY <2>1, <2>6 DEF FirstCome
<1>3. ASSUME NEW t \in Taps, Leave(t) PROVE QueueInv' /\ FirstCome'
  <2>0. Release(t) /\ t \in Tasks BY <1>3 DEF Leave, Taps
  <2>1. QueueInv' BY <1>0, <2>0, ReleaseLines
  <2>2. \A r \in Slots :
          \/ queue'[r] = queue[r]
          \/ /\ Len(queue'[r]) = Len(queue[r]) - 1 /\ Len(queue[r]) \in Nat
             /\ \A i \in 1..Len(queue'[r]) : queue'[r][i] = queue[r][i + 1]
    BY <1>0, <2>0, ReleaseLines
  <2>3. \A v \in Taps : tap'[v].now = tap[v].now
    BY <1>0, <1>3 DEF Leave, Become, TypeOK
  <2>4. ASSUME NEW r \in Slots, NEW i \in 1..Len(queue'[r]), NEW j \in 1..Len(queue'[r]), i < j
        PROVE  tap'[queue'[r][i]].now <= tap'[queue'[r][j]].now
    <3>0. \A k \in 1..Len(queue[r]) : queue[r][k] \in Taps BY <1>0
    <3>1. CASE queue'[r] = queue[r]
      BY <1>0, <2>3, <2>4, <3>0, <3>1 DEF FirstCome
    <3>2. CASE queue'[r] # queue[r]
      <4>1. /\ i + 1 \in 1..Len(queue[r]) /\ j + 1 \in 1..Len(queue[r]) /\ i + 1 < j + 1
            /\ queue'[r][i] = queue[r][i + 1] /\ queue'[r][j] = queue[r][j + 1]
        BY <2>2, <2>4, <3>2
      <4>2. tap[queue[r][i + 1]].now <= tap[queue[r][j + 1]].now
        BY <1>0, <4>1 DEF FirstCome
      <4> QED BY <2>3, <3>0, <4>1, <4>2
    <3> QED BY <3>1, <3>2
  <2> QED BY <2>1, <2>4 DEF FirstCome
<1>4. ASSUME UNCHANGED lockVars PROVE QueueInv' /\ FirstCome'
  <2>1. QueueInv' BY <1>0, <1>4, QueueStutter
  <2>2. \A r \in Slots : \A i \in 1..Len(queue[r]) :
          /\ queue[r][i] \in Taps /\ tap'[queue[r][i]].now = tap[queue[r][i]].now
    BY <1>0, <1>1, <1>4, LocksAssumption DEF Waiting, lockVars, Taps
  <2> QED BY <1>0, <1>4, <2>1, <2>2 DEF FirstCome, lockVars
<1>5. ASSUME Crash PROVE QueueInv' /\ FirstCome'
  <2>1. queue' = [s \in Slots |-> <<>>] /\ slot' = [t \in Tasks |-> None]
    BY <1>5 DEF Crash, Taps
  <2>2. QueueInv' BY <2>1, QueueReset
  <2> QED BY <2>1, <2>2 DEF FirstCome
<1>6. ASSUME NEW t \in Taps, Proceed(t), ~ Leave(t) PROVE UNCHANGED lockVars
  BY <1>6 DEF Proceed, Check, Decline, Stake, Challenge, Fail, Settle, Checkpoint, Return,
              Commit, gameVars
<1>7. ASSUME \/ \E u \in Users, coins \in {-1, 1} : Move(u, coins)
             \/ Prune \/ Tick
      PROVE  UNCHANGED lockVars
  BY <1>7 DEF Move, Prune, Tick
<1> QED BY <1>2, <1>3, <1>4, <1>5, <1>6, <1>7 DEF Next

\* Who waits for the lock of a player stands behind its holder.
LEMMA HolderIsFirst ==
  ASSUME StakeInv, TurnInv, NEW x \in Taps, NEW t \in Taps,
         Holds(x), tap[x].step \in Inside, tap[t].step \in Inside \cup {"queued"},
         tap[x].user = tap[t].user
  PROVE  tap[x].now <= tap[t].now
<1>0. TypeOK /\ LockInv /\ Locked /\ Lined /\ FirstCome /\ Waiting
  BY DEF StakeInv, TurnInv, QueueInv
<1>1. slot[x] = slot[t] /\ slot[x] \in Slots
  BY <1>0, LocksAssumption DEF Locked, LockInv, KeyOfSlot, LocksType, Taps, Users
<1>2. PICK i \in 1..Len(queue[slot[x]]) : queue[slot[x]][i] = t
  BY <1>0, <1>1, LocksAssumption DEF Lined, Taps
<1>3. /\ queue[slot[x]] \in Seq(Tasks) /\ queue[slot[x]][1] = x
      /\ 1 \in 1..Len(queue[slot[x]])
  BY <1>0, <1>1, <1>2 DEF Holds, LockInv, LocksType
<1>4. CASE i = 1
  BY <1>0, <1>2, <1>3, <1>4 DEF TypeOK
<1>5. CASE i # 1
  BY <1>0, <1>1, <1>2, <1>3, <1>5 DEF FirstCome
<1> QED BY <1>4, <1>5

\* Who waits or plays did so before, or arrives with the newest stamp.
LEMMA WaitingWas ==
  ASSUME StakeInv, Next, NEW v \in Taps, tap'[v].step \in {"queued"} \cup Playing
  PROVE  /\ \/ tap'[v].now = clock /\ history' = history
            \/ /\ tap[v].step \in {"queued"} \cup Playing
               /\ tap'[v].user = tap[v].user /\ tap'[v].now = tap[v].now
         /\ tap'[v].step \in Playing => tap'[v].solo = tap[v].solo
<1>0. TypeOK /\ TypeOK' BY TypeStep DEF StakeInv
<1>1. ASSUME NEW t \in Taps, NEW u \in Users, NEW solo \in BOOLEAN, Arrive(t, u, solo)
      PROVE  /\ \/ tap'[v].now = clock /\ history' = history
                \/ tap'[v] = tap[v]
             /\ tap'[v].step \in Playing => tap'[v] = tap[v]
  BY <1>0, <1>1 DEF Arrive, TypeOK, Fresh, Playing, gameVars
<1>2. \A t \in Taps : Ended(t).step = "done"
  BY <1>0 DEF Ended, TypeOK, Fresh
<1>3. ASSUME NEW t \in Taps, Leave(t) \/ Return(t) \/ Decline(t) \/ Fail(t) \/ Checkpoint(t)
      PROVE  tap'[v] = tap[v]
  <2>1. /\ \A w \in Taps \ {t} : tap'[w] = tap[w]
        /\ tap'[t].step \in {"left", "done", "leaving"}
    BY <1>0, <1>2, <1>3 DEF Leave, Return, Decline, Fail, Checkpoint, Become, TypeOK
  <2> QED BY <2>1 DEF Playing
<1>4. ASSUME NEW t \in Taps, \/ Check(t) \/ Stake(t) \/ Challenge(t)
                             \/ \E won \in BOOLEAN : Settle(t, won)
      PROVE  /\ tap[v].step \in {"queued"} \cup Playing
             /\ tap'[v].user = tap[v].user /\ tap'[v].now = tap[v].now
             /\ tap'[v].solo = tap[v].solo
  <2>1. \A w \in Taps \ {t} : tap'[w] = tap[w]
    BY <1>0, <1>4 DEF Check, Stake, Challenge, Settle, Become, TypeOK
  <2>2. /\ tap'[t].user = tap[t].user /\ tap'[t].now = tap[t].now /\ tap'[t].solo = tap[t].solo
        /\ tap[t].step \in {"queued"} \cup Playing
    <3>1. CASE Check(t) BY <1>0, <3>1 DEF Check, Become, At, TypeOK
    <3>2. CASE Stake(t)
      <4>1. At(t, "checked") BY <3>2 DEF Stake
      <4>2. \/ tap' = [tap EXCEPT ![t].step = "spent", ![t].coins = - Bet]
            \/ tap' = [tap EXCEPT ![t].step = "short"]
        BY <3>2 DEF Stake, Become
      <4> QED BY <1>0, <4>1, <4>2 DEF At, TypeOK, Playing
    <3>3. CASE Challenge(t) BY <1>0, <3>3 DEF Challenge, Become, At, TypeOK, Playing
    <3>4. CASE \E won \in BOOLEAN : Settle(t, won)
      <4>1. PICK won \in BOOLEAN : Settle(t, won) BY <3>4
      <4>2. At(t, "spent") BY <4>1 DEF Settle
      <4>3. PICK c, p : tap' = [tap EXCEPT ![t].step = "played", ![t].coins = c, ![t].profit = p]
        BY <4>1 DEF Settle
      <4> QED BY <1>0, <4>2, <4>3 DEF At, TypeOK, Playing
    <3> QED BY <1>4, <3>1, <3>2, <3>3, <3>4
  <2> QED BY <2>1, <2>2
<1>5. ASSUME Crash PROVE FALSE
  <2>1. tap'[v].step = "done" \/ tap'[v].step = "idle"
    BY <1>0, <1>2, <1>5 DEF Crash, At
  <2> QED BY <2>1 DEF Playing
<1>6. ASSUME \/ \E u \in Users, coins \in {-1, 1} : Move(u, coins)
             \/ Prune \/ Tick
      PROVE  tap' = tap
  BY <1>6 DEF Move, Prune, Tick
<1> QED BY <1>1, <1>3, <1>4, <1>5, <1>6 DEF Next, Proceed

LEMMA BehindStep ==
  ASSUME StakeInv, TurnInv, Behind, Next PROVE Behind'
<1>0. TypeOK /\ TypeOK' /\ Locked /\ StampsPast
  BY TypeStep DEF StakeInv, TurnInv
<1>1. \A q \in history : tap'[q].user = tap[q].user /\ tap'[q].now = tap[q].now
  BY StampsKept
<1> SUFFICES ASSUME NEW p \in history', NEW v \in Taps,
                    tap'[v].step \in {"queued"} \cup Playing, tap'[p].user = tap'[v].user
             PROVE  tap'[p].now <= tap'[v].now
  BY DEF Behind
<1>2. CASE tap'[v].now = clock /\ history' = history
  BY <1>0, <1>1, <1>2 DEF StampsPast, TypeOK
<1>3. CASE /\ tap[v].step \in {"queued"} \cup Playing
           /\ tap'[v].user = tap[v].user /\ tap'[v].now = tap[v].now
  <2>1. CASE p \in history
    BY <1>1, <1>3, <2>1 DEF Behind
  <2>2. ASSUME NEW t \in Taps, StampedBy(t), p = t
        PROVE  tap'[p].now <= tap'[v].now
    <3>1. /\ Holds(t) /\ tap[t].step = "played"
          /\ tap'[t].user = tap[t].user /\ tap'[t].now = tap[t].now
      BY <1>0, <2>2 DEF StampedBy, Onward, At, Locked, Inside
    <3>2. tap[t].step \in Inside /\ tap[v].step \in Inside \cup {"queued"}
      BY <1>3, <3>1 DEF Inside, Playing
    <3>3. tap[t].now <= tap[v].now
      BY <1>3, <2>2, <3>1, <3>2, HolderIsFirst
    <3> QED BY <1>3, <2>2, <3>1, <3>3
  <2> QED BY <2>1, <2>2, StampsKept DEF StampedBy
<1> QED BY <1>2, <1>3, WaitingWas

LEMMA CooledStep ==
  ASSUME StakeInv, Cooled, Next PROVE Cooled'
<1>0. TypeOK /\ TypeOK' /\ LockInv /\ Locked /\ Recorded
  BY TypeStep DEF StakeInv
<1>1. /\ \A q \in history : tap'[q].user = tap[q].user /\ tap'[q].now = tap[q].now
      /\ history' = history \/ \E t \in Taps : StampedBy(t)
  BY StampsKept
<1> SUFFICES ASSUME NEW v \in Taps, tap'[v].step \in Playing, tap'[v].solo,
                    NEW p \in history', tap'[p].user = tap'[v].user
             PROVE  tap'[v].now - tap'[p].now >= Cooldown
  BY DEF Cooled
<1>2. /\ tap'[v].user = tap[v].user /\ tap'[v].now = tap[v].now /\ tap[v].solo
      /\ \/ tap[v].step \in Playing
         \/ At(v, "queued") /\ Allowed(v) /\ history' = history
  BY PlayingWas, WaitingWas
<1>3. CASE tap[v].step \in Playing /\ p \in history
  BY <1>1, <1>2, <1>3 DEF Cooled
<1>4. CASE At(v, "queued") /\ Allowed(v) /\ history' = history
  <2>1. CASE p \in plays
    BY <1>0, <1>1, <1>2, <1>4, <2>1 DEF Allowed, CooledDown, PlaysOf
  <2>2. CASE p \notin plays
    <3>1. clock - tap[v].now <= Patience
      BY <1>0, <1>4 DEF Locked, At
    <3>2. tap[p].now < clock - Retention /\ tap[p].now \in Nat /\ tap[v].now \in Nat /\ clock \in Nat
      BY <1>0, <1>4, <2>2 DEF Recorded, TypeOK
    <3>3. Cooldown \in Nat /\ Cooldown <= Day /\ Day \in Nat /\ Retention \in Nat
          /\ Patience = Retention - Day
      BY StakeGamesAssumption DEF Patience
    <3>4. tap[v].now - tap[p].now >= Cooldown
      BY <3>1, <3>2, <3>3
    <3> QED BY <1>1, <1>2, <1>4, <3>4
  <2> QED BY <2>1, <2>2
<1>5. ASSUME NEW t \in Taps, StampedBy(t), p = t, tap[v].step \in Playing PROVE FALSE
  <2>1. t # v BY <1>5 DEF StampedBy, At, Playing
  <2>2. Holds(t) /\ Holds(v) /\ key[t] = tap[t].user /\ key[v] = tap[v].user
    BY <1>0, <1>5 DEF StampedBy, At, Locked, Inside, Playing
  <2>3. tap[t].user # tap[v].user
    BY <1>0, <2>1, <2>2, LockInvExcludes DEF LocksExclude, Taps
  <2>4. tap'[t].user = tap[t].user BY <1>5 DEF StampedBy, Onward
  <2> QED BY <1>2, <1>5, <2>3, <2>4
<1> QED BY <1>1, <1>2, <1>3, <1>4, <1>5 DEF StampedBy

\* The step that ends a play leaves its kind alone.
LEMMA SoloKept ==
  ASSUME TypeOK, TypeOK', Next, NEW v \in Taps, At(v, "played"), At(v, "leaving")'
  PROVE  tap'[v].solo = tap[v].solo
<1>1. ASSUME NEW t \in Taps, NEW u \in Users, NEW solo \in BOOLEAN, Arrive(t, u, solo)
      PROVE  t # v /\ \A w \in Taps \ {t} : tap'[w] = tap[w]
  BY <1>1 DEF Arrive, At, TypeOK
<1>2. \A t \in Taps : Ended(t).step = "done" BY DEF Ended, TypeOK, Fresh
<1>3. ASSUME NEW t \in Taps, Return(t) PROVE FALSE
  BY <1>2, <1>3 DEF Return, At, TypeOK
<1>4. ASSUME NEW t \in Taps, Check(t) \/ Decline(t) \/ Stake(t) \/ Challenge(t)
                             \/ Checkpoint(t) \/ Leave(t)
      PROVE  tap'[v].solo = tap[v].solo
  <2>1. CASE t # v
    BY <1>4, <2>1 DEF Check, Decline, Stake, Challenge, Checkpoint, Leave, Become, TypeOK
  <2>2. CASE t = v
    <3>1. Checkpoint(v)
      BY <1>4, <2>2 DEF Check, Decline, Stake, Challenge, Leave, At
    <3> QED BY <3>1 DEF Checkpoint, Become, TypeOK
  <2> QED BY <2>1, <2>2
<1>5. ASSUME NEW t \in Taps, Fail(t) PROVE tap'[v].solo = tap[v].solo
  <2>1. tap' = [tap EXCEPT ![t].step = "leaving", ![t].coins = 0, ![t].profit = 0]
    BY <1>5 DEF Fail
  <2> QED BY <2>1 DEF TypeOK
<1>6. ASSUME NEW t \in Taps, NEW won \in BOOLEAN, Settle(t, won)
      PROVE  t # v /\ \A w \in Taps \ {t} : tap'[w] = tap[w]
  BY <1>6 DEF Settle, At, TypeOK
<1>7. ASSUME Crash PROVE FALSE
  <2>1. tap'[v].step = "done" \/ tap'[v].step = "idle"
    BY <1>2, <1>7 DEF Crash, At
  <2> QED BY <2>1 DEF At
<1>8. ASSUME \/ \E u \in Users, coins \in {-1, 1} : Move(u, coins)
             \/ Prune \/ Tick
      PROVE  tap' = tap
  BY <1>8 DEF Move, Prune, Tick
<1> QED BY <1>1, <1>3, <1>4, <1>5, <1>6, <1>7, <1>8 DEF Next, Proceed

LEMMA CooldownStep ==
  ASSUME StakeInv, Behind, Cooled, CooldownHolds, Next PROVE CooldownHolds'
<1>0. TypeOK /\ TypeOK' BY TypeStep DEF StakeInv
<1>1. /\ \A q \in history : /\ tap'[q].user = tap[q].user /\ tap'[q].now = tap[q].now
                             /\ tap'[q].solo = tap[q].solo
      /\ history' = history \/ \E t \in Taps : StampedBy(t)
  BY StampsKept, RowsKept
<1>2. CASE history' = history
  BY <1>1, <1>2 DEF CooldownHolds
<1>3. ASSUME NEW t \in Taps, StampedBy(t) PROVE CooldownHolds'
  <2>1. /\ history' = history \cup {t} /\ tap[t].step \in Playing
        /\ tap'[t].user = tap[t].user /\ tap'[t].now = tap[t].now
    BY <1>3 DEF StampedBy, Onward, At, Playing
  <2>2. t \notin history
    BY <1>3 DEF StampedBy, StakeInv, Recorded, At
  <2>3. tap'[t].solo = tap[t].solo
    BY <1>0, <1>3, SoloKept DEF StampedBy
  <2>4. ASSUME NEW q \in history, tap[t].solo, tap[t].user = tap[q].user
        PROVE  tap[t].now - tap[q].now >= Cooldown
    BY <2>1, <2>4 DEF Cooled
  <2>5. ASSUME NEW q \in history, tap[t].user = tap[q].user
        PROVE  tap[q].now <= tap[t].now
    BY <2>1, <2>5 DEF Behind
  <2>6. ASSUME NEW p \in history', NEW q \in history', p # q, tap'[p].solo,
               tap'[p].user = tap'[q].user, tap'[q].now \in 0..tap'[p].now
        PROVE  \/ tap'[p].now - tap'[q].now >= Cooldown
               \/ ~ tap'[q].solo /\ tap'[q].now = tap'[p].now
    <3>1. CASE p \in history /\ q \in history
      BY <1>1, <2>6, <3>1 DEF CooldownHolds
    <3>2. CASE p = t /\ q \in history
      BY <1>1, <2>1, <2>3, <2>4, <2>6, <3>2
    <3>3. CASE q = t /\ p \in history
      <4>1. /\ tap[p].now \in Nat /\ tap[t].now \in Nat
            /\ tap[t].now <= tap[p].now /\ tap[p].now <= tap[t].now
        BY <1>0, <1>1, <2>1, <2>5, <2>6, <3>3 DEF TypeOK
      <4>2. tap[t].solo => tap[t].now - tap[p].now >= Cooldown
        BY <1>1, <2>1, <2>4, <2>6, <3>3
      <4> QED BY <1>1, <2>1, <2>3, <3>3, <4>1, <4>2
    <3> QED BY <2>1, <2>6, <3>1, <3>2, <3>3
  <2> QED BY <2>6 DEF CooldownHolds
<1> QED BY <1>1, <1>2, <1>3

-----------------------------------------------------------------------------
PlayInv == StakeInv /\ Stated /\ ProfitIsPaid /\ TurnInv /\ Behind /\ Cooled /\ CooldownHolds

LEMMA PlayInit == Init => PlayInv
<1> SUFFICES ASSUME Init PROVE PlayInv
  OBVIOUS
<1>1. Fresh.step = "idle" /\ Fresh.profit = 0 /\ Fresh.now = 0
  BY DEF Fresh
<1>2. \A t \in Taps : tap[t] = Fresh BY DEF Init
<1>3. StakeInv BY InitInv
<1>4. Stated /\ Away /\ StampsPast /\ Behind /\ Cooled
  BY <1>1, <1>2 DEF Init, LockInit, Stated, Away, StampsPast, Behind, Cooled, At, Playing, Taps
<1>5. QueueInv /\ FirstCome BY QueueInit DEF Init, LockInit, FirstCome
<1>6. CooldownHolds BY DEF Init, CooldownHolds
<1>7. ProfitIsPaid
  <2>1. \A u \in Users : {t \in history : tap[t].user = u} = {} BY DEF Init
  <2> QED BY <2>1, SumEmpty, Constants DEF Init, ProfitIsPaid
<1> QED BY <1>3, <1>4, <1>5, <1>6, <1>7 DEF PlayInv, TurnInv

LEMMA PlayStutter == PlayInv /\ UNCHANGED vars => PlayInv'
<1> SUFFICES ASSUME PlayInv, UNCHANGED vars PROVE PlayInv'
  OBVIOUS
<1>1. StakeInv' BY StutterInv DEF PlayInv
<1>2. Stated' /\ ProfitIsPaid' /\ Behind' /\ Cooled' /\ CooldownHolds'
  BY DEF PlayInv, vars, gameVars, Stated, ProfitIsPaid, Behind, Cooled, CooldownHolds, At
<1>3. TurnInv'
  BY QueueStutter DEF PlayInv, TurnInv, vars, gameVars, lockVars, Away, StampsPast, FirstCome
<1> QED BY <1>1, <1>2, <1>3 DEF PlayInv

LEMMA PlayStep == PlayInv /\ Next => PlayInv'
<1> SUFFICES ASSUME PlayInv, Next PROVE PlayInv'
  OBVIOUS
<1>1. StakeInv'
  BY LocksStep, TypeStep, LockedStep, AffordableStep, RecordedStep, RoomStep, CapsStep
     DEF PlayInv, StakeInv
<1>2. Stated' /\ ProfitIsPaid' BY StatedStep, PaidStep DEF PlayInv
<1>3. TurnInv' BY FirstComeStep, AwayStep, StampsStep DEF PlayInv, TurnInv
<1>4. Behind' /\ Cooled' /\ CooldownHolds'
  BY BehindStep, CooledStep, CooldownStep DEF PlayInv
<1> QED BY <1>1, <1>2, <1>3, <1>4 DEF PlayInv

LEMMA PlayInvariance == Spec => []PlayInv
  BY PlayInit, PlayStep, PlayStutter, PTL DEF Spec

\* Every coin of a wallet is on a games row, for any number of players and taps:
\* a win that the ceiling refuses books no profit (#1560), a play that fails, is
\* interrupted or loses its transaction costs and pays nothing.
THEOREM BooksAlwaysAgree == Spec => []BooksAgree
<1>1. PlayInv => BooksAgree BY DEF PlayInv, StakeInv, BooksAgree
<1> QED BY <1>1, PlayInvariance, PTL

\* No solo play starts within the cooldown of another play of the same player,
\* although its stamp is taken before it waits for the player's lock: the lock is
\* handed on in the order of the stamps, and the cleanup deletes no stamp that a
\* waiting play must see.
THEOREM CooldownAlwaysHolds == Spec => []CooldownHolds
<1>1. PlayInv => CooldownHolds BY DEF PlayInv
<1> QED BY <1>1, PlayInvariance, PTL

-----------------------------------------------------------------------------
(***************************************************************************)
(* Duel, for any users, handlers, matches and amounts: no match is paid    *)
(* twice, and only one that is on the record and rolled by both is.        *)
(*                                                                         *)
(* What a handler decided must stay true until its commit although others  *)
(* write the record: the invariant says who holds the match's lock, that a *)
(* match is on one record and decided by one handler, and that a paid one  *)
(* is closed.  Moves(p) is what every step but the commit and the crash    *)
(* does: one record, one handler, nobody else's lock.                      *)
(***************************************************************************)
(* Types.                                                                  *)

Tally == [Seats -> Nat]

Record == [state : {"none", "acceptance", "rolls"}, match : Matches \cup {0},
           opponent : DuelUsers \cup {Nobody}, goal : Nat, rolled : SUBSET Seats, wins : Tally,
           stamped : BOOLEAN, due : BOOLEAN]

DuelSteps == {"idle", "duel", "fill", "accept", "flip", "decided", "held", "clear", "cancel", "wipe"}

Job == [step : DuelSteps, user : DuelUsers \cup {Nobody}, key : Challengers \cup {Nobody},
        opponent : DuelUsers \cup {Nobody}, goal : Nat, match : Matches \cup {0}, wins : Tally,
        outcome : Seats \cup {Nobody}]

Sweeper == [seen : SUBSET (RecordKeys \X {"none", "acceptance", "rolls", "form"}),
            key : RecordKeys \cup {Nobody}, step : {"idle", "scan", "notify"}, tried : Nat]

Typed ==
  /\ fsm \in [Challengers -> Record]
  /\ duelWallet \in [DuelUsers -> 0..DuelMaxAmount] /\ burned \in Nat
  /\ play \in [DuelUsers -> Handlers \cup {Nobody}]
  /\ match \in [Challengers -> Handlers \cup {Nobody, "sweeper"}]
  /\ duelWriter \in Handlers \cup {Nobody}
  /\ job \in [Handlers -> Job] /\ sweep \in Sweeper
  /\ matches \in 0..MaxMatch /\ settled \in [Matches -> Nat]

-----------------------------------------------------------------------------
(* The inductive invariant. *)

\* The steps of a handler that holds the lock of its match, and those at which the
\* match is decided and not paid.
Guarded == {"flip", "decided", "held", "clear"}
Decided(p) == job[p].step \in {"decided", "held"}

\* What a handler has is its own.
Owned(p) ==
  /\ job[p].step # "idle" => job[p].key \in Challengers
  /\ job[p].step \in Guarded => match[job[p].key] = p
  /\ job[p].step \in {"duel", "fill"} => job[p].user = job[p].key
  /\ AtDuel(p, "fill") => play[job[p].key] = p
  /\ Decided(p) => job[p].opponent \in DuelUsers
  /\ AtDuel(p, "held") =>
       /\ duelWriter = p
       /\ \A u \in Players(p) : duelWallet[u] >= DuelBet
       /\ job[p].outcome \in Seats =>
            duelWallet[Player(p, job[p].outcome)] - DuelBet + DuelPayout <= DuelMaxAmount

SweeperOwns == sweep.step = "notify" /\ sweep.key \in Challengers => match[sweep.key] = "sweeper"

\* Every match under way has a number of its own.
Typing == {p \in Handlers : AtDuel(p, "duel")}

Numbered ==
  /\ matches + Cardinality(Typing) <= MaxMatch
  /\ \A m \in Matches : m > matches => settled[m] = 0
  /\ \A p \in Handlers : /\ job[p].match <= matches
                         /\ AtDuel(p, "fill") => matches > 0
  /\ \A c \in Challengers :
       /\ fsm[c].match <= matches
       /\ fsm[c].opponent # Nobody => matches > 0
       /\ \A d \in Challengers : fsm[c].match = fsm[d].match /\ fsm[c].match # 0 => c = d

\* A match whose record another /duel has written over, or that did it.
Marred(m) == m = 0 \/ m \in overwritten

Rolled(c) == fsm[c].state = "rolls" /\ fsm[c].rolled = Seats /\ fsm[c].opponent # Nobody

\* A /duel that has not written its data yet finds none, or has written over a record.
FindsBlank(k) == fsm[k].opponent = Nobody \/ Marred(fsm[k].match)
FillsBlank == \A p \in Handlers : AtDuel(p, "fill") => FindsBlank(job[p].key)

\* A decided match is on the record, rolled by both, unless it was wiped; and one
\* handler has decided it.
OnRecord(p) ==
  LET m == job[p].match
      k == job[p].key
  IN /\ m \in wiped \cup overwritten \/ (fsm[k].match = m /\ Rolled(k))
     /\ \A c \in Challengers : fsm[c].match = m => c = k /\ (Rolled(c) \/ Marred(m))

Live(p) ==
  Decided(p) /\ job[p].match # 0 =>
    /\ OnRecord(p)
    /\ \A q \in Handlers : Decided(q) /\ job[q].match = job[p].match => q = p

\* A match that was paid is not on its way to be paid again.
Closed(m) ==
  /\ \A p \in Handlers : Decided(p) => job[p].match # m
  /\ \A c \in Challengers : fsm[c].match = m =>
       /\ Rolled(c)
       /\ \A p \in Handlers : job[p].step \in {"flip", "decided", "held"} => job[p].key # c

PaidIsClosed ==
  \A m \in Matches : settled[m] # 0 /\ ~ Marred(m) => settled[m] = 1 /\ Closed(m)

DuelInv ==
  /\ Typed /\ (\A p \in Handlers : Owned(p)) /\ SweeperOwns /\ Numbered
  /\ FillsBlank /\ (\A p \in Handlers : Live(p)) /\ PaidIsClosed

-----------------------------------------------------------------------------
(* What one step does: p is the handler that takes it, or no handler.       *)

PlayingDuel(p) == job[p].step \in {"flip", "decided", "held"}

\* Nobody but p holds the lock of c's match.
Alone(p, c) == \A q \in Handlers \ {p} : job[q].step \in Guarded => job[q].key # c

\* The record at k is written: its match stays, goes, or is a new one.  Whoever
\* does it without the lock wipes the match, or finds it not rolled yet.
Writes(p, k) ==
  /\ \A c \in Challengers \ {k} : fsm'[c] = fsm[c]
  /\ \/ fsm'[k].match \in {fsm[k].match, 0} /\ matches' = matches
     \/ fsm'[k].match = matches' /\ matches' > matches
  /\ fsm'[k].match # fsm[k].match /\ fsm[k].match # 0 =>
       fsm[k].match \in wiped' \cup overwritten' \/ Alone(p, k)
  /\ fsm'[k].match = fsm[k].match /\ fsm[k].match # 0 =>
       \/ Rolled(k) => Rolled(k)'
       \/ Marred(fsm[k].match)
       \/ Alone(p, k) /\ p \in Handlers /\ PlayingDuel(p) /\ job[p].key = k
  /\ fsm'[k].opponent # Nobody => matches' > 0
  /\ \/ fsm'[k].opponent \in {fsm[k].opponent, Nobody} /\ fsm'[k].match \in {fsm[k].match, 0}
     \/ \A q \in Handlers \ {p} : AtDuel(q, "fill") => job[q].key # k

RecordMoves(p) ==
  /\ fsm' \in [Challengers -> Record] /\ wiped \subseteq wiped' /\ overwritten \subseteq overwritten'
  /\ matches' \in 0..MaxMatch
  /\ (fsm' = fsm /\ matches' = matches) \/ \E k \in Challengers : Writes(p, k)

JobMoves(p) ==
  /\ job' \in [Handlers -> Job]
  /\ \A q \in Handlers \ {p} : job'[q] = job[q]
  /\ p \in Handlers =>
       /\ Owned(p)' /\ job'[p].match <= matches'
       /\ AtDuel(p, "fill")' => matches' > 0 /\ FindsBlank(job[p].key)'
       /\ Decided(p)' =>
            /\ job'[p].match # 0 => OnRecord(p)'
            /\ \/ Decided(p) /\ job'[p].match = job[p].match
               \/ /\ job'[p].match = fsm[job'[p].key].match
                  /\ ~ Rolled(job'[p].key) /\ Alone(p, job'[p].key)
       /\ PlayingDuel(p)' => \/ PlayingDuel(p) /\ job'[p].key = job[p].key
                         \/ ~ Rolled(job'[p].key)
  /\ matches' + Cardinality(Typing') <= MaxMatch

LockMoves(p) ==
  /\ match' \in [Challengers -> Handlers \cup {Nobody, "sweeper"}]
  /\ play' \in [DuelUsers -> Handlers \cup {Nobody}] /\ duelWriter' \in Handlers \cup {Nobody}
  /\ \A q \in Handlers \ {p} :
       /\ \A c \in Challengers : match[c] = q => match'[c] = q
       /\ \A u \in DuelUsers : play[u] = q => play'[u] = q
       /\ duelWriter = q => duelWriter' = q
  /\ sweep' \in Sweeper /\ SweeperOwns'

Moves(p) == RecordMoves(p) /\ JobMoves(p) /\ LockMoves(p)

LEMMA Parts ==
  ASSUME DuelInv
  PROVE  /\ fsm \in [Challengers -> Record] /\ job \in [Handlers -> Job]
         /\ duelWallet \in [DuelUsers -> 0..DuelMaxAmount] /\ burned \in Nat
         /\ play \in [DuelUsers -> Handlers \cup {Nobody}]
         /\ match \in [Challengers -> Handlers \cup {Nobody, "sweeper"}]
         /\ duelWriter \in Handlers \cup {Nobody}
         /\ sweep \in Sweeper /\ SweeperOwns
         /\ matches \in 0..MaxMatch /\ matches \in Nat /\ settled \in [Matches -> Nat]
         /\ MaxMatch \in Nat /\ Challengers \subseteq DuelUsers
  BY DuelAssumption DEF DuelInv, Typed

LEMMA JobFields ==
  ASSUME NEW j \in Job
  PROVE  /\ j = [step |-> j.step, user |-> j.user, key |-> j.key, opponent |-> j.opponent,
                 goal |-> j.goal, match |-> j.match, wins |-> j.wins, outcome |-> j.outcome]
         /\ j.step \in DuelSteps /\ j.user \in DuelUsers \cup {Nobody} /\ j.key \in Challengers \cup {Nobody}
         /\ j.opponent \in DuelUsers \cup {Nobody} /\ j.goal \in Nat
         /\ j.match \in Matches \cup {0} /\ j.match \in Nat
         /\ j.wins \in Tally /\ j.outcome \in Seats \cup {Nobody}
<1>1. MaxMatch \in Nat
  BY DuelAssumption
<1>. QED
  BY <1>1 DEF Job, Matches

LEMMA RecordFields ==
  ASSUME NEW r \in Record
  PROVE  /\ r = [state |-> r.state, match |-> r.match, opponent |-> r.opponent, goal |-> r.goal,
                 rolled |-> r.rolled, wins |-> r.wins, stamped |-> r.stamped, due |-> r.due]
         /\ r.state \in {"none", "acceptance", "rolls"}
         /\ r.match \in Matches \cup {0} /\ r.match \in Nat
         /\ r.opponent \in DuelUsers \cup {Nobody} /\ r.goal \in Nat /\ r.rolled \in SUBSET Seats
         /\ r.wins \in Tally /\ r.stamped \in BOOLEAN /\ r.due \in BOOLEAN
<1>1. MaxMatch \in Nat
  BY DuelAssumption
<1>. QED
  BY <1>1 DEF Record, Matches

\* A handler that keeps its place keeps what is its own.
LEMMA OwnedKept ==
  ASSUME DuelInv, NEW p, Moves(p), NEW q \in Handlers, q # p, AtDuel(q, "held") => duelWallet' = duelWallet
  PROVE  Owned(q)'
<1>1. job'[q] = job[q] /\ Owned(q) /\ job \in [Handlers -> Job]
  BY DEF Moves, JobMoves, DuelInv, Typed
<1>2. /\ \A c \in Challengers : match[c] = q => match'[c] = q
      /\ \A u \in DuelUsers : play[u] = q => play'[u] = q
      /\ duelWriter = q => duelWriter' = q
  BY DEF Moves, LockMoves
<1>3. Challengers \subseteq DuelUsers
  BY DuelAssumption
<1>4. job[q].step \in Guarded => job[q].key \in Challengers
  BY <1>1 DEF Owned, Guarded
<1>5. AtDuel(q, "fill") => job[q].key \in DuelUsers
  BY <1>1, <1>3 DEF Owned, AtDuel
<1>6. Player(q, "challenger")' = Player(q, "challenger") /\ \A s : Player(q, s)' = Player(q, s)
  BY <1>1 DEF Player
<1>7. Players(q)' = Players(q)
  BY <1>1 DEF Players, Player
<1>. QED
  BY <1>1, <1>2, <1>4, <1>5, <1>6, <1>7 DEF Owned, AtDuel, Decided

LEMMA LiveKept ==
  ASSUME DuelInv, NEW p, Moves(p), NEW q \in Handlers
  PROVE  Live(q)'
<1>0. /\ \A r \in Handlers : Live(r) /\ Owned(r) /\ job[r].match <= matches /\ job[r].match \in Nat
      /\ wiped \subseteq wiped' /\ overwritten \subseteq overwritten' /\ matches \in Nat
  BY Parts, JobFields DEF DuelInv, Numbered, Moves, RecordMoves
<1>1. ASSUME q # p, Decided(q)', job'[q].match # 0
      PROVE  OnRecord(q)'
  <2>0. PICK m, k : m = job[q].match /\ k = job[q].key
    OBVIOUS
  <2>1. job'[q] = job[q] /\ Decided(q) /\ m # 0 /\ k \in Challengers /\ job[q].step \in Guarded
    BY <1>0, <1>1, <2>0 DEF Moves, JobMoves, Decided, Owned, Guarded
  <2>2. /\ m \in wiped \cup overwritten \/ (fsm[k].match = m /\ Rolled(k))
        /\ \A c \in Challengers : fsm[c].match = m => c = k /\ (Rolled(c) \/ Marred(m))
    BY <1>0, <2>0, <2>1 DEF Live, OnRecord
  <2>3. Marred(m) => Marred(m)' /\ m \in overwritten
    BY <1>0, <2>1 DEF Marred
  <2>4. CASE fsm' = fsm
    <3>1. \A c \in Challengers : Rolled(c)' <=> Rolled(c)
      BY <2>4 DEF Rolled
    <3>. QED
      BY <1>0, <2>1, <2>2, <2>3, <2>4, <3>1, <2>0 DEF OnRecord
  <2>5. ASSUME NEW c \in Challengers, Writes(p, c)
        PROVE  OnRecord(q)'
    <3>1. \A d \in Challengers \ {c} : fsm'[d] = fsm[d] /\ (Rolled(d)' <=> Rolled(d))
      BY <2>5 DEF Writes, Rolled
    <3>2. c = k => ~ Alone(p, c)
      BY <1>1, <2>0, <2>1 DEF Alone
    <3>3. fsm'[c].match = m => fsm[c].match = m
      <4>1. m <= matches /\ m \in Nat
        BY <1>0, <2>0
      <4>. QED
        BY <1>0, <2>1, <2>5, <4>1, Parts DEF Writes
    <3>4. fsm'[c].match = m => c = k /\ (Rolled(c)' \/ Marred(m))
      BY <2>1, <2>2, <2>5, <3>2, <3>3 DEF Writes
    <3>5. c = k => m \in wiped' \cup overwritten' \/ (fsm'[c].match = m /\ Rolled(c)')
      BY <1>0, <2>1, <2>2, <2>3, <2>5, <3>2, <3>3, <3>4 DEF Writes
    <3>6. m \in wiped' \cup overwritten' \/ (fsm'[k].match = m /\ Rolled(k)')
      BY <1>0, <2>1, <2>2, <3>1, <3>5
    <3>7. \A d \in Challengers : fsm'[d].match = m => d = k /\ (Rolled(d)' \/ Marred(m)')
      BY <2>2, <2>3, <3>1, <3>4
    <3>. QED
      BY <2>0, <2>1, <3>6, <3>7 DEF OnRecord
  <2>. QED
    BY <2>4, <2>5 DEF Moves, RecordMoves
<1>2. ASSUME q = p, Decided(q)', job'[q].match # 0
      PROVE  OnRecord(q)'
  BY <1>2 DEF Moves, JobMoves
<1>3. ASSUME NEW r \in Handlers, NEW s \in Handlers, r # p, Decided(r)', Decided(s)',
             job'[s].match = job'[r].match, job'[r].match # 0
      PROVE  s = r
  <2>1. job'[r] = job[r] /\ Decided(r) /\ job[r].step \in Guarded
    BY <1>3 DEF Moves, JobMoves, Decided, Guarded
  <2>2. CASE s # p
    BY <1>0, <1>3, <2>1, <2>2 DEF Moves, JobMoves, Decided, Live
  <2>3. CASE s = p
    <3>1. CASE Decided(s) /\ job'[s].match = job[s].match
      BY <1>0, <1>3, <2>1, <3>1 DEF Live
    <3>2. CASE /\ job'[s].match = fsm[job'[s].key].match /\ Alone(s, job'[s].key)
      <4>1. job'[s].key \in Challengers
        BY <1>3, <2>3 DEF Moves, JobMoves, Owned, Decided
      <4>2. job'[s].key = job[r].key
        BY <1>0, <1>3, <2>1, <3>2, <4>1 DEF Live, OnRecord
      <4>. QED
        BY <1>3, <2>1, <2>3, <3>2, <4>2 DEF Alone
    <3>. QED
      BY <1>3, <2>3, <3>1, <3>2 DEF Moves, JobMoves
  <2>. QED
    BY <2>2, <2>3
<1>. QED
  BY <1>1, <1>2, <1>3 DEF Live

LEMMA PaidKept ==
  ASSUME DuelInv, NEW p, Moves(p), settled' = settled
  PROVE  PaidIsClosed'
<1> SUFFICES ASSUME NEW m \in Matches, settled[m] # 0, ~ Marred(m)'
             PROVE  settled[m] = 1 /\ Closed(m)'
  BY DEF PaidIsClosed
<1>0. /\ wiped \subseteq wiped' /\ overwritten \subseteq overwritten' /\ matches \in Nat /\ m # 0 /\ m \in Nat
      /\ \A c \in Challengers : fsm[c].match \in Nat
  BY Parts, RecordFields DEF Moves, RecordMoves, Matches
<1>1. settled[m] = 1 /\ Closed(m) /\ ~ Marred(m)
  BY <1>0 DEF DuelInv, PaidIsClosed, Marred
<1>2. m <= matches
  BY <1>0 DEF DuelInv, Numbered
<1>3. ASSUME NEW q \in Handlers, Decided(q)' PROVE job'[q].match # m
  <2>1. CASE q # p
    BY <1>1, <1>3, <2>1 DEF Moves, JobMoves, Closed, Decided
  <2>2. CASE q = p
    <3>1. job'[q].key \in Challengers
      BY <1>3, <2>2 DEF Moves, JobMoves, Owned, Decided
    <3>. QED
      BY <1>1, <1>3, <2>2, <3>1 DEF Moves, JobMoves, Closed
  <2>. QED
    BY <2>1, <2>2
<1>4. ASSUME NEW c \in Challengers, fsm'[c].match = m
      PROVE  fsm[c].match = m /\ Rolled(c)'
  <2>1. CASE fsm' = fsm
    BY <1>1, <1>4, <2>1 DEF Closed, Rolled
  <2>2. ASSUME NEW k \in Challengers, Writes(p, k)
        PROVE  fsm[c].match = m /\ Rolled(c)'
    <3>1. CASE c # k
      BY <1>1, <1>4, <2>2, <3>1 DEF Closed, Rolled, Writes
    <3>2. CASE c = k
      <4>1. fsm[k].match = m
        BY <1>0, <1>2, <1>4, <2>2, <3>2 DEF Writes
      <4>2. Rolled(k) /\ \A q \in Handlers : PlayingDuel(q) => job[q].key # k
        BY <1>1, <4>1 DEF Closed, PlayingDuel
      <4>. QED
        BY <1>0, <1>1, <1>4, <2>2, <3>2, <4>1, <4>2 DEF Writes
    <3>. QED
      BY <3>1, <3>2
  <2>. QED
    BY <2>1, <2>2 DEF Moves, RecordMoves
<1>5. ASSUME NEW c \in Challengers, fsm'[c].match = m, NEW q \in Handlers, PlayingDuel(q)'
      PROVE  job'[q].key # c
  <2>1. fsm[c].match = m /\ Rolled(c) /\ (PlayingDuel(q) => job[q].key # c)
    BY <1>1, <1>4, <1>5 DEF Closed, PlayingDuel
  <2>2. CASE q # p
    BY <1>5, <2>1, <2>2 DEF Moves, JobMoves, PlayingDuel
  <2>3. CASE q = p
    BY <1>5, <2>1, <2>3 DEF Moves, JobMoves
  <2>. QED
    BY <2>2, <2>3
<1>. QED
  BY <1>1, <1>3, <1>4, <1>5 DEF Closed, PlayingDuel

LEMMA NumberedKept ==
  ASSUME DuelInv, NEW p, Moves(p), \A m \in Matches : m > matches' => settled'[m] = 0
  PROVE  Numbered' /\ FillsBlank'
<1>0. /\ matches \in Nat /\ matches' \in Nat /\ matches' >= matches
      /\ wiped \subseteq wiped' /\ overwritten \subseteq overwritten'
      /\ \A c \in Challengers : fsm[c].match \in Nat /\ fsm[c].match <= matches
      /\ fsm' \in [Challengers -> Record]
      /\ \A c \in Challengers : fsm'[c].match \in Nat
  BY Parts, RecordFields DEF Moves, RecordMoves, Writes, DuelInv, Numbered
<1>1. ASSUME NEW q \in Handlers
      PROVE  job'[q].match <= matches' /\ (AtDuel(q, "fill")' => matches' > 0)
  <2>0. job[q].match <= matches /\ job[q].match \in Nat /\ (AtDuel(q, "fill") => matches > 0)
    BY Parts, JobFields DEF DuelInv, Numbered
  <2>1. CASE q # p
    BY <1>0, <2>0, <2>1 DEF Moves, JobMoves, AtDuel
  <2>2. CASE q = p
    BY <2>2 DEF Moves, JobMoves
  <2>. QED
    BY <2>1, <2>2
<1>2. ASSUME NEW c \in Challengers
      PROVE  fsm'[c].match <= matches' /\ (fsm'[c].opponent # Nobody => matches' > 0)
  <2>0. fsm[c].match <= matches /\ (fsm[c].opponent # Nobody => matches > 0)
    BY DEF DuelInv, Numbered
  <2>1. CASE fsm' = fsm
    BY <1>0, <2>0, <2>1
  <2>2. ASSUME NEW k \in Challengers, Writes(p, k), c = k
        PROVE  fsm'[c].match <= matches' /\ (fsm'[c].opponent # Nobody => matches' > 0)
    BY <1>0, <2>0, <2>2 DEF Writes
  <2>3. ASSUME NEW k \in Challengers, Writes(p, k), c # k
        PROVE  fsm'[c].match <= matches' /\ (fsm'[c].opponent # Nobody => matches' > 0)
    BY <1>0, <2>0, <2>3 DEF Writes
  <2>. QED
    BY <2>1, <2>2, <2>3 DEF Moves, RecordMoves
<1>3. ASSUME NEW c \in Challengers, NEW d \in Challengers, fsm'[c].match = fsm'[d].match,
             fsm'[c].match # 0
      PROVE  c = d
  <2>0. \A a \in Challengers, b \in Challengers :
          fsm[a].match = fsm[b].match /\ fsm[a].match # 0 => a = b
    BY DEF DuelInv, Numbered
  <2>1. CASE fsm' = fsm
    BY <1>3, <2>0, <2>1
  <2>2. ASSUME NEW k \in Challengers, Writes(p, k)
        PROVE  c = d
    <3>1. \A a \in Challengers : a # k => fsm'[a].match = fsm[a].match
      BY <2>2 DEF Writes
    <3>2. fsm'[k].match \in {fsm[k].match, 0} \/ fsm'[k].match > matches
      BY <1>0, <2>2 DEF Writes
    <3>3. \A a \in Challengers : a # k /\ fsm'[a].match = fsm'[k].match /\ fsm'[a].match # 0
                                   => fsm[a].match = fsm[k].match
      BY <1>0, <3>1, <3>2
    <3>. QED
      BY <1>3, <2>0, <3>1, <3>3
  <2>. QED
    BY <2>1, <2>2 DEF Moves, RecordMoves
<1>4. Numbered'
  BY <1>1, <1>2, <1>3 DEF Numbered, Moves, JobMoves
<1>5. ASSUME NEW q \in Handlers, AtDuel(q, "fill")'
      PROVE  FindsBlank(job[q].key)'
  <2>1. CASE q = p
    BY <1>5, <2>1 DEF Moves, JobMoves
  <2>2. CASE q # p
    <3>1. job'[q] = job[q] /\ AtDuel(q, "fill") /\ job[q].key \in Challengers
      BY <1>5, <2>2 DEF Moves, JobMoves, AtDuel, DuelInv, Owned
    <3>2. FindsBlank(job[q].key)
      BY <3>1 DEF DuelInv, FillsBlank
    <3>3. \A c \in Challengers : Marred(fsm[c].match) /\ fsm'[c].match = fsm[c].match => Marred(fsm[c].match)'
      BY <1>0 DEF Marred
    <3>4. CASE fsm' = fsm
      BY <3>1, <3>2, <3>3, <3>4 DEF FindsBlank
    <3>5. ASSUME NEW k \in Challengers, Writes(p, k)
          PROVE  FindsBlank(job[q].key)'
      <4>1. CASE job[q].key # k
        BY <3>1, <3>2, <3>3, <3>5, <4>1 DEF Writes, FindsBlank
      <4>2. CASE job[q].key = k
        <5>1. fsm'[k].opponent \in {fsm[k].opponent, Nobody} /\ fsm'[k].match \in {fsm[k].match, 0}
          BY <2>2, <3>1, <3>5, <4>2 DEF Writes
        <5>2. fsm'[k].match = 0 => Marred(fsm[k].match)'
          BY DEF Marred
        <5>. QED
          BY <3>1, <3>2, <3>3, <4>2, <5>1, <5>2 DEF FindsBlank
      <4>. QED
        BY <4>1, <4>2
    <3>. QED
      BY <3>1, <3>4, <3>5 DEF Moves, RecordMoves
  <2>. QED
    BY <2>1, <2>2
<1>. QED
  BY <1>4, <1>5 DEF FillsBlank

\* A step that moves no coins keeps the invariant.
LEMMA MovesKeep ==
  ASSUME DuelInv, NEW p, Moves(p), UNCHANGED moneyVars
  PROVE  DuelInv'
<1>1. duelWallet' = duelWallet /\ burned' = burned /\ settled' = settled
  BY DEF moneyVars
<1>2. Typed'
  BY <1>1, Parts DEF Typed, Moves, RecordMoves, JobMoves, LockMoves
<1>3. \A q \in Handlers : Owned(q)'
  BY <1>1, OwnedKept DEF Moves, JobMoves
<1>4. \A m \in Matches : m > matches' => settled'[m] = 0
  <2>1. matches \in Nat /\ matches' \in Nat /\ matches' >= matches /\ \A m \in Matches : m \in Nat
    BY Parts DEF Moves, RecordMoves, Writes, Matches
  <2>. QED
    BY <1>1, <2>1 DEF DuelInv, Numbered
<1>. QED
  BY <1>1, <1>2, <1>3, <1>4, LiveKept, PaidKept, NumberedKept DEF DuelInv, Moves, LockMoves

-----------------------------------------------------------------------------
(* The records and the jobs that the actions write.                         *)

LEMMA BlankTyped == Blank \in Record /\ Blank.match = 0 /\ Blank.opponent = Nobody /\ Blank.rolled = {}
                    /\ Blank.state = "none"
<1>1. [s \in Seats |-> 0] \in Tally
  BY DEF Tally
<1>. QED
  BY <1>1 DEF Blank, Record

LEMMA IdleTyped == Idle \in Job /\ Idle.step = "idle" /\ Idle.match = 0 /\ Idle.key = Nobody
<1>1. [s \in Seats |-> 0] \in Tally
  BY DEF Tally
<1>. QED
  BY <1>1 DEF Idle, Job, DuelSteps

PutDue(r, b) == [r EXCEPT !.due = b]
LEMMA DueRecord ==
  ASSUME NEW r \in Record, NEW b \in BOOLEAN
  PROVE  /\ PutDue(r, b) \in Record /\ PutDue(r, b).match = r.match
         /\ PutDue(r, b).opponent = r.opponent /\ PutDue(r, b).state = r.state
         /\ PutDue(r, b).rolled = r.rolled
  BY DEF Record, PutDue

PutCancel(c, s) == [Idle EXCEPT !.key = c, !.step = s]
LEMMA CancelJob ==
  ASSUME NEW c \in Challengers, NEW s \in DuelSteps
  PROVE  /\ PutCancel(c, s) \in Job /\ PutCancel(c, s).step = s /\ PutCancel(c, s).key = c
         /\ PutCancel(c, s).match = 0
<1>1. PutCancel(c, s).step = s /\ PutCancel(c, s).key = c /\ PutCancel(c, s).match = 0
  BY DEF PutCancel, Idle
<1>2. PICK j : j = Idle
  OBVIOUS
<1>3. [j EXCEPT !.key = c, !.step = s] \in Job
  BY <1>2, IdleTyped DEF Job
<1>. QED
  BY <1>1, <1>2, <1>3 DEF PutCancel

LEMMA Handles ==
  /\ Nobody \notin Handlers /\ Nobody \notin DuelUsers /\ Nobody \notin Challengers
  /\ "sweeper" \notin Handlers /\ "sweeper" # Nobody
  /\ IsFiniteSet(Handlers) /\ MaxMatch \in Nat
  BY DuelAssumption

\* Who holds the lock of a match, or finds it free, is alone with it.
LEMMA AloneIf ==
  ASSUME DuelInv, NEW p, NEW k \in Challengers, match[k] \in {Nobody, "sweeper", p}
  PROVE  Alone(p, k)
  BY Handles DEF Alone, DuelInv, Owned

LEMMA TypingKept ==
  ASSUME DuelInv, NEW p, \A q \in Handlers \ {p} : job'[q] = job[q],
         p \in Handlers => ~ AtDuel(p, "duel")'
  PROVE  matches + Cardinality(Typing') <= MaxMatch
<1>1. Typing' \subseteq Typing /\ IsFiniteSet(Typing)
  BY Handles, FS_Subset DEF Typing, AtDuel
<1>2. /\ Cardinality(Typing') <= Cardinality(Typing)
      /\ Cardinality(Typing) \in Nat /\ Cardinality(Typing') \in Nat
  BY <1>1, FS_Subset, FS_CardinalityType
<1>. QED
  BY <1>2, Parts DEF DuelInv, Numbered

LEMMA LostKept ==
  ASSUME UNCHANGED lostVars
  PROVE  wiped' = wiped /\ overwritten' = overwritten
  BY DEF lostVars

LEMMA SameRecords ==
  ASSUME DuelInv, NEW p, fsm' = fsm, matches' = matches, UNCHANGED lostVars
  PROVE  RecordMoves(p)
  BY Parts, LostKept DEF RecordMoves

LEMMA SameLocks ==
  ASSUME DuelInv, NEW p, UNCHANGED <<duelLockVars, duelWriter, sweep>>
  PROVE  LockMoves(p)
  BY Parts DEF LockMoves, duelLockVars, SweeperOwns

LEMMA SameJobs ==
  ASSUME DuelInv, NEW p, p \notin Handlers, job' = job, matches' = matches
  PROVE  JobMoves(p)
  BY Parts, TypingKept DEF JobMoves

\* A handler at a step where it decides nothing, with the lock it needs.
LEMMA PlainJob ==
  ASSUME DuelInv, NEW p \in Handlers, job' = [job EXCEPT ![p] = job'[p]], job'[p] \in Job,
         matches' = matches, job'[p].match <= matches,
         job'[p].step \in {"idle", "accept", "clear", "cancel", "wipe"},
         job'[p].step # "idle" => job'[p].key \in Challengers,
         job'[p].step = "clear" => match'[job'[p].key] = p
  PROVE  JobMoves(p)
<1>1. job' \in [Handlers -> Job] /\ \A q \in Handlers \ {p} : job'[q] = job[q]
  BY Parts
<1>2. /\ ~ AtDuel(p, "duel")' /\ ~ AtDuel(p, "fill")' /\ ~ AtDuel(p, "held")'
      /\ ~ Decided(p)' /\ ~ PlayingDuel(p)'
  BY DEF AtDuel, Decided, PlayingDuel
<1>3. Owned(p)'
  BY <1>2 DEF Owned, Guarded, AtDuel
<1>4. matches' + Cardinality(Typing') <= MaxMatch
  BY <1>1, <1>2, TypingKept
<1>. QED
  BY <1>1, <1>2, <1>3, <1>4 DEF JobMoves

LEMMA EndMoves ==
  ASSUME DuelInv, NEW p \in Handlers, End(p), matches' = matches
  PROVE  JobMoves(p)
<1>1. job'[p] = Idle /\ job' = [job EXCEPT ![p] = job'[p]]
  BY Parts DEF End
<1>. QED
  BY <1>1, IdleTyped, Parts, PlainJob

LEMMA BecomeMoves ==
  ASSUME DuelInv, NEW p \in Handlers, NEW step, ToStep(p, step), matches' = matches,
         step \in {"clear", "wipe"}, ~ AtDuel(p, "idle"), step = "clear" => match'[job[p].key] = p
  PROVE  JobMoves(p)
<1>1. /\ job'[p] = [job[p] EXCEPT !.step = step] /\ job' = [job EXCEPT ![p] = job'[p]]
      /\ job[p] \in Job
  BY Parts DEF ToStep
<1>2. /\ job'[p] \in Job /\ job'[p].step = step /\ job'[p].key = job[p].key
      /\ job'[p].match = job[p].match
  BY <1>1 DEF Job, DuelSteps
<1>3. job[p].key \in Challengers /\ job[p].match <= matches
  BY DEF DuelInv, Owned, Numbered, AtDuel
<1>. QED
  BY <1>1, <1>2, <1>3, PlainJob

LEMMA DropMoves ==
  ASSUME DuelInv, NEW p \in Handlers, Drop(p), matches' = matches, sweep' = sweep,
         duelWriter' = duelWriter \/ (duelWriter = p /\ duelWriter' = Nobody)
  PROVE  JobMoves(p) /\ LockMoves(p)
<1>1. JobMoves(p)
  BY EndMoves DEF Drop
<1>2. /\ match' \in [Challengers -> Handlers \cup {Nobody, "sweeper"}]
      /\ play' \in [DuelUsers -> Handlers \cup {Nobody}] /\ duelWriter' \in Handlers \cup {Nobody}
  BY Parts DEF Drop
<1>3. \A q \in Handlers \ {p} :
       /\ \A c \in Challengers : match[c] = q => match'[c] = q
       /\ \A u \in DuelUsers : play[u] = q => play'[u] = q
       /\ duelWriter = q => duelWriter' = q
  BY DEF Drop
<1>4. SweeperOwns'
  BY Parts, Handles DEF Drop, SweeperOwns
<1>. QED
  BY <1>1, <1>2, <1>3, <1>4, Parts DEF LockMoves

\* A record that is cleared.
LEMMA ClearsRecord ==
  ASSUME DuelInv, NEW p, NEW k \in Challengers, fsm' = [fsm EXCEPT ![k] = Blank],
         matches' = matches, wiped \subseteq wiped', overwritten \subseteq overwritten',
         fsm[k].match # 0 => fsm[k].match \in wiped' \cup overwritten' \/ Alone(p, k)
  PROVE  RecordMoves(p)
<1>1. fsm' \in [Challengers -> Record] /\ fsm'[k] = Blank
      /\ \A c \in Challengers \ {k} : fsm'[c] = fsm[c]
  BY Parts, BlankTyped
<1>2. Writes(p, k)
  BY <1>1, BlankTyped DEF Writes
<1>. QED
  BY <1>1, <1>2, Parts DEF RecordMoves

-----------------------------------------------------------------------------
(* The steps that clear a record, or touch none.                            *)

LEMMA Declines ==
  ASSUME DuelInv, NEW c \in Challengers, DeclineDuel(c)
  PROVE  Moves("sweeper")
<1>1. RecordMoves("sweeper")
  BY AloneIf, ClearsRecord, LostKept DEF DeclineDuel, Free
<1>. QED
  BY <1>1, SameJobs, SameLocks, Handles DEF DeclineDuel, Moves

LEMMA Ages ==
  ASSUME DuelInv, NEW c \in Challengers, Age(c)
  PROVE  Moves("sweeper")
<1>1. fsm' = [fsm EXCEPT ![c].due = TRUE] /\ UNCHANGED <<matches, lostVars>>
  BY DEF Age
<1>. PICK t : t = TRUE
  OBVIOUS
<1>0. t \in BOOLEAN
  OBVIOUS
<1>2. fsm' = [fsm EXCEPT ![c].due = t]
  BY <1>1, Zenon
<1>3. fsm[c] \in Record /\ fsm'[c] = PutDue(fsm[c], t)
      /\ \A d \in Challengers \ {c} : fsm'[d] = fsm[d]
  BY <1>2, Parts DEF PutDue
<1>4. /\ fsm'[c] \in Record /\ fsm'[c].match = fsm[c].match /\ fsm'[c].opponent = fsm[c].opponent
      /\ fsm'[c].state = fsm[c].state /\ fsm'[c].rolled = fsm[c].rolled
  BY <1>0, <1>3, DueRecord
<1>5. fsm' \in [Challengers -> Record]
  BY <1>2, <1>3, <1>4, Parts
<1>6. Writes("sweeper", c)
  BY <1>1, <1>3, <1>4 DEF Writes, Rolled, DuelInv, Numbered
<1>7. RecordMoves("sweeper")
  BY <1>1, <1>5, <1>6, Parts, LostKept DEF RecordMoves
<1>. QED
  BY <1>7, SameJobs, SameLocks, Handles DEF Age, Moves

LEMMA Clears ==
  ASSUME DuelInv, NEW p \in Handlers, RollClear(p) \/ CancelClear(p)
  PROVE  Moves(p)
<1>1. /\ job[p].key \in Challengers /\ Drop(p) /\ UNCHANGED <<duelWriter, sweep, matches, lostVars>>
      /\ fsm' = [fsm EXCEPT ![job[p].key] = Blank]
  BY DEF RollClear, CancelClear, AtDuel, DuelInv, Owned
<1>2. match[job[p].key] \in {Nobody, p}
  BY DEF RollClear, CancelClear, AtDuel, Free, DuelInv, Owned, Guarded
<1>3. RecordMoves(p)
  BY <1>1, <1>2, AloneIf, ClearsRecord, LostKept
<1>. QED
  BY <1>1, <1>3, DropMoves DEF Moves

LEMMA Wipes ==
  ASSUME DuelInv, NEW p \in Handlers, CancelWipe(p)
  PROVE  Moves(p)
<1>1. job[p].key \in Challengers
  BY DEF CancelWipe, AtDuel, DuelInv, Owned
<1>2. RecordMoves(p)
  BY <1>1, ClearsRecord DEF CancelWipe
<1>. QED
  BY <1>2, EndMoves, SameLocks DEF CancelWipe, Moves

LEMMA CancelFails ==
  ASSUME DuelInv, NEW p \in Handlers, CancelRaises(p)
  PROVE  Moves(p)
<1>1. ~ AtDuel(p, "idle")
  BY DEF CancelRaises, AtDuel
<1>. QED
  BY <1>1, SameRecords, SameLocks, BecomeMoves DEF CancelRaises, Moves

LEMMA Loses ==
  ASSUME DuelInv, NEW p \in Handlers, RollLost(p)
  PROVE  Moves(p)
  BY SameRecords, DropMoves DEF RollLost, Moves

LEMMA CancelReads ==
  ASSUME DuelInv, NEW p \in Handlers, NEW c \in Challengers, CancelRead(p, c)
  PROVE  Moves(p)
<1>. PICK s : s = IF fsm[c].stamped THEN "cancel" ELSE "wipe"
  OBVIOUS
<1>1. job' = [job EXCEPT ![p] = PutCancel(c, s)]
  BY DEF CancelRead, PutCancel
<1>2. s \in {"cancel", "wipe"} /\ s \in DuelSteps
  BY DEF DuelSteps
<1>3. job'[p] = PutCancel(c, s) /\ job' = [job EXCEPT ![p] = job'[p]]
  BY <1>1, Parts
<1>4. job'[p] \in Job /\ job'[p].step = s /\ job'[p].key = c /\ job'[p].match = 0
  BY <1>2, <1>3, CancelJob
<1>5. job'[p].match <= matches /\ matches' = matches
  BY <1>4, Parts DEF CancelRead
<1>6. JobMoves(p)
  BY <1>2, <1>3, <1>4, <1>5, PlainJob
<1>. QED
  BY <1>6, SameRecords, SameLocks DEF CancelRead, Moves

-----------------------------------------------------------------------------
(* What a field-by-field write makes of a record or a job.                  *)

PutDuel(u, o, n) ==
  [Idle EXCEPT !.step = "duel", !.user = u, !.key = u, !.opponent = o, !.goal = n]
LEMMA DuelJob ==
  ASSUME NEW u \in Challengers, NEW o \in DuelUsers, NEW n \in Nat
  PROVE  /\ PutDuel(u, o, n) \in Job /\ PutDuel(u, o, n).step = "duel"
         /\ PutDuel(u, o, n).user = u /\ PutDuel(u, o, n).key = u /\ PutDuel(u, o, n).match = 0
<1>1. /\ PutDuel(u, o, n).step = "duel" /\ PutDuel(u, o, n).user = u
      /\ PutDuel(u, o, n).key = u /\ PutDuel(u, o, n).match = 0
  BY DEF PutDuel, Idle
<1>2. PICK j : j = Idle
  OBVIOUS
<1>3. [j EXCEPT !.step = "duel", !.user = u, !.key = u, !.opponent = o, !.goal = n] \in Job
  BY <1>2, IdleTyped, DuelAssumption DEF Job, DuelSteps
<1>. QED
  BY <1>1, <1>2, <1>3 DEF PutDuel

PutAccept(u, c) == [Idle EXCEPT !.step = "accept", !.user = u, !.key = c]
LEMMA AcceptJob ==
  ASSUME NEW u \in DuelUsers, NEW c \in Challengers
  PROVE  /\ PutAccept(u, c) \in Job /\ PutAccept(u, c).step = "accept"
         /\ PutAccept(u, c).key = c /\ PutAccept(u, c).match = 0
<1>1. PutAccept(u, c).step = "accept" /\ PutAccept(u, c).key = c /\ PutAccept(u, c).match = 0
  BY DEF PutAccept, Idle
<1>2. PICK j : j = Idle
  OBVIOUS
<1>3. [j EXCEPT !.step = "accept", !.user = u, !.key = c] \in Job
  BY <1>2, IdleTyped DEF Job, DuelSteps
<1>. QED
  BY <1>1, <1>2, <1>3 DEF PutAccept

PutDecided(u, c, r) ==
  [Idle EXCEPT !.step = "decided", !.user = u, !.key = c, !.opponent = r.opponent,
               !.goal = r.goal, !.match = r.match, !.wins = r.wins]
LEMMA DecidedJob ==
  ASSUME NEW u \in DuelUsers, NEW c \in Challengers, NEW r \in Record
  PROVE  /\ PutDecided(u, c, r) \in Job /\ PutDecided(u, c, r).step = "decided"
         /\ PutDecided(u, c, r).key = c /\ PutDecided(u, c, r).opponent = r.opponent
         /\ PutDecided(u, c, r).match = r.match
<1>1. /\ PutDecided(u, c, r).step = "decided" /\ PutDecided(u, c, r).key = c
      /\ PutDecided(u, c, r).opponent = r.opponent /\ PutDecided(u, c, r).match = r.match
  BY DEF PutDecided, Idle
<1>2. PICK j, o, n, m, w : j = Idle /\ o = r.opponent /\ n = r.goal /\ m = r.match /\ w = r.wins
  OBVIOUS
<1>3. j \in Job /\ o \in DuelUsers \cup {Nobody} /\ n \in Nat /\ m \in Matches \cup {0} /\ w \in Tally
  BY <1>2, RecordFields, IdleTyped
<1>4. [j EXCEPT !.step = "decided", !.user = u, !.key = c, !.opponent = o, !.goal = n,
                !.match = m, !.wins = w] \in Job
  BY <1>3 DEF Job, DuelSteps
<1>. QED
  BY <1>1, <1>2, <1>4 DEF PutDecided

PutHeld(j, w) == [j EXCEPT !.step = "held", !.outcome = w]
LEMMA HeldJob ==
  ASSUME NEW j \in Job, NEW w \in Seats \cup {Nobody}
  PROVE  /\ PutHeld(j, w) \in Job /\ PutHeld(j, w).key = j.key /\ PutHeld(j, w).match = j.match
         /\ PutHeld(j, w).opponent = j.opponent /\ PutHeld(j, w).step = "held"
         /\ PutHeld(j, w).outcome = w
  BY DEF PutHeld, Job, DuelSteps

PutStep(j, s) == [j EXCEPT !.step = s]
LEMMA StepJob ==
  ASSUME NEW j \in Job, NEW s \in DuelSteps
  PROVE  /\ PutStep(j, s) \in Job /\ PutStep(j, s).key = j.key /\ PutStep(j, s).match = j.match
         /\ PutStep(j, s).user = j.user /\ PutStep(j, s).step = s
  BY DEF PutStep, Job

PutAcceptance(r, m) == [r EXCEPT !.state = "acceptance", !.match = m]
LEMMA AcceptanceRecord ==
  ASSUME NEW r \in Record, NEW m \in Matches
  PROVE  /\ PutAcceptance(r, m) \in Record /\ PutAcceptance(r, m).match = m
         /\ PutAcceptance(r, m).opponent = r.opponent
  BY DEF PutAcceptance, Record

PutFill(r, o, n, t) ==
  [Blank EXCEPT !.state = r.state, !.match = r.match, !.stamped = t, !.opponent = o, !.goal = n]
LEMMA FillRecord ==
  ASSUME NEW r \in Record, NEW o \in DuelUsers \cup {Nobody}, NEW n \in Nat, NEW t \in BOOLEAN
  PROVE  PutFill(r, o, n, t) \in Record /\ PutFill(r, o, n, t).match = r.match
<1>1. PutFill(r, o, n, t).match = r.match
  BY DEF PutFill, Blank
<1>2. PICK b : b = Blank
  OBVIOUS
<1>3. [b EXCEPT !.state = r.state, !.match = r.match, !.stamped = t, !.opponent = o, !.goal = n]
        \in Record
  BY <1>2, BlankTyped DEF Record
<1>. QED
  BY <1>1, <1>2, <1>3 DEF PutFill

PutRolls(r, t, f) == [r EXCEPT !.state = "rolls", !.rolled = {}, !.stamped = t, !.due = f]
LEMMA RollsRecord ==
  ASSUME NEW r \in Record, NEW t \in BOOLEAN, NEW f \in BOOLEAN
  PROVE  /\ PutRolls(r, t, f) \in Record /\ PutRolls(r, t, f).match = r.match
         /\ PutRolls(r, t, f).opponent = r.opponent
  BY DEF PutRolls, Record

PutRound(r, w, t, f) == [r EXCEPT !.rolled = {}, !.wins = w, !.stamped = t, !.due = f]
LEMMA RoundRecord ==
  ASSUME NEW r \in Record, NEW w \in Tally, NEW t \in BOOLEAN, NEW f \in BOOLEAN
  PROVE  /\ PutRound(r, w, t, f) \in Record /\ PutRound(r, w, t, f).match = r.match
         /\ PutRound(r, w, t, f).opponent = r.opponent
  BY DEF PutRound, Record

PutStamp(r, S) == [r EXCEPT !.rolled = S]
LEMMA StampRecord ==
  ASSUME NEW r \in Record, NEW S \in SUBSET Seats
  PROVE  /\ PutStamp(r, S) \in Record /\ PutStamp(r, S).match = r.match
         /\ PutStamp(r, S).opponent = r.opponent /\ PutStamp(r, S).state = r.state
         /\ PutStamp(r, S).rolled = S
  BY DEF PutStamp, Record

\* One record is written, or one job.
LEMMA OneRecord ==
  ASSUME DuelInv, NEW k \in Challengers, NEW r \in Record, fsm' = [fsm EXCEPT ![k] = r]
  PROVE  /\ fsm' \in [Challengers -> Record] /\ fsm'[k] = r
         /\ \A c \in Challengers \ {k} : fsm'[c] = fsm[c]
  BY Parts

LEMMA OneJob ==
  ASSUME DuelInv, NEW p \in Handlers, NEW j \in Job, job' = [job EXCEPT ![p] = j]
  PROVE  /\ job' \in [Handlers -> Job] /\ job'[p] = j
         /\ \A q \in Handlers \ {p} : job'[q] = job[q]
  BY Parts

\* A lock that was free is taken.
LEMMA TakesMatch ==
  ASSUME DuelInv, NEW p \in Handlers \cup {"sweeper"}, NEW k \in Challengers, Free(match, k),
         match' = Taken(match, k, p), UNCHANGED <<play, duelWriter>>, sweep' \in Sweeper, SweeperOwns'
  PROVE  LockMoves(p) /\ match'[k] = p
  BY Parts, Handles DEF LockMoves, Free, Taken

LEMMA TakesPlay ==
  ASSUME DuelInv, NEW p \in Handlers, NEW u \in DuelUsers, Free(play, u),
         play' = Taken(play, u, p), UNCHANGED <<match, duelWriter, sweep>>
  PROVE  LockMoves(p) /\ play'[u] = p
  BY Parts, Handles DEF LockMoves, Free, Taken, SweeperOwns

-----------------------------------------------------------------------------
(* The steps that write a record, decide a match or take a lock.            *)

LEMMA DuelReads ==
  ASSUME DuelInv, NEW p \in Handlers, NEW u \in Challengers, NEW o \in DuelUsers, NEW n \in Rounds,
         DuelRead(p, u, o, n)
  PROVE  Moves(p)
<1>0. n \in Nat
  BY DuelAssumption
<1>1. job' = [job EXCEPT ![p] = PutDuel(u, o, n)] /\ UNCHANGED <<matches, fsm, lostVars>>
  BY DEF DuelRead, PutDuel
<1>2. PICK j : j = PutDuel(u, o, n)
  OBVIOUS
<1>3. j \in Job /\ j.step = "duel" /\ j.user = u /\ j.key = u /\ j.match = 0
  BY <1>0, <1>2, DuelJob
<1>4. /\ job' \in [Handlers -> Job] /\ job'[p] = j
      /\ \A q \in Handlers \ {p} : job'[q] = job[q]
  BY <1>1, <1>2, <1>3, OneJob
<1>5. ~ AtDuel(p, "fill")' /\ ~ Decided(p)' /\ ~ PlayingDuel(p)' /\ Owned(p)' /\ job'[p].match <= matches'
  BY <1>1, <1>3, <1>4, Parts DEF AtDuel, Decided, PlayingDuel, Owned, Guarded
<1>6. matches' + Cardinality(Typing') <= MaxMatch
  <2>1. Typing' = Typing \cup {p} /\ p \notin Typing /\ IsFiniteSet(Typing)
    BY <1>3, <1>4, Handles, FS_Subset DEF Typing, AtDuel, DuelRead
  <2>2. Cardinality(Typing') = Cardinality(Typing) + 1 /\ Cardinality(Typing) \in Nat
    BY <2>1, FS_AddElement, FS_CardinalityType
  <2>3. matches + Cardinality(Typing) < MaxMatch
    BY DEF DuelRead, Typing, AtDuel
  <2>. QED
    BY <1>1, <2>2, <2>3, Parts
<1>7. JobMoves(p)
  BY <1>4, <1>5, <1>6 DEF JobMoves
<1>. QED
  BY <1>7, SameRecords, SameLocks DEF DuelRead, Moves

LEMMA AcceptLocks ==
  ASSUME DuelInv, NEW p \in Handlers, NEW u \in DuelUsers, NEW c \in Challengers, AcceptLock(p, u, c)
  PROVE  Moves(p)
<1>1. job' = [job EXCEPT ![p] = PutAccept(u, c)] /\ UNCHANGED <<matches, fsm, lostVars>>
  BY DEF AcceptLock, PutAccept
<1>2. /\ job'[p] \in Job /\ job'[p].step = "accept" /\ job'[p].key = c /\ job'[p].match = 0
      /\ job' = [job EXCEPT ![p] = job'[p]]
  BY <1>1, AcceptJob, Parts
<1>3. job'[p].match <= matches
  BY <1>2, Parts
<1>4. JobMoves(p)
  BY <1>1, <1>2, <1>3, PlainJob
<1>5. LockMoves(p)
  BY TakesPlay DEF AcceptLock
<1>. QED
  BY <1>1, <1>4, <1>5, SameRecords DEF Moves

LEMMA DuelStates ==
  ASSUME DuelInv, NEW p \in Handlers, NEW allowed, DuelState(p, allowed)
  PROVE  Moves(p)
<1>1. CASE ~ allowed
  BY <1>1, SameRecords, EndMoves, SameLocks DEF DuelState, Moves, duelLockVars, lostVars
<1>2. CASE allowed
  <2>0. PICK k : k = job[p].key
    OBVIOUS
  <2>1. /\ k \in Challengers /\ k \in DuelUsers /\ job[p].user = k /\ AtDuel(p, "duel") /\ Free(play, k)
        /\ job[p] \in Job /\ fsm[k] \in Record
    BY <2>0, Parts DEF DuelState, AtDuel, DuelInv, Owned
  <2>2. /\ play' = Taken(play, k, p) /\ matches' = matches + 1
        /\ overwritten' = IF fsm[k] = Blank THEN overwritten
                          ELSE overwritten \cup {fsm[k].match, matches + 1}
        /\ UNCHANGED <<wiped, match, duelWriter, sweep>>
    BY <1>2, <2>0, <2>1 DEF DuelState
  <2>3. fsm' = [fsm EXCEPT ![k].state = "acceptance", ![k].match = matches + 1]
    BY <1>2, <2>0 DEF DuelState
  <2>4. Typing \ {p} \subseteq Typing /\ p \in Typing /\ IsFiniteSet(Typing)
    BY <2>1, Handles, FS_Subset DEF Typing
  <2>5. /\ Cardinality(Typing \ {p}) = Cardinality(Typing) - 1
        /\ Cardinality(Typing) \in Nat /\ Cardinality(Typing \ {p}) \in Nat
    BY <2>4, FS_RemoveElement, FS_CardinalityType, FS_Subset
  <2>6. matches + 1 + Cardinality(Typing \ {p}) <= MaxMatch /\ matches + 1 \in Matches
    BY <2>5, Parts DEF DuelInv, Numbered, Matches
  <2>7. fsm' = [fsm EXCEPT ![k] = PutAcceptance(fsm[k], matches + 1)]
    BY <2>1, <2>3, Parts DEF PutAcceptance
  <2>8. /\ fsm' \in [Challengers -> Record] /\ \A c \in Challengers \ {k} : fsm'[c] = fsm[c]
        /\ fsm'[k].match = matches' /\ fsm'[k].opponent = fsm[k].opponent
    <3>1. PICK r : r = PutAcceptance(fsm[k], matches + 1)
      OBVIOUS
    <3>2. r \in Record /\ r.match = matches + 1 /\ r.opponent = fsm[k].opponent
      BY <2>1, <2>6, <3>1, AcceptanceRecord
    <3>3. fsm' = [fsm EXCEPT ![k] = r]
      BY <2>7, <3>1
    <3>. QED
      BY <2>1, <2>2, <3>2, <3>3, OneRecord
  <2>9. /\ wiped \subseteq wiped' /\ overwritten \subseteq overwritten'
        /\ fsm[k].match # 0 => fsm[k].match \in overwritten'
    BY <2>2, BlankTyped
  <2>10. fsm[k].match <= matches /\ fsm[k].match \in Nat /\ matches \in Nat
    BY <2>1, Parts, RecordFields DEF DuelInv, Numbered
  <2>11. \A q \in Handlers \ {p} : AtDuel(q, "fill") => job[q].key # k
    BY <2>1, Handles DEF DuelInv, Owned, Free
  <2>12. Writes(p, k)
    BY <2>2, <2>8, <2>9, <2>10, <2>11 DEF Writes
  <2>13. RecordMoves(p)
    BY <2>1, <2>2, <2>6, <2>8, <2>9, <2>12, Parts DEF RecordMoves, Matches
  <2>14. LockMoves(p) /\ play'[k] = p
    BY <2>1, <2>2, TakesPlay
  <2>15. job' = [job EXCEPT ![p] = PutStep(job[p], "fill")]
    BY <1>2, Parts DEF DuelState, ToStep, PutStep
  <2>16. "fill" \in DuelSteps
    BY DEF DuelSteps
  <2>17. /\ job' \in [Handlers -> Job] /\ \A q \in Handlers \ {p} : job'[q] = job[q]
         /\ job'[p].key = k /\ job'[p].user = k /\ job'[p].step = "fill" /\ job'[p].match = job[p].match
    <3>1. PICK j : j = PutStep(job[p], "fill")
      OBVIOUS
    <3>2. j \in Job /\ j.key = k /\ j.user = k /\ j.step = "fill" /\ j.match = job[p].match
      BY <2>0, <2>1, <2>16, <3>1, StepJob
    <3>3. job' = [job EXCEPT ![p] = j]
      BY <2>15, <3>1
    <3>. QED
      BY <3>2, <3>3, OneJob
  <2>18. ~ Decided(p)' /\ ~ PlayingDuel(p)' /\ Owned(p)'
    BY <2>1, <2>14, <2>17 DEF AtDuel, Decided, PlayingDuel, Owned, Guarded
  <2>19. FindsBlank(job[p].key)' /\ matches' > 0 /\ job'[p].match <= matches'
    <3>1. job[p].match <= matches /\ job[p].match \in Nat
      BY <2>1, JobFields DEF DuelInv, Numbered
    <3>2. CASE fsm[k].opponent = Nobody
      BY <2>2, <2>8, <2>10, <2>17, <3>1, <3>2 DEF FindsBlank
    <3>3. CASE fsm[k].opponent # Nobody
      <4>1. fsm[k] # Blank
        BY <3>3, BlankTyped
      <4>3. matches' \in overwritten'
        BY <2>2, <4>1
      <4>4. fsm'[job'[p].key].match = matches'
        BY <2>8, <2>17
      <4>. QED
        BY <2>2, <2>10, <3>1, <4>3, <4>4, <2>17 DEF FindsBlank, Marred
    <3>. QED
      BY <3>2, <3>3
  <2>20. matches' + Cardinality(Typing') <= MaxMatch
    <3>1. Typing' = Typing \ {p}
      BY <2>17 DEF Typing, AtDuel
    <3>. QED
      BY <2>2, <2>6, <3>1
  <2>21. JobMoves(p)
    BY <2>17, <2>18, <2>19, <2>20 DEF JobMoves
  <2>. QED
    BY <2>13, <2>14, <2>21 DEF Moves
<1>. QED
  BY <1>1, <1>2

LEMMA DuelFills ==
  ASSUME DuelInv, NEW p \in Handlers, DuelData(p)
  PROVE  Moves(p)
<1>0. PICK k, o, n, t : k = job[p].key /\ o = job[p].opponent /\ n = job[p].goal /\ t = TRUE
  OBVIOUS
<1>1. k \in Challengers /\ job[p] \in Job /\ fsm[k] \in Record /\ play[k] = p /\ k \in DuelUsers
  BY <1>0, Parts DEF DuelData, AtDuel, DuelInv, Owned
<1>2. o \in DuelUsers \cup {Nobody} /\ n \in Nat
  BY <1>0, <1>1, JobFields
<1>3. t \in BOOLEAN
  BY <1>0
<1>4. fsm' = [fsm EXCEPT ![k] = PutFill(fsm[k], o, n, t)]
  BY <1>0, Zenon DEF DuelData, PutFill
<1>5. Drop(p) /\ UNCHANGED <<duelWriter, sweep, matches, lostVars>>
  BY DEF DuelData
<1>6. /\ fsm' \in [Challengers -> Record] /\ \A c \in Challengers \ {k} : fsm'[c] = fsm[c]
      /\ fsm'[k].match = fsm[k].match
  <2>1. PICK r : r = PutFill(fsm[k], o, n, t)
    OBVIOUS
  <2>2. r \in Record /\ r.match = fsm[k].match
    BY <1>1, <1>2, <1>3, <2>1, FillRecord
  <2>3. fsm' = [fsm EXCEPT ![k] = r]
    BY <1>4, <2>1
  <2>. QED
    BY <1>1, <2>2, <2>3, OneRecord
<1>7. matches > 0 /\ FindsBlank(k)
  BY <1>0 DEF DuelData, DuelInv, Numbered, FillsBlank
<1>8. Rolled(k) => Marred(fsm[k].match)
  BY <1>7 DEF FindsBlank, Rolled
<1>9. \A q \in Handlers \ {p} : AtDuel(q, "fill") => job[q].key # k
  BY <1>1 DEF DuelInv, Owned
<1>10. Writes(p, k)
  BY <1>5, <1>6, <1>7, <1>8, <1>9 DEF Writes
<1>11. RecordMoves(p)
  BY <1>1, <1>5, <1>6, <1>10, Parts, LostKept DEF RecordMoves
<1>. QED
  BY <1>5, <1>11, DropMoves DEF Moves

\* A player writes the record of the match whose lock it holds, and is gone.
LEMMA PlayerWrites ==
  ASSUME DuelInv, NEW p \in Handlers, job[p].step \in {"flip", "decided"}, NEW r \in Record,
         fsm' = [fsm EXCEPT ![job[p].key] = r],
         r.match = fsm[job[p].key].match, r.opponent = fsm[job[p].key].opponent,
         Drop(p), UNCHANGED <<duelWriter, sweep, matches, lostVars>>
  PROVE  Moves(p)
<1>0. PICK k : k = job[p].key
  OBVIOUS
<1>1. k \in Challengers /\ match[k] = p /\ PlayingDuel(p)
  BY <1>0 DEF DuelInv, Owned, Guarded, PlayingDuel
<1>2. Alone(p, k)
  BY <1>1, AloneIf
<1>3. /\ fsm' \in [Challengers -> Record] /\ fsm'[k] = r
      /\ \A c \in Challengers \ {k} : fsm'[c] = fsm[c]
  BY <1>0, <1>1, OneRecord
<1>4. fsm[k].opponent # Nobody => matches > 0
  BY <1>1 DEF DuelInv, Numbered
<1>5. Writes(p, k)
  BY <1>0, <1>1, <1>2, <1>3, <1>4 DEF Writes
<1>6. RecordMoves(p)
  BY <1>1, <1>3, <1>5, Parts, LostKept DEF RecordMoves
<1>. QED
  BY <1>6, DropMoves DEF Moves

LEMMA AcceptFlips ==
  ASSUME DuelInv, NEW p \in Handlers, AcceptFlip(p)
  PROVE  Moves(p)
<1>0. PICK k, t, f : k = job[p].key /\ t = TRUE /\ f = FALSE
  OBVIOUS
<1>1. k \in Challengers /\ fsm[k] \in Record
  BY <1>0, Parts DEF AcceptFlip, AtDuel, DuelInv, Owned
<1>2. t \in BOOLEAN /\ f \in BOOLEAN
  BY <1>0
<1>3. fsm' = [fsm EXCEPT ![k] = PutRolls(fsm[k], t, f)]
  <2>1. fsm' = [fsm EXCEPT ![k] = [@ EXCEPT !.state = "rolls", !.rolled = {}, !.stamped = t, !.due = f]]
    BY <1>0, Zenon DEF AcceptFlip
  <2>. QED
    BY <1>1, <2>1, Parts DEF PutRolls
<1>4. PICK r : r = PutRolls(fsm[k], t, f)
  OBVIOUS
<1>5. r \in Record /\ r.match = fsm[k].match /\ r.opponent = fsm[k].opponent
  BY <1>1, <1>2, <1>4, RollsRecord
<1>6. fsm' = [fsm EXCEPT ![job[p].key] = r]
  BY <1>0, <1>3, <1>4
<1>. QED
  BY <1>0, <1>5, <1>6, PlayerWrites DEF AcceptFlip, AtDuel

LEMMA RollsOn ==
  ASSUME DuelInv, NEW p \in Handlers, NEW winner \in Seats \cup {Nobody}, RollOn(p, winner)
  PROVE  Moves(p)
<1>0. PICK k, w, t, f : k = job[p].key /\ w = Tallied(p, winner) /\ t = TRUE /\ f = FALSE
  OBVIOUS
<1>1. k \in Challengers /\ fsm[k] \in Record /\ job[p] \in Job
  BY <1>0, Parts DEF RollOn, AtDuel, DuelInv, Owned
<1>2. t \in BOOLEAN /\ f \in BOOLEAN
  BY <1>0
<1>3. w \in Tally
  BY <1>0, <1>1, JobFields DEF Tallied, Tally
<1>4. fsm' = [fsm EXCEPT ![k] = PutRound(fsm[k], w, t, f)]
  <2>1. fsm' = [fsm EXCEPT ![k] = [@ EXCEPT !.rolled = {}, !.wins = w, !.stamped = t, !.due = f]]
    BY <1>0, Zenon DEF RollOn
  <2>. QED
    BY <1>1, <2>1, Parts DEF PutRound
<1>5. PICK r : r = PutRound(fsm[k], w, t, f)
  OBVIOUS
<1>6. r \in Record /\ r.match = fsm[k].match /\ r.opponent = fsm[k].opponent
  BY <1>1, <1>2, <1>3, <1>5, RoundRecord
<1>7. fsm' = [fsm EXCEPT ![job[p].key] = r]
  BY <1>0, <1>4, <1>5
<1>. QED
  BY <1>0, <1>6, <1>7, PlayerWrites DEF RollOn, AtDuel

LEMMA AcceptMatches ==
  ASSUME DuelInv, NEW p \in Handlers, AcceptMatch(p)
  PROVE  Moves(p)
<1>0. PICK k : k = job[p].key
  OBVIOUS
<1>1. /\ k \in Challengers /\ job[p] \in Job /\ Free(match, k)
      /\ UNCHANGED <<fsm, matches, lostVars, duelWriter, sweep>>
  BY <1>0, Parts DEF AcceptMatch, AtDuel, DuelInv, Owned
<1>2. CASE ~ Acceptable(job[p].user, k)
  BY <1>0, <1>1, <1>2, SameRecords, DropMoves DEF AcceptMatch, Moves
<1>3. CASE Acceptable(job[p].user, k)
  <2>1. match' = Taken(match, k, p) /\ UNCHANGED play /\ ToStep(p, "flip")
    BY <1>0, <1>3 DEF AcceptMatch
  <2>2. LockMoves(p) /\ match'[k] = p
    BY <1>1, <2>1, TakesMatch, Parts, Handles DEF SweeperOwns, Taken, Free
  <2>3. job' = [job EXCEPT ![p] = PutStep(job[p], "flip")] /\ "flip" \in DuelSteps
    BY <2>1, Parts DEF ToStep, PutStep, DuelSteps
  <2>4. PICK j : j = PutStep(job[p], "flip")
    OBVIOUS
  <2>5. j \in Job /\ j.key = k /\ j.step = "flip" /\ j.match = job[p].match
    BY <1>0, <1>1, <2>3, <2>4, StepJob
  <2>6. /\ job' \in [Handlers -> Job] /\ job'[p] = j
        /\ \A q \in Handlers \ {p} : job'[q] = job[q]
    BY <2>3, <2>4, <2>5, OneJob
  <2>7. ~ AtDuel(p, "duel")' /\ ~ AtDuel(p, "fill")' /\ ~ Decided(p)' /\ Owned(p)'
    BY <1>1, <2>2, <2>5, <2>6 DEF AtDuel, Decided, Owned, Guarded
  <2>8. ~ Rolled(k)
    BY <1>3 DEF Acceptable, Rolled
  <2>9. matches' + Cardinality(Typing') <= MaxMatch
    BY <1>1, <2>6, <2>7, TypingKept
  <2>10. job'[p].match <= matches'
    BY <1>1, <2>5, <2>6 DEF DuelInv, Numbered
  <2>11. JobMoves(p)
    BY <2>5, <2>6, <2>7, <2>8, <2>9, <2>10 DEF JobMoves
  <2>. QED
    BY <1>1, <2>2, <2>11, SameRecords DEF Moves
<1>. QED
  BY <1>2, <1>3

\* The last roll of a round: both seats are on the record now.
LEMMA RollStamps ==
  ASSUME DuelInv, NEW p \in Handlers, NEW u \in DuelUsers, NEW c \in Challengers, RollStamp(p, u, c)
  PROVE  Moves(p)
<1>0. PICK S : S = fsm[c].rolled \cup {Seat(u, c)}
  OBVIOUS
<1>1. /\ fsm[c] \in Record /\ job[p] \in Job /\ Free(match, c)
      /\ UNCHANGED <<matches, lostVars, play, duelWriter, sweep>>
  BY Parts DEF RollStamp
<1>2. S \in SUBSET Seats /\ ~ Rolled(c) /\ fsm[c].state = "rolls" /\ fsm[c].opponent # Nobody
  BY <1>0, <1>1, RecordFields DEF RollStamp, Rollable, Seat, Seats, Rolled
<1>3. fsm' = [fsm EXCEPT ![c] = PutStamp(fsm[c], S)]
  BY <1>0, <1>1, Parts DEF RollStamp, PutStamp
<1>4. PICK r : r = PutStamp(fsm[c], S)
  OBVIOUS
<1>5. /\ r \in Record /\ r.match = fsm[c].match /\ r.opponent = fsm[c].opponent
      /\ r.state = fsm[c].state /\ r.rolled = S
  BY <1>1, <1>2, <1>4, StampRecord
<1>6. fsm' = [fsm EXCEPT ![c] = r]
  BY <1>3, <1>4
<1>7. /\ fsm' \in [Challengers -> Record] /\ fsm'[c] = r
      /\ \A d \in Challengers \ {c} : fsm'[d] = fsm[d]
  BY <1>5, <1>6, OneRecord
<1>8. fsm[c].opponent # Nobody => matches > 0
  BY DEF DuelInv, Numbered
<1>9. Writes(p, c)
  BY <1>1, <1>2, <1>5, <1>7, <1>8 DEF Writes
<1>10. RecordMoves(p)
  BY <1>1, <1>7, <1>9, Parts, LostKept DEF RecordMoves
<1>11. CASE S # Seats
  <2>1. job' = job /\ match' = match
    BY <1>0, <1>11 DEF RollStamp
  <2>2. LockMoves(p)
    BY <1>1, <2>1, SameLocks DEF duelLockVars
  <2>3. JobMoves(p)
    <3>1. AtDuel(p, "idle") /\ job'[p] = job[p]
      BY <2>1 DEF RollStamp
    <3>2. job' = [job EXCEPT ![p] = job'[p]] /\ job'[p] \in Job /\ job'[p].match <= matches
      BY <2>1, <1>1, Parts DEF DuelInv, Numbered
    <3>. QED
      BY <1>1, <3>1, <3>2, PlainJob DEF AtDuel
  <2>. QED
    BY <1>10, <2>2, <2>3 DEF Moves
<1>12. CASE S = Seats
  <2>1. match' = Taken(match, c, p) /\ job' = [job EXCEPT ![p] = PutDecided(u, c, fsm[c])]
    BY <1>0, <1>12 DEF RollStamp, PutDecided
  <2>2. LockMoves(p) /\ match'[c] = p
    BY <1>1, <2>1, TakesMatch, Parts, Handles DEF SweeperOwns, Taken, Free
  <2>3. PICK j : j = PutDecided(u, c, fsm[c])
    OBVIOUS
  <2>4. /\ j \in Job /\ j.step = "decided" /\ j.key = c /\ j.opponent = fsm[c].opponent
        /\ j.match = fsm[c].match
    BY <1>1, <2>3, DecidedJob
  <2>5. /\ job' \in [Handlers -> Job] /\ job'[p] = j
        /\ \A q \in Handlers \ {p} : job'[q] = job[q]
    BY <2>1, <2>3, <2>4, OneJob
  <2>6. fsm[c].opponent \in DuelUsers
    BY <1>1, <1>2, RecordFields
  <2>7. /\ ~ AtDuel(p, "duel")' /\ ~ AtDuel(p, "fill")' /\ ~ AtDuel(p, "held")' /\ Owned(p)'
    BY <2>2, <2>4, <2>5, <2>6 DEF AtDuel, Decided, Owned, Guarded
  <2>8. Rolled(c)'
    BY <1>2, <1>5, <1>7, <1>12 DEF Rolled
  <2>9. \A d \in Challengers : fsm'[d].match = j.match /\ j.match # 0 => d = c
    BY <1>5, <1>7, <2>4 DEF DuelInv, Numbered
  <2>10. job'[p].match # 0 => OnRecord(p)'
    BY <1>5, <1>7, <2>4, <2>5, <2>8, <2>9 DEF OnRecord
  <2>11. Alone(p, c)
    BY <1>1, AloneIf DEF Free
  <2>12. matches' + Cardinality(Typing') <= MaxMatch
    BY <1>1, <2>5, <2>7, TypingKept
  <2>13. job'[p].match <= matches'
    BY <1>1, <2>4, <2>5 DEF DuelInv, Numbered
  <2>14. JobMoves(p)
    BY <1>2, <2>4, <2>5, <2>7, <2>10, <2>11, <2>12, <2>13 DEF JobMoves
  <2>. QED
    BY <1>10, <2>2, <2>14 DEF Moves
<1>. QED
  BY <1>11, <1>12

\* The settlement begins: one holder of the write transaction, and wallets that cover it.
LEMMA RollPlays ==
  ASSUME DuelInv, NEW p \in Handlers, NEW winner \in Seats \cup {Nobody}, RollPlay(p, winner)
  PROVE  Moves(p)
<1>1. /\ AtDuel(p, "decided") /\ job[p] \in Job /\ UNCHANGED <<fsm, moneyVars, sweep, matches, lostVars>>
      /\ RecordMoves(p) /\ job[p].match <= matches
  BY Parts, SameRecords DEF RollPlay, DuelInv, Numbered
<1>2. job[p].key \in Challengers /\ match[job[p].key] = p /\ job[p].opponent \in DuelUsers
  BY <1>1 DEF AtDuel, DuelInv, Owned, Guarded, Decided
<1>3. CASE \E u \in Players(p) : duelWallet[u] < DuelBet
  <2>1. ToStep(p, "clear") /\ UNCHANGED <<duelLockVars, duelWriter>>
    BY <1>3 DEF RollPlay
  <2>2. match' = match /\ ~ AtDuel(p, "idle")
    BY <1>1, <2>1 DEF duelLockVars, AtDuel
  <2>3. JobMoves(p)
    BY <1>1, <1>2, <2>1, <2>2, BecomeMoves
  <2>. QED
    BY <1>1, <2>1, <2>3, SameLocks DEF Moves
<1>4. CASE Drop(p) /\ UNCHANGED duelWriter
  BY <1>1, <1>4, DropMoves DEF Moves
<1>5. CASE /\ ~ \E u \in Players(p) : duelWallet[u] < DuelBet
           /\ ~ (winner \in Seats /\ duelWallet[Player(p, winner)] - DuelBet + DuelPayout > DuelMaxAmount)
           /\ duelWriter' = p /\ duelWriter = Nobody /\ UNCHANGED duelLockVars
           /\ job' = [job EXCEPT ![p].step = "held", ![p].outcome = winner]
  <2>1. job' = [job EXCEPT ![p] = PutHeld(job[p], winner)]
    BY <1>5, Parts DEF PutHeld
  <2>2. PICK j : j = PutHeld(job[p], winner)
    OBVIOUS
  <2>3. /\ j \in Job /\ j.key = job[p].key /\ j.match = job[p].match
        /\ j.opponent = job[p].opponent /\ j.step = "held" /\ j.outcome = winner
    BY <1>1, <2>2, HeldJob
  <2>4. /\ job' \in [Handlers -> Job] /\ job'[p] = j
        /\ \A q \in Handlers \ {p} : job'[q] = job[q]
    BY <2>1, <2>2, <2>3, OneJob
  <2>5. duelWallet' = duelWallet /\ match' = match /\ play' = play
    BY <1>1, <1>5 DEF moneyVars, duelLockVars
  <2>6. \A s : Player(p, s)' = Player(p, s)
    BY <2>3, <2>4 DEF Player
  <2>7. Players(p)' = Players(p)
    BY <2>6 DEF Players
  <2>8. /\ \A u \in Players(p) : u \in DuelUsers /\ duelWallet[u] \in Nat
        /\ \A s \in Seats : Player(p, s) \in Players(p) /\ duelWallet[Player(p, s)] \in Nat
        /\ DuelBet \in Nat /\ DuelPayout \in Nat /\ DuelMaxAmount \in Nat
    BY <1>2, Parts, DuelAssumption DEF Players, Player
  <2>9. \A u \in Players(p) : duelWallet[u] >= DuelBet
    BY <1>5, <2>8
  <2>10. winner \in Seats => duelWallet[Player(p, winner)] - DuelBet + DuelPayout <= DuelMaxAmount
    BY <1>5, <2>8
  <2>11. Owned(p)'
    BY <1>2, <1>5, <2>3, <2>4, <2>5, <2>6, <2>7, <2>9, <2>10 DEF Owned, AtDuel, Decided, Guarded
  <2>12. OnRecord(p)' <=> OnRecord(p)
    BY <1>1, <2>3, <2>4, LostKept DEF OnRecord, Rolled, Marred
  <2>13. job[p].match # 0 => OnRecord(p)
    BY <1>1 DEF DuelInv, Live, Decided, AtDuel
  <2>14. ~ AtDuel(p, "duel")' /\ ~ AtDuel(p, "fill")' /\ Decided(p) /\ PlayingDuel(p)
    BY <1>1, <2>3, <2>4 DEF AtDuel, Decided, PlayingDuel
  <2>15. matches' + Cardinality(Typing') <= MaxMatch
    BY <1>1, <2>4, <2>14, TypingKept
  <2>16. JobMoves(p)
    BY <1>1, <2>3, <2>4, <2>11, <2>12, <2>13, <2>14, <2>15 DEF JobMoves
  <2>17. LockMoves(p)
    BY <1>1, <1>5, <2>5, Parts, Handles DEF LockMoves, SweeperOwns
  <2>. QED
    BY <1>1, <2>16, <2>17 DEF Moves
<1>. QED
  BY <1>3, <1>4, <1>5 DEF RollPlay

-----------------------------------------------------------------------------
(* The sweeper.                                                             *)

States == {"none", "acceptance", "rolls", "form"}

PutSweep(w, S, k, s) == [w EXCEPT !.seen = S, !.key = k, !.step = s]
LEMMA SweepRecord ==
  ASSUME NEW w \in Sweeper, NEW S \in SUBSET (RecordKeys \X States), NEW k \in RecordKeys \cup {Nobody},
         NEW s \in {"idle", "scan", "notify"}
  PROVE  PutSweep(w, S, k, s) \in Sweeper /\ PutSweep(w, S, k, s).step = s
  BY DEF PutSweep, Sweeper, States

LEMMA AsleepTyped == Asleep \in Sweeper /\ Asleep.step = "idle"
  BY DEF Asleep, Sweeper

LEMMA WithoutTyped ==
  ASSUME DuelInv, NEW k
  PROVE  Without(k) \in SUBSET (RecordKeys \X States)
  BY Parts DEF Without, Sweeper, States

\* A step of the sweeper that takes no lock, or gives back its own.
LEMMA SweepMoves ==
  ASSUME DuelInv, sweep' \in Sweeper, sweep'.step # "notify", UNCHANGED <<play, duelWriter>>,
         \/ match' = match
         \/ sweep.step = "notify" /\ match' = GuardGiven
  PROVE  LockMoves("sweeper")
<1>1. SweeperOwns'
  BY DEF SweeperOwns
<1>2. CASE match' = match
  BY <1>1, <1>2, Parts DEF LockMoves
<1>3. CASE sweep.step = "notify" /\ match' = GuardGiven
  <2>1. sweep.key \in Challengers => match[sweep.key] = "sweeper"
    BY <1>3 DEF DuelInv, SweeperOwns
  <2>2. match' \in [Challengers -> Handlers \cup {Nobody, "sweeper"}]
    BY <1>3, Parts DEF GuardGiven, Given
  <2>3. \A q \in Handlers, c \in Challengers : match[c] = q => match'[c] = q
    BY <1>3, <2>1, Parts, Handles DEF GuardGiven, Given
  <2>. QED
    BY <1>1, <2>2, <2>3, Parts DEF LockMoves
<1>. QED
  BY <1>2, <1>3

LEMMA Lists ==
  ASSUME DuelInv, SweepList
  PROVE  Moves("sweeper")
<1>1. PICK S : S = {<<k, State(k)>> : k \in {q \in RecordKeys : Expirable(q)}}
  OBVIOUS
<1>2. S \in SUBSET (RecordKeys \X States)
  <2>1. \A k \in RecordKeys : State(k) \in States
    BY Parts, RecordFields DEF State, States, RecordKeys
  <2>. QED
    BY <1>1, <2>1
<1>3. sweep' = [Asleep EXCEPT !.step = "scan", !.seen = S]
  BY <1>1 DEF SweepList
<1>4. PICK w : w = Asleep
  OBVIOUS
<1>5. [w EXCEPT !.step = "scan", !.seen = S] \in Sweeper
  BY <1>2, <1>4, AsleepTyped DEF Sweeper, States
<1>6. sweep' \in Sweeper /\ sweep'.step = "scan"
  <2>1. sweep'.step = "scan"
    BY <1>3 DEF Asleep
  <2>. QED
    BY <1>3, <1>4, <1>5, <2>1
<1>. QED
  BY <1>6, SweepMoves, SameRecords, SameJobs, Handles DEF SweepList, Moves, duelLockVars

LEMMA Skips ==
  ASSUME DuelInv, NEW k \in RecordKeys, SweepSkip(k) \/ (SweepGuard(k) /\ ~ Unchanged(k))
  PROVE  Moves("sweeper")
<1>1. /\ sweep' = [sweep EXCEPT !.seen = Without(k)] /\ sweep.step = "scan"
      /\ UNCHANGED <<match, play, duelWriter, fsm, matches, lostVars, job>>
  BY DEF SweepSkip, SweepGuard, duelLockVars
<1>2. sweep' \in Sweeper /\ sweep'.step = "scan"
  BY <1>1, WithoutTyped, Parts DEF Sweeper, States
<1>. QED
  BY <1>1, <1>2, SweepMoves, SameRecords, SameJobs, Handles DEF Moves

PutTried(w, k) == [w EXCEPT !.step = "notify", !.key = k, !.tried = w.tried + 1]
LEMMA TriedRecord ==
  ASSUME NEW w \in Sweeper, NEW k \in RecordKeys
  PROVE  PutTried(w, k) \in Sweeper /\ PutTried(w, k).key = k
<1>1. PutTried(w, k).key = k
  BY DEF PutTried, Sweeper
<1>2. PICK n : n = w.tried + 1
  OBVIOUS
<1>3. n \in Nat
  BY <1>2 DEF Sweeper
<1>4. [w EXCEPT !.step = "notify", !.key = k, !.tried = n] \in Sweeper
  BY <1>3 DEF Sweeper
<1>. QED
  BY <1>1, <1>2, <1>4 DEF PutTried

LEMMA Guards ==
  ASSUME DuelInv, NEW k \in RecordKeys, SweepGuard(k), Unchanged(k)
  PROVE  Moves("sweeper")
<1>1. /\ sweep' = [sweep EXCEPT !.step = "notify", !.key = k, !.tried = @ + 1]
      /\ match' = IF k \in Stuck THEN match ELSE Taken(match, k, "sweeper")
      /\ UNCHANGED <<play, duelWriter, fsm, matches, lostVars, job>> /\ FreeGuard(k)
  BY DEF SweepGuard
<1>2. sweep' = PutTried(sweep, k)
  BY <1>1, Parts DEF PutTried
<1>3. sweep' \in Sweeper /\ sweep'.key = k
  BY <1>2, Parts, TriedRecord
<1>4. LockMoves("sweeper")
  <2>1. CASE k \in Stuck
    <3>1. k \notin Challengers
      BY <2>1, DuelAssumption
    <3>2. SweeperOwns'
      BY <1>3, <3>1 DEF SweeperOwns
    <3>. QED
      BY <1>1, <1>3, <2>1, <3>2, Parts DEF LockMoves
  <2>2. CASE k \notin Stuck
    <3>1. k \in Challengers /\ Free(match, k) /\ match' = Taken(match, k, "sweeper")
      BY <1>1, <2>2 DEF RecordKeys, FreeGuard
    <3>2. SweeperOwns'
      BY <1>3, <3>1, Parts DEF SweeperOwns, Taken
    <3>. QED
      BY <1>1, <1>3, <3>1, <3>2, TakesMatch
  <2>. QED
    BY <2>1, <2>2
<1>. QED
  BY <1>1, <1>4, SameRecords, SameJobs, Handles DEF Moves

LEMMA Retires ==
  ASSUME DuelInv, SweepClear
  PROVE  Moves("sweeper")
<1>0. PICK k : k = sweep.key
  OBVIOUS
<1>1. /\ k \in Challengers /\ match[k] = "sweeper" /\ sweep.step = "notify" /\ match' = GuardGiven
      /\ sweep' = PutSweep(sweep, Without(k), Nobody, "scan")
      /\ UNCHANGED <<play, duelWriter, matches, lostVars, job>>
  BY <1>0, Parts DEF SweepClear, DuelInv, SweeperOwns, PutSweep
<1>2. sweep' \in Sweeper /\ sweep'.step = "scan"
  BY <1>1, Parts, WithoutTyped, SweepRecord
<1>3. LockMoves("sweeper")
  BY <1>1, <1>2, SweepMoves
<1>4. RecordMoves("sweeper")
  <2>1. CASE fsm' = fsm
    BY <1>1, <2>1, SameRecords
  <2>2. CASE fsm' = [fsm EXCEPT ![k] = Blank]
    BY <1>1, <2>2, AloneIf, ClearsRecord, LostKept
  <2>. QED
    BY <1>0, <2>1, <2>2 DEF SweepClear
<1>. QED
  BY <1>1, <1>3, <1>4, SameJobs, Handles DEF Moves

LEMMA Strikes ==
  ASSUME DuelInv, SweepStrike \/ SweepFlood \/ SweepEnd
  PROVE  Moves("sweeper")
<1>1. /\ match' = match \/ (sweep.step = "notify" /\ match' = GuardGiven)
      /\ UNCHANGED <<play, duelWriter, fsm, matches, lostVars, job>>
  BY DEF SweepStrike, SweepFlood, SweepEnd, duelLockVars
<1>2. sweep' \in Sweeper /\ sweep'.step # "notify"
  <2>1. CASE SweepStrike
    <3>1. sweep' = PutSweep(sweep, Without(sweep.key), Nobody, "scan")
      BY <2>1, Parts DEF SweepStrike, PutSweep
    <3>. QED
      BY <3>1, Parts, WithoutTyped, SweepRecord
  <2>2. CASE SweepFlood \/ SweepEnd
    BY <2>2, AsleepTyped DEF SweepFlood, SweepEnd
  <2>. QED
    BY <2>1, <2>2
<1>. QED
  BY <1>1, <1>2, SweepMoves, SameRecords, SameJobs, Handles DEF Moves

-----------------------------------------------------------------------------
(* The commit, the crash, and the step as a whole.                          *)

LEMMA CommitMoves ==
  ASSUME DuelInv, NEW p \in Handlers, RollCommit(p)
  PROVE  Moves(p)
<1>1. /\ AtDuel(p, "held") /\ ToStep(p, "clear") /\ duelWriter = p /\ match[job[p].key] = p
      /\ UNCHANGED <<fsm, play, match, sweep, matches, lostVars>> /\ duelWriter' = Nobody
  BY DEF RollCommit, AtDuel, DuelInv, Owned, Guarded, duelLockVars
<1>2. JobMoves(p)
  BY <1>1, BecomeMoves DEF AtDuel
<1>3. LockMoves(p)
  BY <1>1, Parts DEF LockMoves, SweeperOwns
<1>. QED
  BY <1>1, <1>2, <1>3, SameRecords DEF Moves

LEMMA CommitPays ==
  ASSUME DuelInv, NEW p \in Handlers, RollCommit(p), job[p].outcome # Nobody
  PROVE  /\ duelWallet' \in [DuelUsers -> 0..DuelMaxAmount] /\ burned' \in Nat
<1>1. /\ duelWallet' = [u \in DuelUsers |->
                 IF u \notin Players(p) THEN duelWallet[u]
                 ELSE IF u = Player(p, job[p].outcome) THEN duelWallet[u] - DuelBet + DuelPayout
                 ELSE duelWallet[u] - DuelBet]
      /\ burned' = burned + 2 * DuelBet - DuelPayout /\ AtDuel(p, "held")
  BY DEF RollCommit
<1>2. job[p] \in Job /\ job[p].outcome \in Seats
  BY Parts, JobFields
<1>3. /\ \A u \in Players(p) : duelWallet[u] >= DuelBet
      /\ duelWallet[Player(p, job[p].outcome)] - DuelBet + DuelPayout <= DuelMaxAmount
  BY <1>1, <1>2 DEF DuelInv, Owned
<1>4. /\ DuelBet \in Nat /\ DuelPayout \in Nat /\ DuelMaxAmount \in Nat
      /\ DuelPayout <= 2 * DuelBet /\ burned \in Nat
      /\ \A u \in DuelUsers : duelWallet[u] \in 0..DuelMaxAmount
  BY Parts, DuelAssumption
<1>5. \A u \in DuelUsers : duelWallet'[u] \in 0..DuelMaxAmount
  BY <1>1, <1>3, <1>4
<1>. QED
  BY <1>1, <1>4, <1>5

LEMMA CommitKeeps ==
  ASSUME DuelInv, NEW p \in Handlers, RollCommit(p)
  PROVE  DuelInv'
<1>1. Moves(p) /\ AtDuel(p, "held") /\ UNCHANGED <<fsm, matches, lostVars>> /\ job[p] \in Job
  BY CommitMoves, Parts DEF RollCommit
<1>2. CASE job[p].outcome = Nobody
  BY <1>1, <1>2, MovesKeep DEF RollCommit
<1>3. CASE job[p].outcome # Nobody
  <2>0. PICK m : m = job[p].match
    OBVIOUS
  <2>1. settled' = [settled EXCEPT ![m] = @ + 1]
    BY <1>3, <2>0 DEF RollCommit
  <2>2. Decided(p) /\ m <= matches /\ m \in Nat /\ (m # 0 => OnRecord(p))
    <3>1. Decided(p)
      BY <1>1 DEF AtDuel, Decided
    <3>2. m <= matches /\ m \in Nat
      BY <1>1, <2>0, JobFields DEF DuelInv, Numbered
    <3>. QED
      BY <2>0, <3>1, <3>2 DEF DuelInv, Live
  <2>3. settled' \in [Matches -> Nat]
    <3>1. CASE m \in Matches
      <4>1. settled[m] + 1 \in Nat
        BY <3>1, Parts
      <4>. QED
        BY <2>1, <4>1, Parts
    <3>2. CASE m \notin Matches
      <4>1. settled' = settled
        BY <2>1, <3>2, Parts
      <4>. QED
        BY <4>1, Parts
    <3>. QED
      BY <3>1, <3>2
  <2>4. Typed'
    BY <1>1, <1>3, <2>3, CommitPays DEF Typed, Moves, RecordMoves, JobMoves, LockMoves
  <2>5. \A q \in Handlers : Owned(q)'
    <3>1. \A q \in Handlers : AtDuel(q, "held") => q = p
      BY <1>1 DEF DuelInv, Owned
    <3>. QED
      BY <1>1, <3>1, OwnedKept DEF Moves, JobMoves
  <2>6. \A n \in Matches : n > matches' => settled'[n] = 0
    <3>1. \A n \in Matches : n > matches => n # m /\ settled[n] = 0
      BY <2>2, Parts DEF DuelInv, Numbered, Matches
    <3>. QED
      BY <1>1, <2>1, <3>1, Parts
  <2>7. PaidIsClosed'
    <3> SUFFICES ASSUME NEW n \in Matches, settled'[n] # 0, ~ Marred(n)'
                 PROVE  settled'[n] = 1 /\ Closed(n)'
      BY DEF PaidIsClosed
    <3>1. ~ Marred(n) /\ n # 0
      BY <1>1, LostKept DEF Marred, Matches
    <3>2. job'[p].step = "clear" /\ \A q \in Handlers \ {p} : job'[q] = job[q]
      BY Parts DEF RollCommit, ToStep
    <3>3. CASE n # m
      <4>1. settled'[n] = settled[n]
        BY <2>1, <3>3, Parts
      <4>2. settled[n] = 1 /\ Closed(n)
        BY <3>1, <4>1 DEF DuelInv, PaidIsClosed
      <4>. QED
        BY <1>1, <3>2, <4>1, <4>2 DEF Closed, Decided, Rolled
    <3>4. CASE n = m
      <4>1. settled[n] = 0
        BY <2>0, <2>2, <3>1, <3>4 DEF DuelInv, PaidIsClosed, Closed
      <4>2. settled'[n] = 1
        BY <2>1, <3>4, <4>1, Parts
      <4>3. \A q \in Handlers : Decided(q) /\ job[q].match = n => q = p
        BY <2>0, <2>2, <3>1, <3>4 DEF DuelInv, Live
      <4>4. \A c \in Challengers : fsm[c].match = n => c = job[p].key /\ Rolled(c)
        BY <2>0, <2>2, <3>1, <3>4 DEF OnRecord
      <4>5. \A q \in Handlers : PlayingDuel(q) /\ job[q].key = job[p].key => q = p
        BY <1>1 DEF DuelInv, Owned, Guarded, PlayingDuel, AtDuel
      <4>. QED
        BY <1>1, <3>2, <4>2, <4>3, <4>4, <4>5 DEF Closed, Decided, Rolled, PlayingDuel
    <3>. QED
      BY <3>3, <3>4
  <2>. QED
    BY <1>1, <2>4, <2>5, <2>6, <2>7, LiveKept, NumberedKept DEF DuelInv, Moves, LockMoves
<1>. QED
  BY <1>2, <1>3

\* Handlers that are all idle, with every lock free.
LEMMA AllIdle ==
  ASSUME fsm' \in [Challengers -> Record], duelWallet' \in [DuelUsers -> 0..DuelMaxAmount], burned' \in Nat,
         matches' \in 0..MaxMatch, settled' \in [Matches -> Nat],
         job' = [p \in Handlers |-> Idle], sweep' = Asleep,
         play' = [u \in DuelUsers |-> Nobody], match' = [c \in Challengers |-> Nobody], duelWriter' = Nobody
  PROVE  /\ Typed' /\ (\A p \in Handlers : Owned(p)' /\ Live(p)' /\ job'[p] = Idle)
         /\ SweeperOwns' /\ FillsBlank'
         /\ \A p \in Handlers : ~ Decided(p)' /\ job'[p].step = "idle" /\ job'[p].match = 0
         /\ Typing' = {}
<1>1. \A p \in Handlers : job'[p] = Idle /\ job'[p].step = "idle" /\ job'[p].match = 0
  BY IdleTyped
<1>2. \A p \in Handlers : ~ Decided(p)' /\ Live(p)' /\ ~ AtDuel(p, "fill")' /\ ~ AtDuel(p, "duel")'
  BY <1>1 DEF Decided, Live, AtDuel
<1>3. \A p \in Handlers : Owned(p)'
  BY <1>1 DEF Owned, Guarded, Decided, AtDuel
<1>4. Typed'
  BY IdleTyped, AsleepTyped DEF Typed
<1>. QED
  BY <1>1, <1>2, <1>3, <1>4, AsleepTyped DEF SweeperOwns, FillsBlank, Typing

LEMMA CrashKeeps ==
  ASSUME DuelInv, DuelCrash
  PROVE  DuelInv'
<1>1. /\ UNCHANGED <<fsm, matches, lostVars>> /\ duelWallet' = duelWallet
      /\ burned' = burned /\ settled' = settled
  BY DEF DuelCrash, moneyVars
<1>2. /\ Typed' /\ (\A p \in Handlers : Owned(p)' /\ Live(p)') /\ SweeperOwns' /\ FillsBlank'
      /\ \A p \in Handlers : ~ Decided(p)' /\ job'[p].step = "idle" /\ job'[p].match = 0
      /\ Typing' = {}
  BY <1>1, Parts, AllIdle DEF DuelCrash
<1>3. Numbered'
  BY <1>1, <1>2, Parts, FS_EmptySet DEF DuelInv, Numbered, AtDuel
<1>4. PaidIsClosed'
  BY <1>1, <1>2, LostKept DEF DuelInv, PaidIsClosed, Closed, Rolled, Marred
<1>. QED
  BY <1>2, <1>3, <1>4 DEF DuelInv

LEMMA StutterKeeps ==
  ASSUME DuelInv, UNCHANGED duelVars
  PROVE  DuelInv'
<1>1. Moves("sweeper") /\ UNCHANGED moneyVars
  BY SameRecords, SameJobs, SameLocks, Handles DEF duelVars, Moves
<1>. QED
  BY <1>1, MovesKeep

LEMMA DuelInvInit == DuelInit => DuelInv
<1> SUFFICES ASSUME DuelInit PROVE DuelInv
  OBVIOUS
<1>1. \A p \in Handlers : job[p] = Idle /\ job[p].step = "idle" /\ job[p].match = 0
  BY IdleTyped DEF DuelInit
<1>2. \A c \in Challengers : fsm[c] \in Record /\ fsm[c].match = 0 /\ fsm[c].opponent = Nobody
  BY BlankTyped DEF DuelInit
<1>3. \A p \in Handlers : ~ Decided(p) /\ Live(p) /\ ~ AtDuel(p, "fill") /\ ~ AtDuel(p, "duel")
  BY <1>1 DEF Decided, Live, AtDuel
<1>4. \A p \in Handlers : Owned(p)
  BY <1>1 DEF Owned, Guarded, Decided, AtDuel
<1>5. Typed
  BY <1>2, IdleTyped, AsleepTyped, DuelAssumption DEF Typed, DuelInit, Matches
<1>6. Cardinality(Typing) = 0 /\ MaxMatch \in Nat
  BY <1>3, FS_EmptySet, DuelAssumption DEF Typing
<1>7. Numbered
  BY <1>1, <1>2, <1>3, <1>6 DEF Numbered, DuelInit
<1>8. SweeperOwns /\ FillsBlank /\ PaidIsClosed
  BY <1>3, AsleepTyped DEF SweeperOwns, FillsBlank, PaidIsClosed, DuelInit
<1>. QED
  BY <1>3, <1>4, <1>5, <1>7, <1>8 DEF DuelInv

\* Every step but the commit and the crash writes one record at most, moves one
\* handler at most, and takes nobody's lock.
LEMMA StepMoves ==
  ASSUME DuelInv, DuelNext, ~ DuelCrash, \A p \in Handlers : ~ RollCommit(p)
  PROVE  UNCHANGED moneyVars /\ \E p : Moves(p)
<1>1. ASSUME NEW p \in Handlers, ArriveDuel(p)
      PROVE  UNCHANGED moneyVars /\ Moves(p)
  <2>1. ASSUME NEW u \in Challengers, NEW o \in DuelUsers, NEW n \in Rounds, DuelRead(p, u, o, n)
        PROVE  UNCHANGED moneyVars /\ Moves(p)
    BY <2>1, DuelReads DEF DuelRead
  <2>2. ASSUME NEW u \in DuelUsers, NEW c \in Challengers, AcceptLock(p, u, c)
        PROVE  UNCHANGED moneyVars /\ Moves(p)
    BY <2>2, AcceptLocks DEF AcceptLock
  <2>3. ASSUME NEW u \in DuelUsers, NEW c \in Challengers, RollStamp(p, u, c)
        PROVE  UNCHANGED moneyVars /\ Moves(p)
    BY <2>3, RollStamps DEF RollStamp
  <2>4. ASSUME NEW c \in Challengers, CancelRead(p, c)
        PROVE  UNCHANGED moneyVars /\ Moves(p)
    BY <2>4, CancelReads DEF CancelRead
  <2>. QED
    BY <1>1, <2>1, <2>2, <2>3, <2>4 DEF ArriveDuel
<1>2. ASSUME NEW p \in Handlers, ProceedDuel(p)
      PROVE  UNCHANGED moneyVars /\ Moves(p)
  <2>1. ASSUME NEW allowed, DuelState(p, allowed)
        PROVE  UNCHANGED moneyVars /\ Moves(p)
    BY <2>1, DuelStates DEF DuelState
  <2>2. CASE DuelData(p)
    BY <2>2, DuelFills DEF DuelData
  <2>3. CASE AcceptMatch(p)
    BY <2>3, AcceptMatches DEF AcceptMatch
  <2>4. CASE AcceptFlip(p)
    BY <2>4, AcceptFlips DEF AcceptFlip
  <2>5. CASE RollClear(p) \/ CancelClear(p)
    BY <2>5, Clears DEF RollClear, CancelClear
  <2>6. ASSUME NEW winner \in Seats \cup {Nobody}, RollOn(p, winner)
        PROVE  UNCHANGED moneyVars /\ Moves(p)
    BY <2>6, RollsOn DEF RollOn
  <2>7. ASSUME NEW winner \in Seats \cup {Nobody}, RollPlay(p, winner)
        PROVE  UNCHANGED moneyVars /\ Moves(p)
    BY <2>7, RollPlays DEF RollPlay
  <2>8. CASE CancelWipe(p)
    BY <2>8, Wipes DEF CancelWipe
  <2>. QED
    BY <1>2, <2>1, <2>2, <2>3, <2>4, <2>5, <2>6, <2>7, <2>8 DEF ProceedDuel
<1>3. ASSUME NEW p \in Handlers, RollLost(p) \/ CancelRaises(p)
      PROVE  UNCHANGED moneyVars /\ Moves(p)
  BY <1>3, Loses, CancelFails DEF RollLost, CancelRaises
<1>4. ASSUME NEW c \in Challengers, DeclineDuel(c) \/ Age(c)
      PROVE  UNCHANGED moneyVars /\ Moves("sweeper")
  BY <1>4, Declines, Ages DEF DeclineDuel, Age
<1>5. CASE Sweep \/ SweepFlood
  <2>1. ASSUME NEW k \in RecordKeys, SweepSkip(k) \/ SweepGuard(k)
        PROVE  UNCHANGED moneyVars /\ Moves("sweeper")
    BY <2>1, Skips, Guards DEF SweepSkip, SweepGuard
  <2>2. CASE SweepList
    BY <2>2, Lists DEF SweepList
  <2>3. CASE SweepClear
    BY <2>3, Retires DEF SweepClear
  <2>4. CASE SweepStrike \/ SweepFlood \/ SweepEnd
    BY <2>4, Strikes DEF SweepStrike, SweepFlood, SweepEnd
  <2>. QED
    BY <1>5, <2>1, <2>2, <2>3, <2>4 DEF Sweep
<1>. QED
  BY <1>1, <1>2, <1>3, <1>4, <1>5 DEF DuelNext

LEMMA DuelInvNext ==
  ASSUME DuelInv, [DuelNext]_duelVars
  PROVE  DuelInv'
<1>1. CASE UNCHANGED duelVars
  BY <1>1, StutterKeeps
<1>2. CASE DuelCrash
  BY <1>2, CrashKeeps
<1>3. ASSUME NEW p \in Handlers, RollCommit(p)
      PROVE  DuelInv'
  BY <1>3, CommitKeeps
<1>4. CASE DuelNext /\ ~ DuelCrash /\ \A p \in Handlers : ~ RollCommit(p)
  BY <1>4, StepMoves, MovesKeep
<1>. QED
  BY <1>1, <1>2, <1>3, <1>4

LEMMA DuelAlways == DuelSpec => []DuelInv
<1>1. DuelInit => DuelInv
  BY DuelInvInit
<1>2. DuelInv /\ [DuelNext]_duelVars => DuelInv'
  BY DuelInvNext
<1>. QED
  BY <1>1, <1>2, PTL DEF DuelSpec

\* Coins move only for a match that is on the record and rolled by both: nothing comes
\* between the decisive roll and the commit that the match lock does not hold off.
THEOREM OnlyLiveMatchesArePaid == DuelSpec => OnlyLiveMatchesPay
<1> DEFINE LivePays == \A m \in Matches : settled'[m] # settled[m] =>
             \/ m \in wiped \cup overwritten
             \/ \E c \in Challengers : fsm[c].match = m /\ fsm[c].state = "rolls" /\ fsm[c].rolled = Seats
<1>1. ASSUME DuelInv, [DuelNext]_duelVars
      PROVE  LivePays
  <2> SUFFICES ASSUME NEW m \in Matches, settled'[m] # settled[m]
               PROVE  \/ m \in wiped \cup overwritten
                      \/ \E c \in Challengers :
                           fsm[c].match = m /\ fsm[c].state = "rolls" /\ fsm[c].rolled = Seats
    OBVIOUS
  <2>1. settled' # settled
    OBVIOUS
  <2>2. ~ UNCHANGED duelVars /\ ~ DuelCrash /\ ~ UNCHANGED moneyVars
    BY <2>1 DEF duelVars, moneyVars, DuelCrash
  <2>3. PICK p \in Handlers : RollCommit(p)
    BY <1>1, <2>2, StepMoves
  <2>4. settled' = [settled EXCEPT ![job[p].match] = @ + 1] /\ AtDuel(p, "held")
    BY <2>1, <2>3 DEF RollCommit, moneyVars
  <2>5. m = job[p].match
    BY <1>1, <2>4, Parts
  <2>6. m # 0 /\ Decided(p) /\ job[p].key \in Challengers
    BY <1>1, <2>4 DEF Matches, Decided, AtDuel, DuelInv, Owned
  <2>7. m \in wiped \cup overwritten \/ (fsm[job[p].key].match = m /\ Rolled(job[p].key))
    BY <1>1, <2>5, <2>6 DEF DuelInv, Live, OnRecord
  <2>. QED
    BY <2>6, <2>7 DEF Rolled
<1>2. DuelInv /\ [DuelNext]_duelVars => [LivePays]_duelVars
  BY <1>1
<1>3. DuelSpec => [][LivePays]_duelVars
  BY <1>2, DuelAlways, PTL DEF DuelSpec
<1>. QED
  BY <1>3 DEF OnlyLiveMatchesPay

\* A match moves coins once, and every variable stays in its set, whatever crashes,
\* cancels, timeouts and late taps come between; but for matches written over.
THEOREM MatchesArePaidOnce == DuelSpec => []MatchesPayOnce
<1>1. DuelInv => MatchesPayOnce
  <2> SUFFICES ASSUME DuelInv PROVE MatchesPayOnce
    OBVIOUS
  <2>1. DuelTypeOK
    BY Parts, RecordFields DEF DuelTypeOK, Matches
  <2>2. \A m \in Matches : m \in overwritten \/ ~ Marred(m)
    BY Parts DEF Marred, Matches
  <2>3. PaidOnce
    BY <2>2, Parts DEF PaidOnce, DuelInv, PaidIsClosed
  <2>. QED
    BY <2>1, <2>3 DEF MatchesPayOnce
<1>. QED
  BY <1>1, DuelAlways, PTL
=============================================================================
