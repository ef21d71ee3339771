----------------------------- MODULE KeyedLocks -----------------------------
(***************************************************************************)
(* utils/keyed_locks.py: a lock per key, made when it is first asked for   *)
(* and thrown away when nobody holds it or waits for it.  asyncio runs one *)
(* task at a time, so what acquire() does between two awaits is one step.  *)
(* A slot is an _Entry object: thrown away, it may still be referenced by  *)
(* the local variable of a call, and another object may take its place.    *)
(***************************************************************************)
EXTENDS Naturals, Sequences, FiniteSets

CONSTANTS
  Keys, Tasks, None,
  Slots                \* the _Entry objects the process can make

ASSUME LocksAssumption ==
  /\ None \notin Keys \cup Tasks \cup Slots
  /\ IsFiniteSet(Tasks)

VARIABLES
  entries,    \* _entries: the slot of each key
  users,      \* _Entry.users
  queue,      \* _Entry.lock: its holder, then the tasks parked on it in turn
  slot,       \* the local variable `entry` of each call of acquire
  key         \* its argument

lockVars == <<entries, users, queue, slot, key>>

LockInit ==
  /\ entries = [k \in Keys |-> None]
  /\ users = [s \in Slots |-> 0]
  /\ queue = [s \in Slots |-> <<>>]
  /\ slot = [t \in Tasks |-> None]
  /\ key = [t \in Tasks |-> None]

InUse(s) == \E t \in Tasks : slot[t] = s

Holds(t) ==
  /\ slot[t] # None /\ queue[slot[t]] # <<>>
  /\ Head(queue[slot[t]]) = t

New(s) == ~ InUse(s) /\ s = CHOOSE free \in Slots : ~ InUse(free)

SlotFor(k, s) ==                        \* the entry of the key, or a new one
  IF entries[k] # None THEN s = entries[k] ELSE New(s)

\* acquire, up to the await: the slot is claimed before the lock is waited for.
Acquire(t, k) ==
  /\ slot[t] = None
  /\ \E s \in Slots :
       /\ SlotFor(k, s)
       /\ entries' = [entries EXCEPT ![k] = s]
       /\ users' = [users EXCEPT ![s] = @ + 1]
       /\ queue' = [queue EXCEPT ![s] = Append(@, t)]
       /\ slot' = [slot EXCEPT ![t] = s]
  /\ key' = [key EXCEPT ![t] = k]

FreedMutant(t) ==                       \* mutant: freed by the holder, waiters or not
  IF entries[key[t]] = slot[t]
    THEN [entries EXCEPT ![key[t]] = None] ELSE entries

Freed(t) ==                             \* freed by the last user
  IF users[slot[t]] - 1 <= 0 /\ entries[key[t]] = slot[t]
    THEN [entries EXCEPT ![key[t]] = None] ELSE entries

\* The end of the block: the lock goes to the next in turn, the finally block
\* gives the slot back.
Release(t) ==
  /\ Holds(t)
  /\ users' = [users EXCEPT ![slot[t]] = @ - 1]
  /\ queue' = [queue EXCEPT ![slot[t]] = Tail(@)]
  /\ entries' = Freed(t)
  /\ slot' = [slot EXCEPT ![t] = None]
  /\ key' = [key EXCEPT ![t] = None]

-----------------------------------------------------------------------------
\* Two blocks never run at once for one key, although the lock of a key is made
\* and thrown away over and over (what the entry's user count is for).
LocksExclude ==
  \A t1, t2 \in Tasks :
    Holds(t1) /\ Holds(t2) /\ key[t1] = key[t2] => t1 = t2

\* A slot lives exactly as long as somebody uses it: no key leaks one.
SlotsLiveWhileUsed ==
  \A k \in Keys : entries[k] # None <=> \E t \in Tasks : key[t] = k

\* A lock is thrown away neither too early nor too late.
LocksAreSound == LocksExclude /\ SlotsLiveWhileUsed
=============================================================================
