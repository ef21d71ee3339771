---------------------------- MODULE CommandAccess ----------------------------
(***************************************************************************)
(* The map of per-command minimum ranks: rows in moderation.db that        *)
(* /cmdcfg writes, a process-wide cache filled after an await and guarded  *)
(* by a generation counter (utils/cache_generation.py), and the copy the   *)
(* gate keeps, in memory and on disk, to enforce the kill switch from when *)
(* the database cannot be read.  The language and the rank caches are      *)
(* filled and invalidated the same way.                                    *)
(***************************************************************************)
EXTENDS Naturals

CONSTANTS
  Readers, Admins,      \* updates that read the map, and /cmdcfg calls
  Nothing,
  MaxVersion,           \* bound: maps committed
  MaxMishaps            \* bound: outages and restarts

ASSUME CommandAccessAssumption ==
  /\ {MaxVersion, MaxMishaps} \subseteq Nat
  /\ Nothing \notin [version : Nat, off : BOOLEAN]

VARIABLES
  rows,       \* the committed map: its number, and whether a command is off in it
  readable,   \* moderation.db answers
  cache, generation,
  last,       \* _last_overrides
  loaded,     \* _snapshot_loaded
  disk,       \* command_access_overrides.json
  spoilt,     \* history: the last write of it, or one that overlapped it, went wrong:
              \* it failed, or began while another was on its way
  reader,     \* each reading update: where it is, its snapshot and its map
  admin,      \* each /cmdcfg: the number of the map it committed, until it clears
  announced,  \* the newest map whose /cmdcfg cleared the cache
  mishaps

memoryVars == <<cache, generation, last, loaded>>
fileVars == <<disk, spoilt>>
accessVars == <<rows, readable, memoryVars, fileVars, reader, admin, announced, mishaps>>

Map(n, off) == [version |-> n, off |-> off]
NoRead == [step |-> "idle", gate |-> FALSE, snapshot |-> 0, map |-> Nothing]

AccessInit ==
  /\ rows = Map(0, FALSE) /\ readable = TRUE
  /\ cache = Nothing /\ generation = 0
  /\ last = Nothing /\ loaded = FALSE
  /\ disk = Nothing /\ spoilt = FALSE
  /\ reader = [r \in Readers |-> NoRead] /\ admin = [a \in Admins |-> 0]
  /\ announced = 0 /\ mishaps = 0

Mishap == mishaps < MaxMishaps /\ mishaps' = mishaps + 1  \* bound

\* Two maps that say the same are equal, whichever came first.
Same(m, n) == m # Nothing /\ n # Nothing /\ m.off = n.off

-----------------------------------------------------------------------------
\* /cmdcfg: the write and its commit; the clear and the bump come after.
Cmdcfg(a, off) ==
  /\ admin[a] = 0 /\ readable /\ rows.version < MaxVersion     \* bound
  /\ rows' = Map(rows.version + 1, off)
  /\ admin' = [admin EXCEPT ![a] = rows.version + 1]
  /\ UNCHANGED <<readable, memoryVars, fileVars, reader, announced, mishaps>>

Clear(a) ==
  /\ admin[a] # 0
  /\ cache' = Nothing /\ generation' = generation + 1
  /\ announced' = IF admin[a] > announced THEN admin[a] ELSE announced
  /\ admin' = [admin EXCEPT ![a] = 0]
  /\ UNCHANGED <<rows, readable, last, loaded, fileVars, reader, mishaps>>

-----------------------------------------------------------------------------
FillMutant(r) == reader[r].map        \* mutant: what was read is cached in any case

\* The cache after a read: filled, unless something invalidated meanwhile.
Fill(r) == IF generation = reader[r].snapshot THEN reader[r].map ELSE cache

ChangedMutant(map) == ~ Same(map, cache)     \* mutant: measured against the cache

Changed(map) == ~ Same(map, last)

StoreMutant(r) ==                     \* mutant: the copy without the check (#1977)
  /\ r \in Readers /\ last' = reader[r].map
  /\ IF Changed(reader[r].map)
       THEN /\ reader' = [reader EXCEPT ![r] = [NoRead EXCEPT !.step = "saving", !.map = reader[r].map]]
            /\ spoilt' = \E q \in Readers : reader[q].step = "saving"
       ELSE reader' = [reader EXCEPT ![r] = NoRead] /\ UNCHANGED spoilt

\* What a read leaves in the gate's own copy; a map that changes it is written to
\* the file.
Store(r) ==
  IF generation # reader[r].snapshot
    THEN reader' = [reader EXCEPT ![r] = NoRead] /\ UNCHANGED <<last, spoilt>>
    ELSE /\ last' = reader[r].map
         /\ IF Changed(reader[r].map)
              THEN /\ reader' = [reader EXCEPT ![r] = [NoRead EXCEPT !.step = "saving", !.map = reader[r].map]]
                   /\ spoilt' = \E q \in Readers : reader[q].step = "saving"
              ELSE reader' = [reader EXCEPT ![r] = NoRead] /\ UNCHANGED spoilt

\* The gate finds the map in the cache.
Hit(r) ==
  /\ reader[r].step = "idle" /\ cache # Nothing
  /\ reader' = [reader EXCEPT ![r] = [step |-> "held", gate |-> TRUE,
                                     snapshot |-> generation, map |-> cache]]
  /\ UNCHANGED <<rows, readable, memoryVars, fileVars, admin, announced, mishaps>>

\* The gate, or /help and /cmdcfg show, does not.
Miss(r, gate) ==
  /\ reader[r].step = "idle" /\ cache = Nothing
  /\ reader' = [reader EXCEPT ![r] = [NoRead EXCEPT !.step = "missed", !.gate = gate,
                                                !.snapshot = generation]]
  /\ UNCHANGED <<rows, readable, memoryVars, fileVars, admin, announced, mishaps>>

Read(r) ==
  /\ reader[r].step = "missed" /\ readable
  /\ reader' = [reader EXCEPT ![r].step = "read", ![r].map = rows]
  /\ UNCHANGED <<rows, readable, memoryVars, fileVars, admin, announced, mishaps>>

Finish(r) ==
  /\ reader[r].step = "read"
  /\ cache' = Fill(r)
  /\ reader' = [reader EXCEPT ![r] = IF reader[r].gate THEN [reader[r] EXCEPT !.step = "held"]
                                    ELSE NoRead]
  /\ UNCHANGED <<rows, readable, generation, last, loaded, fileVars, admin, announced, mishaps>>

\* The session is closed, an await, before the map goes to the gate's copy.
Keep(r) ==
  /\ reader[r].step = "held" /\ Store(r)
  /\ UNCHANGED <<rows, readable, cache, generation, loaded, disk, admin, announced, mishaps>>

\* The read fails: the gate decides from its copy, or from the file, which it
\* opens once.
StaleDenial(r) ==
  /\ reader[r].step = "missed" /\ ~ readable
  /\ reader' = [reader EXCEPT ![r] = NoRead]
  /\ IF reader[r].gate /\ last = Nothing /\ ~ loaded
       THEN loaded' = TRUE /\ last' = disk
       ELSE UNCHANGED <<loaded, last>>
  /\ UNCHANGED <<rows, readable, cache, generation, fileVars, admin, announced, mishaps>>

\* The file is replaced from a worker thread, or it is not.
Persist(r, written) ==
  /\ reader[r].step = "saving"
  /\ disk' = IF written THEN reader[r].map ELSE disk
  /\ spoilt' = (spoilt \/ ~ written)
  /\ reader' = [reader EXCEPT ![r] = NoRead]
  /\ UNCHANGED <<rows, readable, memoryVars, admin, announced, mishaps>>

-----------------------------------------------------------------------------
Expire ==
  /\ cache # Nothing /\ cache' = Nothing
  /\ UNCHANGED <<rows, readable, generation, last, loaded, fileVars, reader, admin, announced, mishaps>>

Outage ==
  /\ IF readable THEN Mishap ELSE UNCHANGED mishaps
  /\ readable' = ~ readable
  /\ UNCHANGED <<rows, memoryVars, fileVars, reader, admin, announced>>

\* A restart empties the cache too: what is committed is what the next read finds.
Restart ==
  /\ Mishap
  /\ cache' = Nothing /\ generation' = 0 /\ last' = Nothing /\ loaded' = FALSE /\ spoilt' = FALSE
  /\ reader' = [r \in Readers |-> NoRead] /\ admin' = [a \in Admins |-> 0]
  /\ announced' = rows.version
  /\ UNCHANGED <<rows, readable, disk>>

AccessNext ==
  \/ \E a \in Admins : Clear(a) \/ \E off \in BOOLEAN : Cmdcfg(a, off)
  \/ \E r \in Readers :
       \/ Hit(r) \/ Read(r) \/ Finish(r) \/ Keep(r) \/ StaleDenial(r)
       \/ \E yes \in BOOLEAN : Miss(r, yes) \/ Persist(r, yes)
  \/ Expire \/ Outage \/ Restart

AccessSpec == AccessInit /\ [][AccessNext]_accessVars

-----------------------------------------------------------------------------
\* Once /cmdcfg has answered, no map older than its own is in the cache: a fill
\* that was suspended meanwhile does not bring one back for a TTL (#1942).
CacheIsCurrent == cache # Nothing => cache.version >= announced

\* The gate's copy never takes a map that a finished /cmdcfg replaced (#1977),
\* except from the file, after a restart.
StoresAreCurrent ==
  [][last' # last /\ last' # Nothing =>
       last'.version >= announced \/ (loaded' /\ ~ loaded)]_accessVars

\* What survives a restart is the map the gate held: only a map that changes the
\* copy is written (handlers/command_access.py, #1917), and yet the file agrees with
\* the copy whenever nothing is on its way there.  Two writes that overlap may land
\* in either order and a write may fail, and a map read again repairs neither; the
\* next change of the map, written alone, does.
FileFollowsCopy ==
  /\ last # Nothing /\ ~ spoilt
  /\ \A r \in Readers : reader[r].step # "saving"
  => Same(disk, last)
=============================================================================
