------------------------------- MODULE Stores -------------------------------
(***************************************************************************)
(* What outlives a process or is shared between processes: the accounts in *)
(* Redis (RedisAccountSync, once with failing commands and once without),  *)
(* the locks of the schedulers (SchedulerLeader), the migrations of a      *)
(* start (Startup) and the Build accounts (BuildAccounts).  The components *)
(* share no variable; a behaviour is one of its focus, the others stay as  *)
(* they began.                                                             *)
(***************************************************************************)
EXTENDS Integers, Sequences, FiniteSets

CONSTANTS Focus,  \* the components a behaviour may be of
          \* RedisAccountSync: with faults on Pool, overlapping the sync goroutine
          \* or not; without faults, one at a time, on SerialPool
          Token, Pool, SerialPool, NoPool, Writer, Overlap, MaxRev,
          \* SchedulerLeader
          Process, Dir, DirOf, Handler, Kinds, StoreKeys, Stalls, Faults, NoStore, Free, Orphan,
          \* Startup
          Pages, Uses, DeletedLocal, Sources, MaxStarts, MaxFaults,
          \* BuildAccounts
          User, MaxIds, Flow, FlowKinds, Payloads, Answers, QuotaPause, PaymentPause,
          MaxTokens, MaxBuildOps, MaxStoreErrors, NoAccount, NoBilling

VARIABLES focus,
          rev, rec, log, pools, job, up, cursor, slot, scanPhase, top, pending, seen,
          key, file, cfg, main, leader, bound, lease, local, renewer, running, loops, frame,
          shared, source, phase, at, envKey, confVersion, confKeys, userFile, database, moved,
          target, cleanups, starts, faults,
          brow, nextId, flows, valid, lastToken, rotates, models, owed, damaged, marked,
          buildOps, storeErrors

UndoRedis == INSTANCE RedisAccountSync WITH Faults <- TRUE, phase <- scanPhase
SerialRedis == INSTANCE RedisAccountSync WITH
    Pool <- SerialPool, Overlap <- FALSE, Faults <- FALSE, phase <- scanPhase
Leader == INSTANCE SchedulerLeader WITH Stores <- StoreKeys
Migration == INSTANCE Startup
Build == INSTANCE BuildAccounts WITH NoRow <- NoAccount

redisVars == <<rev, rec, log, pools, job, up, cursor, slot, scanPhase, top, pending, seen>>
leaderVars == <<key, file, cfg, main, leader, bound, lease, local, renewer, running, loops, frame>>
startVars == <<shared, source, phase, at, envKey, confVersion, confKeys, userFile, database, moved,
               target, cleanups, starts, faults>>
buildVars == <<brow, nextId, flows, valid, lastToken, rotates, models, owed, damaged, marked,
               buildOps, storeErrors>>
vars == <<focus, redisVars, leaderVars, startVars, buildVars>>

ASSUME StoresAssumption ==
    /\ UndoRedis!RedisAssumption /\ SerialRedis!RedisAssumption
    /\ Leader!LeaderAssumption /\ Migration!MigrationAssumption /\ Build!BuildAssumption

(* Only the component in focus moves. *)
InRedis == UNCHANGED <<focus, leaderVars, startVars, buildVars>>
InLeader == focus = "leader" /\ UNCHANGED <<focus, redisVars, startVars, buildVars>>
InMigration == focus = "startup" /\ UNCHANGED <<focus, redisVars, leaderVars, buildVars>>
InBuild == focus = "build" /\ UNCHANGED <<focus, redisVars, leaderVars, startVars>>

Init ==
    /\ focus \in Focus
    /\ IF focus = "serial" THEN SerialRedis!Init ELSE UndoRedis!Init
    /\ Leader!Init /\ Migration!Init /\ Build!Init
    /\ focus # "leader" => key = Free
    /\ focus # "startup" => ~shared /\ ~source /\ ~envKey /\ userFile = {} /\ ~database
    /\ focus # "build" => ~rotates /\ brow[1].fresh

Next ==
    \/ focus = "undo" /\ InRedis /\ UndoRedis!Next
    \/ focus = "serial" /\ InRedis /\ SerialRedis!Next
    \/ InLeader /\ Leader!Next
    \/ InMigration /\ Migration!Next
    \/ InBuild /\ Build!Next

Spec == Init /\ [][Next]_vars

-----------------------------------------------------------------------------
(* An upsert or a ReplacePool whose undo has run to the end leaves every row *)
(* as it was, whatever command failed.                                       *)
UndoComplete == [][UndoRedis!UndoRestores]_redisVars

(* While mutations and synchronisation take turns, no row behind the cursor  *)
(* of the directory differs from its slot (sync.go), and ReplacePool finds   *)
(* every live account of its pool (accounts:pool:P).                         *)
SyncIsSound == /\ focus = "serial" => SerialRedis!SyncIsSound
               /\ focus # "serial" => UndoRedis!TypeOK

(* At most one of the processes of a data directory runs schedulers, none    *)
(* without a lock, and a process that shuts down leaves the key of a later   *)
(* leader alone (the lock and lease of the scheduler leader).                *)
OneLeader == Leader!OneLeader

(* accounts.db leaves its place only when all of it has been copied, no kill *)
(* and restart gives an account its local counter twice, and a start without *)
(* a fault that serves has brought the accounts along (migrateAccounts).     *)
MigrationIsSafe == Migration!MigrationIsSafe

(* No interleaving of requests, batches and logins loses the refresh token   *)
(* of a Build account, whether the server rotates tokens or not; while it    *)
(* does not, no race between flows makes an account expired either (when it  *)
(* does, the slower of two flows with one token expires the account the      *)
(* faster one renewed).                                                      *)
GrantsAreKept == Build!GrantsAreKept

(* A Build account that was refused rests for its whole cooldown.            *)
CooledIsNotListed == Build!CooledIsNotListed

(* A scan passes a revision only when its group is complete.                 *)
GroupsAreComplete == [][UndoRedis!PassesWholeGroups]_redisVars

(* Schedulers stop when the lease is lost.                                   *)
StopsWhenLeaseLost == Leader!StopsWhenLeaseLost

(* A start without a fault has brought the user's settings along.            *)
SettingsArrive == Migration!SettingsArrive

(* A refusal for want of credit is never what a client is served.            *)
RefusalIsNotServed == Build!RefusalIsNotServed
=============================================================================
