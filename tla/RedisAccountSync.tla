-------------------------- MODULE RedisAccountSync --------------------------
(***************************************************************************)
(* The Redis account repository (backends/redis_*.go) and the account      *)
(* directory's bootstrap and sync loop that follow it.  Nothing is         *)
(* transactional here: a mutation takes its revision first and then writes *)
(* token by token, command by command, and so do snapshots and scans.      *)
(* Every command is an action; only the undo of a failed upsert is taken   *)
(* token by token.  Of the index keys the model keeps accounts:pool:P,     *)
(* which ReplacePool deletes from, and the revision log.                   *)
(***************************************************************************)
EXTENDS Integers, FiniteSets, Functions

CONSTANTS
    Token,     \* account tokens
    Pool,      \* account pools
    NoPool,    \* the pool of a row that does not exist
    Writer,    \* mutations that may run at the same time
    Overlap,   \* whether mutations, scans and snapshots overlap
    Faults,    \* whether commands fail and processes stop half way
    MaxRev     \* bound on the revision counter

RedisAssumption ==
    /\ NoPool \notin Pool
    /\ Overlap \in BOOLEAN /\ Faults \in BOOLEAN
    /\ MaxRev \in Nat

VARIABLES
    rev,      \* accounts:rev
    rec,      \* accounts:record:T
    log,      \* accounts:revision_log, 0 for a token that is not in it
    pools,    \* accounts:pool:P
    job,      \* per writer: the mutation it runs
    up,       \* d.table # nil
    cursor,   \* table.Revision
    slot,     \* the row each slot of the table was last written from
    phase,    \* where the sync goroutine is
    top,      \* the revision read at the start of a scan
    pending,  \* the tokens still to be read
    seen      \* the rows read so far

keys == <<rev, rec, log, pools>>
replica == <<up, cursor, slot>>
scanner == <<phase, top, pending, seen>>
vars == <<keys, job, replica, scanner>>

Feed == INSTANCE ChangeFeed WITH rev <- rev, rec <- rec, up <- up, cursor <- cursor, slot <- slot

Row(life, pool, revision) == [life |-> life, pool |-> pool, revision |-> revision]

(* A mutation in progress.  todo holds the tokens left for this part, then *)
(* the upserts of a ReplacePool that follow its deletions; saved the       *)
(* backups, which only upserts and ReplacePool take; from is history: the  *)
(* rows when the mutation began.                                           *)
Idle == [op |-> "none", stage |-> "idle", pool |-> NoPool, revision |-> 0,
         todo |-> <<>>, after |-> <<>>, at |-> {}, saved |-> <<>>, from |-> <<>>]

Init ==
    /\ Feed!Init
    /\ log = [t \in Token |-> 0]
    /\ pools = [p \in Pool |-> {}]
    /\ job = [w \in Writer |-> Idle]
    /\ phase = "boot"
    /\ top = 0
    /\ pending = {}
    /\ seen = <<>>

Busy == (\E w \in Writer : job[w].stage # "idle") \/ phase \notin {"boot", "idle"}

MayStart == Overlap \/ ~Busy

-----------------------------------------------------------------------------
(* Mutations.                                                              *)

Start(w, op, todo) ==
    /\ job[w].stage = "idle" /\ MayStart
    /\ job' = [job EXCEPT ![w] = [Idle EXCEPT !.op = op, !.stage = "incr",
                                               !.todo = todo, !.from = rec]]
    /\ UNCHANGED <<keys, replica, scanner>>

UpsertAccounts(w, items) == Start(w, "upsert", items)
PatchAccounts(w, patches) == Start(w, "patch", patches)
DeleteAccounts(w, tokens) == Start(w, "delete", [t \in tokens |-> NoPool])

(* SMembers(accounts:pool:P) and the backups of its members.               *)
ReplacePool(w, p, items) ==
    /\ job[w].stage = "idle" /\ MayStart
    /\ job' = [job EXCEPT ![w] =
                 [Idle EXCEPT !.op = "replace", !.stage = "incr", !.pool = p,
                              !.todo = [t \in pools[p] |-> NoPool],
                              !.after = items, !.from = rec,
                              !.saved = [t \in pools[p] |-> rec[t]]]]
    /\ UNCHANGED <<keys, replica, scanner>>

(* bumpRevision.                                                           *)
Incr(w) ==
    /\ job[w].stage = "incr" /\ rev < MaxRev
    /\ rev' = rev + 1
    /\ job' = [job EXCEPT ![w].stage = "look", ![w].revision = rev + 1]
    /\ UNCHANGED <<rec, log, pools, replica, scanner>>

Deletes(j) == j.op \in {"delete", "replace"}
Upserts(j) == j.op \in {"upsert", "replaced"}

(* Faulty variant: the backup is taken again before every upsert, so that  *)
(* ReplacePool forgets the row it has just deleted.                        *)
LookBacksUpAgain(w) ==
    /\ job[w].stage = "look"
    /\ \E t \in DOMAIN job[w].todo :
         LET j == job[w]
             skip == \/ ~Upserts(j) /\ rec[t].life = "none"
                     \/ Deletes(j) /\ rec[t].life = "deleted"
             left == Restrict(j.todo, DOMAIN j.todo \ {t})
             kept == IF Upserts(j)
                     THEN [u \in DOMAIN j.saved \cup {t} |->
                              IF u = t THEN rec[t] ELSE j.saved[u]]
                     ELSE j.saved
         IN  job' = [job EXCEPT ![w] = IF skip THEN [j EXCEPT !.todo = left]
                                       ELSE [j EXCEPT !.stage = "write", !.at = {t},
                                                      !.saved = kept]]
    /\ UNCHANGED <<keys, replica, scanner>>

(* The reads before a write: patches skip tokens without a record,         *)
(* deletions those and deleted ones, upserts take a backup.                *)
Look(w) ==
    /\ job[w].stage = "look"
    /\ \E t \in DOMAIN job[w].todo :
         LET j == job[w]
             skip == \/ ~Upserts(j) /\ rec[t].life = "none"
                     \/ Deletes(j) /\ rec[t].life = "deleted"
             left == Restrict(j.todo, DOMAIN j.todo \ {t})
             kept == IF Upserts(j) /\ t \notin DOMAIN j.saved
                     THEN [u \in DOMAIN j.saved \cup {t} |->
                              IF u = t THEN rec[t] ELSE j.saved[u]]
                     ELSE j.saved
         IN  job' = [job EXCEPT ![w] = IF skip THEN [j EXCEPT !.todo = left]
                                       ELSE [j EXCEPT !.stage = "write", !.at = {t},
                                                      !.saved = kept]]
    /\ UNCHANGED <<keys, replica, scanner>>

(* Nothing left to do: the mutation returns, or ReplacePool goes on to its *)
(* upserts under a new revision.                                           *)
Finish(w) ==
    /\ job[w].stage = "look" /\ job[w].todo = <<>>
    /\ job' = [job EXCEPT ![w] =
                 IF @.op = "replace"
                 THEN [job[w] EXCEPT !.op = "replaced", !.stage = "incr",
                                     !.todo = job[w].after, !.after = <<>>]
                 ELSE Idle]
    /\ UNCHANGED <<keys, replica, scanner>>

(* HSet: an upsert writes every field, a patch and a deletion only theirs. *)
Written(j, t) ==
    CASE Upserts(j) -> Row("live", j.todo[t], j.revision)
      [] Deletes(j) -> Row("deleted", rec[t].pool, j.revision)
      [] OTHER -> Row(IF rec[t].life = "none" THEN "live" ELSE rec[t].life,
                      j.todo[t], j.revision)

(* Faulty variant: HSet keeps the old revision field.                      *)
WriteKeepsRevision(w) ==
    /\ job[w].stage = "write"
    /\ \E t \in job[w].at :
         rec' = [rec EXCEPT ![t] = [Written(job[w], t) EXCEPT !.revision = rec[t].revision]]
    /\ job' = [job EXCEPT ![w].stage = "index"]
    /\ UNCHANGED <<rev, log, pools, replica, scanner>>

Write(w) ==
    /\ job[w].stage = "write"
    /\ \E t \in job[w].at : rec' = [rec EXCEPT ![t] = Written(job[w], t)]
    /\ job' = [job EXCEPT ![w].stage = "index"]
    /\ UNCHANGED <<rev, log, pools, replica, scanner>>

(* addRecordIndexes.  accounts:pool:P only ever gains members: an upsert   *)
(* adds its own record, a patch the record it reads back.                  *)
Index(w) ==
    /\ job[w].stage = "index"
    /\ \E t \in job[w].at :
         LET j == job[w]
             p == IF Upserts(j) THEN j.todo[t] ELSE rec[t].pool
         IN  pools' = IF Deletes(j) \/ (~Upserts(j) /\ rec[t].life # "live") THEN pools
                      ELSE [pools EXCEPT ![p] = @ \cup {t}]
    /\ job' = [job EXCEPT ![w].stage = "log"]
    /\ UNCHANGED <<rev, rec, log, replica, scanner>>

(* ZAdd to the revision log.                                               *)
Log(w) ==
    /\ job[w].stage = "log"
    /\ \E t \in job[w].at :
         /\ log' = [log EXCEPT ![t] = job[w].revision]
         /\ job' = [job EXCEPT ![w].stage = "look", ![w].at = {},
                               ![w].todo = Restrict(@, DOMAIN @ \ {t})]
    /\ UNCHANGED <<rev, rec, pools, replica, scanner>>

(* A command fails.  Patches and deletions return as they are; upserts and *)
(* ReplacePool put the backups back.                                       *)
Fail(w) ==
    /\ Faults
    /\ job[w].stage \in {"incr", "look", "write", "index", "log"}
    /\ job' = [job EXCEPT ![w] =
                 IF @.saved = <<>> THEN Idle ELSE [@ EXCEPT !.stage = "restore"]]
    /\ UNCHANGED <<keys, replica, scanner>>

(* restoreRedisBackup of one token: the old hash under its old revision.   *)
Restore(w) ==
    /\ job[w].stage = "restore"
    /\ \E t \in DOMAIN job[w].saved :
         LET old == job[w].saved[t]
             left == Restrict(job[w].saved, DOMAIN job[w].saved \ {t})
         IN  /\ rec' = [rec EXCEPT ![t] = old]
             /\ log' = [log EXCEPT ![t] = old.revision]
             /\ pools' = IF old.life = "live"
                         THEN [pools EXCEPT ![old.pool] = @ \cup {t}] ELSE pools
             /\ job' = [job EXCEPT ![w] =
                          IF left = <<>> THEN Idle ELSE [@ EXCEPT !.saved = left]]
    /\ UNCHANGED <<rev, replica, scanner>>

(* The process stops, or the undo itself fails.                            *)
Abandon(w) ==
    /\ Faults
    /\ job[w].stage # "idle"
    /\ job' = [job EXCEPT ![w] = Idle]
    /\ UNCHANGED <<keys, replica, scanner>>

-----------------------------------------------------------------------------
(* The sync goroutine.                                                     *)

(* ScanKeys of the snapshot.                                               *)
SnapshotKeys ==
    /\ phase = "boot" /\ MayStart
    /\ phase' = "snapshot"
    /\ pending' = {t \in Token : rec[t].life # "none"}
    /\ seen' = <<>>
    /\ UNCHANGED <<keys, job, replica, top>>

(* One HGetAll of a snapshot or a scan.                                    *)
ReadRecord ==
    /\ phase \in {"snapshot", "read"}
    /\ \E t \in pending :
         /\ pending' = pending \ {t}
         /\ seen' = [u \in DOMAIN seen \cup {t} |-> IF u = t THEN rec[t] ELSE seen[u]]
    /\ UNCHANGED <<keys, job, replica, phase, top>>

(* The revision is read after the rows.                                    *)
SnapshotRevision ==
    /\ phase = "snapshot" /\ pending = {}
    /\ phase' = "idle"
    /\ up' = TRUE
    /\ slot' = [t \in Token |-> IF t \in DOMAIN seen /\ seen[t].life = "live"
                                THEN seen[t] ELSE Feed!NoRow]
    /\ cursor' = rev
    /\ seen' = <<>>
    /\ UNCHANGED <<keys, job, top, pending>>

ScanRevision ==
    /\ phase = "idle" /\ MayStart
    /\ phase' = "scan"
    /\ top' = rev
    /\ UNCHANGED <<keys, job, replica, pending, seen>>

(* ZRangeByScore above the cursor.                                         *)
ScanLog ==
    /\ phase = "scan"
    /\ phase' = "read"
    /\ pending' = {t \in Token : log[t] > cursor}
    /\ UNCHANGED <<keys, job, replica, top, seen>>

Later(a, b) == IF a < b THEN b ELSE a

Fresh == {t \in DOMAIN seen : seen[t].life # "none" /\ seen[t].revision > cursor}

SlotAfter(t, g) ==
    IF t \notin Fresh \/ seen[t].revision # g THEN slot[t]
    ELSE IF seen[t].life = "deleted" /\ slot[t].life = "none" THEN Feed!NoRow
    ELSE seen[t]

(* Faulty variants: the change set always carries the revision of the      *)
(* counter; the cursor moves past the counter.                             *)
ScanApplyJumps ==
    /\ phase = "read" /\ pending = {}
    /\ phase' = "idle"
    /\ seen' = <<>>
    /\ IF Fresh = {} THEN cursor' = Later(cursor, top) /\ UNCHANGED slot
       ELSE \E g \in {seen[t].revision : t \in Fresh} :
              /\ \A t \in Fresh : g <= seen[t].revision
              /\ slot' = [t \in Token |-> SlotAfter(t, g)]
              /\ cursor' = Later(cursor, top)
    /\ UNCHANGED <<keys, job, up, top, pending>>

(* changeSetForTokens and ApplyChanges: the lowest revision read above the *)
(* cursor is the group.                                                    *)
ScanApply ==
    /\ phase = "read" /\ pending = {}
    /\ phase' = "idle"
    /\ seen' = <<>>
    /\ IF Fresh = {} THEN cursor' = Later(cursor, top) /\ UNCHANGED slot
       ELSE \E g \in {seen[t].revision : t \in Fresh} :
              /\ \A t \in Fresh : g <= seen[t].revision
              /\ slot' = [t \in Token |-> SlotAfter(t, g)]
              /\ cursor' = Later(cursor, g)
    /\ UNCHANGED <<keys, job, up, top, pending>>

-----------------------------------------------------------------------------
Batches == UNION {[S -> Pool] : S \in (SUBSET Token) \ {{}}}

Mutation(w) ==
    \/ \E items \in Batches : UpsertAccounts(w, items) \/ PatchAccounts(w, items)
    \/ \E tokens \in (SUBSET Token) \ {{}} : DeleteAccounts(w, tokens)
    \/ \E p \in Pool, items \in Batches \cup {<<>>} : ReplacePool(w, p, items)
    \/ Incr(w) \/ Look(w) \/ Finish(w) \/ Write(w) \/ Index(w) \/ Log(w)
    \/ Fail(w) \/ Restore(w) \/ Abandon(w)

Next ==
    \/ \E w \in Writer : Mutation(w)
    \/ SnapshotKeys \/ ReadRecord \/ SnapshotRevision
    \/ ScanRevision \/ ScanLog \/ ScanApply

Spec == Init /\ [][Next]_vars

-----------------------------------------------------------------------------
(* Revisions never exceed the counter they are taken from.                 *)
TypeOK ==
    /\ Feed!TypeOK
    /\ log \in [Token -> 0..rev]
    /\ pools \in [Pool -> SUBSET Token]
    /\ phase \in {"boot", "snapshot", "idle", "scan", "read"}
    /\ top \in 0..rev
    /\ pending \subseteq Token /\ DOMAIN seen \subseteq Token
    /\ \A w \in Writer : job[w].revision <= rev /\ DOMAIN job[w].saved \subseteq Token

(* The promise of repository.go: nothing behind the cursor is missing.     *)
SyncComplete == Feed!SyncComplete

(* A scan moves the cursor to a revision only when the group of that       *)
(* revision is complete: no mutation has rows under it still to write or   *)
(* to enter in the log.                                                    *)
PassesWholeGroups ==
    \A w \in Writer :
       (/\ phase = "read" /\ phase' = "idle" /\ cursor' > cursor
        /\ job[w].stage \in {"look", "write", "index", "log"}
        /\ job[w].todo # <<>>)
       => job[w].revision > cursor'
GroupsAreComplete == [][PassesWholeGroups]_vars

(* accounts:pool:P holds at least the live accounts of pool P, so that     *)
(* ReplacePool misses none; a writer may be about to add the last one.     *)
PoolSetCovers ==
    \A t \in Token : rec[t].life = "live" =>
        \/ t \in pools[rec[t].pool]
        \/ \E w \in Writer : job[w].stage = "index" /\ t \in job[w].at

(* When an upsert or a ReplacePool has failed and its undo has run to the  *)
(* end, every row is as it was before, whatever command failed, as long as *)
(* no other mutation ran meanwhile.                                        *)
UndoRestores == \A w \in Writer : (Restore(w) /\ job'[w] = Idle) => rec' = job[w].from
UndoComplete == [][UndoRestores]_vars

(* What the directory may rely on while mutations and synchronisation take   *)
(* turns.                                                                    *)
SyncIsSound == TypeOK /\ SyncComplete /\ PoolSetCovers
=============================================================================
