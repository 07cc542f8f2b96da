--------------------------- MODULE SqlAccountSync ---------------------------
(***************************************************************************)
(* The SQL account repositories (backends/sql_*.go for MySQL and           *)
(* PostgreSQL, backends/local_*.go for SQLite) and the account directory's *)
(* bootstrap and sync loop that follow them.                               *)
(*                                                                         *)
(* A mutation is one transaction that begins by updating the revision row: *)
(* the row lock makes mutations of all processes serial, so each is one    *)
(* action, and one that fails rolls back and changes nothing.  Snapshots   *)
(* and scans run outside any transaction, one statement after another, and *)
(* mutations commit between their statements.                              *)
(***************************************************************************)
EXTENDS Integers, FiniteSets

CONSTANTS
    Token,    \* account tokens
    Pool,     \* account pools
    NoPool,   \* the pool of a row that does not exist
    MaxRev    \* bound on the revision counter

ASSUME PoolAssumption == NoPool \notin Pool
ASSUME MaxRevAssumption == MaxRev \in Nat

VARIABLES
    rev,      \* account_meta.revision
    rec,      \* the accounts table
    up,       \* d.table # nil
    cursor,   \* table.Revision
    slot,     \* the row each slot of the table was last written from
    phase,    \* where the sync goroutine is
    top,      \* the revision read at the start of a snapshot or a scan
    group,    \* nextRevision of a scan
    begun     \* history: the revision counter when the running pass began

vars == <<rev, rec, up, cursor, slot, phase, top, group, begun>>
store == <<rev, rec>>
replica == <<up, cursor, slot>>
scanner == <<phase, top, group, begun>>

Feed == INSTANCE ChangeFeed WITH rev <- rev, rec <- rec, up <- up, cursor <- cursor, slot <- slot

Phases == {"boot", "snapshot", "idle", "failed", "more", "scan", "rows", "down"}

Init ==
    /\ Feed!Init
    /\ phase = "boot"
    /\ top = 0
    /\ group = 0
    /\ begun = 0

-----------------------------------------------------------------------------
(* Mutations.                                                              *)

Live(p) == {t \in Token : rec[t].life = "live" /\ rec[t].pool = p}

Row(life, pool, revision) == [life |-> life, pool |-> pool, revision |-> revision]

(* A row is inserted or overwritten, and deleted_at becomes NULL.          *)
UpsertAccounts(items) ==
    /\ rev < MaxRev
    /\ rev' = rev + 1
    /\ rec' = [t \in Token |-> IF t \in DOMAIN items
                               THEN Row("live", items[t], rev + 1) ELSE rec[t]]
    /\ UNCHANGED <<replica, scanner>>

(* Rows that exist, deleted ones included, are patched; others are         *)
(* skipped.  The refresh service and the admin API patch the pool.         *)
PatchAccounts(patches) ==
    /\ rev < MaxRev
    /\ rev' = rev + 1
    /\ rec' = [t \in Token |-> IF t \in DOMAIN patches /\ rec[t].life # "none"
                               THEN Row(rec[t].life, patches[t], rev + 1) ELSE rec[t]]
    /\ UNCHANGED <<replica, scanner>>

(* Faulty variant: the deletion leaves the rows' revision alone.           *)
DeleteAccountsUnstamped(tokens) ==
    /\ rev < MaxRev
    /\ rev' = rev + 1
    /\ rec' = [t \in Token |-> IF t \in tokens /\ rec[t].life = "live"
                               THEN Row("deleted", rec[t].pool, rec[t].revision) ELSE rec[t]]
    /\ UNCHANGED <<replica, scanner>>

(* Only live rows are marked, but the revision moves in any case.          *)
DeleteAccounts(tokens) ==
    /\ rev < MaxRev
    /\ rev' = rev + 1
    /\ rec' = [t \in Token |-> IF t \in tokens /\ rec[t].life = "live"
                               THEN Row("deleted", rec[t].pool, rev + 1) ELSE rec[t]]
    /\ UNCHANGED <<replica, scanner>>

(* Faulty variant: the upserts are stamped with the revision read before   *)
(* the transaction.                                                        *)
ReplacePoolReadsEarly(p, items) ==
    /\ rev + 1 < MaxRev
    /\ rev' = rev + 2
    /\ rec' = [t \in Token |->
                 CASE t \in DOMAIN items -> Row("live", items[t], rev)
                   [] t \in Live(p) \ DOMAIN items -> Row("deleted", p, rev + 1)
                   [] OTHER -> rec[t]]
    /\ UNCHANGED <<replica, scanner>>

(* Deletions under one revision and upserts under the next, committed      *)
(* together.                                                               *)
ReplacePool(p, items) ==
    /\ rev + 1 < MaxRev
    /\ rev' = rev + 2
    /\ rec' = [t \in Token |->
                 CASE t \in DOMAIN items -> Row("live", items[t], rev + 2)
                   [] t \in Live(p) \ DOMAIN items -> Row("deleted", p, rev + 1)
                   [] OTHER -> rec[t]]
    /\ UNCHANGED <<replica, scanner>>

-----------------------------------------------------------------------------
(* The sync goroutine.                                                     *)

SnapshotRevision ==
    /\ phase = "boot"
    /\ phase' = "snapshot"
    /\ top' = rev
    /\ UNCHANGED <<store, replica, group, begun>>

SnapshotRows ==
    /\ phase = "snapshot"
    /\ phase' = "idle"
    /\ up' = TRUE
    /\ slot' = [t \in Token |-> IF rec[t].life = "live" THEN rec[t] ELSE Feed!NoRow]
    /\ cursor' = top
    /\ UNCHANGED <<store, top, group, begun>>

(* Faulty variant: an empty table is published when the bootstrap fails.   *)
BootstrapFailsPublishes ==
    /\ phase \in {"boot", "snapshot"}
    /\ phase' = "down"
    /\ up' = TRUE
    /\ UNCHANGED <<store, cursor, slot, top, group, begun>>

(* The error of Bootstrap is dropped; without a table every SyncIfChanged  *)
(* returns at once, so the directory stays empty until a restart.          *)
BootstrapFails ==
    /\ phase \in {"boot", "snapshot"}
    /\ phase' = "down"
    /\ UNCHANGED <<store, replica, top, group, begun>>

(* The first statement of ScanChanges: of a pass of the loop, or of the    *)
(* next round of ApplyChanges after HasMore.                               *)
ScanRevision ==
    /\ phase \in {"idle", "failed", "more"}
    /\ phase' = "scan"
    /\ top' = rev
    /\ begun' = IF phase = "more" THEN begun ELSE rev
    /\ UNCHANGED <<store, replica, group>>

Ahead == {rec[t].revision : t \in {u \in Token : rec[u].revision > cursor}}

Later(a, b) == IF a < b THEN b ELSE a

(* Faulty variant: any revision above the cursor is taken.                 *)
ScanNextAny ==
    /\ phase = "scan"
    /\ \/ /\ Ahead = {}
          /\ cursor' = Later(cursor, top)
          /\ phase' = "idle"
          /\ UNCHANGED group
       \/ /\ group' \in Ahead
          /\ phase' = "rows"
          /\ UNCHANGED cursor
    /\ UNCHANGED <<store, up, slot, top, begun>>

(* MIN(revision) above the cursor.  Without one the change set is empty    *)
(* and carries the revision read before.                                   *)
ScanNext ==
    /\ phase = "scan"
    /\ \/ /\ Ahead = {}
          /\ cursor' = Later(cursor, top)
          /\ phase' = "idle"
          /\ UNCHANGED group
       \/ /\ group' \in Ahead
          /\ \A r \in Ahead : group' <= r
          /\ phase' = "rows"
          /\ UNCHANGED cursor
    /\ UNCHANGED <<store, up, slot, top, begun>>

(* Faulty variants: HasMore is never set; the cursor takes the revision of *)
(* the counter instead of the group's.                                     *)
ScanRowsNoMore ==
    /\ phase = "rows"
    /\ slot' = [t \in Token |-> IF rec[t].revision = group THEN Feed!Applied(t) ELSE slot[t]]
    /\ cursor' = Later(cursor, group)
    /\ phase' = "idle"
    /\ UNCHANGED <<store, up, top, group, begun>>

ScanRowsJumps ==
    /\ phase = "rows"
    /\ slot' = [t \in Token |-> IF rec[t].revision = group THEN Feed!Applied(t) ELSE slot[t]]
    /\ cursor' = Later(Later(cursor, group), top)
    /\ phase' = "idle"
    /\ UNCHANGED <<store, up, top, group, begun>>

(* The rows of the group as they are now; HasMore if the group is below    *)
(* the revision read first.                                                *)
ScanRows ==
    /\ phase = "rows"
    /\ slot' = [t \in Token |-> IF rec[t].revision = group THEN Feed!Applied(t) ELSE slot[t]]
    /\ cursor' = Later(cursor, group)
    /\ phase' = IF group < top THEN "more" ELSE "idle"
    /\ UNCHANGED <<store, up, top, group, begun>>

(* A statement fails: ApplyChanges returns, the loop tries again later.    *)
ScanFails ==
    /\ phase \in {"more", "scan", "rows"}
    /\ phase' = "failed"
    /\ UNCHANGED <<store, replica, top, group, begun>>

(* The process stops at any point and starts again.                        *)
Restart ==
    /\ phase # "boot"
    /\ phase' = "boot"
    /\ Feed!Restart
    /\ UNCHANGED <<top, group, begun>>

-----------------------------------------------------------------------------
Batches == UNION {[S -> Pool] : S \in (SUBSET Token) \ {{}}}

Mutation ==
    \/ \E items \in Batches : UpsertAccounts(items) \/ PatchAccounts(items)
    \/ \E tokens \in (SUBSET Token) \ {{}} : DeleteAccounts(tokens)
    \/ \E p \in Pool, items \in Batches \cup {<<>>} : ReplacePool(p, items)

Step ==
    \/ Mutation
    \/ SnapshotRevision \/ SnapshotRows \/ BootstrapFails
    \/ ScanRevision \/ ScanNext \/ ScanRows \/ ScanFails

Next == Step \/ Restart

Spec == Init /\ [][Next]_vars

(* The loop's timer always fires again (weak fairness of its first         *)
(* statement), and a statement that is tried again and again sooner or     *)
(* later succeeds (strong fairness): database errors are not for ever.     *)
Fairness ==
    /\ WF_vars(SnapshotRevision) /\ SF_vars(SnapshotRows)
    /\ WF_vars(ScanRevision) /\ SF_vars(ScanNext) /\ SF_vars(ScanRows)

LiveSpec == Spec /\ Fairness

-----------------------------------------------------------------------------
TypeOK ==
    /\ Feed!TypeOK
    /\ phase \in Phases
    /\ top \in 0..rev /\ group \in 0..rev /\ begun \in 0..rev
    /\ up <=> phase \notin {"boot", "snapshot", "down"}

SyncComplete == Feed!SyncComplete

(* No row lies between the cursor and the group a scan has chosen, however *)
(* many mutations commit after the choice.                                 *)
GroupIsNext ==
    phase = "rows" =>
        /\ cursor < group
        /\ \A t \in Token : ~(cursor < rec[t].revision /\ rec[t].revision < group)

(* A pass that reports no error has caught up with everything that was     *)
(* committed when it began: SyncIfChanged never leaves a backlog behind.   *)
PassCatchesUp ==
    [][(phase \in {"scan", "rows"} /\ phase' = "idle") => cursor' >= begun]_vars

(* The sync goroutine implements the feed the directory relies on.         *)
ImplementsFeed == Feed!Spec

(* Once mutations and restarts stop, the table comes to agree with the     *)
(* rows and stays so, unless the last bootstrap failed.                    *)
Converges ==
    <>[](phase # "boot") => <>[](phase = "down" \/ \A t \in Token : Feed!Reflects(t))
=============================================================================
