----------------------------- MODULE ChangeFeed -----------------------------
(***************************************************************************)
(* What the account repository promises to the account directory           *)
(* (control/account/repository.go with dataplane/account/sync.go): a       *)
(* mutation stamps the rows it writes with revisions above every earlier   *)
(* one, a snapshot is at least as new as the revision it carries, and a    *)
(* scan hands over a complete revision group without passing over a row.   *)
(* The backends are separate specifications meant to implement this one.   *)
(***************************************************************************)
EXTENDS Integers

CONSTANTS
    Token,   \* account tokens
    Pool,    \* account pools
    NoPool   \* the pool of a row that does not exist

(* A row as far as the feed tells rows apart.  deleted_at makes a row      *)
(* "deleted"; rows are never removed.                                      *)
Row == [life: {"none", "live", "deleted"}, pool: Pool \cup {NoPool}, revision: Nat]

NoRow == [life |-> "none", pool |-> NoPool, revision |-> 0]

VARIABLES
    rev,     \* the revision counter
    rec,     \* the stored rows
    up,      \* the directory has a table
    cursor,  \* table.Revision
    slot     \* the row each table slot was last written from

vars == <<rev, rec, up, cursor, slot>>

Init ==
    /\ rev = 0
    /\ rec = [t \in Token |-> NoRow]
    /\ up = FALSE
    /\ cursor = 0
    /\ slot = [t \in Token |-> NoRow]

(* A committed mutation: whatever it writes carries a new revision.        *)
Mutate ==
    /\ rev' \in Nat /\ rev' > rev
    /\ rec' \in [Token -> Row]
    /\ \A t \in Token : rec'[t] = rec[t] \/ (/\ rec'[t].life # "none"
                                             /\ rec'[t].revision > rev
                                             /\ rec'[t].revision <= rev')
    /\ UNCHANGED <<up, cursor, slot>>

(* Bootstrap from a RuntimeSnapshot: the live rows, with a revision that   *)
(* is not above the counter.                                               *)
Snapshot ==
    /\ ~up
    /\ up' = TRUE
    /\ slot' = [t \in Token |-> IF rec[t].life = "live" THEN rec[t] ELSE NoRow]
    /\ cursor' \in 0..rev
    /\ UNCHANGED <<rev, rec>>

(* A slot after the changes of a group: markDeleted for tokens the table   *)
(* knows, UpdateSlot or AppendSlot for the others.                         *)
Applied(t) == IF rec[t].life = "deleted" /\ slot[t].life = "none"
              THEN NoRow ELSE rec[t]

(* ScanChanges and ApplyChanges of the complete group g.  No row lies      *)
(* between the cursor and the group.                                       *)
Advance(g) ==
    /\ up
    /\ g \in cursor..rev
    /\ \A t \in Token : ~(cursor < rec[t].revision /\ rec[t].revision < g)
    /\ slot' = [t \in Token |-> IF rec[t].revision = g THEN Applied(t) ELSE slot[t]]
    /\ cursor' = g
    /\ UNCHANGED <<rev, rec, up>>

(* The process restarts: the table is lost, the rows are not.              *)
Restart ==
    /\ up' = FALSE
    /\ cursor' = 0
    /\ slot' = [t \in Token |-> NoRow]
    /\ UNCHANGED <<rev, rec>>

Next == Mutate \/ Snapshot \/ Restart \/ \E g \in 0..rev : Advance(g)

Spec == Init /\ [][Next]_vars

-----------------------------------------------------------------------------
TypeOK ==
    /\ rev \in Nat
    /\ rec \in [Token -> Row]
    /\ up \in BOOLEAN
    /\ cursor \in Nat
    /\ slot \in [Token -> Row]
    /\ cursor <= rev
    /\ \A t \in Token : rec[t].revision <= rev

(* The slot of t shows what the row of t says: a live row is there as it   *)
(* was written, a deleted or missing one cannot be selected.               *)
Reflects(t) ==
    IF rec[t].life = "live" THEN slot[t] = rec[t] ELSE slot[t].life # "live"

(* Nothing behind the cursor is missing from the table: a row whose        *)
(* revision the sync has passed is reflected.  A row that violates it      *)
(* stays stale until someone writes it again.                              *)
SyncComplete ==
    up => \A t \in Token : rec[t].revision <= cursor => Reflects(t)
=============================================================================
