------------------------ MODULE SqlAccountSyncProofs ------------------------
(***************************************************************************)
(* The SQL repositories with the sync goroutine implement ChangeFeed, for  *)
(* any set of tokens and pools and any number of mutations.  The proof     *)
(* needs one strengthening, GroupIsNext: what a scan found out in its      *)
(* second statement still holds at its third, because every mutation that  *)
(* commits in between stamps its rows above the counter.                   *)
(***************************************************************************)
EXTENDS SqlAccountSync, TLAPS

(* The counter bounds the cursor and every revision in every step.         *)
LEMMA FeedTypeStep == Feed!TypeOK /\ [Feed!Next]_(Feed!vars) => Feed!TypeOK'
<1> SUFFICES ASSUME Feed!TypeOK, [Feed!Next]_(Feed!vars) PROVE Feed!TypeOK'
  OBVIOUS
<1> USE DEF Feed!TypeOK
<1>n. Feed!NoRow \in Feed!Row
  BY DEF Feed!NoRow, Feed!Row
<1>1. CASE Feed!Mutate
  <2>1. \A t \in Token : rec[t].revision \in Nat /\ rec[t].revision <= rev
    BY DEF Feed!Row
  <2>2. rev' \in Nat /\ rev < rev'
    BY <1>1 DEF Feed!Mutate
  <2>3. \A t \in Token : rec'[t].revision <= rev'
    BY <1>1, <2>1, <2>2 DEF Feed!Mutate
  <2>4. rec' \in [Token -> Feed!Row] /\ UNCHANGED <<up, cursor, slot>>
    BY <1>1 DEF Feed!Mutate
  <2> QED
    BY <2>2, <2>3, <2>4
<1>2. CASE Feed!Snapshot
  BY <1>2, <1>n DEF Feed!Snapshot
<1>3. CASE Feed!Restart
  <2>1. up' \in BOOLEAN
    BY <1>3 DEF Feed!Restart
  <2>2. slot' \in [Token -> Feed!Row]
    BY <1>3, <1>n DEF Feed!Restart
  <2>3. cursor' = 0 /\ rev' = rev /\ rec' = rec
    BY <1>3 DEF Feed!Restart
  <2> QED
    BY <2>1, <2>2, <2>3
<1>4. ASSUME NEW g \in 0..rev, Feed!Advance(g) PROVE Feed!TypeOK'
  BY <1>4, <1>n DEF Feed!Advance, Feed!Applied
<1>5. CASE UNCHANGED Feed!vars
  BY <1>5 DEF Feed!vars
<1> QED
  BY <1>1, <1>2, <1>3, <1>4, <1>5 DEF Feed!Next

(* Mutations stay ahead of the cursor and an advance reflects its group,   *)
(* so what is behind the cursor stays reflected.                           *)
LEMMA FeedCompleteStep == Feed!TypeOK /\ Feed!SyncComplete /\ [Feed!Next]_(Feed!vars) => Feed!SyncComplete'
<1> SUFFICES ASSUME Feed!TypeOK, Feed!SyncComplete, [Feed!Next]_(Feed!vars) PROVE Feed!SyncComplete'
  OBVIOUS
<1>1. CASE Feed!Mutate
  BY <1>1 DEF Feed!Mutate, Feed!TypeOK, Feed!SyncComplete, Feed!Reflects, Feed!Row
<1>2. CASE Feed!Snapshot
  BY <1>2 DEF Feed!Snapshot, Feed!TypeOK, Feed!SyncComplete, Feed!Reflects, Feed!NoRow
<1>3. CASE Feed!Restart
  BY <1>3 DEF Feed!Restart, Feed!SyncComplete
<1>4. ASSUME NEW g \in 0..rev, Feed!Advance(g) PROVE Feed!SyncComplete'
  <2> SUFFICES ASSUME NEW t \in Token, rec[t].revision <= g
               PROVE  Feed!Reflects(t)'
    BY <1>4 DEF Feed!Advance, Feed!SyncComplete
  <2>1. rec[t].revision \in Nat /\ cursor \in Nat /\ g \in Nat
    BY DEF Feed!TypeOK, Feed!Row
  <2>2. CASE rec[t].revision = g
    BY <1>4, <2>2 DEF Feed!Advance, Feed!Applied, Feed!TypeOK, Feed!Reflects, Feed!NoRow
  <2>3. CASE rec[t].revision # g
    <3>1. rec[t].revision <= cursor
      BY <1>4, <2>1, <2>3 DEF Feed!Advance
    <3>2. Feed!Reflects(t)
      BY <1>4, <3>1 DEF Feed!Advance, Feed!SyncComplete
    <3> QED
      BY <1>4, <2>3, <3>2 DEF Feed!Advance, Feed!TypeOK, Feed!Reflects
  <2> QED
    BY <2>2, <2>3
<1>5. CASE UNCHANGED Feed!vars
  BY <1>5 DEF Feed!vars, Feed!SyncComplete, Feed!Reflects
<1> QED
  BY <1>1, <1>2, <1>3, <1>4, <1>5 DEF Feed!Next

(* A repository that keeps its promise leaves no stale row behind the      *)
(* cursor of the directory.                                                *)
THEOREM FeedComplete == Feed!Spec => []Feed!SyncComplete
<1>1. Feed!Init => Feed!TypeOK
  <2>1. Feed!NoRow \in Feed!Row /\ Feed!NoRow.revision = 0
    BY DEF Feed!NoRow, Feed!Row
  <2> SUFFICES ASSUME Feed!Init PROVE Feed!TypeOK
    OBVIOUS
  <2>2. up \in BOOLEAN
    BY DEF Feed!Init
  <2>3. rec \in [Token -> Feed!Row] /\ slot \in [Token -> Feed!Row]
    BY <2>1 DEF Feed!Init
  <2>4. rev = 0 /\ cursor = 0 /\ \A t \in Token : rec[t].revision = 0
    BY <2>1 DEF Feed!Init
  <2> QED
    BY <2>2, <2>3, <2>4 DEF Feed!TypeOK
<1>2. Feed!Init => Feed!SyncComplete
  BY DEF Feed!Init, Feed!SyncComplete
<1> QED
  BY <1>1, <1>2, FeedTypeStep, FeedCompleteStep, PTL DEF Feed!Spec

-----------------------------------------------------------------------------
(* The rows a mutation writes.                                             *)
LEMMA RowType ==
    ASSUME NEW life \in {"none", "live", "deleted"}, NEW p \in Pool \cup {NoPool},
           NEW r \in Nat
    PROVE  /\ Row(life, p, r) \in Feed!Row
           /\ Row(life, p, r).life = life
           /\ Row(life, p, r).revision = r
  BY DEF Row, Feed!Row

LEMMA RecFields ==
    ASSUME TypeOK, NEW t \in Token
    PROVE  /\ rec[t] \in Feed!Row
           /\ rec[t].life \in {"none", "live", "deleted"}
           /\ rec[t].pool \in Pool \cup {NoPool}
           /\ rec[t].revision \in Nat /\ rec[t].revision <= rev
<1>1. rec[t] \in Feed!Row /\ rec[t].revision <= rev
  BY DEF TypeOK, Feed!TypeOK
<1> QED
  BY <1>1 DEF Feed!Row

LEMMA BatchType ==
    ASSUME NEW items \in Batches \cup {<<>>}, NEW t \in DOMAIN items
    PROVE  items[t] \in Pool
<1>1. CASE items \in Batches
  BY <1>1 DEF Batches
<1>2. CASE items = <<>>
  BY <1>2
<1> QED
  BY <1>1, <1>2

(* Every mutation is a mutation of the feed and leaves the rest alone.     *)
LEMMA MutationMaps ==
    ASSUME TypeOK, Mutation
    PROVE  Feed!Mutate /\ UNCHANGED scanner
<1>r. rev \in Nat
  BY DEF TypeOK, Feed!TypeOK
<1> DEFINE Goal == Feed!Mutate /\ UNCHANGED scanner
           Stamped(n) == /\ rec' \in [Token -> Feed!Row]
                         /\ \A t \in Token :
                              \/ rec'[t] = rec[t]
                              \/ /\ rec'[t].life # "none"
                                 /\ rec'[t].revision > rev
                                 /\ rec'[t].revision <= n
<1>0. ASSUME NEW n \in Nat, n > rev, rev' = n, Stamped(n), UNCHANGED <<replica, scanner>>
      PROVE  Goal
  <2>1. UNCHANGED <<up, cursor, slot>> /\ UNCHANGED scanner
    BY <1>0 DEF replica
  <2> QED
    BY <1>0, <2>1 DEF Feed!Mutate
<1>1. ASSUME NEW items \in Batches, UpsertAccounts(items) PROVE Goal
  <2>1. \A t \in DOMAIN items : items[t] \in Pool
    BY BatchType
  <2>2. rec' = [t \in Token |-> IF t \in DOMAIN items
                                THEN Row("live", items[t], rev + 1) ELSE rec[t]]
    BY <1>1 DEF UpsertAccounts
  <2>3. ASSUME NEW t \in Token
        PROVE  /\ rec'[t] \in Feed!Row
               /\ \/ rec'[t] = rec[t]
                  \/ /\ rec'[t].life # "none"
                     /\ rec'[t].revision > rev
                     /\ rec'[t].revision <= rev + 1
    <3>1. CASE t \in DOMAIN items
      <4>1. rec'[t] = Row("live", items[t], rev + 1)
        BY <2>2, <3>1
      <4> QED BY <4>1, <3>1, <2>1, <1>r, RowType
    <3>2. CASE t \notin DOMAIN items
      BY <2>2, <3>2, RecFields
    <3> QED BY <3>1, <3>2
  <2>4. Stamped(rev + 1)
    BY <2>2, <2>3
  <2> QED BY <1>0, <1>1, <1>r, <2>4 DEF UpsertAccounts
<1>2. ASSUME NEW items \in Batches, PatchAccounts(items) PROVE Goal
  <2>1. \A t \in DOMAIN items : items[t] \in Pool
    BY BatchType
  <2>2. rec' = [t \in Token |-> IF t \in DOMAIN items /\ rec[t].life # "none"
                                THEN Row(rec[t].life, items[t], rev + 1) ELSE rec[t]]
    BY <1>2 DEF PatchAccounts
  <2>3. ASSUME NEW t \in Token
        PROVE  /\ rec'[t] \in Feed!Row
               /\ \/ rec'[t] = rec[t]
                  \/ /\ rec'[t].life # "none"
                     /\ rec'[t].revision > rev
                     /\ rec'[t].revision <= rev + 1
    <3>1. CASE t \in DOMAIN items /\ rec[t].life # "none"
      <4>1. rec'[t] = Row(rec[t].life, items[t], rev + 1)
        BY <2>2, <3>1
      <4> QED BY <4>1, <3>1, <2>1, <1>r, RowType, RecFields
    <3>2. CASE ~(t \in DOMAIN items /\ rec[t].life # "none")
      BY <2>2, <3>2, RecFields
    <3> QED BY <3>1, <3>2
  <2>4. Stamped(rev + 1)
    BY <2>2, <2>3
  <2> QED BY <1>0, <1>2, <1>r, <2>4 DEF PatchAccounts
<1>3. ASSUME NEW tokens \in SUBSET Token, DeleteAccounts(tokens) PROVE Goal
  <2>2. rec' = [t \in Token |-> IF t \in tokens /\ rec[t].life = "live"
                                THEN Row("deleted", rec[t].pool, rev + 1) ELSE rec[t]]
    BY <1>3 DEF DeleteAccounts
  <2>3. ASSUME NEW t \in Token
        PROVE  /\ rec'[t] \in Feed!Row
               /\ \/ rec'[t] = rec[t]
                  \/ /\ rec'[t].life # "none"
                     /\ rec'[t].revision > rev
                     /\ rec'[t].revision <= rev + 1
    <3>1. CASE t \in tokens /\ rec[t].life = "live"
      <4>1. rec'[t] = Row("deleted", rec[t].pool, rev + 1)
        BY <2>2, <3>1
      <4> QED BY <4>1, <1>r, RowType, RecFields
    <3>2. CASE ~(t \in tokens /\ rec[t].life = "live")
      BY <2>2, <3>2, RecFields
    <3> QED BY <3>1, <3>2
  <2>4. Stamped(rev + 1)
    BY <2>2, <2>3
  <2> QED BY <1>0, <1>3, <1>r, <2>4 DEF DeleteAccounts
<1>4. ASSUME NEW p \in Pool, NEW items \in Batches \cup {<<>>}, ReplacePool(p, items)
      PROVE  Goal
  <2>1. \A t \in DOMAIN items : items[t] \in Pool
    BY BatchType
  <2>2. rec' = [t \in Token |->
                  CASE t \in DOMAIN items -> Row("live", items[t], rev + 2)
                    [] t \in Live(p) \ DOMAIN items -> Row("deleted", p, rev + 1)
                    [] OTHER -> rec[t]]
    BY <1>4 DEF ReplacePool
  <2>3. ASSUME NEW t \in Token
        PROVE  /\ rec'[t] \in Feed!Row
               /\ \/ rec'[t] = rec[t]
                  \/ /\ rec'[t].life # "none"
                     /\ rec'[t].revision > rev
                     /\ rec'[t].revision <= rev + 2
    <3>1. CASE t \in DOMAIN items
      <4>1. rec'[t] = Row("live", items[t], rev + 2)
        BY <2>2, <3>1
      <4> QED BY <4>1, <3>1, <2>1, <1>r, RowType
    <3>2. CASE t \in Live(p) \ DOMAIN items
      <4>1. rec'[t] = Row("deleted", p, rev + 1)
        BY <2>2, <3>2
      <4> QED BY <4>1, <1>r, RowType
    <3>3. CASE t \notin Live(p) /\ t \notin DOMAIN items
      <4>1. rec'[t] = rec[t]
        BY <2>2, <3>3
      <4> QED BY <4>1, RecFields
    <3> QED BY <3>1, <3>2, <3>3
  <2>4. Stamped(rev + 2)
    BY <2>2, <2>3
  <2> QED BY <1>0, <1>4, <1>r, <2>4 DEF ReplacePool
<1> QED
  BY <1>1, <1>2, <1>3, <1>4 DEF Mutation

-----------------------------------------------------------------------------
(* A step of the sync goroutine that reads or writes no more than its own  *)
(* registers leaves the feed as it is.                                     *)
Quiet == SnapshotRevision \/ BootstrapFails \/ ScanRevision \/ ScanFails

LEMMA QuietMaps == Quiet => UNCHANGED <<rev, rec, up, cursor, slot>>
  BY DEF Quiet, SnapshotRevision, BootstrapFails, ScanRevision, ScanFails, store, replica

(* The first outcome of ScanNext: nothing is ahead of the cursor, and the  *)
(* jump to the revision read before passes over no row.                    *)
LEMMA EmptyScanMaps ==
    ASSUME TypeOK, ScanNext, Ahead = {}
    PROVE  Feed!Advance(top) \/ UNCHANGED <<rev, rec, up, cursor, slot>>
<1>1. /\ phase = "scan" /\ cursor' = Later(cursor, top)
      /\ UNCHANGED <<rev, rec, up, slot>>
  BY DEF ScanNext, store
<1>2. up /\ top \in 0..rev /\ cursor \in Nat /\ rev \in Nat
  BY <1>1 DEF TypeOK, Feed!TypeOK
<1>3. \A t \in Token : rec[t].revision <= cursor
  <2> SUFFICES ASSUME NEW t \in Token PROVE rec[t].revision <= cursor
    OBVIOUS
  <2>1. ~(rec[t].revision > cursor)
    BY DEF Ahead
  <2> QED BY <2>1, <1>2, RecFields
<1>4. CASE top <= cursor
  <2>1. cursor' = cursor
    BY <1>1, <1>2, <1>4 DEF Later
  <2> QED BY <1>1, <2>1
<1>5. CASE ~(top <= cursor)
  <2>1. cursor' = top /\ top \in cursor..rev
    BY <1>1, <1>2, <1>5 DEF Later
  <2>2. \A t \in Token : rec[t].revision \in Nat /\ rec[t].revision # top
    BY <1>2, <1>3, <1>5, RecFields
  <2>3. slot = [t \in Token |-> IF rec[t].revision = top THEN Feed!Applied(t) ELSE slot[t]]
    BY <2>2 DEF TypeOK, Feed!TypeOK
  <2>4. \A t \in Token : ~(cursor < rec[t].revision /\ rec[t].revision < top)
    BY <1>2, <1>3, <2>2
  <2> QED BY <1>1, <1>2, <2>1, <2>3, <2>4 DEF Feed!Advance
<1> QED BY <1>4, <1>5

(* ScanRows advances the feed to the group.                                *)
LEMMA RowsMaps ==
    ASSUME TypeOK, GroupIsNext, ScanRows
    PROVE  Feed!Advance(group)
<1>1. /\ phase = "rows"
      /\ slot' = [t \in Token |-> IF rec[t].revision = group THEN Feed!Applied(t) ELSE slot[t]]
      /\ cursor' = Later(cursor, group)
      /\ UNCHANGED <<rev, rec, up>>
  BY DEF ScanRows, store
<1>2. up /\ group \in 0..rev /\ cursor \in Nat /\ rev \in Nat
  BY <1>1 DEF TypeOK, Feed!TypeOK
<1>3. /\ cursor < group
      /\ \A t \in Token : ~(cursor < rec[t].revision /\ rec[t].revision < group)
  BY <1>1 DEF GroupIsNext
<1>4. cursor' = group /\ group \in cursor..rev
  BY <1>1, <1>2, <1>3 DEF Later
<1> QED BY <1>1, <1>2, <1>3, <1>4 DEF Feed!Advance

LEMMA SnapshotMaps ==
    ASSUME TypeOK, SnapshotRows
    PROVE  Feed!Snapshot
<1>1. /\ phase = "snapshot" /\ up' = TRUE /\ cursor' = top
      /\ slot' = [t \in Token |-> IF rec[t].life = "live" THEN rec[t] ELSE Feed!NoRow]
      /\ UNCHANGED <<rev, rec>>
  BY DEF SnapshotRows, store
<1>2. ~up /\ top \in 0..rev
  BY <1>1 DEF TypeOK
<1> QED BY <1>1, <1>2 DEF Feed!Snapshot

(* Every step maps to a step of the feed or to a stutter.                  *)
LEMMA StepMaps ==
    ASSUME TypeOK, GroupIsNext, [Next]_vars
    PROVE  [Feed!Next]_(Feed!vars)
<1> DEFINE Goal == [Feed!Next]_(Feed!vars)
<1>s. ASSUME UNCHANGED <<rev, rec, up, cursor, slot>> PROVE Goal
  BY <1>s DEF Feed!vars
<1>a. ASSUME NEW g \in 0..rev, Feed!Advance(g) PROVE Goal
  BY <1>a DEF Feed!Next
<1>1. CASE Mutation
  BY <1>1, MutationMaps DEF Feed!Next
<1>2. CASE Quiet
  BY <1>2, <1>s, QuietMaps
<1>3. CASE SnapshotRows
  BY <1>3, SnapshotMaps DEF Feed!Next
<1>4. CASE ScanNext
  <2>1. CASE Ahead = {}
    <3>1. top \in 0..rev
      BY DEF TypeOK
    <3> QED BY <1>4, <2>1, <3>1, <1>a, <1>s, EmptyScanMaps
  <2>2. CASE Ahead # {}
    <3>1. UNCHANGED <<rev, rec, up, cursor, slot>>
      BY <1>4, <2>2 DEF ScanNext, store
    <3> QED BY <1>s, <3>1
  <2> QED BY <2>1, <2>2
<1>5. CASE ScanRows
  <2>1. group \in 0..rev
    BY DEF TypeOK
  <2> QED BY <1>5, <2>1, <1>a, RowsMaps
<1>6. CASE Restart
  BY <1>6 DEF Restart, Feed!Next
<1>7. CASE UNCHANGED vars
  BY <1>7, <1>s DEF vars
<1> QED
  BY <1>1, <1>2, <1>3, <1>4, <1>5, <1>6, <1>7 DEF Next, Step, Quiet

-----------------------------------------------------------------------------
(* Type correctness: the registers of the scanner stay below the counter.  *)
LEMMA CounterGrows == ASSUME TypeOK, GroupIsNext, [Next]_vars PROVE rev' \in Nat /\ rev <= rev'
<1>1. [Feed!Next]_(Feed!vars)
  BY StepMaps
<1>2. rev \in Nat
  BY DEF TypeOK, Feed!TypeOK
<1>3. rev' = rev \/ (rev' \in Nat /\ rev' > rev)
  BY <1>1 DEF Feed!Next, Feed!vars, Feed!Mutate, Feed!Snapshot, Feed!Restart, Feed!Advance
<1> QED BY <1>2, <1>3

(* The registers are read from the counter or from rows that exist.        *)
LEMMA RegistersStep ==
    ASSUME TypeOK, GroupIsNext, [Next]_vars
    PROVE  top' \in 0..rev' /\ group' \in 0..rev' /\ begun' \in 0..rev'
<1>1. rev \in Nat /\ rev' \in Nat /\ rev <= rev'
  BY CounterGrows DEF TypeOK, Feed!TypeOK
<1>2. top \in 0..rev /\ group \in 0..rev /\ begun \in 0..rev
  BY DEF TypeOK
<1>3. (top' = top \/ top' = rev) /\ (begun' = begun \/ begun' = rev)
  <2>1. CASE Mutation
    BY <2>1, MutationMaps DEF scanner
  <2>2. CASE ~Mutation
    BY <2>2 DEF Next, Step, SnapshotRevision, SnapshotRows, BootstrapFails, ScanRevision,
                ScanNext, ScanRows, ScanFails, Restart, vars
  <2> QED BY <2>1, <2>2
<1>4. group' = group \/ group' \in Ahead
  <2>1. CASE Mutation
    BY <2>1, MutationMaps DEF scanner
  <2>2. CASE ~Mutation
    BY <2>2 DEF Next, Step, SnapshotRevision, SnapshotRows, BootstrapFails, ScanRevision,
                ScanNext, ScanRows, ScanFails, Restart, vars
  <2> QED BY <2>1, <2>2
<1>5. \A r \in Ahead : r \in 0..rev
  BY <1>1, RecFields DEF Ahead
<1> QED BY <1>1, <1>2, <1>3, <1>4, <1>5

LEMMA PhaseStep ==
    ASSUME TypeOK, [Next]_vars
    PROVE  phase' \in Phases /\ (up' <=> phase' \notin {"boot", "snapshot", "down"})
<1> USE DEF Phases
<1>1. phase \in Phases /\ (up <=> phase \notin {"boot", "snapshot", "down"})
  BY DEF TypeOK
<1>2. CASE Mutation
  <2>1. phase' = phase /\ up' = up
    BY <1>2, MutationMaps DEF scanner, Feed!Mutate
  <2> QED BY <1>1, <2>1
<1>3. CASE Quiet \/ UNCHANGED vars
  <2>1. up' = up
    BY <1>3, QuietMaps DEF vars
  <2> QED
    BY <1>1, <1>3, <2>1
       DEF Quiet, SnapshotRevision, BootstrapFails, ScanRevision, ScanFails, vars
<1>4. CASE SnapshotRows
  BY <1>4 DEF SnapshotRows
<1>5. CASE ScanNext
  <2>1. up' = up /\ phase = "scan" /\ phase' \in {"idle", "rows"}
    BY <1>5 DEF ScanNext
  <2> QED BY <1>1, <2>1
<1>6. CASE ScanRows
  <2>1. up' = up /\ phase = "rows" /\ phase' \in {"idle", "more"}
    BY <1>6 DEF ScanRows
  <2> QED BY <1>1, <2>1
<1>7. CASE Restart
  BY <1>7 DEF Restart, Feed!Restart
<1> QED
  BY <1>2, <1>3, <1>4, <1>5, <1>6, <1>7 DEF Next, Step, Quiet

LEMMA TypePreserved == ASSUME TypeOK, GroupIsNext, [Next]_vars PROVE TypeOK'
<1>1. Feed!TypeOK'
  BY StepMaps, FeedTypeStep DEF TypeOK
<1> QED
  BY <1>1, RegistersStep, PhaseStep DEF TypeOK

(* The chosen group stays the next one until its rows are read.            *)
LEMMA GroupStep == ASSUME TypeOK, GroupIsNext, [Next]_vars PROVE GroupIsNext'
<1>1. CASE Mutation
  <2>1. Feed!Mutate /\ phase' = phase /\ group' = group
    BY <1>1, MutationMaps DEF scanner
  <2> SUFFICES ASSUME phase = "rows" PROVE GroupIsNext'
    BY <2>1 DEF GroupIsNext
  <2>2. /\ cursor < group
        /\ \A t \in Token : ~(cursor < rec[t].revision /\ rec[t].revision < group)
    BY DEF GroupIsNext
  <2>3. group \in 0..rev /\ rev \in Nat /\ cursor \in Nat
    BY DEF TypeOK, Feed!TypeOK
  <2>4. cursor' = cursor
    BY <2>1 DEF Feed!Mutate
  <2>5. \A t \in Token : \/ rec'[t] = rec[t]
                         \/ rec'[t].revision > rev /\ rec'[t].revision \in Nat
    BY <2>1 DEF Feed!Mutate, Feed!Row
  <2>6. \A t \in Token : ~(cursor < rec'[t].revision /\ rec'[t].revision < group)
    BY <2>2, <2>3, <2>5
  <2> QED BY <2>1, <2>2, <2>4, <2>6 DEF GroupIsNext
<1>2. CASE ScanNext
  <2>1. CASE phase' = "rows"
    <3>1. /\ group' \in Ahead /\ \A r \in Ahead : group' <= r
          /\ UNCHANGED <<rec, cursor>>
      BY <1>2, <2>1 DEF ScanNext, store
    <3>2. \A t \in Token : rec[t].revision \in Nat
      BY RecFields
    <3>3. cursor \in Nat /\ group' \in Nat /\ cursor < group'
      BY <3>1, <3>2 DEF Ahead, TypeOK, Feed!TypeOK
    <3>4. ASSUME NEW t \in Token, cursor < rec[t].revision, rec[t].revision < group'
          PROVE  FALSE
      <4>1. rec[t].revision \in Ahead
        BY <3>4, <3>2, <3>3 DEF Ahead
      <4> QED BY <4>1, <3>1, <3>2, <3>3, <3>4
    <3> QED BY <3>1, <3>3, <3>4 DEF GroupIsNext
  <2>2. CASE phase' # "rows"
    BY <2>2 DEF GroupIsNext
  <2> QED BY <2>1, <2>2
<1>3. CASE phase' # "rows"
  BY <1>3 DEF GroupIsNext
<1>4. CASE UNCHANGED vars
  BY <1>4 DEF vars, GroupIsNext
<1>5. ASSUME ~Mutation, ~ScanNext, ~UNCHANGED vars PROVE phase' # "rows"
  BY <1>5 DEF Next, Step, SnapshotRevision, SnapshotRows, BootstrapFails, ScanRevision,
              ScanRows, ScanFails, Restart
<1> QED BY <1>1, <1>2, <1>3, <1>4, <1>5

-----------------------------------------------------------------------------
LEMMA InitType == Init => TypeOK /\ GroupIsNext
<1> SUFFICES ASSUME Init PROVE TypeOK /\ GroupIsNext
  OBVIOUS
<1>1. rev = 0 /\ cursor = 0 /\ up = FALSE /\ phase = "boot" /\ top = 0 /\ group = 0 /\ begun = 0
  BY DEF Init, Feed!Init
<1>2. Feed!NoRow \in Feed!Row /\ Feed!NoRow.revision = 0
  BY DEF Feed!NoRow, Feed!Row
<1>3. /\ rec \in [Token -> Feed!Row] /\ slot \in [Token -> Feed!Row]
      /\ \A t \in Token : rec[t].revision = 0
  BY <1>2 DEF Init, Feed!Init
<1>4. up \in BOOLEAN
  BY <1>1
<1>5. Feed!TypeOK
  <2>1. rev \in Nat /\ cursor \in Nat /\ cursor <= rev
    BY <1>1
  <2>2. \A t \in Token : rec[t].revision <= rev
    BY <1>1, <1>3
  <2> QED BY <1>3, <1>4, <2>1, <2>2 DEF Feed!TypeOK
<1>6. top \in 0..rev /\ group \in 0..rev /\ begun \in 0..rev
  BY <1>1
<1>7. up <=> phase \notin {"boot", "snapshot", "down"}
  BY <1>1
<1>8. phase \in Phases /\ phase # "rows"
  BY <1>1 DEF Phases
<1> QED BY <1>5, <1>6, <1>7, <1>8 DEF TypeOK, GroupIsNext

(* The types, and the group of a scan in progress, in every state.         *)
THEOREM GroupCorrect == Spec => [](TypeOK /\ GroupIsNext)
  BY InitType, TypePreserved, GroupStep, PTL DEF Spec

(* The types of the cursor, the group and the rows, whatever statement fails *)
(* (sql_mutations.go, sql_queries.go, the loop of sync.go).                  *)
THEOREM TypeCorrect == Spec => []TypeOK
  BY GroupCorrect, PTL

(* The SQL backends keep the repository's promise: every behaviour of      *)
(* statements and commits is a behaviour of the change feed.               *)
THEOREM SqlImplementsFeed == Spec => ImplementsFeed
<1>1. Init => Feed!Init
  BY DEF Init
<1> QED
  BY <1>1, StepMaps, GroupCorrect, PTL DEF Spec, ImplementsFeed, Feed!Spec

(* No row that the sync has passed is missing from the table.              *)
THEOREM SqlSyncComplete == Spec => []SyncComplete
  BY SqlImplementsFeed, FeedComplete, PTL DEF ImplementsFeed, SyncComplete

-----------------------------------------------------------------------------
(* While a scan runs, the revision it read first is not older than the     *)
(* start of the pass.                                                      *)
PassBase == phase \in {"scan", "rows"} => begun <= top

LEMMA PassBaseStep == ASSUME TypeOK, PassBase, [Next]_vars PROVE PassBase'
<1>1. rev \in Nat /\ top \in 0..rev /\ begun \in 0..rev
  BY DEF TypeOK, Feed!TypeOK
<1>2. CASE Mutation
  BY <1>2, MutationMaps DEF scanner, PassBase
<1>3. CASE ScanRevision
  <2>1. top' = rev /\ begun' \in 0..rev
    BY <1>1, <1>3 DEF ScanRevision
  <2> QED BY <1>1, <2>1 DEF PassBase
<1>4. CASE ScanNext
  BY <1>4 DEF ScanNext, PassBase
<1>5. CASE UNCHANGED vars
  BY <1>5 DEF vars, PassBase
<1>6. ASSUME ~Mutation, ~ScanRevision, ~ScanNext, ~UNCHANGED vars
      PROVE  phase' \notin {"scan", "rows"}
  BY <1>6 DEF Next, Step, SnapshotRevision, SnapshotRows, BootstrapFails, ScanRows,
              ScanFails, Restart
<1> QED BY <1>2, <1>3, <1>4, <1>5, <1>6 DEF PassBase

LEMMA PassEnds ==
    ASSUME TypeOK, PassBase, [Next]_vars
    PROVE  (phase \in {"scan", "rows"} /\ phase' = "idle") => cursor' >= begun
<1> SUFFICES ASSUME phase \in {"scan", "rows"}, phase' = "idle" PROVE cursor' >= begun
  OBVIOUS
<1>1. /\ rev \in Nat /\ cursor \in Nat
      /\ top \in 0..rev /\ group \in 0..rev /\ begun \in 0..rev /\ begun <= top
  BY DEF TypeOK, Feed!TypeOK, PassBase
<1>2. CASE ScanNext
  <2>1. cursor' = Later(cursor, top)
    BY <1>2 DEF ScanNext
  <2> QED BY <1>1, <2>1 DEF Later
<1>3. CASE ScanRows
  <2>1. cursor' = Later(cursor, group) /\ ~(group < top)
    BY <1>3 DEF ScanRows
  <2> QED BY <1>1, <2>1 DEF Later
<1>4. phase' # phase
  OBVIOUS
<1>5. ~Mutation
  BY <1>4, MutationMaps DEF scanner
<1>6. ScanNext \/ ScanRows
  BY <1>4, <1>5 DEF Next, Step, SnapshotRevision, SnapshotRows, BootstrapFails,
                    ScanRevision, ScanFails, Restart, vars
<1> QED BY <1>2, <1>3, <1>6

(* A pass of the sync loop that ends without an error has taken over       *)
(* everything that was committed when it began.                            *)
THEOREM PassesCatchUp == Spec => PassCatchesUp
<1>1. Init => PassBase
  BY DEF Init, PassBase
<1> QED
  BY <1>1, PassBaseStep, PassEnds, GroupCorrect, PTL DEF Spec, PassCatchesUp
=============================================================================
