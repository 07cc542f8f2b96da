----------------------- MODULE RedisAccountSyncProofs -----------------------
(***************************************************************************)
(* Proofs about RedisAccountSync while mutations and the sync goroutine    *)
(* take turns: what the undo of a failed mutation restores, and what the   *)
(* directory may rely on when no command fails.                            *)
(***************************************************************************)
EXTENDS RedisAccountSync, TLAPS

(* Functions on some members of S, and the values job[w] takes.              *)
Part(S, T) == UNION {[D -> T] : D \in SUBSET S}
Without(f, x) == [y \in DOMAIN f \ {x} |-> f[y]]
Put(f, x, y) == [z \in DOMAIN f \cup {x} |-> IF z = x THEN y ELSE f[z]]

RowSet == [life : {"none", "live", "deleted"}, pool : Pool \cup {NoPool}, revision : Nat]

JobSet ==
    [op : {"none", "upsert", "patch", "delete", "replace", "replaced"},
     stage : {"idle", "incr", "look", "write", "index", "log", "restore"},
     pool : Pool \cup {NoPool}, revision : Nat,
     todo : Part(Token, Pool \cup {NoPool}), after : Part(Token, Pool),
     at : SUBSET Token, saved : Part(Token, RowSet), from : Part(Token, RowSet)]

(* A token is worked on while it is on the list, one at a time, and no       *)
(* revision is ahead of the counter.                                         *)
JobIsSane(j) ==
    /\ j.revision <= rev /\ \A t \in DOMAIN j.saved : j.saved[t].revision <= rev
    /\ j.at \subseteq DOMAIN j.todo
    /\ j.stage \in {"incr", "look"} => j.at = {}
    /\ \A t, u \in j.at : t = u

KeysType ==
    /\ rev \in Nat /\ rec \in [Token -> RowSet] /\ \A t \in Token : rec[t].revision <= rev
    /\ log \in [Token -> 0 .. rev] /\ pools \in [Pool -> SUBSET Token]

JobsType == job \in [Writer -> JobSet] /\ \A w \in Writer : JobIsSane(job[w])

SyncType ==
    /\ up \in BOOLEAN /\ cursor \in 0 .. rev /\ slot \in [Token -> RowSet]
    /\ phase \in {"boot", "snapshot", "idle", "scan", "read"} /\ top \in 0 .. rev
    /\ pending \subseteq Token /\ seen \in Part(Token, RowSet)
    /\ \A t \in DOMAIN seen : seen[t].revision <= rev

RedisTypeOK == KeysType /\ JobsType /\ SyncType

(* Without overlap, what runs is one mutation or the sync goroutine.         *)
OneAtATime ==
    \A w \in Writer : job[w].stage # "idle" =>
        /\ phase \in {"boot", "idle"}
        /\ \A v \in Writer : job[v].stage # "idle" => v = w

(* What a mutation has not backed up it has not written.                     *)
BackupsCover(j) ==
    /\ j.stage # "idle" => j.op # "none" /\ j.from \in [Token -> RowSet]
    /\ \A t \in DOMAIN j.saved : j.saved[t] = j.from[t]
    /\ j.op \in {"none", "patch", "delete"} => j.saved = <<>>
    /\ j.stage \notin {"idle", "restore"} =>
          /\ j.op = "replace" => DOMAIN j.todo \subseteq DOMAIN j.saved
          /\ j.op \in {"upsert", "replaced"} => j.at \subseteq DOMAIN j.saved
    /\ j.stage # "idle" /\ j.op \notin {"patch", "delete"} =>
          \A t \in Token \ DOMAIN j.saved : rec[t] = j.from[t]

UndoInv == RedisTypeOK /\ OneAtATime /\ \A w \in Writer : BackupsCover(job[w])

(* A mutation that never fails: what it has written is what it will enter    *)
(* in the log, under a revision the directory has not reached.               *)
WriterIsAhead(j) ==
    /\ j.stage # "restore" /\ (j.stage # "idle" => j.op # "none")
    /\ j.stage \in {"look", "write", "index", "log"} => cursor < j.revision
    /\ j.op \in {"upsert", "patch", "replaced"} => \A t \in DOMAIN j.todo : j.todo[t] \in Pool
    /\ j.stage \in {"index", "log"} =>
          \A t \in j.at : /\ rec[t].revision = j.revision
                          /\ j.op \in {"delete", "replace"} => rec[t].life = "deleted"
                          /\ j.op \in {"upsert", "replaced"} => rec[t].pool = j.todo[t]

RowsAreReal == \A t \in Token : /\ rec[t].life = "live" => rec[t].pool \in Pool
                                /\ rec[t].life = "none" => rec[t].revision = 0

LogFollows == \A t \in Token : \/ log[t] = rec[t].revision
                               \/ \E w \in Writer : job[w].stage \in {"index", "log"} /\ t \in job[w].at

(* What the sync goroutine has read is what is there.                        *)
ReadsAreTrue ==
    /\ phase = "boot" => ~up
    /\ phase \in {"snapshot", "read"} => \A t \in DOMAIN seen : seen[t] = rec[t]
    /\ phase \in {"boot", "idle", "scan"} => seen = <<>>
    /\ phase = "snapshot" => \A t \in Token : rec[t].life # "none" => t \in pending \cup DOMAIN seen
    /\ phase = "read" => \A t \in Token : cursor < rec[t].revision => t \in pending \cup DOMAIN seen

WritersAreAhead == \A w \in Writer : WriterIsAhead(job[w])

SerialInv ==
    /\ RedisTypeOK /\ OneAtATime /\ RowsAreReal /\ LogFollows /\ ReadsAreTrue
    /\ WritersAreAhead /\ SyncComplete /\ PoolSetCovers

(* Functions on some members of S, and one without x.                        *)
LEMMA PartEmpty == ASSUME NEW S, NEW T PROVE <<>> \in Part(S, T) /\ DOMAIN <<>> = {}
  <1>1. <<>> \in [{} -> T]
    OBVIOUS
  <1>2. DOMAIN <<>> = {}
    BY <1>1
  <1> QED
    BY <1>1, <1>2 DEF Part

LEMMA PartFacts ==
    ASSUME NEW S, NEW T, NEW f \in Part(S, T)
    PROVE  /\ DOMAIN f \subseteq S /\ f \in [DOMAIN f -> T] /\ \A x \in DOMAIN f : f[x] \in T
           /\ DOMAIN f = {} => f = <<>>
           /\ \A x : Without(f, x) \in Part(S, T)
           /\ \A x : DOMAIN Without(f, x) = DOMAIN f \ {x}
           /\ \A x : \A y \in DOMAIN f \ {x} : Without(f, x)[y] = f[y]
  <1>1. PICK D \in SUBSET S : f \in [D -> T]
    BY DEF Part
  <1>2. DOMAIN f = D
    BY <1>1
  <1>3. \A x \in DOMAIN f : f[x] \in T
    BY <1>1, <1>2
  <1>4. ASSUME DOMAIN f = {} PROVE f = <<>>
    <2>1. <<>> \in [{} -> T] /\ f \in [{} -> T]
      BY <1>1, <1>2, <1>4
    <2> QED
      BY <2>1
  <1>5. ASSUME NEW x
        PROVE  /\ Without(f, x) \in Part(S, T)
               /\ DOMAIN Without(f, x) = DOMAIN f \ {x}
               /\ \A y \in DOMAIN f \ {x} : Without(f, x)[y] = f[y]
    <2> DEFINE E == DOMAIN f \ {x}
    <2>1. Without(f, x) \in [E -> T] /\ DOMAIN Without(f, x) = E /\ \A y \in E : Without(f, x)[y] = f[y]
      BY <1>3 DEF Without
    <2>2. E \in SUBSET S
      BY <1>2
    <2> HIDE DEF E
    <2>3. Without(f, x) \in Part(S, T)
      BY <2>1, <2>2 DEF Part
    <2> QED
      BY <2>1, <2>3 DEF E
  <1> QED
    BY <1>1, <1>2, <1>3, <1>4, <1>5

LEMMA PartIntro == ASSUME NEW S, NEW T, NEW D \in SUBSET S, NEW f \in [D -> T] PROVE f \in Part(S, T)
  BY DEF Part

LEMMA PartPut ==
    ASSUME NEW S, NEW T, NEW f \in Part(S, T), NEW x \in S, NEW y \in T
    PROVE  /\ Put(f, x, y) \in Part(S, T)
           /\ DOMAIN Put(f, x, y) = DOMAIN f \cup {x}
           /\ \A z \in DOMAIN f \cup {x} : Put(f, x, y)[z] = IF z = x THEN y ELSE f[z]
  <1> DEFINE D == DOMAIN f \cup {x}
  <1>1. DOMAIN f \subseteq S /\ \A z \in DOMAIN f : f[z] \in T
    BY PartFacts
  <1>2. Put(f, x, y) \in [D -> T] /\ DOMAIN Put(f, x, y) = D
        /\ \A z \in D : Put(f, x, y)[z] = IF z = x THEN y ELSE f[z]
    BY <1>1 DEF Put
  <1>3. D \in SUBSET S
    BY <1>1
  <1> HIDE DEF D
  <1>4. Put(f, x, y) \in Part(S, T)
    BY <1>2, <1>3 DEF Part
  <1> QED
    BY <1>2, <1>4 DEF D

(* A writer goes on to another state of its mutation.                        *)
LEMMA JobMoves ==
    ASSUME job \in [Writer -> JobSet], NEW w \in Writer, NEW j \in JobSet,
           job' = [job EXCEPT ![w] = j]
    PROVE  /\ job' \in [Writer -> JobSet]
           /\ \A v \in Writer : job'[v] = IF v = w THEN j ELSE job[v]
  OBVIOUS

LEMMA IdleType ==
    /\ Idle \in JobSet
    /\ Idle.stage = "idle" /\ Idle.op = "none" /\ Idle.pool = NoPool /\ Idle.revision = 0
    /\ Idle.todo = <<>> /\ Idle.after = <<>> /\ Idle.at = {} /\ Idle.saved = <<>> /\ Idle.from = <<>>
  BY PartEmpty DEF Idle, JobSet

LEMMA JobFields ==
    ASSUME NEW j \in JobSet
    PROVE  /\ j.op \in {"none", "upsert", "patch", "delete", "replace", "replaced"}
           /\ j.stage \in {"idle", "incr", "look", "write", "index", "log", "restore"}
           /\ j.revision \in Nat /\ j.at \subseteq Token
           /\ j.todo \in Part(Token, Pool \cup {NoPool}) /\ j.after \in Part(Token, Pool)
           /\ j.saved \in Part(Token, RowSet) /\ j.from \in Part(Token, RowSet)
  BY DEF JobSet

LEMMA JobStep ==
    ASSUME RedisTypeOK, NEW w \in Writer, NEW j \in JobSet,
           job' = [job EXCEPT ![w] = j], rev' \in Nat, rev <= rev',
           j.revision <= rev', \A t \in DOMAIN j.saved : j.saved[t].revision <= rev',
           j.at \subseteq DOMAIN j.todo, j.stage \in {"incr", "look"} => j.at = {},
           \A t, u \in j.at : t = u
    PROVE  job' \in [Writer -> JobSet] /\ \A v \in Writer : JobIsSane(job[v])'
  <1>1. /\ job' \in [Writer -> JobSet]
        /\ \A v \in Writer : job'[v] = IF v = w THEN j ELSE job[v]
    BY JobMoves DEF RedisTypeOK, KeysType, JobsType, SyncType
  <1>2. ASSUME NEW v \in Writer PROVE JobIsSane(job[v])'
    <2>1. CASE v = w
      BY <1>1, <2>1 DEF JobIsSane
    <2>2. CASE v # w
      <3>1. job'[v] = job[v] /\ JobIsSane(job[v])
        BY <1>1, <2>2 DEF RedisTypeOK, KeysType, JobsType, SyncType
      <3>2. /\ job[v].revision \in Nat
            /\ \A t \in DOMAIN job[v].saved : job[v].saved[t].revision \in Nat
        <4>1. job[v] \in JobSet
          BY DEF RedisTypeOK, KeysType, JobsType, SyncType
        <4>2. job[v].saved \in Part(Token, RowSet)
          BY <4>1, JobFields
        <4>3. \A t \in DOMAIN job[v].saved : job[v].saved[t] \in RowSet
          BY <4>2, PartFacts
        <4> QED
          BY <4>1, <4>3, JobFields DEF RowSet
      <3>3. rev \in Nat
        BY DEF RedisTypeOK, KeysType, JobsType, SyncType
      <3> QED
        BY <3>1, <3>2, <3>3 DEF JobIsSane
    <2> QED
      BY <2>1, <2>2
  <1> QED
    BY <1>1, <1>2

(* The batches a mutation may be called with.                                *)
LEMMA BatchTypes ==
    ASSUME NEW items \in Batches \cup {<<>>}
    PROVE  items \in Part(Token, Pool) /\ items \in Part(Token, Pool \cup {NoPool})
  <1>1. items \in Part(Token, Pool)
    <2>1. CASE items = <<>>
      BY <2>1, PartEmpty
    <2>2. CASE items \in Batches
      <3>1. PICK D \in SUBSET Token : items \in [D -> Pool]
        BY <2>2, Zenon DEF Batches
      <3> QED
        BY <3>1, PartIntro
    <2> QED
      BY <2>1, <2>2
  <1>2. DOMAIN items \in SUBSET Token /\ items \in [DOMAIN items -> Pool]
    BY <1>1, PartFacts
  <1>3. items \in [DOMAIN items -> Pool \cup {NoPool}]
    BY <1>2
  <1> QED
    BY <1>1, <1>2, <1>3, PartIntro

(* A mutation begins.                                                        *)
Begins(w, j) ==
    /\ job[w].stage = "idle" /\ MayStart /\ job' = [job EXCEPT ![w] = j]
    /\ j.stage = "incr" /\ j.revision = 0 /\ j.at = {} /\ j.from = rec
    /\ UNCHANGED <<keys, replica, scanner>>

Starts(w) ==
    \/ \E items \in Batches : UpsertAccounts(w, items) \/ PatchAccounts(w, items)
    \/ \E tokens \in (SUBSET Token) \ {{}} : DeleteAccounts(w, tokens)
    \/ \E p \in Pool, items \in Batches \cup {<<>>} : ReplacePool(w, p, items)

LEMMA MutationStarts ==
    ASSUME RedisTypeOK, NEW w \in Writer, Starts(w)
    PROVE  \E j \in JobSet :
             /\ Begins(w, j)
             /\ j.op \in {"upsert", "patch", "delete", "replace"}
             /\ j.op \in {"upsert", "patch"} => \A t \in DOMAIN j.todo : j.todo[t] \in Pool
             /\ j.op # "replace" => j.saved = <<>>
             /\ j.op = "replace" => DOMAIN j.todo = DOMAIN j.saved
             /\ \A t \in DOMAIN j.saved : j.saved[t] = rec[t]
  <1>r. rec \in Part(Token, RowSet)
    BY PartIntro DEF RedisTypeOK, KeysType, JobsType, SyncType
  <1>1. ASSUME NEW op \in {"upsert", "patch", "delete"}, NEW todo \in Part(Token, Pool \cup {NoPool}),
               Start(w, op, todo)
        PROVE  \E j \in JobSet : Begins(w, j) /\ j.op = op /\ j.todo = todo /\ j.saved = <<>>
    <2> DEFINE j == [Idle EXCEPT !.op = op, !.stage = "incr", !.todo = todo, !.from = rec]
    <2>1. j \in JobSet
      BY <1>r, IdleType DEF JobSet
    <2>2. /\ j.stage = "incr" /\ j.revision = 0 /\ j.at = {} /\ j.from = rec
          /\ j.op = op /\ j.todo = todo /\ j.saved = <<>>
      BY IdleType DEF JobSet
    <2>3. job[w].stage = "idle" /\ MayStart /\ job' = [job EXCEPT ![w] = j]
          /\ UNCHANGED <<keys, replica, scanner>>
      BY <1>1 DEF Start
    <2> HIDE DEF j
    <2>4. Begins(w, j)
      BY <2>2, <2>3 DEF Begins
    <2> QED
      BY <2>1, <2>2, <2>4
  <1>2. ASSUME NEW items \in Batches
        PROVE  items \in Part(Token, Pool \cup {NoPool}) /\ \A t \in DOMAIN items : items[t] \in Pool
    BY BatchTypes, PartFacts
  <1>3. CASE \E items \in Batches : UpsertAccounts(w, items) \/ PatchAccounts(w, items)
    <2>1. PICK items \in Batches : Start(w, "upsert", items) \/ Start(w, "patch", items)
      BY <1>3 DEF UpsertAccounts, PatchAccounts
    <2>2. items \in Part(Token, Pool \cup {NoPool}) /\ \A t \in DOMAIN items : items[t] \in Pool
      BY <1>2
    <2>3. CASE Start(w, "upsert", items)
      <3>1. PICK j \in JobSet : Begins(w, j) /\ j.op = "upsert" /\ j.todo = items /\ j.saved = <<>>
        BY <2>2, <2>3, <1>1
      <3> QED
        BY <2>2, <3>1, PartEmpty
    <2>4. CASE Start(w, "patch", items)
      <3>1. PICK j \in JobSet : Begins(w, j) /\ j.op = "patch" /\ j.todo = items /\ j.saved = <<>>
        BY <2>2, <2>4, <1>1
      <3> QED
        BY <2>2, <3>1, PartEmpty
    <2> QED
      BY <2>1, <2>3, <2>4
  <1>4. CASE \E tokens \in (SUBSET Token) \ {{}} : DeleteAccounts(w, tokens)
    <2>1. PICK tokens \in SUBSET Token : Start(w, "delete", [t \in tokens |-> NoPool])
      BY <1>4 DEF DeleteAccounts
    <2>2. [t \in tokens |-> NoPool] \in [tokens -> Pool \cup {NoPool}]
      OBVIOUS
    <2>3. [t \in tokens |-> NoPool] \in Part(Token, Pool \cup {NoPool})
      BY <2>2, PartIntro
    <2>4. PICK j \in JobSet : Begins(w, j) /\ j.op = "delete" /\ j.saved = <<>>
      BY <2>1, <2>3, <1>1
    <2> QED
      BY <2>4, PartEmpty
  <1>5. CASE \E p \in Pool, items \in Batches \cup {<<>>} : ReplacePool(w, p, items)
    <2>0. PICK p \in Pool, items \in Batches \cup {<<>>} : ReplacePool(w, p, items)
      BY <1>5
    <2> DEFINE todo == [t \in pools[p] |-> NoPool]
               saved == [t \in pools[p] |-> rec[t]]
               j == [Idle EXCEPT !.op = "replace", !.stage = "incr", !.pool = p, !.todo = todo,
                                 !.after = items, !.from = rec, !.saved = saved]
    <2>1. pools[p] \in SUBSET Token /\ rec \in [Token -> RowSet]
      BY DEF RedisTypeOK, KeysType, JobsType, SyncType
    <2>2. todo \in [pools[p] -> Pool \cup {NoPool}] /\ saved \in [pools[p] -> RowSet]
      BY <2>1
    <2>3. todo \in Part(Token, Pool \cup {NoPool}) /\ saved \in Part(Token, RowSet)
      BY <2>1, <2>2, PartIntro
    <2>4. job[w].stage = "idle" /\ MayStart /\ job' = [job EXCEPT ![w] = j]
          /\ UNCHANGED <<keys, replica, scanner>>
      BY <2>0 DEF ReplacePool
    <2>5. DOMAIN todo = DOMAIN saved /\ \A t \in DOMAIN saved : saved[t] = rec[t]
      OBVIOUS
    <2> HIDE DEF todo, saved
    <2>6. j \in JobSet
      BY <1>r, <2>3, BatchTypes, IdleType DEF JobSet
    <2>7. /\ j.stage = "incr" /\ j.revision = 0 /\ j.at = {} /\ j.from = rec
          /\ j.op = "replace" /\ j.todo = todo /\ j.saved = saved
      BY IdleType DEF JobSet
    <2> HIDE DEF j
    <2>8. Begins(w, j)
      BY <2>4, <2>7 DEF Begins
    <2> QED
      BY <2>5, <2>6, <2>7, <2>8
  <1> QED
    BY <1>3, <1>4, <1>5 DEF Starts

(* What the steps of a mutation do to its record.                            *)
Moves(w, j) == job' = [job EXCEPT ![w] = j]
SameWork(j, k) == j.op = k.op /\ j.todo = k.todo /\ j.after = k.after /\ j.saved = k.saved /\ j.from = k.from

LEMMA IncrMoves ==
    ASSUME RedisTypeOK, NEW w \in Writer, Incr(w)
    PROVE  \E j \in JobSet :
             /\ Moves(w, j) /\ job[w].stage = "incr" /\ j.stage = "look" /\ SameWork(j, job[w])
             /\ j.revision = rev + 1 /\ rev' = rev + 1 /\ j.at = job[w].at
             /\ UNCHANGED <<rec, log, pools, replica, scanner>>
  <1> DEFINE j == [job[w] EXCEPT !.stage = "look", !.revision = rev + 1]
  <1>1. job[w] \in JobSet /\ rev + 1 \in Nat
    BY DEF RedisTypeOK, KeysType, JobsType, SyncType
  <1>2. j \in JobSet
    BY <1>1 DEF JobSet
  <1>3. SameWork(j, job[w]) /\ j.stage = "look" /\ j.revision = rev + 1 /\ j.at = job[w].at
    BY <1>1 DEF JobSet, SameWork
  <1>4. Moves(w, j)
    BY <1>1 DEF Incr, Moves, RedisTypeOK, KeysType, JobsType, SyncType
  <1> HIDE DEF j
  <1> QED
    BY <1>2, <1>3, <1>4 DEF Incr

LEMMA FinishMoves ==
    ASSUME RedisTypeOK, NEW w \in Writer, Finish(w)
    PROVE  \E j \in JobSet :
             /\ Moves(w, j) /\ job[w].stage = "look" /\ job[w].todo = <<>>
             /\ \/ j = Idle
                \/ /\ job[w].op = "replace" /\ j.op = "replaced" /\ j.stage = "incr"
                   /\ j.todo = job[w].after /\ j.saved = job[w].saved /\ j.from = job[w].from
                   /\ j.at = job[w].at /\ j.revision = job[w].revision
             /\ UNCHANGED <<keys, replica, scanner>>
  <1> DEFINE j == [job[w] EXCEPT !.op = "replaced", !.stage = "incr", !.todo = job[w].after, !.after = <<>>]
  <1>1. job[w] \in JobSet
    BY DEF RedisTypeOK, KeysType, JobsType, SyncType
  <1>2. job[w].after \in Part(Token, Pool \cup {NoPool})
    <2>1. job[w].after \in Part(Token, Pool)
      BY <1>1, JobFields
    <2>2. DOMAIN job[w].after \in SUBSET Token /\ job[w].after \in [DOMAIN job[w].after -> Pool \cup {NoPool}]
      BY <2>1, PartFacts
    <2> QED
      BY <2>2, PartIntro
  <1>3. <<>> \in Part(Token, Pool)
    BY PartEmpty
  <1>4. j \in JobSet
    BY <1>1, <1>2, <1>3 DEF JobSet
  <1>5. /\ j.op = "replaced" /\ j.stage = "incr" /\ j.todo = job[w].after /\ j.saved = job[w].saved
        /\ j.from = job[w].from /\ j.at = job[w].at /\ j.revision = job[w].revision
    BY <1>1 DEF JobSet
  <1>6. Moves(w, IF job[w].op = "replace" THEN j ELSE Idle)
    BY DEF Finish, Moves
  <1> HIDE DEF j
  <1>7. CASE job[w].op = "replace"
    BY <1>4, <1>5, <1>6, <1>7 DEF Finish
  <1>8. CASE job[w].op # "replace"
    BY <1>6, <1>8, IdleType DEF Finish
  <1> QED
    BY <1>7, <1>8

LEMMA LookMoves ==
    ASSUME RedisTypeOK, NEW w \in Writer, Look(w)
    PROVE  \E j \in JobSet, t \in DOMAIN job[w].todo :
             /\ Moves(w, j) /\ job[w].stage = "look"
             /\ j.op = job[w].op /\ j.from = job[w].from /\ j.revision = job[w].revision
             /\ \/ /\ j.stage = "look" /\ j.at = job[w].at
                   /\ j.todo = Without(job[w].todo, t) /\ j.saved = job[w].saved
                \/ /\ j.stage = "write" /\ j.at = {t} /\ j.todo = job[w].todo
                   /\ Upserts(job[w]) \/ rec[t].life # "none"
                   /\ j.saved = IF Upserts(job[w]) /\ t \notin DOMAIN job[w].saved
                                THEN Put(job[w].saved, t, rec[t]) ELSE job[w].saved
             /\ UNCHANGED <<keys, replica, scanner>>
  <1>1. job[w] \in JobSet /\ rec \in [Token -> RowSet]
    BY DEF RedisTypeOK, KeysType, JobsType, SyncType
  <1>2. PICK t \in DOMAIN job[w].todo :
          job' = [job EXCEPT ![w] =
            IF \/ ~Upserts(job[w]) /\ rec[t].life = "none"
               \/ Deletes(job[w]) /\ rec[t].life = "deleted"
            THEN [job[w] EXCEPT !.todo = Without(job[w].todo, t)]
            ELSE [job[w] EXCEPT !.stage = "write", !.at = {t},
                    !.saved = IF Upserts(job[w]) /\ t \notin DOMAIN job[w].saved
                              THEN Put(job[w].saved, t, rec[t]) ELSE job[w].saved]]
    BY DEF Look, Restrict, Without, Put
  <1> DEFINE kept == IF Upserts(job[w]) /\ t \notin DOMAIN job[w].saved
                     THEN Put(job[w].saved, t, rec[t]) ELSE job[w].saved
             left == Without(job[w].todo, t)
             s == [job[w] EXCEPT !.todo = left]
             j == [job[w] EXCEPT !.stage = "write", !.at = {t}, !.saved = kept]
  <1>3. t \in Token /\ rec[t] \in RowSet /\ left \in Part(Token, Pool \cup {NoPool})
    BY <1>1, JobFields, PartFacts
  <1>4. kept \in Part(Token, RowSet)
    <2>1. Put(job[w].saved, t, rec[t]) \in Part(Token, RowSet)
      BY <1>1, <1>3, JobFields, PartPut
    <2> QED
      BY <1>1, <2>1, JobFields
  <1>5. CASE \/ ~Upserts(job[w]) /\ rec[t].life = "none"
             \/ Deletes(job[w]) /\ rec[t].life = "deleted"
    <2> HIDE DEF left
    <2>1. s \in JobSet
      BY <1>1, <1>3 DEF JobSet
    <2>2. /\ s.op = job[w].op /\ s.from = job[w].from /\ s.revision = job[w].revision
          /\ s.stage = job[w].stage /\ s.at = job[w].at /\ s.todo = left /\ s.saved = job[w].saved
      BY <1>1 DEF JobSet
    <2> USE DEF left
    <2>3. Moves(w, s)
      BY <1>2, <1>5 DEF Moves
    <2> HIDE DEF s
    <2>4. job[w].stage = "look" /\ UNCHANGED <<keys, replica, scanner>>
      BY DEF Look
    <2> QED
      BY <2>1, <2>2, <2>3, <2>4
  <1>6. CASE ~(\/ ~Upserts(job[w]) /\ rec[t].life = "none"
               \/ Deletes(job[w]) /\ rec[t].life = "deleted")
    <2> HIDE DEF kept
    <2>1. j \in JobSet
      BY <1>1, <1>3, <1>4 DEF JobSet
    <2>2. /\ j.op = job[w].op /\ j.from = job[w].from /\ j.revision = job[w].revision
          /\ j.stage = "write" /\ j.at = {t} /\ j.todo = job[w].todo /\ j.saved = kept
      BY <1>1 DEF JobSet
    <2> USE DEF kept
    <2>3. Moves(w, j)
      BY <1>2, <1>6 DEF Moves
    <2> HIDE DEF j
    <2>4. job[w].stage = "look" /\ UNCHANGED <<keys, replica, scanner>>
      BY DEF Look
    <2> QED
      BY <1>6, <2>1, <2>2, <2>3, <2>4
  <1> QED
    BY <1>5, <1>6

LEMMA WriteMoves ==
    ASSUME RedisTypeOK, NEW w \in Writer, Write(w)
    PROVE  \E j \in JobSet, t \in job[w].at :
             /\ Moves(w, j) /\ job[w].stage = "write" /\ j.stage = "index" /\ SameWork(j, job[w])
             /\ j.revision = job[w].revision /\ j.at = job[w].at
             /\ rec' = [rec EXCEPT ![t] = Written(job[w], t)]
             /\ UNCHANGED <<rev, log, pools, replica, scanner>>
  <1> DEFINE j == [job[w] EXCEPT !.stage = "index"]
  <1>1. job[w] \in JobSet
    BY DEF RedisTypeOK, KeysType, JobsType, SyncType
  <1>2. j \in JobSet
    BY <1>1 DEF JobSet
  <1>3. SameWork(j, job[w]) /\ j.stage = "index" /\ j.revision = job[w].revision /\ j.at = job[w].at
    BY <1>1 DEF JobSet, SameWork
  <1>4. Moves(w, j)
    BY <1>1 DEF Write, Moves, RedisTypeOK, KeysType, JobsType, SyncType
  <1> HIDE DEF j
  <1> QED
    BY <1>2, <1>3, <1>4 DEF Write

LEMMA IndexMoves ==
    ASSUME RedisTypeOK, NEW w \in Writer, Index(w)
    PROVE  \E j \in JobSet, t \in job[w].at :
             /\ Moves(w, j) /\ job[w].stage = "index" /\ j.stage = "log" /\ SameWork(j, job[w])
             /\ j.revision = job[w].revision /\ j.at = job[w].at
             /\ pools' = IF Deletes(job[w]) \/ (~Upserts(job[w]) /\ rec[t].life # "live") THEN pools
                         ELSE [pools EXCEPT ![IF Upserts(job[w]) THEN job[w].todo[t] ELSE rec[t].pool] = @ \cup {t}]
             /\ UNCHANGED <<rev, rec, log, replica, scanner>>
  <1> DEFINE j == [job[w] EXCEPT !.stage = "log"]
  <1>1. job[w] \in JobSet
    BY DEF RedisTypeOK, KeysType, JobsType, SyncType
  <1>2. j \in JobSet
    BY <1>1 DEF JobSet
  <1>3. SameWork(j, job[w]) /\ j.stage = "log" /\ j.revision = job[w].revision /\ j.at = job[w].at
    BY <1>1 DEF JobSet, SameWork
  <1>4. Moves(w, j)
    BY <1>1 DEF Index, Moves, RedisTypeOK, KeysType, JobsType, SyncType
  <1> HIDE DEF j
  <1> QED
    BY <1>2, <1>3, <1>4 DEF Index

LEMMA LogMoves ==
    ASSUME RedisTypeOK, NEW w \in Writer, Log(w)
    PROVE  \E j \in JobSet, t \in job[w].at :
             /\ Moves(w, j) /\ job[w].stage = "log" /\ j.stage = "look" /\ j.at = {}
             /\ j.op = job[w].op /\ j.from = job[w].from /\ j.revision = job[w].revision
             /\ j.saved = job[w].saved /\ j.todo = Without(job[w].todo, t)
             /\ log' = [log EXCEPT ![t] = job[w].revision]
             /\ UNCHANGED <<rev, rec, pools, replica, scanner>>
  <1>1. job[w] \in JobSet
    BY DEF RedisTypeOK, KeysType, JobsType, SyncType
  <1>2. PICK t \in job[w].at :
          /\ log' = [log EXCEPT ![t] = job[w].revision]
          /\ job' = [job EXCEPT ![w].stage = "look", ![w].at = {},
                                ![w].todo = Restrict(@, DOMAIN @ \ {t})]
    BY DEF Log
  <1> DEFINE left == Without(job[w].todo, t)
             j == [job[w] EXCEPT !.stage = "look", !.at = {}, !.todo = left]
  <1>3. left \in Part(Token, Pool \cup {NoPool})
    BY <1>1, JobFields, PartFacts
  <1>4. Moves(w, j)
    BY <1>1, <1>2 DEF Moves, Restrict, Without, RedisTypeOK, KeysType, JobsType, SyncType, JobSet
  <1> HIDE DEF left
  <1>5. j \in JobSet
    BY <1>1, <1>3 DEF JobSet
  <1>6. /\ j.stage = "look" /\ j.at = {} /\ j.todo = left
        /\ j.op = job[w].op /\ j.from = job[w].from /\ j.revision = job[w].revision /\ j.saved = job[w].saved
    BY <1>1 DEF JobSet
  <1> USE DEF left
  <1> HIDE DEF j
  <1> QED
    BY <1>2, <1>4, <1>5, <1>6 DEF Log

LEMMA FailMoves ==
    ASSUME RedisTypeOK, NEW w \in Writer, Fail(w)
    PROVE  \E j \in JobSet :
             /\ Moves(w, j) /\ job[w].stage # "idle" /\ job[w].stage # "restore"
             /\ \/ j = Idle
                \/ /\ job[w].saved # <<>> /\ j.stage = "restore" /\ SameWork(j, job[w])
                   /\ j.revision = job[w].revision /\ j.at = job[w].at
             /\ UNCHANGED <<keys, replica, scanner>>
  <1> DEFINE j == [job[w] EXCEPT !.stage = "restore"]
  <1>1. job[w] \in JobSet
    BY DEF RedisTypeOK, KeysType, JobsType, SyncType
  <1>2. j \in JobSet
    BY <1>1 DEF JobSet
  <1>3. SameWork(j, job[w]) /\ j.stage = "restore" /\ j.revision = job[w].revision /\ j.at = job[w].at
    BY <1>1 DEF JobSet, SameWork
  <1>4. Moves(w, IF job[w].saved = <<>> THEN Idle ELSE j)
    BY DEF Fail, Moves, RedisTypeOK, KeysType, JobsType, SyncType
  <1> HIDE DEF j
  <1>5. job[w].stage # "idle" /\ job[w].stage # "restore" /\ UNCHANGED <<keys, replica, scanner>>
    BY DEF Fail
  <1>6. CASE job[w].saved = <<>>
    BY <1>4, <1>5, <1>6, IdleType
  <1>7. CASE job[w].saved # <<>>
    BY <1>2, <1>3, <1>4, <1>5, <1>7
  <1> QED
    BY <1>6, <1>7

LEMMA RestoreMoves ==
    ASSUME RedisTypeOK, NEW w \in Writer, Restore(w)
    PROVE  \E j \in JobSet, t \in DOMAIN job[w].saved :
             /\ Moves(w, j) /\ job[w].stage = "restore"
             /\ \/ j = Idle /\ DOMAIN job[w].saved = {t}
                \/ /\ j.stage = "restore" /\ j.saved = Without(job[w].saved, t)
                   /\ j.op = job[w].op /\ j.from = job[w].from /\ j.revision = job[w].revision
                   /\ j.todo = job[w].todo /\ j.at = job[w].at
             /\ rec' = [rec EXCEPT ![t] = job[w].saved[t]]
             /\ log' = [log EXCEPT ![t] = job[w].saved[t].revision]
             /\ pools' = IF job[w].saved[t].life = "live"
                         THEN [pools EXCEPT ![job[w].saved[t].pool] = @ \cup {t}] ELSE pools
             /\ UNCHANGED <<rev, replica, scanner>>
  <1>1. job[w] \in JobSet
    BY DEF RedisTypeOK, KeysType, JobsType, SyncType
  <1>2. PICK t \in DOMAIN job[w].saved :
          /\ rec' = [rec EXCEPT ![t] = job[w].saved[t]]
          /\ log' = [log EXCEPT ![t] = job[w].saved[t].revision]
          /\ pools' = IF job[w].saved[t].life = "live"
                      THEN [pools EXCEPT ![job[w].saved[t].pool] = @ \cup {t}] ELSE pools
          /\ job' = [job EXCEPT ![w] =
                       IF Without(job[w].saved, t) = <<>> THEN Idle
                       ELSE [@ EXCEPT !.saved = Without(job[w].saved, t)]]
    BY DEF Restore, Restrict, Without
  <1> DEFINE left == Without(job[w].saved, t)
             j == [job[w] EXCEPT !.saved = left]
  <1>3. left \in Part(Token, RowSet) /\ DOMAIN left = DOMAIN job[w].saved \ {t}
    <2> DEFINE f == job[w].saved
    <2>1. f \in Part(Token, RowSet)
      BY <1>1, JobFields
    <2> HIDE DEF f
    <2>2. Without(f, t) \in Part(Token, RowSet)
      BY <2>1, PartFacts
    <2>3. DOMAIN Without(f, t) = DOMAIN f \ {t}
      BY DEF Without
    <2> QED
      BY <2>2, <2>3 DEF f
  <1>4. Moves(w, IF left = <<>> THEN Idle ELSE j)
    BY <1>2 DEF Moves, RedisTypeOK, KeysType, JobsType, SyncType
  <1> HIDE DEF left
  <1>5. j \in JobSet
    BY <1>1, <1>3 DEF JobSet
  <1>6. /\ j.stage = job[w].stage /\ j.saved = left /\ j.op = job[w].op /\ j.from = job[w].from
        /\ j.revision = job[w].revision /\ j.todo = job[w].todo /\ j.at = job[w].at
    BY <1>1 DEF JobSet
  <1> HIDE DEF j
  <1>7. job[w].stage = "restore" /\ UNCHANGED <<rev, replica, scanner>>
    BY DEF Restore
  <1>8. CASE left = <<>>
    <2>1. DOMAIN job[w].saved = {t}
      BY <1>3, <1>8, PartEmpty
    <2> QED
      BY <1>2, <1>4, <1>7, <1>8, <2>1, IdleType
  <1>9. CASE left # <<>>
    BY <1>2, <1>4, <1>5, <1>6, <1>7, <1>9 DEF left
  <1> QED
    BY <1>8, <1>9

(* Type correctness.                                                         *)
LEMMA WorkFacts ==
    ASSUME RedisTypeOK, NEW w \in Writer
    PROVE  /\ job[w] \in JobSet /\ job[w].revision \in Nat /\ job[w].revision <= rev
           /\ DOMAIN job[w].todo \subseteq Token /\ job[w].at \subseteq DOMAIN job[w].todo
           /\ \A t \in DOMAIN job[w].todo : job[w].todo[t] \in Pool \cup {NoPool}
           /\ job[w].stage \in {"incr", "look"} => job[w].at = {}
           /\ \A t, u \in job[w].at : t = u
           /\ DOMAIN job[w].saved \subseteq Token
           /\ \A t \in DOMAIN job[w].saved : job[w].saved[t] \in RowSet /\ job[w].saved[t].revision <= rev
  <1>1. job[w] \in JobSet /\ JobIsSane(job[w])
    BY DEF RedisTypeOK, JobsType
  <1>2. job[w].todo \in Part(Token, Pool \cup {NoPool}) /\ job[w].saved \in Part(Token, RowSet)
    BY <1>1, JobFields
  <1>3. DOMAIN job[w].todo \subseteq Token /\ \A t \in DOMAIN job[w].todo : job[w].todo[t] \in Pool \cup {NoPool}
    BY <1>2, PartFacts
  <1>4. DOMAIN job[w].saved \subseteq Token /\ \A t \in DOMAIN job[w].saved : job[w].saved[t] \in RowSet
    BY <1>2, PartFacts
  <1> QED
    BY <1>1, <1>3, <1>4, JobFields DEF JobIsSane

LEMMA SyncKeeps ==
    ASSUME RedisTypeOK, rev' \in Nat, rev <= rev', UNCHANGED <<replica, scanner>>
    PROVE  SyncType'
  <1>1. \A t \in DOMAIN seen : seen[t].revision \in Nat
    <2>1. seen \in Part(Token, RowSet)
      BY DEF RedisTypeOK, SyncType
    <2>2. \A t \in DOMAIN seen : seen[t] \in RowSet
      BY <2>1, PartFacts
    <2> QED
      BY <2>2 DEF RowSet
  <1>2. UNCHANGED <<up, cursor, slot, phase, top, pending, seen>> /\ rev \in Nat
    BY DEF replica, scanner, RedisTypeOK, KeysType
  <1>3. cursor' \in 0 .. rev' /\ top' \in 0 .. rev' /\ \A t \in DOMAIN seen' : seen'[t].revision <= rev'
    BY <1>1, <1>2 DEF RedisTypeOK, SyncType
  <1> QED
    BY <1>2, <1>3 DEF RedisTypeOK, SyncType

LEMMA TypeMoves ==
    ASSUME RedisTypeOK, NEW w \in Writer, NEW j \in JobSet, Moves(w, j), UNCHANGED <<replica, scanner>>,
           KeysType', rev <= rev',
           j.revision <= rev', \A t \in DOMAIN j.saved : j.saved[t].revision <= rev',
           j.at \subseteq DOMAIN j.todo, j.stage \in {"incr", "look"} => j.at = {},
           \A t, u \in j.at : t = u
    PROVE  RedisTypeOK'
  <1>1. rev' \in Nat
    BY DEF KeysType
  <1>2. SyncType'
    BY <1>1, SyncKeeps
  <1>3. JobsType'
    BY <1>1, JobStep DEF Moves, JobsType
  <1> QED
    BY <1>2, <1>3 DEF RedisTypeOK

LEMMA MutationType == ASSUME RedisTypeOK, NEW w \in Writer, Mutation(w) PROVE RedisTypeOK'
  <1>k. ASSUME UNCHANGED keys PROVE KeysType' /\ rev' = rev /\ rev \in Nat
    BY <1>k DEF keys, RedisTypeOK, KeysType
  <1>w. job[w] \in JobSet /\ job[w].revision \in Nat /\ rev \in Nat
    BY WorkFacts DEF RedisTypeOK, KeysType
  <1>i. ASSUME Moves(w, Idle), KeysType', rev' = rev, UNCHANGED <<replica, scanner>> PROVE RedisTypeOK'
    <2>1. Idle.revision <= rev' /\ \A t \in DOMAIN Idle.saved : Idle.saved[t].revision <= rev'
      BY <1>i, <1>w, IdleType, PartEmpty
    <2>2. Idle.at \subseteq DOMAIN Idle.todo /\ (Idle.stage \in {"incr", "look"} => Idle.at = {})
          /\ \A t, u \in Idle.at : t = u
      BY IdleType
    <2> QED
      BY <1>i, <1>w, <2>1, <2>2, IdleType, TypeMoves
  <1>1. CASE Starts(w)
    <2>1. PICK j \in JobSet :
             /\ Begins(w, j)
             /\ \A t \in DOMAIN j.saved : j.saved[t] = rec[t]
      BY <1>1, MutationStarts
    <2>2. DOMAIN j.saved \subseteq Token
      <3>1. j.saved \in Part(Token, RowSet)
        BY JobFields
      <3> QED
        BY <3>1, PartFacts
    <2>3. KeysType' /\ rev' = rev
      BY <2>1, <1>k DEF Begins
    <2>4. j.revision <= rev' /\ \A t \in DOMAIN j.saved : j.saved[t].revision <= rev'
      BY <1>w, <2>1, <2>2, <2>3 DEF Begins, RedisTypeOK, KeysType
    <2>5. Moves(w, j) /\ j.at = {} /\ UNCHANGED <<replica, scanner>>
      BY <2>1 DEF Begins, Moves
    <2>6. j.at \subseteq DOMAIN j.todo /\ (j.stage \in {"incr", "look"} => j.at = {}) /\ \A t, u \in j.at : t = u
      BY <2>5
    <2> QED
      BY <1>w, <2>3, <2>4, <2>5, <2>6, TypeMoves
  <1>2. CASE Incr(w)
    <2>1. PICK j \in JobSet :
             /\ Moves(w, j) /\ job[w].stage = "incr" /\ j.stage = "look" /\ SameWork(j, job[w])
             /\ j.revision = rev + 1 /\ rev' = rev + 1 /\ j.at = job[w].at
             /\ UNCHANGED <<rec, log, pools, replica, scanner>>
      BY <1>2, IncrMoves
    <2>2. KeysType'
      <3>1. \A t \in Token : rec[t].revision \in Nat
        BY DEF RedisTypeOK, KeysType, RowSet
      <3> QED
        BY <1>w, <2>1, <3>1 DEF RedisTypeOK, KeysType
    <2>3. j.revision <= rev' /\ rev <= rev' /\ \A t \in DOMAIN j.saved : j.saved[t].revision <= rev'
      BY <1>w, <2>1, WorkFacts DEF SameWork, RowSet
    <2> QED
      BY <2>1, <2>2, <2>3, WorkFacts, TypeMoves DEF SameWork
  <1>3. CASE Look(w)
    <2>1. PICK j \in JobSet, t \in DOMAIN job[w].todo :
             /\ Moves(w, j) /\ job[w].stage = "look" /\ j.revision = job[w].revision
             /\ \/ /\ j.stage = "look" /\ j.at = job[w].at
                   /\ j.todo = Without(job[w].todo, t) /\ j.saved = job[w].saved
                \/ /\ j.stage = "write" /\ j.at = {t} /\ j.todo = job[w].todo
                   /\ j.saved = IF Upserts(job[w]) /\ t \notin DOMAIN job[w].saved
                                THEN Put(job[w].saved, t, rec[t]) ELSE job[w].saved
             /\ UNCHANGED <<keys, replica, scanner>>
      BY <1>3, LookMoves
    <2>2. KeysType' /\ rev' = rev
      BY <2>1, <1>k
    <2>3. t \in Token /\ rec[t].revision <= rev
      BY WorkFacts DEF RedisTypeOK, KeysType
    <2>4. \A u \in DOMAIN j.saved : j.saved[u].revision <= rev'
      BY <2>1, <2>2, <2>3, WorkFacts DEF Put
    <2>5. j.at \subseteq DOMAIN j.todo /\ (j.stage \in {"incr", "look"} => j.at = {}) /\ \A u, v \in j.at : u = v
      BY <2>1, WorkFacts
    <2> QED
      BY <1>w, <2>1, <2>2, <2>4, <2>5, WorkFacts, TypeMoves
  <1>4. CASE Finish(w)
    <2>1. PICK j \in JobSet :
             /\ Moves(w, j) /\ job[w].stage = "look"
             /\ \/ j = Idle
                \/ /\ j.stage = "incr" /\ j.saved = job[w].saved
                   /\ j.at = job[w].at /\ j.revision = job[w].revision
             /\ UNCHANGED <<keys, replica, scanner>>
      BY <1>4, FinishMoves
    <2>2. KeysType' /\ rev' = rev
      BY <2>1, <1>k
    <2>3. CASE j = Idle
      BY <1>i, <2>1, <2>2, <2>3
    <2>4. CASE j # Idle
      BY <1>w, <2>1, <2>2, <2>4, WorkFacts, TypeMoves
    <2> QED
      BY <2>3, <2>4
  <1>5. CASE Write(w)
    <2>1. PICK j \in JobSet, t \in job[w].at :
             /\ Moves(w, j) /\ j.stage = "index" /\ SameWork(j, job[w])
             /\ j.revision = job[w].revision /\ j.at = job[w].at
             /\ rec' = [rec EXCEPT ![t] = Written(job[w], t)]
             /\ UNCHANGED <<rev, log, pools, replica, scanner>>
      BY <1>5, WriteMoves
    <2>2. t \in Token /\ job[w].todo[t] \in Pool \cup {NoPool} /\ rec[t] \in RowSet
      BY WorkFacts DEF RedisTypeOK, KeysType
    <2>3. Written(job[w], t) \in RowSet /\ Written(job[w], t).revision = job[w].revision
      BY <1>w, <2>2 DEF Written, Row, RowSet, Upserts, Deletes
    <2>4. KeysType'
      BY <2>1, <2>2, <2>3, WorkFacts DEF RedisTypeOK, KeysType
    <2> QED
      BY <1>w, <2>1, <2>4, WorkFacts, TypeMoves DEF SameWork
  <1>6. CASE Index(w)
    <2>1. PICK j \in JobSet, t \in job[w].at :
             /\ Moves(w, j) /\ j.stage = "log" /\ SameWork(j, job[w])
             /\ j.revision = job[w].revision /\ j.at = job[w].at
             /\ \E p : pools' = pools \/ pools' = [pools EXCEPT ![p] = @ \cup {t}]
             /\ UNCHANGED <<rev, rec, log, replica, scanner>>
      BY <1>6, IndexMoves
    <2>2. t \in Token
      BY WorkFacts
    <2>3. KeysType'
      BY <2>1, <2>2 DEF RedisTypeOK, KeysType
    <2> QED
      BY <1>w, <2>1, <2>3, WorkFacts, TypeMoves DEF SameWork
  <1>7. CASE Log(w)
    <2>1. PICK j \in JobSet, t \in job[w].at :
             /\ Moves(w, j) /\ j.stage = "look" /\ j.at = {}
             /\ j.revision = job[w].revision /\ j.saved = job[w].saved
             /\ log' = [log EXCEPT ![t] = job[w].revision]
             /\ UNCHANGED <<rev, rec, pools, replica, scanner>>
      BY <1>7, LogMoves
    <2>2. KeysType'
      BY <1>w, <2>1, WorkFacts DEF RedisTypeOK, KeysType
    <2> QED
      BY <1>w, <2>1, <2>2, WorkFacts, TypeMoves
  <1>8. CASE Fail(w)
    <2>1. PICK j \in JobSet :
             /\ Moves(w, j)
             /\ \/ j = Idle
                \/ /\ j.stage = "restore" /\ SameWork(j, job[w])
                   /\ j.revision = job[w].revision /\ j.at = job[w].at
             /\ UNCHANGED <<keys, replica, scanner>>
      BY <1>8, FailMoves
    <2>2. KeysType' /\ rev' = rev
      BY <2>1, <1>k
    <2>3. CASE j = Idle
      BY <1>i, <2>1, <2>2, <2>3
    <2>4. CASE j # Idle
      BY <1>w, <2>1, <2>2, <2>4, WorkFacts, TypeMoves DEF SameWork
    <2> QED
      BY <2>3, <2>4
  <1>9. CASE Restore(w)
    <2>1. PICK j \in JobSet, t \in DOMAIN job[w].saved :
             /\ Moves(w, j)
             /\ \/ j = Idle
                \/ /\ j.stage = "restore" /\ j.saved = Without(job[w].saved, t)
                   /\ j.revision = job[w].revision /\ j.todo = job[w].todo /\ j.at = job[w].at
             /\ rec' = [rec EXCEPT ![t] = job[w].saved[t]]
             /\ log' = [log EXCEPT ![t] = job[w].saved[t].revision]
             /\ \/ pools' = pools
                \/ pools' = [pools EXCEPT ![job[w].saved[t].pool] = @ \cup {t}]
             /\ UNCHANGED <<rev, replica, scanner>>
      BY <1>9, RestoreMoves
    <2>2. t \in Token /\ job[w].saved[t] \in RowSet /\ job[w].saved[t].revision \in 0 .. rev
      BY <1>w, WorkFacts DEF RowSet
    <2>3. KeysType'
      BY <2>1, <2>2 DEF RedisTypeOK, KeysType
    <2>4. CASE j = Idle
      BY <1>i, <2>1, <2>3, <2>4
    <2>5. CASE j # Idle
      <3>1. \A u \in DOMAIN j.saved : j.saved[u].revision <= rev'
        BY <2>1, <2>5, WorkFacts DEF Without
      <3> QED
        BY <1>w, <2>1, <2>3, <2>5, <3>1, WorkFacts, TypeMoves
    <2> QED
      BY <2>4, <2>5
  <1>10. CASE Abandon(w)
    BY <1>10, <1>i, <1>k DEF Abandon, Moves
  <1> QED
    BY <1>1, <1>2, <1>3, <1>4, <1>5, <1>6, <1>7, <1>8, <1>9, <1>10 DEF Mutation, Starts

LEMMA SyncActionType ==
    ASSUME RedisTypeOK,
           \/ SnapshotKeys \/ ReadRecord \/ SnapshotRevision \/ ScanRevision \/ ScanLog \/ ScanApply
    PROVE  RedisTypeOK'
  <1>0. UNCHANGED <<keys, job>>
    BY DEF SnapshotKeys, ReadRecord, SnapshotRevision, ScanRevision, ScanLog, ScanApply
  <1>1. KeysType' /\ JobsType'
    BY <1>0 DEF RedisTypeOK, KeysType, JobsType, JobIsSane, keys
  <1> SUFFICES SyncType'
    BY <1>1 DEF RedisTypeOK
  <1>2. rev \in Nat /\ rev' = rev /\ rec \in [Token -> RowSet] /\ \A t \in Token : rec[t].revision <= rev
    BY <1>0 DEF RedisTypeOK, KeysType, keys
  <1>s. /\ up \in BOOLEAN /\ cursor \in 0 .. rev /\ slot \in [Token -> RowSet]
        /\ top \in 0 .. rev /\ pending \subseteq Token /\ DOMAIN seen \subseteq Token
        /\ \A t \in DOMAIN seen : seen[t] \in RowSet /\ seen[t].revision <= rev
        /\ seen \in Part(Token, RowSet)
    <2>1. seen \in Part(Token, RowSet)
      BY DEF RedisTypeOK, SyncType
    <2>2. DOMAIN seen \subseteq Token /\ \A t \in DOMAIN seen : seen[t] \in RowSet
      BY <2>1, PartFacts
    <2> QED
      BY <2>1, <2>2 DEF RedisTypeOK, SyncType
  <1>e. <<>> \in Part(Token, RowSet) /\ DOMAIN <<>> = {}
    BY PartEmpty
  <1>3. CASE SnapshotKeys
    BY <1>2, <1>3, <1>s, <1>e DEF SnapshotKeys, SyncType, replica
  <1>4. CASE ReadRecord
    <2>1. PICK t \in pending : pending' = pending \ {t} /\ seen' = Put(seen, t, rec[t])
      BY <1>4 DEF ReadRecord, Put
    <2>2. Put(seen, t, rec[t]) \in Part(Token, RowSet)
      BY <1>2, <1>s, PartPut
    <2>3. \A u \in DOMAIN seen' : seen'[u].revision <= rev'
      BY <1>2, <1>s, <2>1 DEF Put
    <2> QED
      BY <1>2, <1>4, <1>s, <2>1, <2>2, <2>3 DEF ReadRecord, SyncType, replica, RedisTypeOK
  <1>5. CASE SnapshotRevision
    <2>1. Feed!NoRow \in RowSet
      BY DEF Feed!NoRow, RowSet
    <2>2. slot' \in [Token -> RowSet]
      BY <1>5, <1>s, <2>1 DEF SnapshotRevision
    <2>3. up' \in BOOLEAN
      BY <1>5 DEF SnapshotRevision
    <2>4. cursor' \in 0 .. rev' /\ top' \in 0 .. rev'
      BY <1>2, <1>5, <1>s DEF SnapshotRevision
    <2> QED
      BY <1>5, <1>s, <1>e, <2>2, <2>3, <2>4 DEF SnapshotRevision, SyncType
  <1>6. CASE ScanRevision
    BY <1>2, <1>6, <1>s DEF ScanRevision, SyncType, replica
  <1>7. CASE ScanLog
    BY <1>2, <1>7, <1>s DEF ScanLog, SyncType, replica
  <1>8. CASE ScanApply
    <2>1. Feed!NoRow \in RowSet
      BY DEF Feed!NoRow, RowSet
    <2>2. CASE Fresh = {}
      BY <1>2, <1>8, <1>s, <1>e, <2>2 DEF ScanApply, SyncType, Later
    <2>3. CASE Fresh # {}
      <3>1. PICK g \in {seen[t].revision : t \in Fresh} :
              slot' = [t \in Token |-> SlotAfter(t, g)] /\ cursor' = Later(cursor, g)
        BY <1>8, <2>3 DEF ScanApply
      <3>2. g \in 0 .. rev
        BY <1>2, <1>s DEF Fresh, RowSet
      <3>3. \A t \in Token : SlotAfter(t, g) \in RowSet
        BY <1>s, <2>1 DEF SlotAfter, Fresh
      <3>4. slot' \in [Token -> RowSet]
        BY <3>1, <3>3
      <3>5. cursor' \in 0 .. rev' /\ top' \in 0 .. rev'
        BY <1>2, <1>8, <1>s, <3>1, <3>2 DEF Later, ScanApply
      <3> QED
        BY <1>8, <1>s, <1>e, <3>4, <3>5 DEF ScanApply, SyncType
    <2> QED
      BY <2>2, <2>3
  <1> QED
    BY <1>3, <1>4, <1>5, <1>6, <1>7, <1>8

LEMMA RedisTypeStep == RedisTypeOK /\ [Next]_vars => RedisTypeOK'
  <1> SUFFICES ASSUME RedisTypeOK, [Next]_vars PROVE RedisTypeOK'
    OBVIOUS
  <1>1. CASE \E w \in Writer : Mutation(w)
    BY <1>1, MutationType
  <1>2. CASE SnapshotKeys \/ ReadRecord \/ SnapshotRevision \/ ScanRevision \/ ScanLog \/ ScanApply
    BY <1>2, SyncActionType
  <1>3. CASE UNCHANGED vars
    BY <1>3 DEF vars, keys, replica, scanner, RedisTypeOK, KeysType, JobsType, SyncType, JobIsSane
  <1> QED
    BY <1>1, <1>2, <1>3 DEF Next

LEMMA RedisTypeInit == Init => RedisTypeOK
  <1> SUFFICES ASSUME Init PROVE RedisTypeOK
    OBVIOUS
  <1>1. Feed!NoRow \in RowSet /\ Feed!NoRow.revision = 0
    BY DEF Feed!NoRow, RowSet
  <1>2. up \in BOOLEAN
    BY DEF Init, Feed!Init
  <1>3. KeysType
    BY <1>1 DEF Init, Feed!Init, KeysType
  <1>4. JobsType
    BY <1>3, IdleType, PartEmpty DEF Init, JobsType, JobIsSane, KeysType
  <1>5. SyncType
    BY <1>1, <1>2, <1>3, PartEmpty DEF Init, Feed!Init, SyncType, KeysType
  <1> QED
    BY <1>3, <1>4, <1>5 DEF RedisTypeOK

(* One mutation or the sync goroutine at a time.                             *)
LEMMA WriterSteps ==
    ASSUME ~Overlap, RedisTypeOK, OneAtATime, NEW w \in Writer, Mutation(w)
    PROVE  /\ \E j \in JobSet : Moves(w, j)
           /\ UNCHANGED <<replica, scanner>>
           /\ phase \in {"boot", "idle"}
           /\ \A v \in Writer : v # w => job[v].stage = "idle" /\ job'[v] = job[v]
           /\ Starts(w) \/ job[w].stage # "idle"
  <1>1. \E j \in JobSet : Moves(w, j)
    <2>1. CASE Starts(w)
      BY <2>1, MutationStarts DEF Begins, Moves
    <2>2. CASE Incr(w)
      BY <2>2, IncrMoves
    <2>3. CASE Look(w)
      BY <2>3, LookMoves
    <2>4. CASE Finish(w)
      BY <2>4, FinishMoves
    <2>5. CASE Write(w)
      BY <2>5, WriteMoves
    <2>6. CASE Index(w)
      BY <2>6, IndexMoves
    <2>7. CASE Log(w)
      BY <2>7, LogMoves
    <2>8. CASE Fail(w)
      BY <2>8, FailMoves
    <2>9. CASE Restore(w)
      BY <2>9, RestoreMoves
    <2>10. CASE Abandon(w)
      BY <2>10, IdleType DEF Abandon, Moves
    <2> QED
      BY <2>1, <2>2, <2>3, <2>4, <2>5, <2>6, <2>7, <2>8, <2>9, <2>10 DEF Mutation, Starts
  <1>2. UNCHANGED <<replica, scanner>>
    BY DEF Mutation, UpsertAccounts, PatchAccounts, DeleteAccounts, ReplacePool, Start, Incr, Look,
           Finish, Write, Index, Log, Fail, Restore, Abandon
  <1>3. Starts(w) \/ job[w].stage # "idle"
    BY DEF Mutation, Starts, Incr, Look, Finish, Write, Index, Log, Fail, Restore, Abandon
  <1>4. Starts(w) => ~Busy
    BY DEF Starts, UpsertAccounts, PatchAccounts, DeleteAccounts, ReplacePool, Start, MayStart
  <1>5. phase \in {"boot", "idle"} /\ \A v \in Writer : v # w => job[v].stage = "idle"
    BY <1>3, <1>4 DEF Busy, OneAtATime
  <1>6. \A v \in Writer : v # w => job'[v] = job[v]
    BY <1>1, JobMoves DEF Moves, RedisTypeOK, JobsType
  <1> QED
    BY <1>1, <1>2, <1>3, <1>5, <1>6

LEMMA SyncSteps ==
    ASSUME ~Overlap, RedisTypeOK, OneAtATime,
           \/ SnapshotKeys \/ ReadRecord \/ SnapshotRevision \/ ScanRevision \/ ScanLog \/ ScanApply
    PROVE  UNCHANGED <<keys, job>> /\ \A w \in Writer : job[w].stage = "idle"
  <1>1. UNCHANGED <<keys, job>>
    BY DEF SnapshotKeys, ReadRecord, SnapshotRevision, ScanRevision, ScanLog, ScanApply
  <1>2. CASE SnapshotKeys \/ ScanRevision
    BY <1>1, <1>2 DEF SnapshotKeys, ScanRevision, MayStart, Busy
  <1>3. CASE ReadRecord \/ SnapshotRevision \/ ScanLog \/ ScanApply
    BY <1>1, <1>3 DEF ReadRecord, SnapshotRevision, ScanLog, ScanApply, OneAtATime
  <1> QED
    BY <1>2, <1>3

LEMMA OneAtATimeStep ==
    ASSUME ~Overlap, RedisTypeOK, OneAtATime, [Next]_vars PROVE OneAtATime'
  <1>1. ASSUME NEW w \in Writer, Mutation(w) PROVE OneAtATime'
    <2>1. phase' \in {"boot", "idle"}
      BY <1>1, WriterSteps DEF scanner
    <2>2. \A v \in Writer : v # w => job'[v].stage = "idle"
      BY <1>1, WriterSteps
    <2> QED
      BY <2>1, <2>2 DEF OneAtATime
  <1>2. CASE SnapshotKeys \/ ReadRecord \/ SnapshotRevision \/ ScanRevision \/ ScanLog \/ ScanApply
    BY <1>2, SyncSteps DEF OneAtATime
  <1>3. CASE UNCHANGED vars
    BY <1>3 DEF vars, scanner, OneAtATime
  <1> QED
    BY <1>1, <1>2, <1>3 DEF Next

(* The backups of a mutation and the rows it has not written cover the rows  *)
(* it began with.                                                            *)
LEMMA BackupsStep ==
    ASSUME ~Overlap, UndoInv, [Next]_vars PROVE \A w \in Writer : BackupsCover(job[w])'
  <1> USE DEF UndoInv
  <1>0. ASSUME NEW j, j.stage = "idle", BackupsCover(j) PROVE BackupsCover(j)'
    BY <1>0 DEF BackupsCover
  <1>i. BackupsCover(Idle)'
    BY IdleType, PartEmpty DEF BackupsCover
  <1>1. ASSUME NEW w \in Writer, Mutation(w) PROVE \A v \in Writer : BackupsCover(job[v])'
    <2>1. \A v \in Writer : v # w => BackupsCover(job[v])'
      BY <1>0, <1>1, WriterSteps DEF BackupsCover
    <2>a. ASSUME NEW j \in JobSet, Moves(w, j) PROVE job'[w] = j
      BY <2>a, JobMoves DEF Moves, RedisTypeOK, JobsType
    <2>b. /\ BackupsCover(job[w]) /\ rec \in [Token -> RowSet]
          /\ DOMAIN job[w].saved \subseteq Token /\ job[w].at \subseteq DOMAIN job[w].todo
          /\ DOMAIN job[w].todo \subseteq Token /\ (job[w].stage \in {"incr", "look"} => job[w].at = {})
      BY WorkFacts DEF RedisTypeOK, KeysType
    <2> SUFFICES BackupsCover(job[w])'
      BY <2>1
    <2>2. CASE Starts(w)
      <3>1. PICK j \in JobSet :
               /\ Begins(w, j)
               /\ j.op \in {"upsert", "patch", "delete", "replace"}
               /\ j.op # "replace" => j.saved = <<>>
               /\ j.op = "replace" => DOMAIN j.todo = DOMAIN j.saved
               /\ \A t \in DOMAIN j.saved : j.saved[t] = rec[t]
        BY <2>2, MutationStarts
      <3>2. job'[w] = j /\ rec' = rec
        BY <2>a, <3>1 DEF Begins, Moves, keys
      <3>3. BackupsCover(j)'
        BY <2>b, <3>1, <3>2 DEF BackupsCover, Begins
      <3> QED
        BY <3>2, <3>3 DEF BackupsCover
    <2>3. CASE Incr(w)
      <3>1. PICK j \in JobSet :
               /\ Moves(w, j) /\ job[w].stage = "incr" /\ j.stage = "look" /\ SameWork(j, job[w])
               /\ j.at = job[w].at /\ rec' = rec
        BY <2>3, IncrMoves
      <3> QED
        BY <2>a, <2>b, <3>1 DEF BackupsCover, SameWork
    <2>4. CASE Look(w)
      <3>1. PICK j \in JobSet, t \in DOMAIN job[w].todo :
               /\ Moves(w, j) /\ job[w].stage = "look"
               /\ j.op = job[w].op /\ j.from = job[w].from
               /\ \/ /\ j.stage = "look" /\ j.at = job[w].at
                     /\ j.todo = Without(job[w].todo, t) /\ j.saved = job[w].saved
                  \/ /\ j.stage = "write" /\ j.at = {t} /\ j.todo = job[w].todo
                     /\ j.saved = IF Upserts(job[w]) /\ t \notin DOMAIN job[w].saved
                                  THEN Put(job[w].saved, t, rec[t]) ELSE job[w].saved
               /\ rec' = rec
        BY <2>4, LookMoves DEF keys
      <3>2. CASE j.stage = "look"
        <4>1. DOMAIN j.todo \subseteq DOMAIN job[w].todo /\ j.saved = job[w].saved /\ j.at = {}
          BY <2>b, <3>1, <3>2 DEF Without
        <4> QED
          BY <2>a, <2>b, <3>1, <3>2, <4>1 DEF BackupsCover
      <3>3. CASE j.stage = "write"
        <4>1. j.at = {t} /\ j.todo = job[w].todo
              /\ j.saved = IF Upserts(job[w]) /\ t \notin DOMAIN job[w].saved
                           THEN Put(job[w].saved, t, rec[t]) ELSE job[w].saved
          BY <3>1, <3>3
        <4>2. CASE Upserts(job[w]) /\ t \notin DOMAIN job[w].saved
          <5>1. /\ DOMAIN j.saved = DOMAIN job[w].saved \cup {t}
                /\ j.saved[t] = rec[t] /\ \A u \in DOMAIN job[w].saved : j.saved[u] = job[w].saved[u]
            BY <4>1, <4>2 DEF Put
          <5>2. rec[t] = job[w].from[t]
            BY <2>b, <3>1, <4>2 DEF BackupsCover, Upserts
          <5>3. BackupsCover(j)'
            BY <2>b, <3>1, <3>3, <4>1, <4>2, <5>1, <5>2 DEF BackupsCover, Upserts
          <5> QED
            BY <2>a, <3>1, <5>3 DEF BackupsCover
        <4>3. CASE ~(Upserts(job[w]) /\ t \notin DOMAIN job[w].saved)
          BY <2>a, <2>b, <3>1, <3>3, <4>1, <4>3 DEF BackupsCover, Upserts
        <4> QED
          BY <4>2, <4>3
      <3> QED
        BY <3>1, <3>2, <3>3
    <2>5. CASE Finish(w)
      <3>1. PICK j \in JobSet :
               /\ Moves(w, j) /\ job[w].stage = "look"
               /\ \/ j = Idle
                  \/ /\ job[w].op = "replace" /\ j.op = "replaced" /\ j.stage = "incr"
                     /\ j.saved = job[w].saved /\ j.from = job[w].from /\ j.at = job[w].at
               /\ rec' = rec
        BY <2>5, FinishMoves DEF keys
      <3>2. CASE j = Idle
        BY <1>i, <2>a, <3>1, <3>2 DEF BackupsCover
      <3>3. CASE j # Idle
        BY <2>a, <2>b, <3>1, <3>3 DEF BackupsCover
      <3> QED
        BY <3>2, <3>3
    <2>6. CASE Write(w)
      <3>1. PICK j \in JobSet, t \in job[w].at :
               /\ Moves(w, j) /\ job[w].stage = "write" /\ j.stage = "index" /\ SameWork(j, job[w])
               /\ j.at = job[w].at /\ rec' = [rec EXCEPT ![t] = Written(job[w], t)]
        BY <2>6, WriteMoves
      <3>2. job[w].op \notin {"patch", "delete"} => t \in DOMAIN job[w].saved
        <4>1. job[w] \in JobSet
          BY WorkFacts
        <4>2. job[w].op \in {"none", "upsert", "patch", "delete", "replace", "replaced"}
          BY <4>1, JobFields
        <4> QED
          BY <2>b, <3>1, <4>2 DEF BackupsCover
      <3>3. \A u \in Token : u # t => rec'[u] = rec[u]
        BY <2>b, <3>1
      <3> QED
        BY <2>a, <2>b, <3>1, <3>2, <3>3 DEF BackupsCover, SameWork
    <2>7. CASE Index(w)
      <3>1. PICK j \in JobSet :
               /\ Moves(w, j) /\ job[w].stage = "index" /\ j.stage = "log" /\ SameWork(j, job[w])
               /\ j.at = job[w].at /\ rec' = rec
        BY <2>7, IndexMoves
      <3> QED
        BY <2>a, <2>b, <3>1 DEF BackupsCover, SameWork
    <2>8. CASE Log(w)
      <3>1. PICK j \in JobSet, t \in job[w].at :
               /\ Moves(w, j) /\ job[w].stage = "log" /\ j.stage = "look" /\ j.at = {}
               /\ j.op = job[w].op /\ j.from = job[w].from
               /\ j.saved = job[w].saved /\ j.todo = Without(job[w].todo, t) /\ rec' = rec
        BY <2>8, LogMoves
      <3>2. DOMAIN j.todo \subseteq DOMAIN job[w].todo
        BY <3>1 DEF Without
      <3> QED
        BY <2>a, <2>b, <3>1, <3>2 DEF BackupsCover
    <2>9. CASE Fail(w)
      <3>1. PICK j \in JobSet :
               /\ Moves(w, j) /\ job[w].stage # "idle"
               /\ \/ j = Idle
                  \/ j.stage = "restore" /\ SameWork(j, job[w])
               /\ rec' = rec
        BY <2>9, FailMoves DEF keys
      <3>2. CASE j = Idle
        BY <1>i, <2>a, <3>1, <3>2 DEF BackupsCover
      <3>3. CASE j # Idle
        BY <2>a, <2>b, <3>1, <3>3 DEF BackupsCover, SameWork
      <3> QED
        BY <3>2, <3>3
    <2>10. CASE Restore(w)
      <3>1. PICK j \in JobSet, t \in DOMAIN job[w].saved :
               /\ Moves(w, j) /\ job[w].stage = "restore"
               /\ \/ j = Idle
                  \/ /\ j.stage = "restore" /\ j.saved = Without(job[w].saved, t)
                     /\ j.op = job[w].op /\ j.from = job[w].from
               /\ rec' = [rec EXCEPT ![t] = job[w].saved[t]]
        BY <2>10, RestoreMoves
      <3>2. CASE j = Idle
        BY <1>i, <2>a, <3>1, <3>2 DEF BackupsCover
      <3>3. CASE j # Idle
        <4>1. /\ DOMAIN j.saved = DOMAIN job[w].saved \ {t}
              /\ \A u \in DOMAIN j.saved : j.saved[u] = job[w].saved[u]
          BY <3>1, <3>3 DEF Without
        <4>2. rec'[t] = job[w].from[t] /\ \A u \in Token : u # t => rec'[u] = rec[u]
          BY <2>b, <3>1 DEF BackupsCover
        <4>3. job[w].op \notin {"none", "patch", "delete"}
          BY <2>b, <3>1, PartEmpty DEF BackupsCover
        <4>4. BackupsCover(j)'
          BY <2>b, <3>1, <3>3, <4>1, <4>2, <4>3 DEF BackupsCover
        <4> QED
          BY <2>a, <3>1, <4>4 DEF BackupsCover
      <3> QED
        BY <3>2, <3>3
    <2>11. CASE Abandon(w)
      <3>1. Moves(w, Idle)
        BY <2>11 DEF Abandon, Moves
      <3> QED
        BY <1>i, <2>a, <3>1, IdleType DEF BackupsCover
    <2> QED
      BY <1>1, <2>2, <2>3, <2>4, <2>5, <2>6, <2>7, <2>8, <2>9, <2>10, <2>11 DEF Mutation, Starts
  <1>2. CASE SnapshotKeys \/ ReadRecord \/ SnapshotRevision \/ ScanRevision \/ ScanLog \/ ScanApply
    BY <1>2, SyncSteps DEF BackupsCover, keys
  <1>3. CASE UNCHANGED vars
    BY <1>3 DEF vars, keys, BackupsCover
  <1> QED
    BY <1>1, <1>2, <1>3 DEF Next

LEMMA UndoStep == ASSUME ~Overlap PROVE UndoInv /\ [Next]_vars => UndoInv'
  BY RedisTypeStep, OneAtATimeStep, BackupsStep DEF UndoInv

LEMMA UndoInit == Init => UndoInv
  <1> SUFFICES ASSUME Init PROVE UndoInv
    OBVIOUS
  <1>1. \A w \in Writer : job[w] = Idle
    BY DEF Init
  <1>2. BackupsCover(Idle)
    BY IdleType, PartEmpty DEF BackupsCover
  <1> QED
    BY <1>1, <1>2, RedisTypeInit, IdleType DEF UndoInv, OneAtATime, BackupsCover

(* The last token that is put back is the last one that differed.            *)
LEMMA UndoActs == ASSUME UndoInv, [Next]_vars PROVE UndoRestores
  <1> SUFFICES ASSUME NEW w \in Writer, Restore(w), job'[w] = Idle PROVE rec' = job[w].from
    BY DEF UndoRestores
  <1>1. PICK j \in JobSet, t \in DOMAIN job[w].saved :
           /\ Moves(w, j) /\ job[w].stage = "restore"
           /\ \/ DOMAIN job[w].saved = {t}
              \/ j.stage = "restore"
           /\ rec' = [rec EXCEPT ![t] = job[w].saved[t]]
    BY RestoreMoves DEF UndoInv
  <1>2. j = Idle
    BY <1>1, JobMoves DEF Moves, UndoInv, RedisTypeOK, JobsType
  <1>3. DOMAIN job[w].saved = {t} /\ t \in Token
    BY <1>1, <1>2, IdleType, WorkFacts DEF UndoInv
  <1>4. BackupsCover(job[w]) /\ job[w].op \notin {"none", "patch", "delete"}
    BY <1>1, <1>3, PartEmpty DEF UndoInv, BackupsCover
  <1>5. rec \in [Token -> RowSet] /\ job[w].from \in [Token -> RowSet]
    BY <1>1, <1>4 DEF UndoInv, RedisTypeOK, KeysType, BackupsCover
  <1>6. rec'[t] = job[w].from[t] /\ \A u \in Token : u # t => rec'[u] = job[w].from[u]
    BY <1>1, <1>3, <1>4, <1>5 DEF BackupsCover
  <1> QED
    BY <1>1, <1>5, <1>6

(* Whatever command of an upsert or a ReplacePool fails, an undo that runs   *)
(* to the end leaves every row as it was when the mutation began, provided   *)
(* that mutations and synchronisation take turns (redis_mutations.go).       *)
THEOREM UndoIsComplete == ASSUME ~Overlap PROVE Spec => UndoComplete
  <1>1. UndoInv /\ [Next]_vars => [UndoRestores]_vars
    BY UndoActs
  <1> QED
    BY <1>1, UndoInit, UndoStep, PTL DEF Spec, UndoComplete

LEMMA TypeFollows == RedisTypeOK => TypeOK
  <1> SUFFICES ASSUME RedisTypeOK PROVE TypeOK
    OBVIOUS
  <1>1. Feed!TypeOK
    BY DEF RedisTypeOK, KeysType, SyncType, RowSet, Feed!TypeOK, Feed!Row
  <1>2. \A w \in Writer : job[w].revision <= rev /\ DOMAIN job[w].saved \subseteq Token
    BY WorkFacts
  <1>3. DOMAIN seen \subseteq Token
    <2>1. seen \in Part(Token, RowSet)
      BY DEF RedisTypeOK, SyncType
    <2> QED
      BY <2>1, PartFacts
  <1> QED
    BY <1>1, <1>2, <1>3 DEF RedisTypeOK, KeysType, SyncType, TypeOK

(* Every command of the repository and every step of the sync goroutine      *)
(* keeps the types, whatever overlaps and whatever fails.                    *)
THEOREM TypeCorrect == Spec => []TypeOK
  BY TypeFollows, RedisTypeInit, RedisTypeStep, PTL DEF Spec

(* While no command fails.  First the sync goroutine.                        *)
LEMMA SyncKeepsSerial ==
    ASSUME ~Overlap, SerialInv,
           \/ SnapshotKeys \/ ReadRecord \/ SnapshotRevision \/ ScanRevision \/ ScanLog \/ ScanApply
    PROVE  /\ RowsAreReal' /\ LogFollows' /\ ReadsAreTrue' /\ WritersAreAhead'
           /\ SyncComplete' /\ PoolSetCovers'
  <1> USE DEF SerialInv
  <1>1. UNCHANGED <<rev, rec, log, pools, job>> /\ \A w \in Writer : job[w].stage = "idle"
    BY SyncSteps DEF keys
  <1>2. RowsAreReal' /\ LogFollows' /\ PoolSetCovers'
    BY <1>1 DEF RowsAreReal, LogFollows, PoolSetCovers
  <1>3. WritersAreAhead'
    BY <1>1 DEF WritersAreAhead, WriterIsAhead
  <1>t. /\ rec \in [Token -> RowSet] /\ slot \in [Token -> RowSet] /\ cursor \in Nat /\ rev \in Nat /\ top \in Nat
        /\ DOMAIN seen \subseteq Token /\ pending \subseteq Token
        /\ \A t \in Token : rec[t].revision \in Nat /\ rec[t].revision <= rev
    <2>1. seen \in Part(Token, RowSet)
      BY DEF RedisTypeOK, SyncType
    <2>2. DOMAIN seen \subseteq Token
      BY <2>1, PartFacts
    <2> QED
      BY <2>2 DEF RedisTypeOK, KeysType, SyncType, RowSet
  <1>e. DOMAIN <<>> = {}
    BY PartEmpty
  <1>4. CASE SnapshotKeys
    <2>1. ReadsAreTrue'
      BY <1>1, <1>4, <1>e, <1>t DEF SnapshotKeys, ReadsAreTrue, replica
    <2>2. SyncComplete'
      BY <1>1, <1>4 DEF SnapshotKeys, replica, SyncComplete, Feed!SyncComplete, Feed!Reflects
    <2> QED
      BY <1>2, <1>3, <2>1, <2>2
  <1>5. CASE ReadRecord
    <2>0. PICK t \in pending : pending' = pending \ {t} /\ seen' = Put(seen, t, rec[t])
      BY <1>5 DEF ReadRecord, Put
    <2>1. DOMAIN seen' = DOMAIN seen \cup {t} /\ seen'[t] = rec[t] /\ \A u \in DOMAIN seen : u # t => seen'[u] = seen[u]
      BY <2>0 DEF Put
    <2>2. ReadsAreTrue'
      BY <1>1, <1>5, <2>0, <2>1 DEF ReadRecord, ReadsAreTrue, replica
    <2>3. SyncComplete'
      BY <1>1, <1>5 DEF ReadRecord, replica, SyncComplete, Feed!SyncComplete, Feed!Reflects
    <2> QED
      BY <1>2, <1>3, <2>2, <2>3
  <1>6. CASE SnapshotRevision
    <2>1. ReadsAreTrue'
      BY <1>6 DEF SnapshotRevision, ReadsAreTrue
    <2>2. ASSUME NEW t \in Token PROVE IF rec[t].life = "live" THEN slot'[t] = rec[t] ELSE slot'[t].life # "live"
      <3>1. t \in DOMAIN seen => seen[t] = rec[t]
        BY <1>6 DEF SnapshotRevision, ReadsAreTrue
      <3>2. rec[t].life # "none" => t \in DOMAIN seen
        BY <1>6 DEF SnapshotRevision, ReadsAreTrue
      <3>3. slot'[t] = IF t \in DOMAIN seen /\ seen[t].life = "live" THEN seen[t] ELSE Feed!NoRow
        BY <1>6 DEF SnapshotRevision
      <3> QED
        BY <3>1, <3>2, <3>3 DEF Feed!NoRow
    <2>3. SyncComplete'
      BY <1>1, <2>2 DEF SyncComplete, Feed!SyncComplete, Feed!Reflects
    <2> QED
      BY <1>2, <1>3, <2>1, <2>3
  <1>7. CASE ScanRevision
    <2>1. ReadsAreTrue'
      BY <1>1, <1>7 DEF ScanRevision, ReadsAreTrue, replica
    <2>2. SyncComplete'
      BY <1>1, <1>7 DEF ScanRevision, replica, SyncComplete, Feed!SyncComplete, Feed!Reflects
    <2> QED
      BY <1>2, <1>3, <2>1, <2>2
  <1>8. CASE ScanLog
    <2>1. \A t \in Token : log[t] = rec[t].revision
      BY <1>1 DEF LogFollows
    <2>2. ReadsAreTrue'
      BY <1>1, <1>8, <1>e, <2>1 DEF ScanLog, ReadsAreTrue, replica
    <2>3. SyncComplete'
      BY <1>1, <1>8 DEF ScanLog, replica, SyncComplete, Feed!SyncComplete, Feed!Reflects
    <2> QED
      BY <1>2, <1>3, <2>2, <2>3
  <1>9. CASE ScanApply
    <2>1. ReadsAreTrue'
      BY <1>9 DEF ScanApply, ReadsAreTrue
    <2>2. \A t \in DOMAIN seen : seen[t] = rec[t]
      BY <1>9 DEF ScanApply, ReadsAreTrue
    <2>3. \A t \in Token : cursor < rec[t].revision <=> t \in Fresh
      <3>1. \A t \in Token : cursor < rec[t].revision => t \in DOMAIN seen
        BY <1>9 DEF ScanApply, ReadsAreTrue
      <3>2. \A t \in Token : cursor < rec[t].revision => rec[t].life # "none"
        BY <1>t DEF RowsAreReal
      <3> QED
        BY <1>t, <2>2, <3>1, <3>2 DEF Fresh
    <2>4. ASSUME NEW t \in Token, up, rec[t].revision <= cursor'
          PROVE  IF rec[t].life = "live" THEN slot'[t] = rec[t] ELSE slot'[t].life # "live"
      <3>0. rec[t].revision <= cursor =>
              IF rec[t].life = "live" THEN slot[t] = rec[t] ELSE slot[t].life # "live"
        BY <2>4 DEF SyncComplete, Feed!SyncComplete, Feed!Reflects
      <3>1. CASE Fresh = {}
        <4>1. slot' = slot /\ rec[t].revision <= cursor
          BY <1>9, <1>t, <2>3, <3>1 DEF ScanApply
        <4> QED
          BY <3>0, <4>1
      <3>2. CASE Fresh # {}
        <4>1. PICK g \in {seen[u].revision : u \in Fresh} :
                /\ \A u \in Fresh : g <= seen[u].revision
                /\ slot' = [u \in Token |-> SlotAfter(u, g)] /\ cursor' = Later(cursor, g)
          BY <1>9, <3>2 DEF ScanApply
        <4>2. \A u \in Fresh : seen[u] = rec[u] /\ u \in Token
          BY <1>t, <2>2 DEF Fresh
        <4>3. g \in Nat /\ cursor < g /\ cursor' = g
          BY <1>t, <2>3, <4>1, <4>2 DEF Later
        <4>4. slot'[t] = SlotAfter(t, g)
          BY <4>1
        <4>5. CASE rec[t].revision <= cursor
          <5>1. t \notin Fresh
            BY <1>t, <2>3, <4>5
          <5>2. slot'[t] = slot[t]
            BY <4>4, <5>1 DEF SlotAfter
          <5> QED
            BY <3>0, <4>5, <5>2
        <4>6. CASE ~(rec[t].revision <= cursor)
          <5>1. t \in Fresh /\ rec[t].revision = g /\ seen[t] = rec[t]
            BY <1>t, <2>3, <2>4, <4>1, <4>2, <4>3, <4>6
          <5>2. slot'[t] = IF rec[t].life = "deleted" /\ slot[t].life = "none" THEN Feed!NoRow ELSE rec[t]
            BY <4>4, <5>1 DEF SlotAfter
          <5> QED
            BY <5>2 DEF Feed!NoRow
        <4> QED
          BY <4>5, <4>6
      <3> QED
        BY <3>1, <3>2
    <2>5. SyncComplete'
      <3>1. up' = up
        BY <1>9 DEF ScanApply
      <3> QED
        BY <1>1, <2>4, <3>1 DEF SyncComplete, Feed!SyncComplete, Feed!Reflects
    <2> QED
      BY <1>2, <1>3, <2>1, <2>5
  <1> QED
    BY <1>4, <1>5, <1>6, <1>7, <1>8, <1>9

(* Then the mutations: rows change only ahead of the cursor.                 *)
LEMMA WriterKeepsSerial ==
    ASSUME ~Overlap, ~Faults, SerialInv, NEW w \in Writer, Mutation(w)
    PROVE  /\ RowsAreReal' /\ LogFollows' /\ ReadsAreTrue' /\ WritersAreAhead'
           /\ SyncComplete' /\ PoolSetCovers'
  <1> USE DEF SerialInv
  <1>1. /\ UNCHANGED <<up, cursor, slot, phase, top, pending, seen>> /\ phase \in {"boot", "idle"}
        /\ \A v \in Writer : v # w => job[v].stage = "idle" /\ job'[v] = job[v]
    BY WriterSteps DEF replica, scanner
  <1>2. ReadsAreTrue'
    BY <1>1 DEF ReadsAreTrue
  <1>t. /\ job[w] \in JobSet /\ WriterIsAhead(job[w]) /\ rec \in [Token -> RowSet]
        /\ cursor \in Nat /\ rev \in Nat /\ cursor <= rev /\ log \in [Token -> 0 .. rev]
        /\ pools \in [Pool -> SUBSET Token]
        /\ DOMAIN job[w].todo \subseteq Token /\ job[w].at \subseteq DOMAIN job[w].todo
        /\ (job[w].stage \in {"incr", "look"} => job[w].at = {}) /\ \A t, u \in job[w].at : t = u
    BY WorkFacts DEF RedisTypeOK, KeysType, SyncType, WritersAreAhead
  <1>o. ASSUME NEW j, job'[w] = j, WriterIsAhead(j)' PROVE WritersAreAhead'
    <2>1. ASSUME NEW v \in Writer, v # w PROVE WriterIsAhead(job[v])'
      <3>1. job'[v] = job[v] /\ job[v].stage = "idle" /\ WriterIsAhead(job[v])
        BY <1>1, <2>1 DEF WritersAreAhead
      <3> QED
        BY <3>1 DEF WriterIsAhead
    <2>2. WriterIsAhead(job[w])'
      BY <1>o DEF WriterIsAhead
    <2> QED
      BY <2>1, <2>2 DEF WritersAreAhead
  <1>a. ASSUME NEW j \in JobSet, Moves(w, j) PROVE job'[w] = j
    BY <1>a, JobMoves DEF Moves, RedisTypeOK, JobsType
  <1>r. ASSUME rec' = rec, UNCHANGED cursor
        PROVE  RowsAreReal' /\ SyncComplete'
    BY <1>1, <1>r DEF RowsAreReal, SyncComplete, Feed!SyncComplete, Feed!Reflects
  (* The steps before and after those that touch a row.                      *)
  <1>q. ASSUME rec' = rec, log' = log, pools' = pools, job[w].stage \notin {"index", "log"}
        PROVE  RowsAreReal' /\ SyncComplete' /\ LogFollows' /\ PoolSetCovers'
    <2>1. \A t \in Token : log[t] = rec[t].revision
      BY <1>1, <1>q DEF LogFollows
    <2>2. \A t \in Token : rec[t].life = "live" => t \in pools[rec[t].pool]
      BY <1>1, <1>q DEF PoolSetCovers
    <2> QED
      BY <1>1, <1>q, <1>r, <2>1, <2>2 DEF LogFollows, PoolSetCovers
  <1>3. CASE Starts(w)
    <2>1. PICK j \in JobSet :
             /\ Begins(w, j)
             /\ j.op \in {"upsert", "patch", "delete", "replace"}
             /\ j.op \in {"upsert", "patch"} => \A t \in DOMAIN j.todo : j.todo[t] \in Pool
      BY <1>3, MutationStarts
    <2>2. job'[w] = j /\ j.stage = "incr" /\ UNCHANGED <<rec, log, pools>> /\ job[w].stage = "idle"
      BY <1>a, <2>1 DEF Begins, Moves, keys
    <2>3. WriterIsAhead(j)'
      BY <2>1, <2>2 DEF WriterIsAhead
    <2> QED
      BY <1>2, <1>o, <1>q, <2>2, <2>3
  <1>4. CASE Incr(w)
    <2>1. PICK j \in JobSet :
             /\ Moves(w, j) /\ job[w].stage = "incr" /\ j.stage = "look" /\ SameWork(j, job[w])
             /\ j.revision = rev + 1 /\ UNCHANGED <<rec, log, pools>>
      BY <1>4, IncrMoves
    <2>2. WriterIsAhead(j)'
      BY <1>1, <1>t, <2>1 DEF WriterIsAhead, SameWork
    <2> QED
      BY <1>2, <1>a, <1>o, <1>q, <2>1, <2>2
  <1>5. CASE Look(w)
    <2>1. PICK j \in JobSet, t \in DOMAIN job[w].todo :
             /\ Moves(w, j) /\ job[w].stage = "look" /\ j.stage \in {"look", "write"}
             /\ j.op = job[w].op /\ j.revision = job[w].revision
             /\ j.todo = job[w].todo \/ j.todo = Without(job[w].todo, t)
             /\ UNCHANGED <<rec, log, pools>>
      BY <1>5, LookMoves DEF keys
    <2>2. \A u \in DOMAIN j.todo : u \in DOMAIN job[w].todo /\ j.todo[u] = job[w].todo[u]
      BY <2>1 DEF Without
    <2>3. WriterIsAhead(j)'
      BY <1>1, <1>t, <2>1, <2>2 DEF WriterIsAhead
    <2> QED
      BY <1>2, <1>a, <1>o, <1>q, <2>1, <2>3
  <1>6. CASE Finish(w)
    <2>1. PICK j \in JobSet :
             /\ Moves(w, j) /\ job[w].stage = "look"
             /\ \/ j = Idle
                \/ j.op = "replaced" /\ j.stage = "incr" /\ j.todo = job[w].after
             /\ UNCHANGED <<rec, log, pools>>
      BY <1>6, FinishMoves DEF keys
    <2>2. job[w].after \in Part(Token, Pool)
      BY <1>t, JobFields
    <2>3. \A t \in DOMAIN job[w].after : job[w].after[t] \in Pool
      BY <2>2, PartFacts
    <2>4. WriterIsAhead(j)'
      BY <2>1, <2>3, IdleType, PartEmpty DEF WriterIsAhead
    <2> QED
      BY <1>2, <1>a, <1>o, <1>q, <2>1, <2>4
  <1>7. CASE Write(w)
    <2>1. PICK j \in JobSet, t \in job[w].at :
             /\ Moves(w, j) /\ job[w].stage = "write" /\ j.stage = "index" /\ SameWork(j, job[w])
             /\ j.revision = job[w].revision /\ j.at = job[w].at
             /\ rec' = [rec EXCEPT ![t] = Written(job[w], t)]
             /\ UNCHANGED <<log, pools>>
      BY <1>7, WriteMoves
    <2>2. job'[w] = j /\ t \in Token /\ t \in DOMAIN job[w].todo /\ rec'[t] = Written(job[w], t)
          /\ \A u \in Token : u # t => rec'[u] = rec[u]
      BY <1>a, <1>t, <2>1
    <2>3. rec'[t].revision = job[w].revision /\ cursor < job[w].revision /\ job[w].revision \in Nat
      BY <1>t, <2>1, <2>2, WorkFacts DEF Written, Row, WriterIsAhead
    <2>4. /\ rec'[t].life # "none" /\ (rec'[t].life = "live" => rec'[t].pool \in Pool)
          /\ job[w].op \in {"delete", "replace"} => rec'[t].life = "deleted"
          /\ job[w].op \in {"upsert", "replaced"} => rec'[t].pool = job[w].todo[t]
      <3>1. job[w].op \in {"upsert", "patch", "delete", "replace", "replaced"}
        BY <1>t, <2>1, JobFields DEF WriterIsAhead
      <3>2. job[w].op \in {"upsert", "patch", "replaced"} => job[w].todo[t] \in Pool
        BY <1>t, <2>2 DEF WriterIsAhead
      <3> QED
        BY <2>2, <3>1, <3>2 DEF Written, Row, Upserts, Deletes
    <2>5. WriterIsAhead(j)'
      <3>1. \A u \in job[w].at : u = t
        BY <1>t
      <3> QED
        BY <1>1, <1>t, <2>1, <2>3, <2>4, <3>1 DEF WriterIsAhead, SameWork
    <2>6. RowsAreReal'
      BY <2>2, <2>4 DEF RowsAreReal
    <2>7. LogFollows'
      BY <1>1, <2>1, <2>2 DEF LogFollows
    <2>8. PoolSetCovers'
      BY <1>1, <2>1, <2>2 DEF PoolSetCovers
    <2>9. SyncComplete'
      <3> SUFFICES ASSUME NEW u \in Token, up, rec'[u].revision <= cursor
                   PROVE  IF rec'[u].life = "live" THEN slot[u] = rec'[u] ELSE slot[u].life # "live"
        BY <1>1 DEF SyncComplete, Feed!SyncComplete, Feed!Reflects
      <3>1. u # t
        BY <1>t, <2>3
      <3>2. rec'[u] = rec[u]
        BY <2>2, <3>1
      <3> QED
        BY <3>2 DEF SyncComplete, Feed!SyncComplete, Feed!Reflects
    <2> QED
      BY <1>2, <1>o, <2>2, <2>5, <2>6, <2>7, <2>8, <2>9
  <1>8. CASE Index(w)
    <2>1. PICK j \in JobSet, t \in job[w].at :
             /\ Moves(w, j) /\ job[w].stage = "index" /\ j.stage = "log" /\ SameWork(j, job[w])
             /\ j.revision = job[w].revision /\ j.at = job[w].at
             /\ pools' = IF Deletes(job[w]) \/ (~Upserts(job[w]) /\ rec[t].life # "live") THEN pools
                         ELSE [pools EXCEPT ![IF Upserts(job[w]) THEN job[w].todo[t] ELSE rec[t].pool] = @ \cup {t}]
             /\ UNCHANGED <<rec, log>>
      BY <1>8, IndexMoves
    <2>2. job'[w] = j /\ t \in Token /\ \A u \in job[w].at : u = t
      BY <1>a, <1>t, <2>1
    <2>3. WriterIsAhead(j)'
      BY <1>1, <1>t, <2>1 DEF WriterIsAhead, SameWork
    <2>4. LogFollows'
      BY <1>1, <2>1, <2>2 DEF LogFollows
    <2>5. PoolSetCovers'
      <3> SUFFICES ASSUME NEW u \in Token, rec[u].life = "live" PROVE u \in pools'[rec[u].pool]
        BY <2>1 DEF PoolSetCovers
      <3>0. rec[u].pool \in Pool
        BY DEF RowsAreReal
      <3>1. CASE u = t
        <4>1. ~Deletes(job[w]) /\ (Upserts(job[w]) => rec[t].pool = job[w].todo[t])
          BY <1>t, <2>1, <3>1 DEF WriterIsAhead, Deletes, Upserts
        <4>2. pools' = [pools EXCEPT ![rec[t].pool] = @ \cup {t}]
          BY <2>1, <3>1, <4>1
        <4> QED
          BY <1>t, <3>0, <3>1, <4>2
      <3>2. CASE u # t
        <4>1. u \in pools[rec[u].pool]
          BY <1>1, <2>2, <3>2 DEF PoolSetCovers
        <4>2. \A p \in Pool : pools[p] \subseteq pools'[p]
          BY <1>t, <2>1
        <4> QED
          BY <3>0, <4>1, <4>2
      <3> QED
        BY <3>1, <3>2
    <2> QED
      BY <1>1, <1>2, <1>o, <1>r, <2>1, <2>2, <2>3, <2>4, <2>5
  <1>9. CASE Log(w)
    <2>1. PICK j \in JobSet, t \in job[w].at :
             /\ Moves(w, j) /\ job[w].stage = "log" /\ j.stage = "look" /\ j.at = {}
             /\ j.op = job[w].op /\ j.revision = job[w].revision
             /\ j.todo = Without(job[w].todo, t)
             /\ log' = [log EXCEPT ![t] = job[w].revision]
             /\ UNCHANGED <<rec, pools>>
      BY <1>9, LogMoves
    <2>2. job'[w] = j /\ t \in Token /\ \A u \in job[w].at : u = t
      BY <1>a, <1>t, <2>1
    <2>3. \A u \in DOMAIN j.todo : u \in DOMAIN job[w].todo /\ j.todo[u] = job[w].todo[u]
      BY <2>1 DEF Without
    <2>4. WriterIsAhead(j)'
      BY <1>1, <1>t, <2>1, <2>3 DEF WriterIsAhead
    <2>5. \A u \in Token : log'[u] = rec[u].revision
      <3>1. rec[t].revision = job[w].revision
        BY <1>t, <2>1 DEF WriterIsAhead
      <3>2. \A u \in Token : u # t => log[u] = rec[u].revision
        BY <1>1, <2>2 DEF LogFollows
      <3> QED
        BY <1>t, <2>1, <2>2, <3>1, <3>2
    <2>6. LogFollows'
      BY <2>1, <2>5 DEF LogFollows
    <2>7. PoolSetCovers'
      BY <1>1, <2>1 DEF PoolSetCovers
    <2> QED
      BY <1>1, <1>2, <1>o, <1>r, <2>1, <2>2, <2>4, <2>6, <2>7
  <1>10. ~Fail(w) /\ ~Abandon(w) /\ ~Restore(w)
    BY <1>t DEF Fail, Abandon, Restore, WriterIsAhead
  <1> QED
    BY <1>3, <1>4, <1>5, <1>6, <1>7, <1>8, <1>9, <1>10 DEF Mutation, Starts

LEMMA SerialStep == ASSUME ~Overlap, ~Faults PROVE SerialInv /\ [Next]_vars => SerialInv'
  <1> SUFFICES ASSUME SerialInv, [Next]_vars PROVE SerialInv'
    OBVIOUS
  <1>1. RedisTypeOK' /\ OneAtATime'
    BY RedisTypeStep, OneAtATimeStep DEF SerialInv
  <1>2. CASE \E w \in Writer : Mutation(w)
    BY <1>1, <1>2, WriterKeepsSerial DEF SerialInv
  <1>3. CASE SnapshotKeys \/ ReadRecord \/ SnapshotRevision \/ ScanRevision \/ ScanLog \/ ScanApply
    BY <1>1, <1>3, SyncKeepsSerial DEF SerialInv
  <1>4. CASE UNCHANGED vars
    BY <1>1, <1>4 DEF vars, keys, replica, scanner, SerialInv, RowsAreReal, LogFollows, ReadsAreTrue,
                      WritersAreAhead, WriterIsAhead, SyncComplete, Feed!SyncComplete, Feed!Reflects, PoolSetCovers
  <1> QED
    BY <1>2, <1>3, <1>4 DEF Next

LEMMA SerialInit == Init => SerialInv
  <1> SUFFICES ASSUME Init PROVE SerialInv
    OBVIOUS
  <1>1. \A w \in Writer : job[w] = Idle
    BY DEF Init
  <1>2. /\ up = FALSE /\ phase = "boot" /\ seen = <<>>
        /\ \A t \in Token : rec[t].life = "none" /\ rec[t].revision = 0 /\ log[t] = 0
    BY DEF Init, Feed!Init, Feed!NoRow
  <1>3. WritersAreAhead
    BY <1>1, IdleType, PartEmpty DEF WritersAreAhead, WriterIsAhead
  <1>4. RowsAreReal /\ LogFollows /\ ReadsAreTrue
    BY <1>2 DEF RowsAreReal, LogFollows, ReadsAreTrue
  <1>5. SyncComplete /\ PoolSetCovers
    BY <1>2 DEF SyncComplete, Feed!SyncComplete, PoolSetCovers
  <1> QED
    BY <1>1, <1>3, <1>4, <1>5, RedisTypeInit, IdleType DEF SerialInv, OneAtATime

(* Without faults and overlap the Redis repository keeps the promise of      *)
(* repository.go (every row behind the cursor of the directory is in its     *)
(* slot) and ReplacePool finds every live account of its pool.               *)
THEOREM SyncHolds == ASSUME ~Overlap, ~Faults PROVE Spec => []SyncIsSound
  <1>1. SerialInv => SyncComplete /\ PoolSetCovers
    BY DEF SerialInv
  <1> QED
    BY <1>1, SerialInit, SerialStep, TypeCorrect, PTL DEF Spec, SyncIsSound
=============================================================================
