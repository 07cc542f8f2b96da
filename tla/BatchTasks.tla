------------------------------ MODULE BatchTasks ------------------------------
(***************************************************************************)
(* Background tasks of the admin API (platform/runtime/task.go, batch.go,  *)
(* task_redis.go; products/web/admin/batch_*.go, tokens_import*.go,        *)
(* build_import_async.go, build_batch*.go).  A handler resolves its        *)
(* targets, registers a task and starts a runner; streams attach to the    *)
(* task and copies of it are written to Redis by goroutines of their own,  *)
(* in no particular order.                                                 *)
(***************************************************************************)
EXTENDS Naturals, Sequences, FiniteSets, Bags, SequencesExt

CONSTANTS
    Task,         \* tasks, in the order they may be created
    Listed,       \* account -> status in the repository when a handler looks
    Requests,     \* [kind, wants, all, pools]: what handlers are asked for
    ChunkSize,    \* adminTokensImportChunkSize
    Workers,      \* concurrency of a batch
    Watcher,      \* open streams
    QueueCap,     \* capacity of a stream's channel (200)
    RedisFaults   \* bound: snapshot writes that fail

VARIABLES
    tasks,        \* per task: see NoTask
    watchers,     \* per stream: [task, pc, queue, seen, missed]
    spawned,      \* per task: snapshot goroutines that have not read it yet
    copies,       \* bag of the [task, status, processed] that others are about to write
    persisted,    \* per task: [status, processed] in the Redis hash
    redisFaults

vars == <<tasks, watchers, spawned, copies, persisted, redisFaults>>

Kinds == {"nsfw", "refresh", "clear", "sync", "add", "replace",
          "buildImport", "billing", "renew", "cleanup"}
Pooled == {"nsfw", "refresh", "clear", "sync"}
Imports == {"add", "replace"}

\* A task that does not exist yet; "units" holds what each step of the runner
\* counts for, "stage" what a started step still has to do.
NoTask == [kind |-> "none", pc |-> "none", units |-> <<>>, next |-> 1, stage |-> <<>>,
           total |-> 0, ok |-> 0, fail |-> 0, final |-> "none",
           cancelled |-> FALSE, known |-> FALSE]

Processed(t) == tasks[t].ok + tasks[t].fail
SumOf(units) ==
    LET sum[i \in 0 .. Len(units)] == IF i = 0 THEN 0 ELSE sum[i - 1] + units[i]
    IN  sum[Len(units)]

-----------------------------------------------------------------------------
(* Targets of a request.                                                   *)

Manageable == {a \in DOMAIN Listed : Listed[a] \in {"active", "cooling"}}

\* adminBatchTokensOrAll: the tokens named, or every manageable one.
TokensOrAll(wants) == IF wants # {} THEN wants ELSE Manageable

\* adminBatchRefreshTokens: named tokens are filtered, none named is an error.
RefreshTokens(wants, all) == IF all THEN TokensOrAll({}) ELSE wants \cap Manageable

\* resolveBuildBatchTargets without a status filter.
BuildTargets(wants, all) ==
    {a \in DOMAIN Listed : IF wants # {} THEN a \in wants ELSE all \/ Listed[a] = "active"}

\* handleAdminBuildAccountsCleanup with its default mode.
CleanupTargets == {a \in DOMAIN Listed : Listed[a] = "expired"}

\* adminTokensRunAddImport: chunks of ChunkSize tokens, the last one shorter.
Chunks(n) ==
    [i \in 1 .. (n + ChunkSize - 1) \div ChunkSize |->
        IF i * ChunkSize <= n THEN ChunkSize ELSE n - (i - 1) * ChunkSize]

\* adminTokensPoolPayloadFromJSON: a map, in some order, of the pools that have
\* a token.
PoolPayload(pools) ==
    LET named == {p \in DOMAIN pools : pools[p] > 0}
    IN  [i \in 1 .. Cardinality(named) |-> pools[SetToSeq(named)[i]]]

Each(targets) == [i \in 1 .. Cardinality(targets) |-> 1]

UnitsOf(req) ==
    CASE req.kind \in {"nsfw", "clear", "sync"} -> Each(TokensOrAll(req.wants))
      [] req.kind = "refresh"               -> Each(RefreshTokens(req.wants, req.all))
      [] req.kind = "add"                   -> Chunks(Cardinality(req.wants))
      [] req.kind = "replace"               -> PoolPayload(req.pools)
      [] req.kind = "buildImport"           -> Each(req.wants)
      [] req.kind \in {"billing", "renew"}  -> Each(BuildTargets(req.wants, req.all))
      [] req.kind = "cleanup"               -> Each(CleanupTargets)

-----------------------------------------------------------------------------
(* Events.                                                                 *)

Final(type) == type \in {"done", "error", "cancelled"}

\* publish: every attached stream gets the event unless its channel is full;
\* "missed" remembers that the final event was dropped so.
Sent(t, type) ==
    [w \in Watcher |->
        IF watchers[w].task # t \/ watchers[w].pc \notin {"attached", "reading"}
        THEN watchers[w]
        ELSE IF Len(watchers[w].queue) < QueueCap
        THEN [watchers[w] EXCEPT !.queue = Append(@, type)]
        ELSE [watchers[w] EXCEPT !.missed = @ \/ Final(type)]]

\* RedisTaskSnapshotStore.Publish: one more goroutine.
Spawned(t) == [spawned EXCEPT ![t] = @ + 1]

\* CreateTask registers a task and publishes it without an event; the "sync"
\* dispatch runs the same items for the request itself, without a task.
CreateTask(t, req) ==
    LET units == UnitsOf(req) IN
    /\ tasks[t].pc = "none" /\ units # <<>>
    /\ tasks' = [tasks EXCEPT ![t] =
          [NoTask EXCEPT !.kind = req.kind, !.pc = "run", !.units = units,
                         !.stage = [i \in 1 .. Len(units) |-> "todo"],
                         !.total = SumOf(units), !.known = req.kind # "sync"]]
    /\ spawned' = IF req.kind = "sync" THEN spawned ELSE Spawned(t)
    /\ UNCHANGED <<watchers, copies, persisted, redisFaults>>

HandleNSFW(t, req)        == req.kind = "nsfw" /\ CreateTask(t, req)
HandleRefresh(t, req)     == req.kind = "refresh" /\ CreateTask(t, req)
HandleCacheClear(t, req)  == req.kind = "clear" /\ CreateTask(t, req)
HandleSync(t, req)        == req.kind = "sync" /\ CreateTask(t, req)
HandleImport(t, req)      == req.kind \in Imports /\ CreateTask(t, req)
HandleBuildImport(t, req) == req.kind = "buildImport" /\ CreateTask(t, req)
HandleBilling(t, req)     == req.kind = "billing" /\ CreateTask(t, req)
HandleRenew(t, req)       == req.kind = "renew" /\ CreateTask(t, req)
HandleCleanup(t, req)     == req.kind = "cleanup" /\ CreateTask(t, req)

-----------------------------------------------------------------------------
(* The runner.                                                             *)

Busy(t) == {i \in DOMAIN tasks[t].stage : tasks[t].stage[i] \in {"started", "recorded"}}
Limit(t) == IF tasks[t].kind \in Pooled THEN Workers ELSE 1

\* The loop takes the next item: runAdminBatchTask and runBatchChunk behind their
\* semaphore, the other runners one by one.  runBatchChunk may still start one
\* when its context is done and the semaphore is free: select picks either.
StartItem(t) ==
    LET i == tasks[t].next IN
    /\ tasks[t].pc = "run" /\ (tasks[t].cancelled => tasks[t].kind = "sync")
    /\ i <= Len(tasks[t].units) /\ Cardinality(Busy(t)) < Limit(t)
    /\ tasks' = [tasks EXCEPT ![t].next = i + 1, ![t].stage[i] = "started"]
    /\ UNCHANGED <<watchers, spawned, copies, persisted, redisFaults>>

\* runAdminBatchTaskItem leaves without a record once the task is cancelled.
SkipItem(t, i) ==
    /\ tasks[t].kind \in Pooled \ {"sync"} /\ tasks[t].cancelled
    /\ tasks[t].stage[i] = "started"
    /\ tasks' = [tasks EXCEPT ![t].stage[i] = "skipped"]
    /\ UNCHANGED <<watchers, spawned, copies, persisted, redisFaults>>

\* The item's own call: adminBatchNSFWOne, adminBatchRefreshOne,
\* adminBatchCacheClearOne, an upsert, a billing query, a renewal or a deletion.
\* An import has no failing items: its errors end the task.
Outcomes(kind) == IF kind \in Imports THEN {TRUE} ELSE BOOLEAN

\* Record, under the task's lock; its event is published after the unlock.
RecordItem(t, i, success) ==
    LET delta == tasks[t].units[i] IN
    /\ tasks[t].pc = "run" /\ tasks[t].stage[i] = "started"
    /\ success \in Outcomes(tasks[t].kind)
    /\ tasks' = [tasks EXCEPT ![t].stage[i] = "recorded",
                              ![t].ok = IF success THEN @ + delta ELSE @,
                              ![t].fail = IF success THEN @ ELSE @ + delta]
    /\ UNCHANGED <<watchers, spawned, copies, persisted, redisFaults>>

PublishItem(t, i) ==
    /\ tasks[t].stage[i] = "recorded"
    /\ tasks' = [tasks EXCEPT ![t].stage[i] = "over"]
    /\ watchers' = IF tasks[t].known THEN Sent(t, "progress") ELSE watchers
    /\ spawned' = IF tasks[t].known THEN Spawned(t) ELSE spawned
    /\ UNCHANGED <<copies, persisted, redisFaults>>

Finishes(t, type) ==
    /\ tasks' = [tasks EXCEPT ![t].pc = "publish", ![t].final = type]
    /\ UNCHANGED <<watchers, spawned, copies, persisted, redisFaults>>

AllStarted(t) == tasks[t].next > Len(tasks[t].units)

\* Faulty variant: the workers are not waited for.
FinishBatchAtOnce(t) ==
    /\ tasks[t].pc = "run" /\ tasks[t].kind \in Pooled
    /\ AllStarted(t) \/ tasks[t].cancelled
    /\ Finishes(t, IF tasks[t].cancelled THEN "cancelled" ELSE "done")

\* finishAdminBatchTask: a cancellation counts even when every item has run.
\* A cancelled request of the synchronous dispatch gets the context's error.
FinishBatch(t) ==
    /\ tasks[t].pc = "run" /\ tasks[t].kind \in Pooled
    /\ AllStarted(t) \/ tasks[t].cancelled
    /\ Busy(t) = {}
    /\ Finishes(t, IF ~tasks[t].cancelled THEN "done"
                   ELSE IF tasks[t].kind = "sync" /\ AllStarted(t) THEN "done"
                   ELSE IF tasks[t].kind = "sync" THEN "error" ELSE "cancelled")

\* The sequential runners look at the flag before an item, not after the last.
RunnerCancelled(t) ==
    /\ tasks[t].pc = "run" /\ tasks[t].kind \notin Pooled
    /\ tasks[t].cancelled /\ ~AllStarted(t) /\ Busy(t) = {}
    /\ Finishes(t, "cancelled")

\* runBuildAccountsImportTask, runBuildBillingBatch, runBuildRefreshBatch,
\* runBuildCleanupBatch.
FinishSequential(t) ==
    /\ tasks[t].pc = "run" /\ tasks[t].kind \notin Pooled \cup Imports
    /\ AllStarted(t) /\ Busy(t) = {}
    /\ Finishes(t, "done")

\* A chunk that cannot be read or written, also because the task's context is
\* cancelled, fails the whole import.
ImportFails(t, i) ==
    /\ tasks[t].pc = "run" /\ tasks[t].kind \in Imports /\ tasks[t].stage[i] = "started"
    /\ tasks' = [tasks EXCEPT ![t].pc = "publish", ![t].final = "error",
                              ![t].stage[i] = "skipped"]
    /\ UNCHANGED <<watchers, spawned, copies, persisted, redisFaults>>

\* adminTokensFinishImport: the refresh and the NSFW pass, either may fail.
FinishImport(t, type) ==
    /\ tasks[t].pc = "run" /\ tasks[t].kind \in Imports
    /\ AllStarted(t) /\ Busy(t) = {}
    /\ type \in {"done", "error"}
    /\ Finishes(t, type)

\* The final event's publish.
PublishFinal(t) ==
    /\ tasks[t].pc = "publish"
    /\ tasks' = [tasks EXCEPT ![t].pc = "over"]
    /\ watchers' = IF tasks[t].known THEN Sent(t, tasks[t].final) ELSE watchers
    /\ spawned' = IF tasks[t].known THEN Spawned(t) ELSE spawned
    /\ UNCHANGED <<copies, persisted, redisFaults>>

\* ExpireTask, 300 s after the runner's end.
ExpireTask(t) ==
    /\ tasks[t].pc = "over" /\ tasks[t].known
    /\ tasks' = [tasks EXCEPT ![t].known = FALSE]
    /\ UNCHANGED <<watchers, spawned, copies, persisted, redisFaults>>

\* handleAdminBatchCancel, or the client of a synchronous dispatch going away.
Cancel(t) ==
    /\ tasks[t].known \/ tasks[t].kind = "sync"
    /\ tasks[t].pc # "none" /\ ~tasks[t].cancelled
    /\ tasks' = [tasks EXCEPT ![t].cancelled = TRUE]
    /\ UNCHANGED <<watchers, spawned, copies, persisted, redisFaults>>

-----------------------------------------------------------------------------
(* Streams: handleAdminBatchStream and streamAdminBatchTask.               *)

Watches(w, pc, seen) ==
    watchers' = [watchers EXCEPT ![w].pc = pc, ![w].seen = seen]

Attach(w, t) ==
    /\ watchers[w].pc = "idle" /\ tasks[t].known
    /\ watchers' = [watchers EXCEPT ![w].pc = "attached", ![w].task = t]
    /\ UNCHANGED <<tasks, spawned, copies, persisted, redisFaults>>

\* Faulty variant: the stream waits for events right away.
LookForNothing(w) ==
    /\ watchers[w].pc = "attached"
    /\ Watches(w, "reading", "snapshot")
    /\ UNCHANGED <<tasks, spawned, copies, persisted, redisFaults>>

\* The snapshot is written out and the final event looked up after attaching.
LookForFinal(w) ==
    /\ watchers[w].pc = "attached"
    /\ LET final == tasks[watchers[w].task].final
       IN  IF Final(final) THEN Watches(w, "closed", final) ELSE Watches(w, "reading", "snapshot")
    /\ UNCHANGED <<tasks, spawned, copies, persisted, redisFaults>>

ReadEvent(w) ==
    LET event == Head(watchers[w].queue) IN
    /\ watchers[w].pc = "reading" /\ watchers[w].queue # <<>>
    /\ watchers' = [watchers EXCEPT ![w].queue = Tail(@), ![w].seen = event,
                                    ![w].pc = IF Final(event) THEN "closed" ELSE @]
    /\ UNCHANGED <<tasks, spawned, copies, persisted, redisFaults>>

\* The client goes away; Detach.
Disconnect(w) ==
    /\ watchers[w].pc = "reading"
    /\ watchers' = [watchers EXCEPT ![w].pc = "left", ![w].queue = <<>>]
    /\ UNCHANGED <<tasks, spawned, copies, persisted, redisFaults>>

\* A task unknown here, expired or of another process: the copy in Redis is all
\* the stream shows.
ShowPersisted(w, t) ==
    /\ watchers[w].pc = "idle" /\ persisted[t].status # "none"
    /\ watchers' = [watchers EXCEPT ![w].task = t, ![w].pc = "closed",
                                    ![w].seen = persisted[t].status]
    /\ UNCHANGED <<tasks, spawned, copies, persisted, redisFaults>>

-----------------------------------------------------------------------------
(* Copies in Redis.                                                        *)

\* RedisTaskSnapshotStore.write: task.Snapshot() under the lock ...
TakeSnapshot(t) ==
    /\ spawned[t] > 0
    /\ spawned' = [spawned EXCEPT ![t] = @ - 1]
    /\ copies' = copies (+) SetToBag({[task |-> t, processed |-> Processed(t),
           status |-> IF tasks[t].final = "none" THEN "running" ELSE tasks[t].final]})
    /\ UNCHANGED <<tasks, watchers, persisted, redisFaults>>

Ended(copy) == copies (-) SetToBag({copy})

\* ... and the HSET, over whatever is there.  No code reads the hash's events.
WriteSnapshot(copy) ==
    /\ persisted' = [persisted EXCEPT ![copy.task] =
          [status |-> copy.status, processed |-> copy.processed]]
    /\ copies' = Ended(copy)
    /\ UNCHANGED <<tasks, watchers, spawned, redisFaults>>

WriteFails(copy) ==
    /\ redisFaults < RedisFaults
    /\ redisFaults' = redisFaults + 1
    /\ copies' = Ended(copy)
    /\ UNCHANGED <<tasks, watchers, spawned, persisted>>

-----------------------------------------------------------------------------
Init ==
    /\ tasks = [t \in Task |-> NoTask]
    /\ watchers = [w \in Watcher |-> [task |-> "none", pc |-> "idle", queue |-> <<>>,
                                      seen |-> "none", missed |-> FALSE]]
    /\ copies = EmptyBag /\ spawned = [t \in Task |-> 0] /\ redisFaults = 0
    /\ persisted = [t \in Task |-> [status |-> "none", processed |-> 0]]

Handle(t, req) ==
    \/ HandleNSFW(t, req) \/ HandleRefresh(t, req) \/ HandleCacheClear(t, req)
    \/ HandleSync(t, req) \/ HandleImport(t, req) \/ HandleBuildImport(t, req)
    \/ HandleBilling(t, req) \/ HandleRenew(t, req) \/ HandleCleanup(t, req)

ItemStep(t, i) == \/ SkipItem(t, i) \/ PublishItem(t, i) \/ ImportFails(t, i)
                  \/ \E success \in BOOLEAN : RecordItem(t, i, success)

RunStep(t) ==
    \/ StartItem(t) \/ \E i \in DOMAIN tasks[t].stage : ItemStep(t, i)
    \/ FinishBatch(t) \/ RunnerCancelled(t) \/ FinishSequential(t)
    \/ \E type \in {"done", "error"} : FinishImport(t, type)
    \/ PublishFinal(t) \/ ExpireTask(t)

StreamStep(w) == LookForFinal(w) \/ ReadEvent(w)

Next ==
    \/ \E t \in Task, req \in Requests : Handle(t, req)
    \/ \E t \in Task : RunStep(t) \/ Cancel(t) \/ TakeSnapshot(t)
    \/ \E w \in Watcher : \/ StreamStep(w) \/ Disconnect(w)
                          \/ \E t \in Task : Attach(w, t) \/ ShowPersisted(w, t)
    \/ \E copy \in BagToSet(copies) : WriteSnapshot(copy) \/ WriteFails(copy)

Spec == Init /\ [][Next]_vars

-----------------------------------------------------------------------------
TypeOK ==
    /\ \A t \in Task : /\ tasks[t].kind \in Kinds \cup {"none"}
                       /\ tasks[t].pc \in {"none", "run", "publish", "over"}
                       /\ tasks[t].next \in 1 .. Len(tasks[t].units) + 1
    /\ \A w \in Watcher : Len(watchers[w].queue) <= QueueCap
    /\ redisFaults \in 0 .. RedisFaults

\* However items, cancellations and failures interleave, a task never counts more
\* than its total, and one that reports "done" has counted every token once: no
\* item is still running, lost or recorded twice when the final event is made.
TallyIsExact ==
    \A t \in Task : /\ Processed(t) <= tasks[t].total
                    /\ tasks[t].final = "done" => Processed(t) = tasks[t].total
                    /\ tasks[t].pc \in {"publish", "over"} => Busy(t) = {}

\* A stream that attached while the task was finishing cannot miss the end by
\* that: once the task is over, a stream that still reads has the final event as
\* the last one in its channel, unless just this event met a full channel.
FinalReachesStreams ==
    \A w \in Watcher :
        LET t == watchers[w].task IN
        (watchers[w].pc = "reading" /\ ~watchers[w].missed /\ tasks[t].pc = "over") =>
            /\ watchers[w].queue # <<>>
            /\ watchers[w].queue[Len(watchers[w].queue)] = tasks[t].final

\* No end is told that is not the task's: not in a stream, where nothing follows
\* it either, and not by a copy in Redis or on its way there, whose count is
\* then the final one.
EndsAreTrue ==
    /\ \A w \in Watcher :
          LET t == watchers[w].task
              queue == watchers[w].queue IN
          /\ Final(watchers[w].seen) => watchers[w].seen = tasks[t].final
          /\ \A i \in DOMAIN queue : Final(queue[i]) => i = Len(queue) /\ queue[i] = tasks[t].final
    /\ \A copy \in BagToSet(copies) :
          Final(copy.status) => /\ copy.status = tasks[copy.task].final
                                /\ copy.processed = Processed(copy.task)
    /\ \A t \in Task : Final(persisted[t].status) =>
          persisted[t].status = tasks[t].final /\ persisted[t].processed = Processed(t)

\* Every task ends and leaves the registry, cancelled or not.
TasksEnd == \A t \in Task : []<>(tasks[t].pc \in {"none", "over"} /\ ~tasks[t].known)

\* A stream on a process that knows the task is told its end, and no client is
\* told another.  That Redis tells the end at all is not promised: a copy taken
\* before it may be the last one written.
FinalIsKnown == TypeOK /\ FinalReachesStreams /\ EndsAreTrue
=============================================================================
