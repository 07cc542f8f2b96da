------------------------------ MODULE MediaCache ------------------------------
(***************************************************************************)
(* The local cache of images and videos (platform/storage/media_cache*.go) *)
(* for one media type: files in a directory, an SQLite index of their      *)
(* sizes, and a limit that the configuration may change.  With a limit     *)
(* every operation holds the mutex and the file lock; without one a save   *)
(* holds neither.  Files and rows are kept in the order of their times.    *)
(***************************************************************************)
EXTENDS Naturals, Sequences, FiniteSets

CONSTANTS
    Worker,       \* requests and admin handlers that use the cache
    Name,         \* file names
    Size,         \* name -> size
    Limits,       \* values of cache.local.*_max_mb, 0 is "no limit"
    MaxCacheOps,  \* bound: operations
    MaxIOFaults,  \* bound: failing file or database calls
    NoWorker      \* the lock is free

VARIABLES
    files,        \* names on disk by modification time
    rows,         \* names in the index by updated_at_ns
    parts,        \* temporary files, by the worker that writes them
    limit,        \* the configured limit
    lock,         \* holder of guard
    ops,          \* per worker: see Idle
    started,      \* the startup reconciliation has run
    broken,       \* a crash or a failure left work half done
    cacheOps, ioFaults

vars == <<files, rows, parts, limit, lock, ops, started, broken, cacheOps, ioFaults>>

Idle == [op |-> "none", pc |-> "idle", name |-> "none", guarded |-> FALSE,
         left |-> <<>>, usage |-> 0, max |-> 0, result |-> "none"]

In(x, seq) == \E i \in DOMAIN seq : seq[i] = x
\* The names of seq that are in S, in their order.
Kept(seq, S) ==
    LET kept[i \in 0 .. Len(seq)] ==
            IF i = 0 THEN <<>> ELSE IF seq[i] \in S THEN Append(kept[i - 1], seq[i]) ELSE kept[i - 1]
    IN  kept[Len(seq)]
Without(seq, x) == Kept(seq, Name \ {x})
Touched(seq, x) == Append(Without(seq, x), x)

UsageBytes(seq) ==
    LET sum[i \in 0 .. Len(seq)] == IF i = 0 THEN 0 ELSE sum[i - 1] + Size[seq[i]]
    IN  sum[Len(seq)]

LowWatermark(max) == (max * 60) \div 100

At(w, op, pc) == ops[w].op = op /\ ops[w].pc = pc
Goes(w, pc) == ops' = [ops EXCEPT ![w].pc = pc]

\* The operation returns; guard's function releases both locks.
Returns(w, result) ==
    /\ ops' = [ops EXCEPT ![w] = [Idle EXCEPT !.op = ops[w].op, !.name = ops[w].name,
                                              !.guarded = ops[w].guarded, !.result = result]]
    /\ lock' = IF lock = w THEN NoWorker ELSE lock

-----------------------------------------------------------------------------
Begins(w, op, n, guarded) ==
    /\ started /\ ops[w].pc = "idle" /\ cacheOps < MaxCacheOps
    /\ cacheOps' = cacheOps + 1
    /\ ops' = [ops EXCEPT ![w] = [Idle EXCEPT !.op = op, !.name = n, !.guarded = guarded,
                                              !.pc = IF guarded THEN "lock" ELSE "stat"]]

\* save reads the limit once; 0 takes the path without locks and index.
Save(w, n) ==
    /\ Begins(w, "save", n, limit > 0)
    /\ UNCHANGED <<files, rows, parts, limit, lock, started, broken, ioFaults>>

Delete(w, n) ==
    /\ Begins(w, "delete", n, TRUE)
    /\ UNCHANGED <<files, rows, parts, limit, lock, started, broken, ioFaults>>

Clear(w) ==
    /\ Begins(w, "clear", "none", TRUE)
    /\ UNCHANGED <<files, rows, parts, limit, lock, started, broken, ioFaults>>

\* updateAdminConfig and resetAdminConfig: the new limit holds at once, then the
\* cache is reconciled (not at all without a limit).
Configure(w, new) ==
    /\ new # limit /\ limit' = new
    /\ \/ new > 0 /\ Begins(w, "reconcile", "none", TRUE)
       \/ new = 0 /\ cacheOps < MaxCacheOps /\ cacheOps' = cacheOps + 1 /\ UNCHANGED ops
    /\ UNCHANGED <<files, rows, parts, lock, started, broken, ioFaults>>

\* defaultAppMainReconcileLocalMediaCache, before the server listens.
Startup(w) ==
    /\ ~started /\ started' = TRUE
    /\ ops' = [ops EXCEPT ![w] = IF limit > 0
          THEN [Idle EXCEPT !.op = "reconcile", !.pc = "lock", !.guarded = TRUE] ELSE Idle]
    /\ UNCHANGED <<files, rows, parts, limit, lock, broken, cacheOps, ioFaults>>

\* guard: the mutex of the process, then the file lock.
Lock(w) ==
    /\ ops[w].pc = "lock" /\ lock = NoWorker
    /\ lock' = w
    /\ Goes(w, IF ops[w].op = "save" THEN "stat" ELSE "work")
    /\ UNCHANGED <<files, rows, parts, limit, started, broken, cacheOps, ioFaults>>

-----------------------------------------------------------------------------
(* save, saveIndexed and writeIfMissing.                                   *)

SaveExisting(w) ==
    /\ At(w, "save", "stat") /\ In(ops[w].name, files)
    /\ IF ops[w].guarded THEN Goes(w, "row") /\ UNCHANGED lock ELSE Returns(w, "ok")
    /\ UNCHANGED <<files, rows, parts, limit, started, broken, cacheOps, ioFaults>>

WriteTemp(w) ==
    /\ At(w, "save", "stat") /\ ~In(ops[w].name, files)
    /\ parts' = parts \cup {w}
    /\ Goes(w, "rename")
    /\ UNCHANGED <<files, rows, limit, lock, started, broken, cacheOps, ioFaults>>

\* The second Stat and the rename, which fails when the temporary file is gone.
RenameTemp(w) ==
    LET n == ops[w].name IN
    /\ At(w, "save", "rename")
    /\ parts' = parts \ {w}
    /\ files' = IF w \in parts /\ ~In(n, files) THEN Append(files, n) ELSE files
    /\ IF w \notin parts THEN Returns(w, "error")
       ELSE IF ops[w].guarded THEN Goes(w, "row") /\ UNCHANGED lock
       ELSE Returns(w, "ok")
    /\ UNCHANGED <<rows, limit, started, broken, cacheOps, ioFaults>>

\* upsertExistingRow, upsertNewRow: either way updated_at_ns is now.
UpsertRow(w) ==
    /\ At(w, "save", "row")
    /\ rows' = Touched(rows, ops[w].name)
    /\ Goes(w, "limit")
    /\ UNCHANGED <<files, parts, limit, lock, started, broken, cacheOps, ioFaults>>

-----------------------------------------------------------------------------
(* enforceLimitLocked: the limit and the usage, then one candidate after    *)
(* the other, whatever becomes of the limit meanwhile.                      *)

\* Faulty variant: nothing is protected.
EnforceLimitOnAll(w) ==
    /\ ops[w].pc = "limit"
    /\ IF limit = 0 \/ UsageBytes(rows) <= limit
       THEN Returns(w, "ok")
       ELSE /\ ops' = [ops EXCEPT ![w].pc = "evict", ![w].usage = UsageBytes(rows), ![w].max = limit, ![w].left = rows]
            /\ UNCHANGED lock
    /\ UNCHANGED <<files, rows, parts, limit, started, broken, cacheOps, ioFaults>>

EnforceLimit(w) ==
    /\ ops[w].pc = "limit"
    /\ IF limit = 0 \/ UsageBytes(rows) <= limit
       THEN Returns(w, "ok")
       ELSE /\ ops' = [ops EXCEPT ![w].pc = "evict", ![w].usage = UsageBytes(rows), ![w].max = limit,
                                  ![w].left = Kept(rows, Name \ {rows[Len(rows)], ops[w].name})]
            /\ UNCHANGED lock
    /\ UNCHANGED <<files, rows, parts, limit, started, broken, cacheOps, ioFaults>>

EvictFile(w) ==
    /\ ops[w].pc = "evict" /\ ops[w].left # <<>> /\ ops[w].usage > LowWatermark(ops[w].max)
    /\ files' = Without(files, Head(ops[w].left))
    /\ Goes(w, "evictRow")
    /\ UNCHANGED <<rows, parts, limit, lock, started, broken, cacheOps, ioFaults>>

EvictRow(w) ==
    LET n == Head(ops[w].left) IN
    /\ ops[w].pc = "evictRow"
    /\ rows' = Without(rows, n)
    /\ ops' = [ops EXCEPT ![w].pc = "evict", ![w].left = Tail(@), ![w].usage = @ - Size[n]]
    /\ UNCHANGED <<files, parts, limit, lock, started, broken, cacheOps, ioFaults>>

EvictionEnds(w) ==
    /\ ops[w].pc = "evict" /\ (ops[w].left = <<>> \/ ops[w].usage <= LowWatermark(ops[w].max))
    /\ Returns(w, "ok")
    /\ UNCHANGED <<files, rows, parts, limit, started, broken, cacheOps, ioFaults>>

-----------------------------------------------------------------------------
(* Delete and Clear: the files first, then the rows.                       *)

RemoveFiles(w) ==
    /\ ops[w].op \in {"delete", "clear"} /\ ops[w].pc = "work"
    /\ files' = IF ops[w].op = "clear" THEN <<>> ELSE Without(files, ops[w].name)
    /\ Goes(w, "rows")
    /\ UNCHANGED <<rows, parts, limit, lock, started, broken, cacheOps, ioFaults>>

RemoveRows(w) ==
    /\ ops[w].pc = "rows"
    /\ rows' = IF ops[w].op = "clear" THEN <<>> ELSE Without(rows, ops[w].name)
    /\ Returns(w, "ok")
    /\ UNCHANGED <<files, parts, limit, started, broken, cacheOps, ioFaults>>

-----------------------------------------------------------------------------
(* reconcileIndexed: not a transaction.                                    *)

WipeRows(w) ==
    /\ At(w, "reconcile", "work")
    /\ ops' = [ops EXCEPT ![w].pc = "fill", ![w].left = files]
    /\ rows' = <<>>
    /\ UNCHANGED <<files, parts, limit, lock, started, broken, cacheOps, ioFaults>>

\* Temporary files are removed, files still there get a row with the time of
\* their last modification.
FillRows(w) ==
    /\ At(w, "reconcile", "fill")
    /\ rows' = Kept(ops[w].left, {n \in Name : In(n, files)})
    /\ parts' = {}
    /\ ops' = [ops EXCEPT ![w].pc = "limit", ![w].left = <<>>]
    /\ broken' = FALSE
    /\ UNCHANGED <<files, limit, lock, started, cacheOps, ioFaults>>

-----------------------------------------------------------------------------
(* Failures.                                                               *)

\* A call fails: the operation ends with an error and lets the locks go; a failing
\* rename leaves the temporary file.
Fails(w) ==
    /\ ops[w].pc \notin {"idle", "lock"} /\ ioFaults < MaxIOFaults
    /\ ioFaults' = ioFaults + 1
    /\ parts' \in {parts, parts \ {w}}
    /\ broken' = TRUE
    /\ Returns(w, "error")
    /\ UNCHANGED <<files, rows, limit, started, cacheOps>>

Crash ==
    /\ started /\ ioFaults < MaxIOFaults /\ ioFaults' = ioFaults + 1
    /\ started' = FALSE /\ broken' = TRUE
    /\ ops' = [w \in Worker |-> Idle] /\ lock' = NoWorker
    /\ UNCHANGED <<files, rows, parts, limit, cacheOps>>

Init ==
    /\ files = <<>> /\ rows = <<>> /\ parts = {} /\ limit \in Limits
    /\ lock = NoWorker /\ ops = [w \in Worker |-> Idle]
    /\ started = FALSE /\ broken = FALSE /\ cacheOps = 0 /\ ioFaults = 0

Step(w) ==
    \/ Lock(w) \/ SaveExisting(w) \/ WriteTemp(w) \/ RenameTemp(w) \/ UpsertRow(w)
    \/ EnforceLimit(w) \/ EvictFile(w) \/ EvictRow(w) \/ EvictionEnds(w)
    \/ RemoveFiles(w) \/ RemoveRows(w) \/ WipeRows(w) \/ FillRows(w)

Next ==
    \/ \E w \in Worker : \/ Step(w) \/ Fails(w) \/ Startup(w) \/ Clear(w)
                         \/ \E n \in Name : Save(w, n) \/ Delete(w, n)
                         \/ \E new \in Limits : Configure(w, new)
    \/ Crash

Spec == Init /\ [][Next]_vars

-----------------------------------------------------------------------------
Distinct(seq) == \A i, j \in DOMAIN seq : seq[i] = seq[j] => i = j

TypeOK ==
    /\ \A s \in {files, rows} : Distinct(s) /\ \A i \in DOMAIN s : s[i] \in Name
    /\ parts \subseteq Worker /\ limit \in Limits /\ lock \in Worker \cup {NoWorker}
    /\ \A w \in Worker : ops[w].usage \in Nat
    /\ cacheOps \in 0 .. MaxCacheOps /\ ioFaults \in 0 .. MaxIOFaults

\* While nobody holds the lock the index lists no file that is gone: every way
\* to remove a file takes its row along, and what a crash or a failing call
\* leaves behind is repaired by the next reconciliation.
NoGhostRows ==
    lock = NoWorker /\ ~broken => \A i \in DOMAIN rows : In(rows[i], files)

\* A save that reports success leaves its file on disk at that moment, however
\* full the cache is: the trimming it triggers spares it, and so does the trimming
\* of others until the lock is free.
SavedIsServed ==
    [][\A w \in Worker :
        (ops[w].op = "save" /\ ops[w].pc # "idle" /\ ops'[w].result = "ok"
         /\ ops'[w].op = "save") => In(ops[w].name, files')]_vars

\* What an operation leaves behind when it returns: the index is within the limit
\* it has read, or one file alone exceeds it.
TrimmedToLimit ==
    [][\A w \in Worker :
        LET max == IF ops[w].pc = "limit" THEN limit ELSE ops[w].max IN
        (ops[w].pc \in {"limit", "evict"} /\ ops'[w].result = "ok" /\ ops'[w].pc = "idle"
         /\ max > 0) => (UsageBytes(rows') <= max \/ Len(rows') <= 1)]_vars

\* Nobody keeps the lock: every operation returns.
OperationsReturn == \A w \in Worker : []<>(ops[w].pc = "idle")

\* Files, index and limit agree.
CacheIsTrue == [](TypeOK /\ NoGhostRows) /\ SavedIsServed /\ TrimmedToLimit
=============================================================================
