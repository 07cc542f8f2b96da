--------------------------- MODULE SchedulerLeader ---------------------------
(***************************************************************************)
(* Which process runs the background schedulers (refresh, SSO validation,  *)
(* auto-clean): the leader lock taken at startup (main_lifecycle_scheduler *)
(* .go, redis_runtime.go, main_file_lock_unix.go), its renewal, and        *)
(* ReconcileRefreshRuntime (control/account/runtime.go), which starts and  *)
(* stops the schedulers and is called at startup, when the lease is lost   *)
(* and by the handler of every HTTP request.                               *)
(*                                                                         *)
(* A scheduler is one object per process: a running flag under its mutex,  *)
(* and goroutines counted by a WaitGroup.  Stop clears the flag, cancels   *)
(* the goroutine and then waits for the count to reach 0 outside the       *)
(* mutex, so another thread may start the scheduler while Stop waits.  The *)
(* WaitGroup is Go's: the goroutine that brings the count to 0 releases    *)
(* the waiters, and one that finds the count positive again panics.        *)
(***************************************************************************)
EXTENDS Integers, Sequences

CONSTANTS
    Process,   \* gork processes
    Dir,       \* data directories
    DirOf,     \* the data directory of a process
    Handler,   \* HTTP handlers of a process that may run at the same time
    Kinds,     \* the schedulers in the order in which they are reconciled
    Stores,    \* the initial content of the key, or NoStore
    Stalls,    \* whether a live process may be too slow to renew its lease
    Faults,    \* whether Redis commands and file operations fail
    NoStore,   \* in place of the key when no runtime store is configured
    Free,      \* a lock that nobody holds
    Orphan     \* the owner of a key whose process is gone

LeaderAssumption ==
    /\ DirOf \in [Process -> Dir]
    /\ Kinds \in Seq(STRING) /\ Kinds # <<>>
    /\ {Free, Orphan, NoStore} \cap Process = {}
    /\ Free # Orphan /\ NoStore \notin {Free, Orphan}
    /\ Stores \subseteq {Free, NoStore}

Kind == {Kinds[i] : i \in 1..Len(Kinds)}

(* The threads of a process that call ReconcileRefreshRuntime.             *)
Thread == Handler \cup {"main", "renew"}

VARIABLES
    key,      \* the owner stored under runtime:lock:scheduler-leader
    file,     \* per data directory: the holder of the flock
    cfg,      \* per process: the enabled switches of its configuration
    main,     \* per process: where the main goroutine is
    leader,   \* refreshRuntimeState.schedulerLeader
    bound,    \* whether refreshRuntimeState has the schedulers
    lease,    \* whether state.schedulerKey # nil
    local,    \* localLockCleanup: none, a flock, or a no-op
    renewer,  \* the renewal goroutine
    running,  \* the running flag of a scheduler
    loops,    \* the count of its WaitGroup
    frame     \* per thread: the Reconcile or Stop it is in

locks == <<key, file>>
held == <<leader, bound, lease, local>>
scheds == <<running, loops>>
vars == <<locks, cfg, main, held, renewer, scheds, frame>>

Out == [at |-> "out", i |-> 1, enabled |-> FALSE]

Init ==
    /\ key \in Stores
    /\ file = [d \in Dir |-> Free]
    /\ cfg = [p \in Process |-> [k \in Kind |-> TRUE]]
    /\ main = [p \in Process |-> "down"]
    /\ leader = [p \in Process |-> FALSE]
    /\ bound = [p \in Process |-> FALSE]
    /\ lease = [p \in Process |-> FALSE]
    /\ local = [p \in Process |-> "none"]
    /\ renewer = [p \in Process |-> "off"]
    /\ running = [p \in Process |-> [k \in Kind |-> FALSE]]
    /\ loops = [p \in Process |-> [k \in Kind |-> 0]]
    /\ frame = [p \in Process |-> [th \in Thread |-> Out]]

-----------------------------------------------------------------------------
(* Startup: defaultAppMainStartRefreshRuntime.                             *)

(* SetNX of a fresh owner id.  After an error, which may hide a success,   *)
(* the file lock decides.                                                  *)
AcquireLock(p) ==
    /\ main[p] = "down" /\ key # NoStore
    /\ \/ /\ key = Free
          /\ key' = p
          /\ lease' = [lease EXCEPT ![p] = TRUE]
          /\ main' = [main EXCEPT ![p] = "bind"]
       \/ /\ key # Free
          /\ main' = [main EXCEPT ![p] = "bind"]
          /\ UNCHANGED <<key, lease>>
       \/ /\ Faults
          /\ key' \in (IF key = Free THEN {Free, Orphan} ELSE {key})
          /\ main' = [main EXCEPT ![p] = "file"]
          /\ UNCHANGED lease
    /\ UNCHANGED <<file, cfg, leader, bound, local, renewer, scheds, frame>>

(* flock without blocking.  Any error but EWOULDBLOCK counts as success,   *)
(* with a cleanup that does nothing.                                       *)
AcquireFileLock(p) ==
    /\ main[p] = "file" \/ (main[p] = "down" /\ key = NoStore)
    /\ \/ /\ file[DirOf[p]] = Free
          /\ file' = [file EXCEPT ![DirOf[p]] = p]
          /\ local' = [local EXCEPT ![p] = "flock"]
       \/ /\ file[DirOf[p]] # Free
          /\ UNCHANGED <<file, local>>
       \/ /\ Faults
          /\ local' = [local EXCEPT ![p] = "noop"]
          /\ UNCHANGED file
    /\ main' = [main EXCEPT ![p] = "bind"]
    /\ UNCHANGED <<key, cfg, leader, bound, lease, renewer, scheds, frame>>

Call(p) == [at |-> "state", i |-> 1, enabled |-> cfg[p][Kinds[1]]]

(* The schedulers and the leader flag are published, the renewal goroutine *)
(* starts, and the main goroutine reconciles.                              *)
Bind(p) ==
    /\ main[p] = "bind"
    /\ main' = [main EXCEPT ![p] = "reconcile"]
    /\ bound' = [bound EXCEPT ![p] = TRUE]
    /\ leader' = [leader EXCEPT ![p] = lease[p] \/ local[p] # "none"]
    /\ renewer' = [renewer EXCEPT ![p] = IF lease[p] THEN "wait" ELSE "off"]
    /\ frame' = [frame EXCEPT ![p]["main"] = Call(p)]
    /\ UNCHANGED <<locks, cfg, lease, local, scheds>>

ListenAndServe(p) ==
    /\ main[p] = "reconcile" /\ frame[p]["main"].at = "out"
    /\ main' = [main EXCEPT ![p] = "serving"]
    /\ UNCHANGED <<locks, cfg, held, renewer, scheds, frame>>

-----------------------------------------------------------------------------
(* ReconcileRefreshRuntime by thread th.                                   *)

(* A handler loads the configuration and calls it; the switch of the first *)
(* scheduler is read before anything else.                                 *)
HandleRequest(p, th) ==
    /\ main[p] = "serving" /\ frame[p][th].at = "out"
    /\ frame' = [frame EXCEPT ![p][th] = Call(p)]
    /\ UNCHANGED <<locks, cfg, main, held, renewer, scheds>>

(* runtimeSchedulerState: without the leader flag nothing is started, and  *)
(* nothing is stopped either.                                              *)
ReadState(p, th) ==
    /\ frame[p][th].at = "state"
    /\ frame' = [frame EXCEPT ![p][th] =
                   IF bound[p] /\ leader[p] THEN [@ EXCEPT !.at = "each"] ELSE Out]
    /\ UNCHANGED <<locks, cfg, main, held, renewer, scheds>>

(* The frame after the scheduler f.i is dealt with, coming back to at.     *)
Forward(f, at) == IF f.i = Len(Kinds) THEN Out ELSE [f EXCEPT !.at = at, !.i = @ + 1]

Enabled(p, f) == IF f.i = 1 THEN f.enabled ELSE cfg[p][Kinds[f.i]]

(* Start under the scheduler's mutex; nothing if it is running.            *)
StartScheduler(p, th) ==
    /\ frame[p][th].at = "each" /\ Enabled(p, frame[p][th])
    /\ LET k == Kinds[frame[p][th].i]
       IN  /\ running' = [running EXCEPT ![p][k] = TRUE]
           /\ loops' = [loops EXCEPT ![p][k] = IF running[p][k] THEN @ ELSE @ + 1]
    /\ frame' = [frame EXCEPT ![p][th] = Forward(@, "each")]
    /\ UNCHANGED <<locks, cfg, main, held, renewer>>

(* Faulty variant: Stop is never called.                                   *)
StopSchedulerNever(p, th) ==
    /\ frame[p][th].at = "each" /\ ~Enabled(p, frame[p][th])
    /\ frame' = [frame EXCEPT ![p][th] = Forward(@, "each")]
    /\ UNCHANGED <<locks, cfg, main, held, renewer, scheds>>

(* Stop of a running scheduler, up to the wait.                            *)
StopScheduler(p, th) ==
    /\ frame[p][th].at = "each" /\ ~Enabled(p, frame[p][th])
    /\ LET k == Kinds[frame[p][th].i]
       IN  /\ running' = [running EXCEPT ![p][k] = FALSE]
           /\ frame' = [frame EXCEPT ![p][th] =
                          IF running[p][k] THEN [@ EXCEPT !.at = "wait"]
                                           ELSE Forward(@, "each")]
    /\ UNCHANGED <<locks, cfg, main, held, renewer, loops>>

(* wg.Wait returns; the thread goes on to the next scheduler.              *)
StopReturns(p, th) ==
    /\ frame[p][th].at \in {"wait", "woken"}
    /\ loops[p][Kinds[frame[p][th].i]] = 0
    /\ frame' = [frame EXCEPT ![p][th] =
                   Forward(@, IF th = "main" /\ main[p] = "stop" THEN "halt" ELSE "each")]
    /\ UNCHANGED <<locks, cfg, main, held, renewer, scheds>>

(* "WaitGroup is reused before previous Wait has returned": a handler      *)
(* recovers from the panic; one of the main goroutine ends the process.    *)
WaitPanics(p, th) ==
    /\ th \in Handler
    /\ frame[p][th].at = "woken" /\ loops[p][Kinds[frame[p][th].i]] > 0
    /\ frame' = [frame EXCEPT ![p][th] = Out]
    /\ UNCHANGED <<locks, cfg, main, held, renewer, scheds>>

Waiting(p, k) == {th \in Thread : frame[p][th].at = "wait" /\ Kinds[frame[p][th].i] = k}

(* A cancelled goroutine finishes what it was doing.  The last one wakes   *)
(* the threads that have reached wg.Wait.                                  *)
LoopEnds(p, k) ==
    /\ loops[p][k] > (IF running[p][k] THEN 1 ELSE 0)
    /\ loops' = [loops EXCEPT ![p][k] = @ - 1]
    /\ \E woken \in SUBSET Waiting(p, k) :
         /\ loops[p][k] > 1 => woken = {}
         /\ frame' = [frame EXCEPT ![p] =
              [th \in Thread |-> IF th \in woken THEN [@[th] EXCEPT !.at = "woken"] ELSE @[th]]]
    /\ UNCHANGED <<locks, cfg, main, held, renewer, running>>

SetConfig(p, k) ==
    /\ cfg' = [cfg EXCEPT ![p][k] = ~@]
    /\ UNCHANGED <<locks, main, held, renewer, scheds, frame>>

-----------------------------------------------------------------------------
(* The lease.                                                              *)

(* A renewal that succeeds only restarts the key's time to live.  One that *)
(* fails, or finds another owner, ends the goroutine for good.             *)
RenewLoses(p) ==
    /\ renewer[p] = "wait"
    /\ key # p \/ Faults
    /\ leader' = [leader EXCEPT ![p] = FALSE]
    /\ renewer' = [renewer EXCEPT ![p] = "lost"]
    /\ frame' = [frame EXCEPT ![p]["renew"] = Call(p)]
    /\ UNCHANGED <<locks, cfg, main, bound, lease, local, scheds>>

RenewerEnds(p) ==
    /\ \/ renewer[p] = "lost" /\ frame[p]["renew"].at = "out"
       \/ renewer[p] = "wait" /\ main[p] \in {"stop", "renewer"}
    /\ renewer' = [renewer EXCEPT ![p] = "ended"]
    /\ UNCHANGED <<locks, cfg, main, held, scheds, frame>>

(* The key's time to live runs out: its process is gone, or was too slow.  *)
Expire ==
    /\ key = Orphan \/ (key \in Process /\ Stalls)
    /\ key' = Free
    /\ UNCHANGED <<file, cfg, main, held, renewer, scheds, frame>>

-----------------------------------------------------------------------------
(* Shutdown.  ListenAndServe returns while handlers still run.             *)

Shutdown(p) ==
    /\ main[p] = "serving"
    /\ main' = [main EXCEPT ![p] = "stop"]
    /\ frame' = [frame EXCEPT ![p]["main"] = [Out EXCEPT !.at = "halt"]]
    /\ UNCHANGED <<locks, cfg, held, renewer, scheds>>

(* Stop of the next scheduler, up to the wait.                             *)
Halt(p) ==
    /\ frame[p]["main"].at = "halt"
    /\ running' = [running EXCEPT ![p][Kinds[frame[p]["main"].i]] = FALSE]
    /\ frame' = [frame EXCEPT ![p]["main"].at = "wait"]
    /\ UNCHANGED <<locks, cfg, main, held, renewer, loops>>

AwaitRenewer(p) ==
    /\ \/ /\ main[p] = "stop" /\ frame[p]["main"].at = "out"
          /\ main' = [main EXCEPT ![p] = "renewer"]
       \/ /\ main[p] = "renewer" /\ renewer[p] \in {"off", "ended"}
          /\ main' = [main EXCEPT ![p] = "release"]
    /\ UNCHANGED <<locks, cfg, held, renewer, scheds, frame>>

(* Faulty variant: DEL without the comparison.                             *)
ReleaseAny(p) ==
    /\ main[p] = "release"
    /\ key' = IF lease[p] THEN Free ELSE key
    /\ lease' = [lease EXCEPT ![p] = FALSE]
    /\ main' = [main EXCEPT ![p] = "unlock"]
    /\ UNCHANGED <<file, cfg, leader, bound, local, renewer, scheds, frame>>

(* CompareDelete; its error is dropped, and the key lives on.              *)
Release(p) ==
    /\ main[p] = "release"
    /\ \/ key' = IF lease[p] /\ key = p THEN Free ELSE key
       \/ Faults /\ key' = IF key = p THEN Orphan ELSE key
    /\ lease' = [lease EXCEPT ![p] = FALSE]
    /\ main' = [main EXCEPT ![p] = "unlock"]
    /\ UNCHANGED <<file, cfg, leader, bound, local, renewer, scheds, frame>>

Unlocked(p) == [d \in Dir |-> IF file[d] = p THEN Free ELSE file[d]]

(* The file lock is given up and the schedulers are unbound; a failing     *)
(* unlock returns before the latter.                                       *)
Unlock(p) ==
    /\ main[p] = "unlock"
    /\ main' = [main EXCEPT ![p] = "exit"]
    /\ \/ /\ file' = Unlocked(p)
          /\ local' = [local EXCEPT ![p] = "none"]
          /\ bound' = [bound EXCEPT ![p] = FALSE]
          /\ leader' = [leader EXCEPT ![p] = FALSE]
       \/ /\ Faults /\ local[p] = "flock"
          /\ UNCHANGED <<file, local, bound, leader>>
    /\ UNCHANGED <<key, cfg, lease, renewer, scheds, frame>>

(* The process ends, after its shutdown or at any other time.              *)
Terminate(p) ==
    /\ main[p] # "down"
    /\ main' = [main EXCEPT ![p] = "down"]
    /\ key' = IF key = p THEN Orphan ELSE key
    /\ file' = Unlocked(p)
    /\ leader' = [leader EXCEPT ![p] = FALSE]
    /\ bound' = [bound EXCEPT ![p] = FALSE]
    /\ lease' = [lease EXCEPT ![p] = FALSE]
    /\ local' = [local EXCEPT ![p] = "none"]
    /\ renewer' = [renewer EXCEPT ![p] = "off"]
    /\ running' = [running EXCEPT ![p] = [k \in Kind |-> FALSE]]
    /\ loops' = [loops EXCEPT ![p] = [k \in Kind |-> 0]]
    /\ frame' = [frame EXCEPT ![p] = [th \in Thread |-> Out]]
    /\ UNCHANGED cfg

Exit(p) == main[p] = "exit" /\ Terminate(p)

-----------------------------------------------------------------------------
Reconcile(p, th) ==
    \/ ReadState(p, th) \/ StartScheduler(p, th)
    \/ StopScheduler(p, th) \/ StopReturns(p, th) \/ WaitPanics(p, th)

(* What a process does by itself.                                          *)
Work(p) ==
    \/ AcquireLock(p) \/ AcquireFileLock(p) \/ Bind(p) \/ ListenAndServe(p)
    \/ \E th \in Handler : HandleRequest(p, th)
    \/ \E th \in Thread : Reconcile(p, th)
    \/ \E k \in Kind : LoopEnds(p, k)
    \/ RenewLoses(p) \/ RenewerEnds(p)
    \/ Halt(p) \/ AwaitRenewer(p) \/ Release(p) \/ Unlock(p) \/ Exit(p)

Next ==
    \/ \E p \in Process :
         \/ Work(p)
         \/ \E k \in Kind : SetConfig(p, k)
         \/ Shutdown(p) \/ Terminate(p)
    \/ Expire

Spec == Init /\ [][Next]_vars

(* Goroutines are scheduled, and a cancelled loop returns; requests keep   *)
(* arriving at a process that serves.  The steps of the main goroutine     *)
(* follow each other, so it is one fair step, and so is a thread's work.   *)
MainStep(p) ==
    \/ AcquireLock(p) \/ AcquireFileLock(p) \/ Bind(p) \/ ListenAndServe(p) \/ Reconcile(p, "main")
    \/ Halt(p) \/ AwaitRenewer(p) \/ Release(p) \/ Unlock(p) \/ Exit(p)
HandlerStep(p, th) == HandleRequest(p, th) \/ Reconcile(p, th)
RenewerStep(p) == RenewerEnds(p) \/ Reconcile(p, "renew")

-----------------------------------------------------------------------------
TypeOK ==
    /\ key \in Process \cup {Free, Orphan, NoStore}
    /\ file \in [Dir -> Process \cup {Free}]
    /\ cfg \in [Process -> [Kind -> BOOLEAN]]
    /\ main \in [Process -> {"down", "file", "bind", "reconcile", "serving", "stop",
                             "renewer", "release", "unlock", "exit"}]
    /\ leader \in [Process -> BOOLEAN] /\ bound \in [Process -> BOOLEAN]
    /\ lease \in [Process -> BOOLEAN]
    /\ local \in [Process -> {"none", "flock", "noop"}]
    /\ renewer \in [Process -> {"off", "wait", "lost", "ended"}]
    /\ running \in [Process -> [Kind -> BOOLEAN]]
    /\ loops \in [Process -> [Kind -> Nat]]
    /\ frame \in [Process -> [Thread ->
                    [at: {"out", "state", "each", "wait", "woken", "halt"},
                     i: 1..Len(Kinds), enabled: BOOLEAN]]]
    /\ \A p \in Process, k \in Kind : running[p][k] => loops[p][k] > 0

Active(p) == \E k \in Kind : loops[p][k] > 0

(* A process that holds no lock while it serves has never started a        *)
(* scheduler, however its configuration changes and however requests,      *)
(* renewal and startup interleave.                                         *)
FollowersAreQuiet ==
    \A p \in Process :
        (main[p] = "serving" /\ ~lease[p] /\ local[p] = "none") => ~Active(p)

(* Of the serving processes that share a data directory at most one has    *)
(* schedulers, when no runtime store is configured and files can be        *)
(* locked.                                                                 *)
OnePerDataDir ==
    key = NoStore =>
        \A p, q \in Process :
            (/\ main[p] = "serving" /\ Active(p)
             /\ main[q] = "serving" /\ Active(q)
             /\ DirOf[p] = DirOf[q]) => p = q

(* A process that shuts down leaves the key of a later leader alone, also  *)
(* when its own lease had expired.                                         *)
ReleaseSparesOthers ==
    [][\A p \in Process :
          (main[p] = "release" /\ main'[p] = "unlock" /\ key # p) => key' = key]_vars

(* A serving leader's scheduler settles as its switch says.                *)
SwitchesSettle ==
    \A p \in Process, k \in Kind, b \in BOOLEAN :
        <>[](main[p] = "serving" /\ leader[p] /\ cfg[p][k] = b)
            => <>[](running[p][k] = b /\ (~b => loops[p][k] = 0))

(* Once the renewal has lost the lease and reconciled, no scheduler runs.  *)
StopsWhenLeaseLost ==
    \A p \in Process : renewer[p] = "ended" /\ main[p] = "serving"
        => \A k \in Kind : ~running[p][k]

(* Who runs schedulers and who may take the lock away.                       *)
OneLeader == [](TypeOK /\ FollowersAreQuiet /\ OnePerDataDir) /\ ReleaseSparesOthers

(* Schedulers run where and as they should.                                  *)
SchedulersFollow == [](TypeOK /\ FollowersAreQuiet) /\ SwitchesSettle
=============================================================================
