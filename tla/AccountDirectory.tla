-------------------------- MODULE AccountDirectory --------------------------
(***************************************************************************)
(* The data-plane account directory (app/dataplane/account): the in-memory *)
(* table of accounts that request handlers reserve from, release to and    *)
(* report to, and that the sync loop brings up to date from the account    *)
(* repository one revision group at a time.                                *)
(*                                                                         *)
(* Every operation of the directory runs under the one mutex d.mu, so each *)
(* is one action; what interleaves is the order of whole operations of     *)
(* several requests with the groups of a sync.  The table is keyed by slot *)
(* index in the code; a slot is never removed or reused and IdxByToken is  *)
(* one to one, so the model keys it by token, a status of "absent" meaning *)
(* that the token has no slot yet.  Health, last-use and fail counters     *)
(* only feed the score that ranks candidates: the model lets any candidate *)
(* win.                                                                    *)
(***************************************************************************)
EXTENDS Integers, FiniteSets, Sequences

CONSTANTS
    Token,        \* account tokens
    Pool,         \* account pools
    BasicPool,    \* the only pool whose windows restart locally
    Mode,         \* quota modes
    Request,      \* concurrent request handlers
    Slots,        \* what recordToSlot may produce for a live record
    PoolOrders,   \* the pool candidate lists that model specs use
    MaxInflight,  \* account.selection.max_inflight
    TotalQuota,   \* the size of a quota window
    WindowSec,    \* the length of a quota window
    CoolingSec,   \* poolCoolingSec
    MaxNow,       \* bound on the clock
    NoLease       \* what a request that holds no lease has

Statuses == {"active", "cooling", "expired", "disabled"}

(* A slot carries a window for the modes in "modes"; the others have       *)
(* window 0 and quota -1.                                                  *)
SlotType == [pool: Pool, status: Statuses, modes: SUBSET Mode,
             quota: [Mode -> -1..TotalQuota], reset: [Mode -> Nat]]

(* AccountLease.                                                           *)
Lease == [token: Token, mode: Mode]

ASSUME FiniteAssumption == IsFiniteSet(Token) /\ IsFiniteSet(Request)

ASSUME ShapeAssumption ==
    /\ BasicPool \in Pool
    /\ Slots \subseteq SlotType
    /\ NoLease \notin Lease

ASSUME PoolOrdersAssumption == PoolOrders \subseteq Seq(Pool)

ASSUME QuotaAssumption ==
    /\ TotalQuota \in Nat \ {0}
    /\ WindowSec \in Nat \ {0}
    /\ CoolingSec \in Nat
    /\ MaxNow \in Nat

(* The in-flight counters saturate at 65535 (IncrementInflight).           *)
ASSUME InflightAssumption == MaxInflight \in Nat \ {0} /\ MaxInflight <= 65535

FailureReasons ==
    {"no_available_account", "all_rate_limited",
     "all_invalid_credentials", "all_disabled"}

Kinds == {"success", "rate_limited", "unauthorized", "forbidden", "server_error"}

VARIABLES
    up,        \* d.table # nil
    status,    \* StatusByIdx, "absent" before AppendSlot
    pool,      \* PoolByIdx
    modes,     \* the modes whose WindowByIdx is positive
    quota,     \* QuotaByIdx
    reset,     \* ResetAtByIdx, 0 when unknown
    inflight,  \* InflightByIdx
    avail,     \* ModeAvailable
    size,      \* Size
    strategy,  \* the selection strategy
    now,       \* the clock, in seconds
    pc,        \* per request: idle, leased, released or a failure reason
    lease      \* per request: the lease it reports on, or NoLease

table == <<status, pool, modes, quota, reset, inflight, avail, size>>
requests == <<pc, lease>>
vars == <<up, table, strategy, now, requests>>

-----------------------------------------------------------------------------
NonNeg(i) == IF i < 0 THEN 0 ELSE i
Later(a, b) == IF a < b THEN b ELSE a

Present == {t \in Token : status[t] # "absent"}
Live == {t \in Token : status[t] \notin {"absent", "deleted"}}

(* The requests that hold a lease on t: what InflightByIdx counts.         *)
Holders(t) == {r \in Request : pc[r] = "leased" /\ lease[r].token = t}

Init ==
    /\ up = FALSE
    /\ status = [t \in Token |-> "absent"]
    /\ pool = [t \in Token |-> BasicPool]
    /\ modes = [t \in Token |-> {}]
    /\ quota = [t \in Token |-> [m \in Mode |-> -1]]
    /\ reset = [t \in Token |-> [m \in Mode |-> 0]]
    /\ inflight = [t \in Token |-> 0]
    /\ avail = [p \in Pool |-> [m \in Mode |-> {}]]
    /\ size = 0
    /\ strategy = "random"
    /\ now = 1
    /\ pc = [r \in Request |-> "idle"]
    /\ lease = [r \in Request |-> NoLease]

-----------------------------------------------------------------------------
(* Writing records into the table.                                         *)

(* Faulty variant: only AppendSlot enters a slot in the index.             *)
IndexedOnAppendOnly(items, p, m) ==
    {t \in DOMAIN items \ Present : /\ items[t].status = "active"
                                    /\ items[t].pool = p
                                    /\ m \in items[t].modes}

(* addToIndexes for every written slot.                                    *)
Indexed(items, p, m) ==
    {t \in DOMAIN items : /\ items[t].status = "active"
                          /\ items[t].pool = p
                          /\ m \in items[t].modes}

(* Faulty variant: UpdateSlot restarts InflightByIdx.                      *)
WriteSlotsResetInflight(items) ==
    /\ pool'  = [t \in Token |-> IF t \in DOMAIN items THEN items[t].pool  ELSE pool[t]]
    /\ modes' = [t \in Token |-> IF t \in DOMAIN items THEN items[t].modes ELSE modes[t]]
    /\ quota' = [t \in Token |-> IF t \in DOMAIN items THEN items[t].quota ELSE quota[t]]
    /\ reset' = [t \in Token |-> IF t \in DOMAIN items THEN items[t].reset ELSE reset[t]]
    /\ inflight' = [t \in Token |-> IF t \in DOMAIN items THEN 0 ELSE inflight[t]]

(* AppendSlot and UpdateSlot overwrite every column except InflightByIdx,  *)
(* which UpdateSlot keeps and AppendSlot starts at 0.                      *)
WriteSlots(items) ==
    /\ pool'  = [t \in Token |-> IF t \in DOMAIN items THEN items[t].pool  ELSE pool[t]]
    /\ modes' = [t \in Token |-> IF t \in DOMAIN items THEN items[t].modes ELSE modes[t]]
    /\ quota' = [t \in Token |-> IF t \in DOMAIN items THEN items[t].quota ELSE quota[t]]
    /\ reset' = [t \in Token |-> IF t \in DOMAIN items THEN items[t].reset ELSE reset[t]]
    /\ UNCHANGED inflight

(* Faulty variant: removeFromIndexes after the pool column is overwritten. *)
ReindexAfterWrite(deleted, items) ==
    avail' = [p \in Pool |-> [m \in Mode |->
        (avail[p][m] \ {t \in (deleted \cup DOMAIN items) \cap Present : pool'[t] = p})
            \cup Indexed(items, p, m)]]

(* ModeAvailable after a group: markDeleted and UpdateSlot first take the  *)
(* slot out of the buckets of the pool it is in (removeFromIndexes), then  *)
(* the written slots are entered under their new pool.                     *)
Reindex(deleted, items) ==
    avail' = [p \in Pool |-> [m \in Mode |->
        (avail[p][m] \ {t \in (deleted \cup DOMAIN items) \cap Present : pool[t] = p})
            \cup Indexed(items, p, m)]]

RestatusGroup(deleted, items) ==
    status' = [t \in Token |->
        CASE t \in DOMAIN items        -> items[t].status
          [] t \in deleted \cap Present -> "deleted"
          [] OTHER                     -> status[t]]

(* Size counts one down per markDeleted and one up per AppendSlot.         *)
ResizeGroup(deleted, items) ==
    size' = NonNeg(size - Cardinality(deleted \cap Present))
                + Cardinality(DOMAIN items \ Present)

(* One revision group of ApplyChanges: deletions first, then the items.  A *)
(* repository error, or a record whose quota does not parse, ends the loop *)
(* after any group, or after any part of one, so the action is one group   *)
(* of any content.                                                         *)
ApplyChanges(deleted, items) ==
    /\ up
    /\ RestatusGroup(deleted, items)
    /\ WriteSlots(items)
    /\ Reindex(deleted, items)
    /\ ResizeGroup(deleted, items)
    /\ UNCHANGED <<up, strategy, now, requests>>

(* Bootstrap builds the table from RuntimeSnapshot's live records and only *)
(* then publishes it under the mutex.                                      *)
Bootstrap(items) ==
    /\ ~up
    /\ up' = TRUE
    /\ RestatusGroup({}, items)
    /\ WriteSlots(items)
    /\ Reindex({}, items)
    /\ ResizeGroup({}, items)
    /\ UNCHANGED <<strategy, now, requests>>

-----------------------------------------------------------------------------
(* Selecting.                                                              *)

(* maybeResetWindows: a basic account whose window has run out starts a    *)
(* new one, when a selection looks at its pool.                            *)
Due(t, m) == /\ t \in avail[BasicPool][m]
             /\ pool[t] = BasicPool
             /\ reset[t][m] # 0
             /\ now >= reset[t][m]
             /\ m \in modes[t]

QuotaSeen(m) ==
    [t \in Token |-> IF Due(t, m) THEN [quota[t] EXCEPT ![m] = TotalQuota] ELSE quota[t]]

ResetSeen(m) ==
    [t \in Token |-> IF Due(t, m) THEN [reset[t] EXCEPT ![m] = now + WindowSec] ELSE reset[t]]

(* The windows restart if the selection reaches the basic pool.            *)
MaybeResetWindows(reached, m) ==
    IF BasicPool \in reached
    THEN quota' = QuotaSeen(m) /\ reset' = ResetSeen(m)
    ELSE UNCHANGED <<quota, reset>>

(* Faulty variant: the last unit of quota is never used.                   *)
WorkingOffByOne(p, m, excluded) ==
    {t \in avail[p][m] \ excluded : /\ QuotaSeen(m)[t][m] > 1
                                    /\ inflight[t] < MaxInflight}

(* quotaSelect and randomSelectFrom filter the same way.  They trust       *)
(* ModeAvailable for the status, the pool and the mode of a candidate.     *)
Working(p, m, excluded) ==
    {t \in avail[p][m] \ excluded : /\ QuotaSeen(m)[t][m] > 0
                                    /\ inflight[t] < MaxInflight}

(* reserveDetailed: the pools in order, the first with a candidate wins.   *)
Reserve(r, pools, m, excluded) ==
    /\ pc[r] \notin {"leased", "released"}
    /\ up
    /\ \E k \in 1..Len(pools) :
         /\ \A j \in 1..(k-1) : Working(pools[j], m, excluded) = {}
         /\ \E t \in Working(pools[k], m, excluded) :
              /\ inflight' = [inflight EXCEPT ![t] = @ + 1]
              /\ lease' = [lease EXCEPT ![r] = [token |-> t, mode |-> m]]
         /\ MaybeResetWindows({pools[j] : j \in 1..k}, m)
    /\ pc' = [pc EXCEPT ![r] = "leased"]
    /\ UNCHANGED <<up, status, pool, modes, avail, size, strategy, now>>

(* countSelectionCandidates: the accounts counted as total and available.  *)
Counted(pools, m, excluded) ==
    {t \in Live \ excluded : /\ \E j \in 1..Len(pools) : pools[j] = pool[t]
                             /\ m \in modes[t]}

Available(pools, m, excluded, q) ==
    {t \in Counted(pools, m, excluded) : /\ status[t] = "active"
                                         /\ inflight[t] < MaxInflight
                                         /\ q[t][m] > 0}

ClassifyReserveFailure(pools, m, excluded, q) ==
    LET counted == Counted(pools, m, excluded)
        allAre(s) == \A t \in counted : status[t] = s
    IN  CASE counted = {}                             -> "no_available_account"
          [] counted # {} /\ Available(pools, m, excluded, q) # {}
                                                      -> "no_available_account"
          [] counted # {} /\ allAre("disabled")       -> "all_disabled"
          [] counted # {} /\ allAre("expired")        -> "all_invalid_credentials"
          [] OTHER -> IF \E t \in counted : status[t] \in {"active", "cooling"}
                      THEN "all_rate_limited" ELSE "no_available_account"

(* reserveDetailed without a candidate: the reason is worked out on the    *)
(* table as the window restarts left it.                                   *)
ReserveFails(r, pools, m, excluded) ==
    /\ pc[r] \notin {"leased", "released"}
    /\ IF up
       THEN /\ \A j \in 1..Len(pools) : Working(pools[j], m, excluded) = {}
            /\ MaybeResetWindows({pools[j] : j \in 1..Len(pools)}, m)
            /\ pc' = [pc EXCEPT ![r] = ClassifyReserveFailure(pools, m, excluded, quota')]
       ELSE /\ pc' = [pc EXCEPT ![r] = "no_available_account"]
            /\ UNCHANGED <<quota, reset>>
    /\ UNCHANGED <<up, status, pool, modes, inflight, avail, size, strategy, now, lease>>

-----------------------------------------------------------------------------
(* Reporting back: a handler releases its lease, then reports the outcome. *)

Release(r) ==
    /\ pc[r] = "leased"
    /\ inflight' = [inflight EXCEPT ![lease[r].token] = NonNeg(@ - 1)]
    /\ pc' = [pc EXCEPT ![r] = "released"]
    /\ UNCHANGED <<up, status, pool, modes, quota, reset, avail, size,
                   strategy, now, lease>>

(* Faulty variants: the quota column has no floor; a late success puts the *)
(* account back into rotation.                                             *)
ApplySuccessNoFloor(t, m) ==
    /\ quota' = IF strategy = "quota"
                THEN [quota EXCEPT ![t][m] = @ - 1] ELSE quota
    /\ UNCHANGED <<reset, status, avail>>

ApplySuccessReactivates(t, m) ==
    /\ status' = [status EXCEPT ![t] = "active"]
    /\ avail' = [avail EXCEPT ![pool[t]][m] = @ \cup {t}]
    /\ UNCHANGED <<quota, reset>>

(* ApplySuccessQuota / ApplySuccessRandom.                                 *)
ApplySuccess(t, m) ==
    /\ quota' = IF strategy = "quota"
                THEN [quota EXCEPT ![t][m] = NonNeg(@ - 1)] ELSE quota
    /\ UNCHANGED <<reset, status, avail>>

(* ApplyRateLimitedQuota / ApplyRateLimitedRandom.                         *)
ApplyRateLimited(t, m) ==
    /\ quota' = [quota EXCEPT ![t][m] = 0]
    /\ reset' = IF strategy = "random"
                THEN [reset EXCEPT ![t][m] = Later(@, now + CoolingSec)] ELSE reset
    /\ UNCHANGED <<status, avail>>

(* Faulty variant: the status changes and the index does not.              *)
ApplyExpiredKeepsIndex(t) ==
    /\ status' = [status EXCEPT ![t] = "expired"]
    /\ UNCHANGED <<quota, reset, avail>>

(* ApplyStatusChange to StatusExpired, from whatever status the slot has.  *)
ApplyExpired(t) ==
    /\ status' = [status EXCEPT ![t] = "expired"]
    /\ avail' = IF status[t] = "expired" THEN avail
                ELSE [avail EXCEPT ![pool[t]] = [m \in Mode |-> @[m] \ {t}]]
    /\ UNCHANGED <<quota, reset>>

Feedback(r, kind) ==
    /\ pc[r] = "released"
    /\ CASE kind = "success"      -> ApplySuccess(lease[r].token, lease[r].mode)
         [] kind = "rate_limited" -> ApplyRateLimited(lease[r].token, lease[r].mode)
         [] kind = "unauthorized" -> ApplyExpired(lease[r].token)
         [] OTHER                 -> UNCHANGED <<quota, reset, status, avail>>
    /\ pc' = [pc EXCEPT ![r] = "idle"]
    /\ lease' = [lease EXCEPT ![r] = NoLease]
    /\ UNCHANGED <<up, pool, modes, inflight, size, strategy, now>>

(* Voice sessions, and dispatches whose error maps to no kind, release     *)
(* without feedback.                                                       *)
NoFeedback(r) ==
    /\ pc[r] = "released"
    /\ pc' = [pc EXCEPT ![r] = "idle"]
    /\ lease' = [lease EXCEPT ![r] = NoLease]
    /\ UNCHANGED <<up, table, strategy, now>>

(* ReconcileRefreshRuntime switches the strategy when the config changes.  *)
SetStrategy(name) ==
    /\ strategy # name
    /\ strategy' = name
    /\ UNCHANGED <<up, table, now, requests>>

Tick ==
    /\ now < MaxNow
    /\ now' = now + 1
    /\ UNCHANGED <<up, table, strategy, requests>>

-----------------------------------------------------------------------------
ItemSets(tokens) == UNION {[S -> Slots] : S \in SUBSET tokens}

SyncGroup == \E deleted \in SUBSET Token :
                \E items \in ItemSets(Token \ deleted) : ApplyChanges(deleted, items)

Boot == \E items \in ItemSets(Token) : Bootstrap(items)

Serve(r) ==
    \/ \E pools \in PoolOrders, m \in Mode, excluded \in SUBSET Token :
         Reserve(r, pools, m, excluded) \/ ReserveFails(r, pools, m, excluded)
    \/ Release(r)
    \/ \E kind \in Kinds : Feedback(r, kind)
    \/ NoFeedback(r)

Next ==
    \/ Boot
    \/ SyncGroup
    \/ \E r \in Request : Serve(r)
    \/ \E name \in {"quota", "random"} : SetStrategy(name)
    \/ Tick

Spec == Init /\ [][Next]_vars

-----------------------------------------------------------------------------
TypeOK ==
    /\ up \in BOOLEAN
    /\ status \in [Token -> Statuses \cup {"absent", "deleted"}]
    /\ pool \in [Token -> Pool]
    /\ modes \in [Token -> SUBSET Mode]
    /\ quota \in [Token -> [Mode -> -1..TotalQuota]]
    /\ reset \in [Token -> [Mode -> Nat]]
    /\ inflight \in [Token -> 0..MaxInflight]
    /\ avail \in [Pool -> [Mode -> SUBSET Token]]
    /\ size \in Nat
    /\ strategy \in {"quota", "random"}
    /\ now \in Nat
    /\ pc \in [Request -> {"idle", "leased", "released"} \cup FailureReasons]
    /\ lease \in [Request -> Lease \cup {NoLease}]
    /\ \A r \in Request : pc[r] \in {"leased", "released"} <=> lease[r] # NoLease

(* The quota column as a failed reservation leaves it.                     *)
QuotaAfter(pools, m) ==
    IF \E j \in 1..Len(pools) : pools[j] = BasicPool THEN QuotaSeen(m) ELSE quota

(* ModeAvailable is exactly the index it stands for: a token is in the     *)
(* bucket of a pool and a mode if and only if its slot is active, is in    *)
(* that pool and has a window for that mode.  The selectors trust it and   *)
(* check neither status nor pool nor mode.                                 *)
IndexConsistent ==
    \A p \in Pool, m \in Mode, t \in Token :
        t \in avail[p][m] <=> status[t] = "active" /\ pool[t] = p /\ m \in modes[t]

(* InflightByIdx counts the leases that are out on an account, whatever    *)
(* syncs, deletions and re-imports happened while they were out.           *)
InflightMatchesLeases ==
    \A t \in Token : inflight[t] = Cardinality(Holders(t))

(* reserveDetailed hands out only an account that is active, serves the    *)
(* mode, has quota left (after window restarts) and is below the limit.    *)
ReserveOK ==
    \A r \in Request : pc[r] # "leased" /\ pc'[r] = "leased" =>
        LET t == lease'[r].token
            m == lease'[r].mode
        IN  /\ status[t] = "active" /\ m \in modes[t]
            /\ quota'[t][m] > 0
            /\ inflight[t] < MaxInflight

ReserveSound == [][ReserveOK]_vars

(* A reservation fails only when no account could have served it: the      *)
(* counts.available > 0 branch of classifyReserveFailure is never taken.   *)
FailureIsReal ==
    \A pools \in PoolOrders, m \in Mode, excluded \in SUBSET Token :
        (\A j \in 1..Len(pools) : Working(pools[j], m, excluded) = {}) =>
            Available(pools, m, excluded, QuotaAfter(pools, m)) = {}

(* No step of a request handler, late feedback included, makes an account  *)
(* selectable that was not: only a sync or the bootstrap does.             *)
RequestsNeverWiden ==
    [][requests' # requests =>
          \A p \in Pool, m \in Mode : avail'[p][m] \subseteq avail[p][m]]_vars

(* AvailablePools, which decides the models that are listed, names a pool  *)
(* only if a reservation from it would succeed at once.                    *)
AvailablePools ==
    {p \in Pool : \E m \in Mode : Available(<<p>>, m, {}, quota) # {}}

AvailablePoolsReservable ==
    \A p \in AvailablePools : \E m \in Mode : Working(p, m, {}) # {}
=============================================================================
