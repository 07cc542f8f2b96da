----------------------- MODULE AccountDirectoryProofs -----------------------
(***************************************************************************)
(* Proofs about AccountDirectory for every number of accounts, pools,      *)
(* modes and requests: its types, the consistency of ModeAvailable, the    *)
(* soundness of a reservation and the honesty of a failed one.             *)
(***************************************************************************)
EXTENDS AccountDirectory, FiniteSetTheorems, TLAPS

(* A group of records, as SyncGroup and Boot deliver it, is a function     *)
(* from some tokens to slots.                                              *)
LEMMA ItemSetsType ==
    ASSUME NEW S \in SUBSET Token, NEW items \in ItemSets(S)
    PROVE  /\ DOMAIN items \subseteq S
           /\ \A t \in DOMAIN items : items[t] \in SlotType
<1>1. PICK D \in SUBSET S : items \in [D -> Slots]
  BY DEF ItemSets
<1>2. DOMAIN items = D
  BY <1>1
<1>3. \A t \in D : items[t] \in SlotType
  BY <1>1, ShapeAssumption
<1> QED
  BY <1>2, <1>3

(* A slot's fields have the types of the columns they are written to.      *)
LEMMA SlotFields ==
    ASSUME NEW s \in SlotType
    PROVE  /\ s.pool \in Pool
           /\ s.status \in Statuses
           /\ s.modes \in SUBSET Mode
           /\ s.quota \in [Mode -> -1..TotalQuota]
           /\ s.reset \in [Mode -> Nat]
  BY DEF SlotType

(* Writing a group keeps the types of the table.                           *)
LEMMA GroupTypes ==
    ASSUME TypeOK, NEW deleted \in SUBSET Token, NEW items,
           DOMAIN items \subseteq Token,
           \A t \in DOMAIN items : items[t] \in SlotType,
           RestatusGroup(deleted, items), WriteSlots(items),
           Reindex(deleted, items), ResizeGroup(deleted, items)
    PROVE  /\ status' \in [Token -> Statuses \cup {"absent", "deleted"}]
           /\ pool' \in [Token -> Pool]
           /\ modes' \in [Token -> SUBSET Mode]
           /\ quota' \in [Token -> [Mode -> -1..TotalQuota]]
           /\ reset' \in [Token -> [Mode -> Nat]]
           /\ inflight' \in [Token -> 0..MaxInflight]
           /\ avail' \in [Pool -> [Mode -> SUBSET Token]]
           /\ size' \in Nat
<1> USE DEF TypeOK
<1>0. \A t \in DOMAIN items : /\ items[t].pool \in Pool
                              /\ items[t].status \in Statuses
                              /\ items[t].modes \in SUBSET Mode
                              /\ items[t].quota \in [Mode -> -1..TotalQuota]
                              /\ items[t].reset \in [Mode -> Nat]
  BY SlotFields
<1>1. status' \in [Token -> Statuses \cup {"absent", "deleted"}]
  BY <1>0 DEF RestatusGroup
<1>2. pool' \in [Token -> Pool]
  BY <1>0 DEF WriteSlots
<1>3. modes' \in [Token -> SUBSET Mode]
  BY <1>0 DEF WriteSlots
<1>4. quota' \in [Token -> [Mode -> -1..TotalQuota]]
  BY <1>0 DEF WriteSlots
<1>5. reset' \in [Token -> [Mode -> Nat]]
  BY <1>0 DEF WriteSlots
<1>6. inflight' \in [Token -> 0..MaxInflight]
  BY DEF WriteSlots
<1>7. avail' \in [Pool -> [Mode -> SUBSET Token]]
  <2>1. \A p \in Pool, m \in Mode : Indexed(items, p, m) \subseteq Token
    BY DEF Indexed
  <2> QED BY <2>1 DEF Reindex
<1>8. size' \in Nat
  <2>0. /\ deleted \cap Present \subseteq Token
        /\ DOMAIN items \ Present \subseteq Token
    OBVIOUS
  <2>f. IsFiniteSet(Token)
    BY FiniteAssumption
  <2>1. /\ IsFiniteSet(deleted \cap Present)
        /\ IsFiniteSet(DOMAIN items \ Present)
    <3> HIDE DEF TypeOK
    <3> QED BY <2>0, <2>f, FS_Subset
  <2>2. /\ Cardinality(deleted \cap Present) \in Nat
        /\ Cardinality(DOMAIN items \ Present) \in Nat
    BY <2>1, FS_CardinalityType
  <2>3. NonNeg(size - Cardinality(deleted \cap Present)) \in Nat
    BY <2>2 DEF NonNeg
  <2> QED BY <2>2, <2>3 DEF ResizeGroup
<1> QED
  BY <1>1, <1>2, <1>3, <1>4, <1>5, <1>6, <1>7, <1>8

(* Window restarts keep the types of the quota and reset columns.          *)
LEMMA ResetTypes ==
    ASSUME TypeOK, NEW m \in Mode, NEW reached, MaybeResetWindows(reached, m)
    PROVE  /\ quota' \in [Token -> [Mode -> -1..TotalQuota]]
           /\ reset' \in [Token -> [Mode -> Nat]]
<1>1. QuotaSeen(m) \in [Token -> [Mode -> -1..TotalQuota]]
  <2>1. TotalQuota \in -1..TotalQuota
    BY QuotaAssumption
  <2>2. \A t \in Token : quota[t] \in [Mode -> -1..TotalQuota]
    BY DEF TypeOK
  <2>3. \A t \in Token : [quota[t] EXCEPT ![m] = TotalQuota] \in [Mode -> -1..TotalQuota]
    BY <2>1, <2>2
  <2> QED BY <2>2, <2>3 DEF QuotaSeen
<1>2. ResetSeen(m) \in [Token -> [Mode -> Nat]]
  <2>1. now + WindowSec \in Nat
    BY QuotaAssumption DEF TypeOK
  <2>2. \A t \in Token : reset[t] \in [Mode -> Nat]
    BY DEF TypeOK
  <2>3. \A t \in Token : [reset[t] EXCEPT ![m] = now + WindowSec] \in [Mode -> Nat]
    BY <2>1, <2>2
  <2> QED BY <2>2, <2>3 DEF ResetSeen
<1> QED
  BY <1>1, <1>2 DEF MaybeResetWindows, TypeOK

(* A failure reason is one of the four that callers know.                  *)
LEMMA ReasonType ==
    ASSUME NEW pools, NEW m, NEW x, NEW q
    PROVE  ClassifyReserveFailure(pools, m, x, q) \in FailureReasons
  BY DEF ClassifyReserveFailure, FailureReasons

(* A pool order is a list of pools.                                        *)
LEMMA PoolOrderType ==
    ASSUME NEW pools \in PoolOrders
    PROVE  /\ Len(pools) \in Nat
           /\ \A j \in 1..Len(pools) : pools[j] \in Pool
  BY PoolOrdersAssumption

(* Every step of the directory keeps its types.                            *)
LEMMA TypeStep ==
    ASSUME TypeOK, [Next]_vars
    PROVE  TypeOK'
<1>1. ASSUME NEW items \in ItemSets(Token), Bootstrap(items)
      PROVE  TypeOK'
  <2>1. /\ DOMAIN items \subseteq Token
        /\ \A t \in DOMAIN items : items[t] \in SlotType
    BY ItemSetsType
  <2>2. {} \in SUBSET Token
    OBVIOUS
  <2> QED BY <1>1, <2>1, <2>2, GroupTypes DEF Bootstrap, TypeOK, requests
<1>2. ASSUME NEW deleted \in SUBSET Token, NEW items \in ItemSets(Token \ deleted),
             ApplyChanges(deleted, items)
      PROVE  TypeOK'
  <2>1. /\ DOMAIN items \subseteq Token
        /\ \A t \in DOMAIN items : items[t] \in SlotType
    BY ItemSetsType
  <2> QED BY <1>2, <2>1, GroupTypes DEF ApplyChanges, TypeOK, requests
<1>3. ASSUME NEW r \in Request, NEW pools \in PoolOrders, NEW m \in Mode,
             NEW x \in SUBSET Token, Reserve(r, pools, m, x)
      PROVE  TypeOK'
  <2>0. PICK k \in 1..Len(pools) :
          /\ \E t \in Working(pools[k], m, x) :
               /\ inflight' = [inflight EXCEPT ![t] = @ + 1]
               /\ lease' = [lease EXCEPT ![r] = [token |-> t, mode |-> m]]
          /\ MaybeResetWindows({pools[j] : j \in 1..k}, m)
    BY <1>3 DEF Reserve
  <2>1. PICK t \in Working(pools[k], m, x) :
          /\ inflight' = [inflight EXCEPT ![t] = @ + 1]
          /\ lease' = [lease EXCEPT ![r] = [token |-> t, mode |-> m]]
    BY <2>0
  <2>2. pools[k] \in Pool
    BY PoolOrderType
  <2>3. t \in Token /\ inflight[t] < MaxInflight
    BY <2>2 DEF Working, TypeOK
  <2>4. inflight' \in [Token -> 0..MaxInflight]
    BY <2>1, <2>3, InflightAssumption DEF TypeOK
  <2>5. [token |-> t, mode |-> m] \in Lease
    BY <2>3 DEF Lease
  <2>6. [token |-> t, mode |-> m] # NoLease
    BY <2>5, ShapeAssumption
  <2>7. /\ lease' \in [Request -> Lease \cup {NoLease}]
        /\ \A q \in Request : pc'[q] \in {"leased", "released"} <=> lease'[q] # NoLease
    BY <1>3, <2>1, <2>5, <2>6 DEF Reserve, TypeOK
  <2>8. quota' \in [Token -> [Mode -> -1..TotalQuota]] /\ reset' \in [Token -> [Mode -> Nat]]
    BY <2>0, ResetTypes
  <2>9. pc' \in [Request -> {"idle", "leased", "released"} \cup FailureReasons]
    BY <1>3 DEF Reserve, TypeOK
  <2> QED BY <1>3, <2>4, <2>7, <2>8, <2>9 DEF Reserve, TypeOK
<1>4. ASSUME NEW r \in Request, NEW pools \in PoolOrders, NEW m \in Mode,
             NEW x \in SUBSET Token, ReserveFails(r, pools, m, x)
      PROVE  TypeOK'
  <2>1. \E reason \in FailureReasons : pc' = [pc EXCEPT ![r] = reason]
    BY <1>4, ReasonType DEF ReserveFails, FailureReasons
  <2>2. quota' \in [Token -> [Mode -> -1..TotalQuota]] /\ reset' \in [Token -> [Mode -> Nat]]
    BY <1>4, ResetTypes DEF ReserveFails, TypeOK
  <2>3. /\ pc' \in [Request -> {"idle", "leased", "released"} \cup FailureReasons]
        /\ \A q \in Request : pc'[q] \in {"leased", "released"} <=> lease'[q] # NoLease
    BY <1>4, <2>1 DEF ReserveFails, TypeOK, FailureReasons
  <2> QED BY <1>4, <2>2, <2>3 DEF ReserveFails, TypeOK
<1>5. ASSUME NEW r \in Request, Release(r)
      PROVE  TypeOK'
  <2>1. lease[r] # NoLease
    BY <1>5 DEF Release, TypeOK
  <2>2. lease[r].token \in Token
    BY <2>1 DEF TypeOK, Lease
  <2>3. inflight' \in [Token -> 0..MaxInflight]
    BY <1>5, <2>2, InflightAssumption DEF Release, TypeOK, NonNeg
  <2> QED BY <1>5, <2>3 DEF Release, TypeOK
<1>6. ASSUME NEW r \in Request, NEW kind \in Kinds, Feedback(r, kind)
      PROVE  TypeOK'
  <2>1. lease[r].token \in Token /\ lease[r].mode \in Mode
    BY <1>6 DEF Feedback, TypeOK, Lease
  <2>2. /\ pc' \in [Request -> {"idle", "leased", "released"} \cup FailureReasons]
        /\ lease' \in [Request -> Lease \cup {NoLease}]
        /\ \A q \in Request : pc'[q] \in {"leased", "released"} <=> lease'[q] # NoLease
    BY <1>6 DEF Feedback, TypeOK
  <2>q. quota \in [Token -> [Mode -> -1..TotalQuota]] /\ reset \in [Token -> [Mode -> Nat]]
    BY DEF TypeOK
  <2>3. CASE kind = "success"
    <3>1. quota' \in [Token -> [Mode -> -1..TotalQuota]]
      <4>1. \A i \in -1..TotalQuota : NonNeg(i - 1) \in -1..TotalQuota
        BY QuotaAssumption DEF NonNeg
      <4>2. ApplySuccess(lease[r].token, lease[r].mode)
        BY <1>6, <2>3 DEF Feedback
      <4> QED BY <4>1, <4>2, <2>1, <2>q DEF ApplySuccess
    <3> QED BY <1>6, <2>2, <2>3, <3>1 DEF Feedback, ApplySuccess, TypeOK
  <2>4. CASE kind = "rate_limited"
    <3>0. ApplyRateLimited(lease[r].token, lease[r].mode)
      BY <1>6, <2>4 DEF Feedback
    <3>1. quota' \in [Token -> [Mode -> -1..TotalQuota]]
      <4>1. 0 \in -1..TotalQuota
        BY QuotaAssumption
      <4> QED BY <4>1, <3>0, <2>1, <2>q DEF ApplyRateLimited
    <3>2. reset' \in [Token -> [Mode -> Nat]]
      <4>1. now + CoolingSec \in Nat
        BY QuotaAssumption DEF TypeOK
      <4>2. \A i \in Nat : Later(i, now + CoolingSec) \in Nat
        BY <4>1 DEF Later
      <4> QED BY <4>2, <3>0, <2>1, <2>q DEF ApplyRateLimited
    <3> QED BY <1>6, <2>2, <3>0, <3>1, <3>2 DEF Feedback, ApplyRateLimited, TypeOK
  <2>5. CASE kind = "unauthorized"
    <3>0. ApplyExpired(lease[r].token)
      BY <1>6, <2>5 DEF Feedback
    <3>1. status' \in [Token -> Statuses \cup {"absent", "deleted"}]
      BY <3>0, <2>1 DEF ApplyExpired, TypeOK, Statuses
    <3>2. avail' \in [Pool -> [Mode -> SUBSET Token]]
      <4>1. avail \in [Pool -> [Mode -> SUBSET Token]] /\ pool[lease[r].token] \in Pool
        BY <2>1 DEF TypeOK
      <4>2. [m \in Mode |-> avail[pool[lease[r].token]][m] \ {lease[r].token}]
                \in [Mode -> SUBSET Token]
        BY <4>1
      <4> QED BY <3>0, <4>1, <4>2 DEF ApplyExpired
    <3> QED BY <1>6, <2>2, <3>0, <3>1, <3>2 DEF Feedback, ApplyExpired, TypeOK
  <2>6. CASE kind \notin {"success", "rate_limited", "unauthorized"}
    BY <1>6, <2>2, <2>6 DEF Feedback, TypeOK
  <2> QED BY <2>3, <2>4, <2>5, <2>6
<1>7. ASSUME NEW r \in Request, NoFeedback(r)
      PROVE  TypeOK'
  BY <1>7 DEF NoFeedback, TypeOK, table
<1>8. ASSUME NEW name \in {"quota", "random"}, SetStrategy(name)
      PROVE  TypeOK'
  BY <1>8 DEF SetStrategy, TypeOK, table, requests
<1>9. ASSUME Tick
      PROVE  TypeOK'
  BY <1>9 DEF Tick, TypeOK, table, requests
<1>10. ASSUME UNCHANGED vars
       PROVE  TypeOK'
  BY <1>10 DEF vars, TypeOK, table, requests
<1> QED
  BY <1>1, <1>2, <1>3, <1>4, <1>5, <1>6, <1>7, <1>8, <1>9, <1>10
     DEF Next, Boot, SyncGroup, Serve

(* The directory's state is always of the right shape; in particular the   *)
(* in-flight counters stay within max_inflight.                            *)
THEOREM TypeCorrect == Spec => []TypeOK
<1>1. ASSUME Init PROVE TypeOK
  <2>1. -1 \in -1..TotalQuota /\ 0 \in 0..MaxInflight /\ 1 \in Nat
    BY QuotaAssumption, InflightAssumption
  <2>2. quota \in [Token -> [Mode -> -1..TotalQuota]] /\ reset \in [Token -> [Mode -> Nat]]
    BY <1>1, <2>1 DEF Init
  <2>3. avail \in [Pool -> [Mode -> SUBSET Token]]
    BY <1>1 DEF Init
  <2>4. pool \in [Token -> Pool]
    BY <1>1, ShapeAssumption DEF Init
  <2> QED BY <1>1, <2>1, <2>2, <2>3, <2>4 DEF Init, TypeOK
<1> QED
  BY <1>1, TypeStep, PTL DEF Spec

-----------------------------------------------------------------------------
(* Writing a group keeps ModeAvailable consistent: a slot leaves the       *)
(* buckets of its old pool before it enters those of its new one.          *)
LEMMA GroupIndex ==
    ASSUME TypeOK, IndexConsistent, NEW deleted \in SUBSET Token, NEW items,
           DOMAIN items \subseteq Token \ deleted,
           \A t \in DOMAIN items : items[t] \in SlotType,
           RestatusGroup(deleted, items), WriteSlots(items), Reindex(deleted, items)
    PROVE  IndexConsistent'
<1> SUFFICES ASSUME NEW p \in Pool, NEW m \in Mode, NEW t \in Token
             PROVE  t \in avail'[p][m] <=>
                        status'[t] = "active" /\ pool'[t] = p /\ m \in modes'[t]
  BY DEF IndexConsistent
<1>1. avail'[p][m] = (avail[p][m] \ {u \in (deleted \cup DOMAIN items) \cap Present : pool[u] = p})
                         \cup Indexed(items, p, m)
  BY DEF Reindex
<1>2. t \in avail[p][m] <=> status[t] = "active" /\ pool[t] = p /\ m \in modes[t]
  BY DEF IndexConsistent
<1>3. t \in Present <=> status[t] # "absent"
  BY DEF Present
<1>4. CASE t \in DOMAIN items
  <2>1. /\ status'[t] = items[t].status
        /\ pool'[t] = items[t].pool
        /\ modes'[t] = items[t].modes
    BY <1>4 DEF RestatusGroup, WriteSlots
  <2>2. t \in Indexed(items, p, m) <=>
            status'[t] = "active" /\ pool'[t] = p /\ m \in modes'[t]
    BY <1>4, <2>1 DEF Indexed
  <2>3. t \in avail[p][m] => t \in {u \in (deleted \cup DOMAIN items) \cap Present : pool[u] = p}
    BY <1>2, <1>3, <1>4
  <2> QED BY <1>1, <2>2, <2>3
<1>5. CASE t \in deleted
  <2>1. t \notin DOMAIN items
    BY <1>5
  <2>2. status'[t] # "active"
    BY <1>3, <1>5, <2>1 DEF RestatusGroup
  <2>3. t \notin Indexed(items, p, m)
    BY <2>1 DEF Indexed
  <2>4. t \in avail[p][m] => t \in {u \in (deleted \cup DOMAIN items) \cap Present : pool[u] = p}
    BY <1>2, <1>3, <1>5
  <2> QED BY <1>1, <2>2, <2>3, <2>4
<1>6. CASE t \notin DOMAIN items /\ t \notin deleted
  <2>1. status'[t] = status[t] /\ pool'[t] = pool[t] /\ modes'[t] = modes[t]
    BY <1>6 DEF RestatusGroup, WriteSlots
  <2>2. t \notin Indexed(items, p, m)
    BY <1>6 DEF Indexed
  <2> QED BY <1>1, <1>2, <1>6, <2>1, <2>2
<1> QED
  BY <1>4, <1>5, <1>6

(* Every step of the directory keeps ModeAvailable consistent.             *)
LEMMA IndexStep ==
    ASSUME TypeOK, IndexConsistent, [Next]_vars
    PROVE  IndexConsistent'
<1>1. ASSUME NEW items \in ItemSets(Token), Bootstrap(items)
      PROVE  IndexConsistent'
  <2>1. /\ DOMAIN items \subseteq Token \ {}
        /\ \A t \in DOMAIN items : items[t] \in SlotType
    BY ItemSetsType
  <2>2. {} \in SUBSET Token
    OBVIOUS
  <2> QED BY <1>1, <2>1, <2>2, GroupIndex DEF Bootstrap
<1>2. ASSUME NEW deleted \in SUBSET Token, NEW items \in ItemSets(Token \ deleted),
             ApplyChanges(deleted, items)
      PROVE  IndexConsistent'
  <2>1. /\ DOMAIN items \subseteq Token \ deleted
        /\ \A t \in DOMAIN items : items[t] \in SlotType
    BY ItemSetsType
  <2> QED BY <1>2, <2>1, GroupIndex DEF ApplyChanges
<1>3. ASSUME NEW r \in Request, NEW kind \in Kinds, Feedback(r, kind)
      PROVE  IndexConsistent'
  <2>1. CASE kind = "unauthorized"
    <3> DEFINE u == lease[r].token
    <3>1. u \in Token
      BY <1>3 DEF Feedback, TypeOK, Lease
    <3>2. /\ status' = [status EXCEPT ![u] = "expired"]
          /\ avail' = IF status[u] = "expired" THEN avail
                      ELSE [avail EXCEPT ![pool[u]] = [m \in Mode |-> @[m] \ {u}]]
          /\ UNCHANGED <<pool, modes>>
      BY <1>3, <2>1 DEF Feedback, ApplyExpired
    <3> HIDE DEF u
    <3> SUFFICES ASSUME NEW p \in Pool, NEW m \in Mode, NEW t \in Token
                 PROVE  t \in avail'[p][m] <=>
                            status'[t] = "active" /\ pool'[t] = p /\ m \in modes'[t]
      BY DEF IndexConsistent
    <3>3. t \in avail[p][m] <=> status[t] = "active" /\ pool[t] = p /\ m \in modes[t]
      BY DEF IndexConsistent
    <3>4. status'[t] = (IF t = u THEN "expired" ELSE status[t])
      BY <3>1, <3>2 DEF TypeOK
    <3>5. t \in avail'[p][m] <=> t \in avail[p][m] /\ (status[u] = "expired" \/ pool[u] # p \/ t # u)
      BY <3>1, <3>2 DEF TypeOK
    <3> QED BY <3>2, <3>3, <3>4, <3>5
  <2>2. CASE kind # "unauthorized"
    BY <1>3, <2>2 DEF Feedback, ApplySuccess, ApplyRateLimited, IndexConsistent
  <2> QED BY <2>1, <2>2
<1>4. ASSUME UNCHANGED <<status, pool, modes, avail>>
      PROVE  IndexConsistent'
  BY <1>4 DEF IndexConsistent
<1>5. CASE Boot
  BY <1>1, <1>5 DEF Boot
<1>6. CASE SyncGroup
  BY <1>2, <1>6 DEF SyncGroup
<1>7. ASSUME NEW r \in Request, Serve(r)
      PROVE  IndexConsistent'
  <2>1. CASE \E kind \in Kinds : Feedback(r, kind)
    BY <1>3, <2>1
  <2>2. CASE Release(r) \/ NoFeedback(r)
    BY <1>4, <2>2 DEF Release, NoFeedback, table
  <2>3. ASSUME NEW pools \in PoolOrders, NEW m \in Mode, NEW excluded \in SUBSET Token,
               Reserve(r, pools, m, excluded) \/ ReserveFails(r, pools, m, excluded)
        PROVE  IndexConsistent'
    BY <1>4, <2>3 DEF Reserve, ReserveFails, table
  <2> QED BY <1>7, <2>1, <2>2, <2>3 DEF Serve
<1>8. ASSUME NEW name \in {"quota", "random"}, SetStrategy(name)
      PROVE  IndexConsistent'
  BY <1>4, <1>8 DEF SetStrategy, table
<1>9. CASE Tick \/ UNCHANGED vars
  BY <1>4, <1>9 DEF Tick, vars, table
<1> QED BY <1>5, <1>6, <1>7, <1>8, <1>9 DEF Next

(* ModeAvailable is consistent in every reachable state, for any number of *)
(* accounts, pools and modes and any interleaving of syncs and requests.   *)
THEOREM IndexCorrect == Spec => []IndexConsistent
<1>1. Init => IndexConsistent
  BY DEF Init, IndexConsistent
<1> QED
  BY <1>1, IndexStep, TypeCorrect, PTL DEF Spec

(* A consistent index makes every account that classifyReserveFailure      *)
(* would count as available a candidate of the selectors.                  *)
LEMMA IndexMakesFailuresReal ==
    ASSUME TypeOK, IndexConsistent
    PROVE  FailureIsReal
<1> SUFFICES ASSUME NEW pools \in PoolOrders, NEW m \in Mode, NEW x \in SUBSET Token,
                    NEW t \in Available(pools, m, x, QuotaAfter(pools, m))
             PROVE  \E j \in 1..Len(pools) : Working(pools[j], m, x) # {}
  BY DEF FailureIsReal
<1>1. /\ t \in Token /\ t \notin x
      /\ status[t] = "active" /\ m \in modes[t] /\ inflight[t] < MaxInflight
      /\ QuotaAfter(pools, m)[t][m] > 0
  BY DEF Available, Counted, Live
<1>2. PICK j \in 1..Len(pools) : pools[j] = pool[t]
  BY DEF Available, Counted
<1>3. pool[t] \in Pool
  BY <1>1 DEF TypeOK
<1>4. t \in avail[pools[j]][m]
  BY <1>1, <1>2, <1>3 DEF IndexConsistent
<1>5. QuotaSeen(m)[t][m] > 0
  <2>1. CASE Due(t, m)
    <3>1. QuotaSeen(m)[t] = [quota[t] EXCEPT ![m] = TotalQuota]
      BY <1>1, <2>1 DEF QuotaSeen
    <3>2. quota[t] \in [Mode -> -1..TotalQuota]
      BY <1>1 DEF TypeOK
    <3>3. QuotaSeen(m)[t][m] = TotalQuota
      BY <3>1, <3>2
    <3> QED BY <3>3, QuotaAssumption
  <2>2. CASE ~Due(t, m)
    <3>1. QuotaSeen(m)[t] = quota[t]
      BY <1>1, <2>2 DEF QuotaSeen
    <3> QED BY <1>1, <3>1 DEF QuotaAfter
  <2> QED BY <2>1, <2>2
<1>6. t \in Working(pools[j], m, x)
  BY <1>1, <1>4, <1>5 DEF Working
<1> QED
  BY <1>6

(* reserveDetailed never reports a failure while an account could serve    *)
(* the request.                                                            *)
THEOREM FailuresAreReal == Spec => []FailureIsReal
  BY TypeCorrect, IndexCorrect, IndexMakesFailuresReal, PTL

-----------------------------------------------------------------------------
(* What a successful reservation changes.                                  *)
LEMMA ReserveEffect ==
    ASSUME TypeOK, IndexConsistent, NEW r \in Request, NEW pools \in PoolOrders,
           NEW m \in Mode, NEW x \in SUBSET Token, Reserve(r, pools, m, x)
    PROVE  \E t \in Token :
             /\ lease' = [lease EXCEPT ![r] = [token |-> t, mode |-> m]]
             /\ inflight' = [inflight EXCEPT ![t] = @ + 1]
             /\ status[t] = "active" /\ m \in modes[t]
             /\ quota'[t][m] > 0
             /\ inflight[t] < MaxInflight
<1>1. PICK k \in 1..Len(pools) :
        /\ \E t \in Working(pools[k], m, x) :
             /\ inflight' = [inflight EXCEPT ![t] = @ + 1]
             /\ lease' = [lease EXCEPT ![r] = [token |-> t, mode |-> m]]
        /\ MaybeResetWindows({pools[j] : j \in 1..k}, m)
  BY DEF Reserve
<1>2. PICK t \in Working(pools[k], m, x) :
        /\ inflight' = [inflight EXCEPT ![t] = @ + 1]
        /\ lease' = [lease EXCEPT ![r] = [token |-> t, mode |-> m]]
  BY <1>1
<1>3. pools[k] \in Pool /\ pools[k] \in {pools[j] : j \in 1..k}
  BY PoolOrderType
<1>4. /\ t \in avail[pools[k]][m]
      /\ QuotaSeen(m)[t][m] > 0
      /\ inflight[t] < MaxInflight
  BY DEF Working
<1>5. t \in Token
  BY <1>3, <1>4 DEF TypeOK
<1>6. status[t] = "active" /\ pool[t] = pools[k] /\ m \in modes[t]
  BY <1>3, <1>4, <1>5 DEF IndexConsistent
<1>7. quota'[t][m] > 0
  <2>1. CASE BasicPool \in {pools[j] : j \in 1..k}
    BY <1>1, <1>4, <2>1 DEF MaybeResetWindows
  <2>2. CASE BasicPool \notin {pools[j] : j \in 1..k}
    <3>1. ~Due(t, m)
      BY <1>3, <1>6, <2>2 DEF Due
    <3>2. QuotaSeen(m)[t] = quota[t]
      BY <1>5, <3>1 DEF QuotaSeen
    <3>3. quota' = quota
      BY <1>1, <2>2 DEF MaybeResetWindows
    <3> QED BY <1>4, <3>2, <3>3
  <2> QED BY <2>1, <2>2
<1> QED
  BY <1>2, <1>4, <1>5, <1>6, <1>7

(* Every step that hands out a lease hands out a sound one.                *)
LEMMA ReserveStep ==
    ASSUME TypeOK, IndexConsistent, [Next]_vars
    PROVE  [ReserveOK]_vars
<1>1. ASSUME NEW r \in Request, NEW pools \in PoolOrders, NEW m \in Mode,
             NEW x \in SUBSET Token, Reserve(r, pools, m, x)
      PROVE  ReserveOK
  <2>1. PICK t \in Token :
             /\ lease' = [lease EXCEPT ![r] = [token |-> t, mode |-> m]]
             /\ status[t] = "active" /\ m \in modes[t]
             /\ quota'[t][m] > 0
             /\ inflight[t] < MaxInflight
    BY <1>1, ReserveEffect
  <2>2. lease'[r].token = t /\ lease'[r].mode = m
    BY <2>1 DEF TypeOK
  <2>3. \A q \in Request : pc[q] # "leased" /\ pc'[q] = "leased" => q = r
    BY <1>1 DEF Reserve, TypeOK
  <2> QED BY <2>1, <2>2, <2>3 DEF ReserveOK
<1>2. ASSUME \A q \in Request : pc'[q] = "leased" => pc[q] = "leased"
      PROVE  ReserveOK
  BY <1>2 DEF ReserveOK
<1>3. ASSUME NEW r \in Request, NEW pools \in PoolOrders, NEW m \in Mode,
             NEW x \in SUBSET Token, ReserveFails(r, pools, m, x)
      PROVE  \A q \in Request : pc'[q] = "leased" => pc[q] = "leased"
  <2>1. \E reason \in FailureReasons : pc' = [pc EXCEPT ![r] = reason]
    BY <1>3, ReasonType DEF ReserveFails, FailureReasons
  <2> QED BY <2>1 DEF TypeOK, FailureReasons
<1>4. ASSUME NEW r \in Request,
             Release(r) \/ NoFeedback(r) \/ \E kind \in Kinds : Feedback(r, kind)
      PROVE  \A q \in Request : pc'[q] = "leased" => pc[q] = "leased"
  <2>1. pc' = [pc EXCEPT ![r] = "released"] \/ pc' = [pc EXCEPT ![r] = "idle"]
    BY <1>4 DEF Release, NoFeedback, Feedback
  <2> QED BY <2>1 DEF TypeOK
<1>5. ASSUME Boot \/ SyncGroup \/ Tick \/ UNCHANGED vars
             \/ \E name \in {"quota", "random"} : SetStrategy(name)
      PROVE  \A q \in Request : pc'[q] = "leased" => pc[q] = "leased"
  BY <1>5 DEF Boot, SyncGroup, Bootstrap, ApplyChanges, Tick, SetStrategy, vars, requests
<1> QED
  BY <1>1, <1>2, <1>3, <1>4, <1>5 DEF Next, Serve

(* Every reservation hands out an active account that serves the mode, has *)
(* quota and is below the in-flight limit.                                 *)
THEOREM ReservationsAreSound == Spec => ReserveSound
  BY TypeCorrect, IndexCorrect, ReserveStep, PTL DEF Spec, ReserveSound

-----------------------------------------------------------------------------
(* Every step keeps the in-flight counters equal to the leases held.       *)
LEMMA InflightStep ==
    ASSUME TypeOK, IndexConsistent, InflightMatchesLeases, [Next]_vars
    PROVE  InflightMatchesLeases'
<1>f. \A t \in Token : IsFiniteSet(Holders(t)) /\ Cardinality(Holders(t)) \in Nat
  <2>1. \A t \in Token : Holders(t) \subseteq Request
    BY DEF Holders
  <2> QED BY <2>1, FiniteAssumption, FS_Subset, FS_CardinalityType
<1>1. ASSUME NEW r \in Request, NEW pools \in PoolOrders, NEW m \in Mode,
             NEW x \in SUBSET Token, Reserve(r, pools, m, x)
      PROVE  InflightMatchesLeases'
  <2>1. PICK t \in Token :
             /\ lease' = [lease EXCEPT ![r] = [token |-> t, mode |-> m]]
             /\ inflight' = [inflight EXCEPT ![t] = @ + 1]
    BY <1>1, ReserveEffect
  <2>2. pc[r] # "leased" /\ pc' = [pc EXCEPT ![r] = "leased"]
    BY <1>1 DEF Reserve
  <2>3. r \notin Holders(t)
    BY <2>2 DEF Holders
  <2>4. Holders(t)' = Holders(t) \cup {r}
    BY <2>1, <2>2 DEF Holders, TypeOK
  <2>5. \A u \in Token \ {t} : Holders(u)' = Holders(u)
    BY <2>1, <2>2 DEF Holders, TypeOK
  <2>6. Cardinality(Holders(t)') = Cardinality(Holders(t)) + 1
    BY <1>f, <2>3, <2>4, FS_AddElement
  <2>7. inflight'[t] = inflight[t] + 1 /\ \A u \in Token \ {t} : inflight'[u] = inflight[u]
    BY <2>1 DEF TypeOK
  <2> QED BY <2>5, <2>6, <2>7 DEF InflightMatchesLeases
<1>2. ASSUME NEW r \in Request, Release(r)
      PROVE  InflightMatchesLeases'
  <2>1. PICK t \in Token : t = lease[r].token
    BY <1>2 DEF Release, TypeOK, Lease
  <2>2. /\ pc[r] = "leased" /\ pc' = [pc EXCEPT ![r] = "released"]
        /\ lease' = lease
        /\ inflight' = [inflight EXCEPT ![t] = NonNeg(@ - 1)]
    BY <1>2, <2>1 DEF Release
  <2>3. r \in Holders(t)
    BY <2>1, <2>2 DEF Holders
  <2>4. Holders(t)' = Holders(t) \ {r}
    BY <2>1, <2>2 DEF Holders, TypeOK
  <2>5. \A u \in Token \ {t} : Holders(u)' = Holders(u)
    BY <2>1, <2>2 DEF Holders, TypeOK
  <2>6. Cardinality(Holders(t)') = Cardinality(Holders(t)) - 1
    BY <1>f, <2>1, <2>3, <2>4, FS_RemoveElement
  <2>7. Cardinality(Holders(t)) # 0
    BY <1>f, <2>1, <2>3, FS_EmptySet
  <2>8. /\ inflight'[t] = NonNeg(inflight[t] - 1)
        /\ \A u \in Token \ {t} : inflight'[u] = inflight[u]
    BY <2>1, <2>2 DEF TypeOK
  <2>9. inflight'[t] = Cardinality(Holders(t)')
    BY <1>f, <2>1, <2>6, <2>7, <2>8 DEF InflightMatchesLeases, NonNeg
  <2> QED BY <2>5, <2>8, <2>9 DEF InflightMatchesLeases
<1>3. ASSUME inflight' = inflight, \A t \in Token : Holders(t)' = Holders(t)
      PROVE  InflightMatchesLeases'
  BY <1>3 DEF InflightMatchesLeases
<1>4. ASSUME NEW r \in Request, NEW pools \in PoolOrders, NEW m \in Mode,
             NEW x \in SUBSET Token, ReserveFails(r, pools, m, x)
      PROVE  inflight' = inflight /\ \A t \in Token : Holders(t)' = Holders(t)
  <2>1. \E reason \in FailureReasons : pc' = [pc EXCEPT ![r] = reason]
    BY <1>4, ReasonType DEF ReserveFails, FailureReasons
  <2> QED BY <1>4, <2>1 DEF ReserveFails, Holders, TypeOK, FailureReasons
<1>5. ASSUME NEW r \in Request, NoFeedback(r) \/ \E kind \in Kinds : Feedback(r, kind)
      PROVE  inflight' = inflight /\ \A t \in Token : Holders(t)' = Holders(t)
  <2>1. /\ inflight' = inflight
        /\ pc[r] = "released" /\ pc' = [pc EXCEPT ![r] = "idle"]
        /\ lease' = [lease EXCEPT ![r] = NoLease]
    BY <1>5 DEF NoFeedback, Feedback, table
  <2> QED BY <2>1 DEF Holders, TypeOK
<1>6. ASSUME Boot \/ SyncGroup \/ Tick \/ UNCHANGED vars
             \/ \E name \in {"quota", "random"} : SetStrategy(name)
      PROVE  inflight' = inflight /\ \A t \in Token : Holders(t)' = Holders(t)
  BY <1>6 DEF Boot, SyncGroup, Bootstrap, ApplyChanges, WriteSlots, Tick, SetStrategy,
              vars, table, requests, Holders
<1> QED
  BY <1>1, <1>2, <1>3, <1>4, <1>5, <1>6 DEF Next, Serve

(* In every reachable state the in-flight counter of an account is the     *)
(* number of leases out on it: none is leaked and none released twice,     *)
(* however syncs, deletions and re-imports interleave with requests.       *)
THEOREM InflightCorrect == Spec => []InflightMatchesLeases
<1>1. ASSUME Init PROVE InflightMatchesLeases
  <2>1. \A t \in Token : Holders(t) = {}
    BY <1>1 DEF Init, Holders
  <2> QED BY <1>1, <2>1, FS_EmptySet DEF Init, InflightMatchesLeases
<1> QED
  BY <1>1, InflightStep, TypeCorrect, IndexCorrect, PTL DEF Spec

-----------------------------------------------------------------------------
(* A consistent index lists only pools that can be reserved from.          *)
LEMMA IndexMakesPoolsReservable ==
    ASSUME TypeOK, IndexConsistent
    PROVE  AvailablePoolsReservable
<1> SUFFICES ASSUME NEW p \in Pool, NEW m \in Mode, NEW t \in Available(<<p>>, m, {}, quota)
             PROVE  Working(p, m, {}) # {}
  BY DEF AvailablePoolsReservable, AvailablePools
<1>1. /\ t \in Token /\ status[t] = "active" /\ m \in modes[t]
      /\ inflight[t] < MaxInflight /\ quota[t][m] > 0 /\ pool[t] = p
  BY DEF Available, Counted, Live
<1>2. t \in avail[p][m]
  BY <1>1 DEF IndexConsistent
<1>3. QuotaSeen(m)[t][m] > 0
  <2>1. quota[t] \in [Mode -> -1..TotalQuota]
    BY <1>1 DEF TypeOK
  <2>2. QuotaSeen(m)[t] = IF Due(t, m) THEN [quota[t] EXCEPT ![m] = TotalQuota] ELSE quota[t]
    BY <1>1 DEF QuotaSeen
  <2> QED BY <1>1, <2>1, <2>2, QuotaAssumption
<1> QED
  BY <1>1, <1>2, <1>3 DEF Working

(* AvailablePools never lists the models of a pool whose reservation would *)
(* fail at once.                                                           *)
THEOREM PoolsAreReservable == Spec => []AvailablePoolsReservable
  BY TypeCorrect, IndexCorrect, IndexMakesPoolsReservable, PTL

(* Only a sync or the bootstrap enters an account in the index: whatever a *)
(* request does, a late feedback on an account that was re-imported or     *)
(* deleted meanwhile included, takes accounts out of it or leaves it.      *)
THEOREM RequestsOnlyNarrow == Spec => RequestsNeverWiden
<1> DEFINE Narrower == \A p \in Pool, m \in Mode : avail'[p][m] \subseteq avail[p][m]
<1>1. ASSUME TypeOK, NEW r \in Request, NEW kind \in Kinds, Feedback(r, kind)
      PROVE  Narrower
  <2>1. avail' = avail \/ /\ lease[r].token \in Token
                          /\ avail' = [avail EXCEPT ![pool[lease[r].token]] =
                                         [m \in Mode |-> @[m] \ {lease[r].token}]]
    BY <1>1 DEF Feedback, ApplySuccess, ApplyRateLimited, ApplyExpired, TypeOK, Lease
  <2>2. ASSUME NEW p \in Pool, NEW m \in Mode
        PROVE  avail'[p][m] \subseteq avail[p][m]
    <3>1. avail \in [Pool -> [Mode -> SUBSET Token]] /\ pool \in [Token -> Pool]
      BY <1>1 DEF TypeOK
    <3> QED BY <2>1, <2>2, <3>1
  <2> QED BY <2>2
<1>2. ASSUME TypeOK, [Next]_vars
      PROVE  [requests' # requests => Narrower]_vars
  <2>1. CASE requests' = requests
    BY <2>1
  <2>2. ASSUME NEW r \in Request, Serve(r) PROVE Narrower
    <3>1. (\E kind \in Kinds : Feedback(r, kind)) \/ avail' = avail
      BY <2>2 DEF Serve, Reserve, ReserveFails, Release, NoFeedback, table
    <3>2. CASE avail' = avail
      BY <3>2
    <3> QED BY <1>1, <1>2, <3>1, <3>2
  <2>3. Boot \/ SyncGroup \/ Tick \/ (\E name \in {"quota", "random"} : SetStrategy(name))
          \/ UNCHANGED vars => requests' = requests
    BY DEF Boot, SyncGroup, Bootstrap, ApplyChanges, Tick, SetStrategy, vars, requests
  <2> QED BY <1>2, <2>1, <2>2, <2>3 DEF Next
<1> QED
  BY <1>2, TypeCorrect, PTL DEF Spec, RequestsNeverWiden
=============================================================================
