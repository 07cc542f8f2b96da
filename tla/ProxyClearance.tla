--------------------------- MODULE ProxyClearance ---------------------------
(***************************************************************************)
(* The egress proxies and their Cloudflare clearance                       *)
(* (src/app/control/proxy): requests take a lease of the current proxy     *)
(* and of the clearance bundle of that proxy and host; of the requests     *)
(* that find no usable bundle one asks the solver and the others wait for  *)
(* it; failures put the key on a cooldown; the scheduler warms up and      *)
(* refreshes the bundles; the configuration may change under all of them.  *)
(* Requests and the scheduler's loop are processes of the same kind, the   *)
(* directory's mutex makes every step below one action.                    *)
(*                                                                         *)
(* External: the solver (FlareSolverr or Byparr), which answers within its *)
(* timeout, and the sites that challenge a request.                        *)
(***************************************************************************)
EXTENDS Integers, Sequences, FiniteSets, SequencesExt

CONSTANTS Caller,        \* requests
          Scheduler,     \* the scheduler's loop
          Settings,      \* configurations: [egress, clearance, pool, resources]
          Host,          \* hosts with a clearance of their own
          DefaultHost,   \* the host of the scheduler's refreshes
          BaseCooldown, MaxCooldown, HalfOpen,   \* in ticks
          MaxFailures,
          Statuses,      \* of the answers to leased requests
          MaxRequests,   \* requests of one caller (bound)
          MaxReconfigs,  \* changes of the configuration (bound)
          NoBundle, NoEvent

VARIABLES setting,     \* external: the configuration as stored
          directory,   \* what Load took over: mode, nodes, poolCursor
          bundles,     \* bundles: key -> [state, usable, reported]
          events,      \* refreshEvents: key -> the process that refreshes
          backoff,     \* refreshBackoffUntil: key -> ticks left
          failures,    \* failureCounts
          procs,       \* requests and the scheduler
          gone,        \* history: keys whose refresh a Load forgot
          requests, reconfigs

vars == <<setting, directory, bundles, events, backoff, failures, procs, gone, requests, reconfigs>>

Proc == Caller \cup {Scheduler}
Affinity == {"direct"} \cup UNION {ToSet(s.pool) \cup ToSet(s.resources) : s \in Settings}
Key == Affinity \X Host
Idle == [pc |-> "idle", mode |-> "none", key |-> <<"direct", DefaultHost>>, event |-> NoEvent, todo |-> {},
         resource |-> FALSE, report |-> FALSE]

Init ==
    /\ setting \in Settings
    /\ directory = [egress |-> "direct", clearance |-> "none", pool |-> <<>>, resources |-> <<>>,
                    cursor |-> 0, loaded |-> NoBundle]
    /\ bundles = [k \in Key |-> NoBundle]
    /\ events = [k \in Key |-> NoEvent]
    /\ backoff = [k \in Key |-> 0]
    /\ failures = [k \in Key |-> 0]
    /\ procs = [p \in Proc |-> Idle]
    /\ gone = {}
    /\ requests = [c \in Caller |-> 0]
    /\ reconfigs = 0

At(p, pc) == procs[p].pc = pc
Stored(k) == bundles[k] # NoBundle
Valid(k) == Stored(k) /\ bundles[k].state = "valid"

-----------------------------------------------------------------------------
(* Load: nothing when the configuration is the one already loaded; otherwise *)
(* everything of a proxy that is no longer configured is dropped, and the    *)
(* other bundles are invalid.                                                *)

(* A single proxy that is not set is no node.                                *)
First(urls) == IF urls = <<>> THEN <<>> ELSE <<urls[1]>>
BuildEgressNodes(s) ==
    CASE s.egress = "single_proxy" -> [pool |-> First(s.pool), resources |-> First(s.resources)]
      [] s.egress = "proxy_pool" -> [pool |-> s.pool, resources |-> s.resources]
      [] OTHER -> [pool |-> <<>>, resources |-> <<>>]
ValidAffinities(s) ==
    LET nodes == BuildEgressNodes(s)
        urls == ToSet(nodes.pool) \cup ToSet(nodes.resources)
    IN IF urls = {} THEN {"direct"} ELSE urls
Load ==
    IF directory.loaded = setting
    THEN UNCHANGED <<directory, bundles, events, backoff, failures, gone>>
    ELSE LET keep == ValidAffinities(setting) \X Host
             nodes == BuildEgressNodes(setting)
         IN /\ directory' = [egress |-> setting.egress, clearance |-> setting.clearance, pool |-> nodes.pool,
                             resources |-> nodes.resources, cursor |-> 0, loaded |-> setting]
            /\ bundles' = [k \in Key |-> IF k \in keep /\ Stored(k)
                                         THEN [bundles[k] EXCEPT !.state = "invalid"] ELSE NoBundle]
            /\ events' = [k \in Key |-> IF k \in keep THEN events[k] ELSE NoEvent]
            /\ backoff' = [k \in Key |-> IF k \in keep THEN backoff[k] ELSE 0]
            /\ failures' = [k \in Key |-> IF k \in keep THEN failures[k] ELSE 0]
            /\ gone' = gone \cup {k \in Key \ keep : events[k] # NoEvent}

(* affinityItems of the loaded nodes. *)
NodeKeys == (IF directory'.pool = <<>> THEN {"direct"} ELSE ToSet(directory'.pool)) \X {DefaultHost}

-----------------------------------------------------------------------------
(* A request: GetProxyDirectory loads, Acquire picks the proxy. *)

Request(c, resource) ==
    /\ At(c, "idle")
    /\ requests[c] < MaxRequests
    /\ requests' = [requests EXCEPT ![c] = @ + 1]
    /\ Load
    /\ procs' = [procs EXCEPT ![c] = [Idle EXCEPT !.pc = "pick", !.resource = resource]]
    /\ UNCHANGED <<setting, reconfigs>>
PickProxyURL(resource) ==
    LET nodes == IF resource /\ directory.resources # <<>> THEN directory.resources ELSE directory.pool
    IN CASE directory.egress = "direct" \/ nodes = <<>> -> "direct"
         [] directory.egress = "single_proxy" /\ nodes # <<>> -> nodes[1]
         [] OTHER -> nodes[(directory.cursor % Len(nodes)) + 1]
Acquire(c, h) ==
    /\ At(c, "pick")
    /\ procs' = [procs EXCEPT ![c].pc = "state", ![c].key = <<PickProxyURL(procs[c].resource), h>>]
    /\ UNCHANGED <<setting, directory, bundles, events, backoff, failures, gone, requests, reconfigs>>

(* bundleRefreshState.  Served, without a bundle, or with one: a valid one,  *)
(* or during a cooldown the last one if it has cookies and a user agent.     *)
CooldownBundle(k) == backoff[k] > 0 /\ Stored(k) /\ bundles[k].usable
After(p) == IF p = Scheduler THEN "warm" ELSE "leased"
NoClearance(p) ==
    LET k == procs[p].key IN
    /\ At(p, "state")
    /\ directory.clearance = "none" \/ (backoff[k] > 0 /\ ~Valid(k) /\ ~CooldownBundle(k))
    /\ procs' = [procs EXCEPT ![p].pc = After(p)]
    /\ UNCHANGED <<setting, directory, bundles, events, backoff, failures, gone, requests, reconfigs>>
TakeBundle(p) ==
    LET k == procs[p].key IN
    /\ At(p, "state") /\ directory.clearance # "none"
    /\ Valid(k) \/ CooldownBundle(k)
    /\ bundles' = IF Valid(k) \/ bundles[k].state = "stale" THEN bundles
                  ELSE [bundles EXCEPT ![k].state = "stale"]
    /\ procs' = [procs EXCEPT ![p].pc = After(p), ![p].report = bundles[k].reported]
    /\ UNCHANGED <<setting, directory, events, backoff, failures, gone, requests, reconfigs>>
Undecided(k) == directory.clearance # "none" /\ ~Valid(k) /\ backoff[k] = 0
(* Faulty variant: the winner does not say that it refreshes. *)
BecomeWinnerSilently(p) ==
    /\ At(p, "state") /\ Undecided(procs[p].key) /\ events[procs[p].key] = NoEvent
    /\ procs' = [procs EXCEPT ![p].pc = "solve", ![p].event = p, ![p].mode = directory.clearance]
    /\ UNCHANGED <<setting, directory, bundles, events, backoff, failures, gone, requests, reconfigs>>

BecomeWinner(p) ==
    LET k == procs[p].key IN
    /\ At(p, "state") /\ Undecided(k) /\ events[k] = NoEvent
    /\ events' = [events EXCEPT ![k] = p]
    /\ procs' = [procs EXCEPT ![p].pc = "solve", ![p].event = p, ![p].mode = directory.clearance]
    /\ UNCHANGED <<setting, directory, bundles, backoff, failures, gone, requests, reconfigs>>
WaitForWinner(p) ==
    LET k == procs[p].key IN
    /\ At(p, "state") /\ Undecided(k) /\ events[k] # NoEvent
    /\ procs' = [procs EXCEPT ![p].pc = "wait", ![p].event = events[k]]
    /\ UNCHANGED <<setting, directory, bundles, events, backoff, failures, gone, requests, reconfigs>>
(* The client of a waiting request goes away. *)
WaitCancelled(c) ==
    /\ At(c, "wait")
    /\ procs' = [procs EXCEPT ![c] = Idle]
    /\ UNCHANGED <<setting, directory, bundles, events, backoff, failures, gone, requests, reconfigs>>

-----------------------------------------------------------------------------
(* The refresh of one bundle. *)

(* A solver's answer: cookies, none (a status over 400, no cookies), a       *)
(* message about a request that failed or timed out, or an error.            *)
RunClearanceSolve == {"ok", "none", "message", "error"}
(* A provider works only while the stored configuration names it; the manual *)
(* one always answers, perhaps without cookies.                              *)
FlareSolverr == IF setting.clearance = "flaresolverr" THEN RunClearanceSolve ELSE {"none"}
Byparr == IF setting.clearance = "byparr" THEN RunClearanceSolve ELSE {"none"}
Manual == IF setting.clearance = "manual" THEN {"ok", "empty"} ELSE {"none"}
RefreshBundle(mode) ==
    CASE mode = "manual" -> Manual
      [] mode = "byparr" -> Byparr
      [] OTHER -> FlareSolverr
Fresh(outcome) == [state |-> "valid", usable |-> outcome = "ok", reported |-> FALSE]
Cooldown(n) ==
    IF n >= MaxFailures THEN HalfOpen
    ELSE LET grown == BaseCooldown * 2 ^ (n - 1) IN IF grown > MaxCooldown THEN MaxCooldown ELSE grown
RecordRefreshSuccess(k, outcome) ==
    /\ bundles' = [bundles EXCEPT ![k] = Fresh(outcome)]
    /\ failures' = [failures EXCEPT ![k] = 0]
    /\ backoff' = [backoff EXCEPT ![k] = 0]
(* recordRefreshFailureLocked, over the bundles a failed refresh leaves. *)
RecordRefreshFailure(k, left) ==
    LET n == IF failures[k] < MaxFailures THEN failures[k] + 1 ELSE MaxFailures IN
    /\ failures' = [failures EXCEPT ![k] = n]
    /\ backoff' = [backoff EXCEPT ![k] = Cooldown(n)]
    /\ bundles' = IF left[k] # NoBundle /\ left[k].usable /\ left[k].state = "invalid"
                  THEN [left EXCEPT ![k].state = "stale"] ELSE left

BuildBundleAsWinner(p) ==
    LET k == procs[p].key IN
    /\ At(p, "solve")
    /\ \E outcome \in RefreshBundle(procs[p].mode) :
         /\ CASE outcome \in {"ok", "empty"} -> RecordRefreshSuccess(k, outcome)
              [] outcome \in {"none", "message"} -> RecordRefreshFailure(k, bundles)
              [] OTHER -> UNCHANGED <<bundles, failures, backoff>>
         /\ procs' = [procs EXCEPT ![p].pc = IF outcome = "error" THEN "failing" ELSE "finish",
                                   ![p].report = outcome \in {"none", "message"} /\ bundles'[k] # NoBundle
                                                 /\ bundles'[k].reported]
    /\ UNCHANGED <<setting, directory, events, gone, requests, reconfigs>>
(* finishRefresh: whatever event the key has now is forgotten; the channel   *)
(* that is closed is the winner's own.  A request that failed ends here, and *)
(* so does a warm-up.                                                        *)
FinishRefresh(p) ==
    LET k == procs[p].key
        next == IF At(p, "failing") THEN [Idle EXCEPT !.pc = IF p = Scheduler THEN "sleep" ELSE "idle"]
                ELSE [procs[p] EXCEPT !.pc = After(p), !.event = NoEvent, !.mode = "none"]
    IN /\ procs[p].pc \in {"finish", "failing"}
       /\ events' = [events EXCEPT ![k] = NoEvent]
       /\ procs' = [q \in Proc |-> CASE q = p -> next
                                     [] q # p /\ At(q, "wait") /\ procs[q].event = p ->
                                          [procs[q] EXCEPT !.pc = "state", !.event = NoEvent]
                                     [] OTHER -> procs[q]]
       /\ gone' = IF \E q \in Proc \ {p} : procs[q].pc \in {"solve", "finish", "failing"} /\ procs[q].key = k
                  THEN gone ELSE gone \ {k}
       /\ UNCHANGED <<setting, directory, bundles, backoff, failures, requests, reconfigs>>

-----------------------------------------------------------------------------
(* Feedback of a lease: classified from the status of the answer. *)

ClassifyStatusCode(status) ==
    CASE status = 200 -> "success"
      [] status = 401 -> "unauthorized"
      [] status = 403 -> "challenge"
      [] status = 429 -> "rate_limited"
      [] status >= 500 -> "upstream_5xx"
      [] OTHER -> "forbidden"
RotatesPool(kind) == kind \in {"challenge", "unauthorized", "forbidden"}
(* The cursor counts on for ever; what matters is its rest by both lengths.  *)
AtLeastOne(n) == IF n = 0 THEN 1 ELSE n
Advance(d) ==
    [d EXCEPT !.cursor = (@ + 1) % (AtLeastOne(Len(d.pool)) * AtLeastOne(Len(d.resources)))]
Feedback(c, status) ==
    LET k == procs[c].key
        kind == ClassifyStatusCode(status)
    IN /\ At(c, "leased")
       /\ bundles' = IF kind \in {"challenge", "unauthorized"} /\ Stored(k)
                     THEN [bundles EXCEPT ![k].state = "invalid", ![k].reported = TRUE] ELSE bundles
       /\ directory' = IF directory.egress = "proxy_pool" /\ k[1] # "direct" /\ RotatesPool(kind)
                       THEN Advance(directory) ELSE directory
       /\ procs' = [procs EXCEPT ![c] = Idle]
       /\ UNCHANGED <<setting, events, backoff, failures, gone, requests, reconfigs>>

-----------------------------------------------------------------------------
(* The scheduler: a warm-up through the same path as the requests, then a    *)
(* refresh of every node's key and of every stored bundle, in any order,     *)
(* which an error ends early.                                                *)

WarmUp ==
    /\ At(Scheduler, "idle")
    /\ Load
    /\ procs' = [procs EXCEPT ![Scheduler].pc = "warm",
                              ![Scheduler].todo = IF directory'.clearance = "none" THEN {} ELSE NodeKeys]
    /\ UNCHANGED <<setting, requests, reconfigs>>
WarmUpNext ==
    /\ At(Scheduler, "warm")
    /\ \/ \E k \in procs[Scheduler].todo :
             procs' = [procs EXCEPT ![Scheduler].pc = "state", ![Scheduler].key = k,
                                    ![Scheduler].todo = @ \ {k}, ![Scheduler].report = FALSE]
       \/ /\ procs[Scheduler].todo = {}
          /\ procs' = [procs EXCEPT ![Scheduler] = [Idle EXCEPT !.pc = "sleep"]]
    /\ UNCHANGED <<setting, directory, bundles, events, backoff, failures, gone, requests, reconfigs>>
SchedulerRefresh ==
    /\ At(Scheduler, "sleep")
    /\ Load
    /\ procs' = [procs EXCEPT ![Scheduler].pc = "refresh", ![Scheduler].mode = directory'.clearance,
                   ![Scheduler].todo = IF directory'.clearance = "none" THEN {}
                                       ELSE NodeKeys \cup {k \in Key : bundles'[k] # NoBundle}]
    /\ UNCHANGED <<setting, requests, reconfigs>>
(* A refresh that failed with a message leaves an invalid bundle behind if   *)
(* there was none.                                                           *)
RefreshClearance ==
    /\ At(Scheduler, "refresh")
    /\ \E k \in procs[Scheduler].todo, outcome \in RefreshBundle(procs[Scheduler].mode) :
         /\ CASE outcome \in {"ok", "empty"} -> RecordRefreshSuccess(k, outcome)
              [] outcome = "none" -> RecordRefreshFailure(k, bundles)
              [] outcome = "message" ->
                   RecordRefreshFailure(k, IF Stored(k) THEN bundles
                       ELSE [bundles EXCEPT ![k] = [state |-> "invalid", usable |-> FALSE, reported |-> FALSE]])
              [] OTHER -> UNCHANGED <<bundles, failures, backoff>>
         /\ procs' = [procs EXCEPT ![Scheduler].todo = IF outcome = "error" THEN {} ELSE @ \ {k}]
    /\ UNCHANGED <<setting, directory, events, gone, requests, reconfigs>>
RefreshDone ==
    /\ At(Scheduler, "refresh") /\ procs[Scheduler].todo = {}
    /\ procs' = [procs EXCEPT ![Scheduler] = [Idle EXCEPT !.pc = "sleep"]]
    /\ UNCHANGED <<setting, directory, bundles, events, backoff, failures, gone, requests, reconfigs>>

Reconfigure(s) ==
    /\ s # setting /\ reconfigs < MaxReconfigs
    /\ setting' = s
    /\ reconfigs' = reconfigs + 1
    /\ UNCHANGED <<directory, bundles, events, backoff, failures, procs, gone, requests>>
Tick ==
    /\ \E k \in Key : backoff[k] > 0
    /\ backoff' = [k \in Key |-> IF backoff[k] > 0 THEN backoff[k] - 1 ELSE 0]
    /\ UNCHANGED <<setting, directory, bundles, events, failures, procs, gone, requests, reconfigs>>

ProcStep(p) ==
    \/ NoClearance(p) \/ TakeBundle(p) \/ BecomeWinner(p) \/ WaitForWinner(p)
    \/ BuildBundleAsWinner(p) \/ FinishRefresh(p)
CallerStep(c) ==
    \/ \E h \in Host : Acquire(c, h)
    \/ \E status \in Statuses : Feedback(c, status)
    \/ ProcStep(c)
SchedulerStep == WarmUp \/ WarmUpNext \/ SchedulerRefresh \/ RefreshClearance \/ RefreshDone \/ ProcStep(Scheduler)
Next ==
    \/ \E c \in Caller : (\E resource \in BOOLEAN : Request(c, resource)) \/ CallerStep(c) \/ WaitCancelled(c)
    \/ SchedulerStep
    \/ \E s \in Settings : Reconfigure(s)
    \/ Tick

(* A refresh by the scheduler that finds a working clearance. *)
Refreshed(k) == RefreshClearance /\ ~Valid(k) /\ Valid(k)'
Spec == Init /\ [][Next]_vars

-----------------------------------------------------------------------------

(* Bundles, cooldowns and processes have the values the code gives them. *)
TypeOK ==
    /\ \A k \in Key : Stored(k) => bundles[k].state \in {"valid", "stale", "invalid"}
    /\ \A k \in Key : backoff[k] \in 0..MaxCooldown \cup 0..HalfOpen /\ failures[k] \in 0..MaxFailures
    /\ \A p \in Proc : procs[p].pc \in {"idle", "pick", "state", "wait", "solve", "finish", "failing",
                                        "leased", "warm", "sleep", "refresh"}

(* Of the requests and the warm-up that miss a bundle at most one asks the   *)
(* solver for it at a time, and whoever waits waits for one that is still    *)
(* going to close its channel (refreshEvents).  Only when the proxy was      *)
(* taken out of the configuration during a refresh may a second one start.   *)
Refreshing(k) == {p \in Proc : procs[p].pc \in {"solve", "finish", "failing"} /\ procs[p].key = k}
SingleFlight ==
    /\ \A k \in Key \ gone : Cardinality(Refreshing(k)) <= 1
    /\ \A p \in Proc : At(p, "wait") => procs[procs[p].event].pc \in {"solve", "finish", "failing"}

(* A bundle a site has challenged is not handed out again before it has been *)
(* replaced, unless the refreshes fail and the key is on its cooldown        *)
(* (Feedback, bundleRefreshState, cooldownBundleLocked).                     *)
ChallengedIsReplaced ==
    [][ \A c \in Caller : (procs'[c].pc = "leased" /\ ~At(c, "leased") /\ procs'[c].report)
            => At(c, "finish") \/ backoff[procs[c].key] > 0 ]_vars

(* Every request gets its lease or an error: the waiting ones are released   *)
(* even when a Load forgets the refresh they wait for.                       *)
AcquiresReturn == \A c \in Caller : []<>(procs[c].pc \in {"leased", "idle"})

(* While the configuration stays, the scheduler's refreshes bring a valid    *)
(* bundle for every configured proxy, whatever failed or was challenged in   *)
(* between, provided the solver succeeds now and then.                       *)
Wanted(k) == setting.clearance # "none" /\ k[2] = DefaultHost
             /\ LET pool == BuildEgressNodes(setting).pool IN
                k[1] \in (IF pool = <<>> THEN {"direct"} ELSE ToSet(pool))
ClearanceComesBack == \A k \in Key : []<>(Wanted(k) => Valid(k))

(* One refresh serves all who wait for it, and its result is used up to the  *)
(* next challenge and no longer.                                             *)
ClearanceIsShared == [](TypeOK /\ SingleFlight) /\ ChallengedIsReplaced
=============================================================================
