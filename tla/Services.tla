------------------------------ MODULE Services ------------------------------
(***************************************************************************)
(* What runs beside the requests: the schedulers of a leader               *)
(* (SchedulerLeader), the clearances of the proxies (ProxyClearance), the  *)
(* catalogue of models (DynamicModels), the pace of the console calls      *)
(* (ConsolePacer) and the reasoning kept for the next turn of a session    *)
(* (ReasoningReplay).  The components share no variable; a behaviour is    *)
(* one of its focus, the others stay as they began.                        *)
(***************************************************************************)
EXTENDS Integers, Sequences, FiniteSets

CONSTANTS Focus,  \* the components a behaviour may be of
          \* SchedulerLeader
          Process, Dir, DirOf, Handler, Kinds, StoreKeys, Stalls, Faults, NoStore, Unclaimed, Orphan,
          \* ProxyClearance
          Client, Scheduler, Settings, Host, DefaultHost, BaseCooldown, MaxCooldown, HalfOpen,
          MaxFailures, Statuses, MaxRequests, MaxReconfigs, NoBundle, NoEvent,
          \* DynamicModels
          Lister, Catalogues, Static, TTL, FailureTTL, MaxChanges, Failed,
          \* ConsolePacer
          Caller, Interval, ConsoleCooldown, MaxWait, MaxTurns, Nobody,
          \* ReasoningReplay
          Traffics, MaxSize, EntryTTL, NoEntry

VARIABLES focus,
          key, file, cfg, main, leader, bound, lease, local, renewer, running, loops, frame,
          setting, directory, bundles, events, backoff, failures, procs, gone, requests, reconfigs,
          offered, modelCache, expiresIn, refreshing, background, listers, changes,
          callers, holder, nextIn, sinceTurn, coolLeft,
          traffic, cache, clock, turns, refused

Leader == INSTANCE SchedulerLeader WITH Stores <- StoreKeys, Free <- Unclaimed
Proxy == INSTANCE ProxyClearance WITH Caller <- Client
Models == INSTANCE DynamicModels
Pacer == INSTANCE ConsolePacer WITH Cooldown <- ConsoleCooldown
Replay == INSTANCE ReasoningReplay WITH TTL <- EntryTTL

leaderVars == <<key, file, cfg, main, leader, bound, lease, local, renewer, running, loops, frame>>
proxyVars == <<setting, directory, bundles, events, backoff, failures, procs, gone, requests, reconfigs>>
modelVars == <<offered, modelCache, expiresIn, refreshing, background, listers, changes>>
pacerVars == <<callers, holder, nextIn, sinceTurn, coolLeft>>
replayVars == <<traffic, cache, clock, turns, refused>>
vars == <<focus, leaderVars, proxyVars, modelVars, pacerVars, replayVars>>

ASSUME ServicesAssumption == Leader!LeaderAssumption

(* The pauses are times, and a failed fetch is tried again no later than one *)
(* that succeeded (dynamicModelsFailureTTL, dynamicModelsCacheTTL).          *)
ASSUME PacerAssumption ==
    Interval \in Nat /\ ConsoleCooldown \in Nat /\ MaxWait \in Nat /\ MaxTurns \in Nat
ASSUME ModelsAssumption ==
    TTL \in Nat /\ FailureTTL \in Nat /\ FailureTTL <= TTL /\ MaxChanges \in Nat
(* The sessions of a store are finitely many, and the limits are counts.     *)
ASSUME ReplayIsCounted == Replay!ReplayAssumption
(* The cooldowns are times, so are the ones that have grown (which follows   *)
(* from the first, but provers know no powers), a proxy is named by its      *)
(* address, and what marks nothing is no process.                            *)
ASSUME ProxyAssumption ==
    /\ BaseCooldown \in Nat /\ MaxCooldown \in Nat /\ HalfOpen \in Nat /\ MaxFailures \in Nat
    /\ \A n \in 0 .. MaxFailures : BaseCooldown * 2 ^ n \in Nat
    /\ Settings \subseteq [egress : {"direct", "single_proxy", "proxy_pool"},
                           clearance : {"none", "manual", "flaresolverr", "byparr"},
                           pool : Seq(STRING), resources : Seq(STRING)]
    /\ Scheduler \notin Client /\ NoEvent \notin Client \cup {Scheduler}
    /\ DefaultHost \in Host

(* Only the component in focus moves. *)
InLeader == focus = "leader" /\ UNCHANGED <<focus, proxyVars, modelVars, pacerVars, replayVars>>
InProxy == focus = "proxy" /\ UNCHANGED <<focus, leaderVars, modelVars, pacerVars, replayVars>>
InModels == focus = "models" /\ UNCHANGED <<focus, leaderVars, proxyVars, pacerVars, replayVars>>
InPacer == focus = "pacer" /\ UNCHANGED <<focus, leaderVars, proxyVars, modelVars, replayVars>>
InReplay == focus = "replay" /\ UNCHANGED <<focus, leaderVars, proxyVars, modelVars, pacerVars>>

Init ==
    /\ focus \in Focus
    /\ Leader!Init /\ Proxy!Init /\ Models!Init /\ Pacer!Init /\ Replay!Init
    /\ focus # "proxy" => setting = CHOOSE s \in Settings : TRUE
    /\ focus # "models" => offered = CHOOSE c \in Catalogues : TRUE
    /\ focus # "replay" => traffic = CHOOSE t \in Traffics : TRUE

Next ==
    \/ InLeader /\ Leader!Next
    \/ InProxy /\ Proxy!Next
    \/ InModels /\ Models!Next
    \/ InPacer /\ Pacer!Next
    \/ InReplay /\ Replay!Next

Spec == Init /\ [][Next]_vars

-----------------------------------------------------------------------------
(* A process that holds no lock has never started a scheduler, and the       *)
(* scheduler of a serving leader settles as its switch says, though two      *)
(* handlers, the renewal and the main goroutine reconcile it at once and     *)
(* Redis and file operations fail (ReconcileRefreshRuntime).                 *)
SchedulersFollow == Leader!SchedulersFollow

(* Of the requests and the warm-up that miss a clearance at most one asks    *)
(* the solver, whoever waits waits for one that will wake it                 *)
(* (refreshEvents), and a clearance a site has challenged is not handed out  *)
(* again before it has been replaced, unless its key is on the cooldown of   *)
(* failed refreshes.                                                         *)
ClearanceIsShared == Proxy!ClearanceIsShared

(* The refreshing flag of the catalogue is set exactly while a refresh runs, *)
(* and a model that every catalogue offers and a client was shown stays      *)
(* resolvable, whatever fetches fail or arrive late.                         *)
CatalogueIsKept == Models!CatalogueIsKept

(* Two admissions of a console model are an interval apart (Wait) and none   *)
(* is before the end of a cooldown (Delay), whatever waiting and cancelled   *)
(* callers do in between.                                                    *)
PaceHolds == Pacer!PaceHolds

(* However sessions alternate, the store keeps no more entries than allowed; *)
(* a body with remembered items in it is a conversation that fits them; and  *)
(* ciphertext the upstream has refused is not sent again.                    *)
ReplayIsSound == []Replay!ReplayIsSound /\ [][Replay!RefusedIsNotReplayed]_vars
=============================================================================
