------------------------------ MODULE MCShared ------------------------------
(***************************************************************************)
(* Shared for TLC: the sizes, the fairness and what is put right.          *)
(***************************************************************************)
EXTENDS Shared, TLC

CONSTANTS x1, x2, j1

(* One account with a racing call, or a racing sweep; two accounts on pages of one. *)
MCAccount == {1, 2}
MCMarkJob == {j1}
MCDeployments ==
    {[accounts |-> {1}, jobs |-> {j1}, includeDisabled |-> TRUE, sweep |-> FALSE, ops |-> 1],
     [accounts |-> {1}, jobs |-> {j1}, includeDisabled |-> FALSE, sweep |-> TRUE, ops |-> 1],
     [accounts |-> {1, 2}, jobs |-> {}, includeDisabled |-> FALSE, sweep |-> FALSE, ops |-> 2]}
MCCall == {x1, x2}
MCFastLimit == [basic |-> 1, super |-> 2]

(* Two workers; "b" is set by a variable of the first, "s" is startup-only. *)
MCDefaults == [a |-> "0", b |-> "0", s |-> "0"]
MCEnvironment == ("p" :> [b |-> "9"]) @@ ("q" :> <<>>)
MCPatches == {[a |-> "1"], [a |-> "2 ", b |-> "1"], [s |-> "1"], [a |-> "bad"]}
MCAccepts == [k \in {"a", "b", "s"} |-> {"0", "1", "2"}]
MCCleaned == [v \in {"0", "1", "2", "2 ", "bad"} |-> IF v = "2 " THEN "2" ELSE v]

-----------------------------------------------------------------------------
(* The loops run on timers, time passes, calls in progress go on and         *)
(* requests keep loading the configuration; probes of dead sessions that are *)
(* tried again and again are not all blocked.  One conjunct stands for one   *)
(* activity of every component: only the component in focus moves.           *)
LoopWork == \/ InHealth /\ Health!SsoWork
            \/ InQuota /\ Quota!ResetStep
            \/ InConfig /\ Config!WriteStep("p")
CleanLoop == (InHealth /\ Health!CleanWork) \/ (InConfig /\ Config!WriteStep("q"))
TimePasses == \/ InHealth /\ Health!Tick
              \/ InQuota /\ Quota!Tick
              \/ InConfig /\ Config!LoadStep("p", "admin")
FirstCall == \/ InHealth /\ Health!MarkWork(j1)
             \/ InQuota /\ Quota!CallStep(x1)
             \/ InConfig /\ Config!LoadStep("p", "request")
SecondCall == \/ InQuota /\ Quota!CallStep(x2)
              \/ InConfig /\ Config!LoadStep("q", "request")
AdminLoad == InConfig /\ Config!LoadStep("q", "admin")
ProbeSucceeds == InHealth /\ \E a \in Account : Health!ProbeSSO(a, "terminal")
Fairness ==
    /\ WF_vars(LoopWork) /\ WF_vars(CleanLoop) /\ WF_vars(TimePasses)
    /\ WF_vars(FirstCall) /\ WF_vars(SecondCall) /\ WF_vars(AdminLoad)
    /\ SF_vars(ProbeSucceeds)

FairSpec == Spec /\ Fairness

(* What has gone wrong is put right: an account whose session has ended      *)
(* leaves the pool although deletions shift the pages and calls are          *)
(* abandoned half way (ValidateSSOBatch); the empty console window of a      *)
(* basic account comes back (ResetExpiredConsoleWindows); a process that     *)
(* serves ends up with the store's configuration, also after failing loads   *)
(* and after a reset that left it without any.                               *)
LoopsRepair ==
    /\ Health!DeadAreRemoved
    /\ Quota!ConsoleComesBack
    /\ <>[](focus = "config" => \A p \in {"p", "q"} : snaps[p].data = Config!Effective(p, overrides))
=============================================================================
