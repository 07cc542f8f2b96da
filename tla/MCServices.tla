----------------------------- MODULE MCServices -----------------------------
(***************************************************************************)
(* Services for TLC: the sizes, the fairness and what goes on for ever.    *)
(***************************************************************************)
EXTENDS Services

CONSTANTS x1, x2

(* One process, two handlers, one scheduler; Redis and files may fail. *)
MCDirOf == [p \in {"p"} |-> "d"]
MCHandler == {x1, x2}
MCKinds == <<"refresh">>
MCStoreKeys == {Unclaimed}

(* One request and the scheduler; a pool behind a solver, and a single proxy *)
(* for resources only with a key by hand.                                    *)
MCClient == {x1}
MCSettings == {[egress |-> "proxy_pool", clearance |-> "flaresolverr", pool |-> <<"p1">>, resources |-> <<>>],
               [egress |-> "single_proxy", clearance |-> "manual", pool |-> <<>>, resources |-> <<"p1">>]}

Entry(name, aliases, chat) == [name |-> name, aliases |-> aliases, chat |-> chat]
MCLister == {x1, x2}
MCCatalogues == {{Entry("a", {"b"}, TRUE), Entry("i", {}, FALSE)},
                 {Entry("a", {}, TRUE), Entry("c", {}, TRUE)}}

(* Two sessions share a store of one entry; two turns of every kind.  In one *)
(* session: what a turn is refused, a third turn must not be sent.           *)
Shape(reasoning, message, call) == [reasoning |-> reasoning, message |-> message, call |-> call]
MCTraffics ==
    {[sessions |-> {x1, x2}, turns |-> 2, ticks |-> 1, forms |-> {"chat", "outputs", "echo", "previous"},
      shapes |-> {Shape(r, m, c) : r \in BOOLEAN, m \in BOOLEAN, c \in BOOLEAN}
                 \ {Shape(r, FALSE, FALSE) : r \in BOOLEAN}],
     [sessions |-> {x1}, turns |-> 3, ticks |-> 0, forms |-> {"chat", "echo"},
      shapes |-> {Shape(TRUE, TRUE, FALSE), Shape(TRUE, FALSE, TRUE), Shape(FALSE, TRUE, FALSE)}]}

-----------------------------------------------------------------------------
(* Goroutines and timers run, clients keep coming and time passes; a solver  *)
(* and a console that are asked again and again do not always fail.          *)
TimePasses == \/ InProxy /\ Proxy!Tick
              \/ InModels /\ Models!Tick
              \/ InPacer /\ Pacer!Tick
              \/ InLeader /\ Leader!LoopEnds("p", "refresh")
MainWork == \/ InLeader /\ Leader!MainStep("p")
            \/ InProxy /\ Proxy!SchedulerStep
            \/ InModels /\ Models!BackgroundStep
SideWork == InLeader /\ Leader!RenewerStep("p")
RequestOf(x) == \/ InLeader /\ Leader!HandlerStep("p", x)
                \/ InProxy /\ x = x1 /\ Proxy!CallerStep(x)
                \/ InModels /\ Models!ListStep(x)
                \/ InPacer /\ Pacer!Progress(x)
Succeeds == \/ InProxy /\ \E k \in Proxy!Key : Proxy!Refreshed(k)
            \/ InModels /\ (Models!BackgroundSucceeds \/ \E x \in {x1, x2} : Models!Succeeds(x))
Fairness ==
    /\ WF_vars(TimePasses) /\ WF_vars(MainWork) /\ WF_vars(SideWork)
    /\ WF_vars(RequestOf(x1)) /\ WF_vars(RequestOf(x2))
    /\ SF_vars(Succeeds)

FairSpec == Spec /\ Fairness

(* Nobody waits for ever and nothing stays out of date: every request for a  *)
(* proxy returns and the scheduler brings back a valid clearance for every   *)
(* configured proxy, every caller of a console model is admitted or refused, *)
(* and the catalogue ends up with what the console offers.                   *)
ServicesGoOn ==
    /\ Proxy!AcquiresReturn
    /\ \A k \in Proxy!Key : []<>(focus = "proxy" /\ Proxy!Wanted(k) => Proxy!Valid(k))
    /\ Pacer!QueueMoves
    /\ <>[](focus = "models" => modelCache = Models!Names(offered))
=============================================================================
