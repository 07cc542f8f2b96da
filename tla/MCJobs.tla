------------------------------- MODULE MCJobs -------------------------------
(***************************************************************************)
(* Jobs for TLC: the sizes, the fairness and what must happen in the end.  *)
(***************************************************************************)
EXTENDS Jobs

CONSTANTS x1, x2, none

(* One request on any endpoint with whatever upstream answers, under the     *)
(* strategy with quotas; two requests that share the accounts and settle     *)
(* them in different orders, under the strategy without.                     *)
MCReq == {x1, x2}
MCKinds == {"chat", "responses", "console", "consoleResponses", "messages", "consoleMessages",
            "image", "lite", "edit", "video", "events"}
MCOutcomes == {"ok", "429", "401", "403", "503", "502", "invalid"}
MCSettings ==
    {[kinds |-> [r \in MCReq |-> IF r = x1 THEN MCKinds ELSE {}], outcomes |-> MCOutcomes, quota |-> TRUE],
     [kinds |-> [r \in MCReq |-> IF r = x1 THEN {"image"} ELSE {"messages"}],
      outcomes |-> {"ok", "429", "401"}, quota |-> FALSE]}
MCToken == {x1, x2}

(* A message is told by whether it has text and how many images it refers to. *)
Message(text, refs) == [text |-> text, refs |-> refs]
MCVideoJob == {x1}
MCLengths == {6, 7, 12}
MCReferences == {0, 2, 3}
MCChatMessages == {<<Message(TRUE, 0)>>, <<Message(FALSE, 1)>>, <<Message(TRUE, 0), Message(FALSE, 1)>>}

Wish(kind, tokens, pools) == [kind |-> kind, wants |-> tokens, all |-> FALSE, pools |-> pools]
MCTask == {x1}
MCListed == [a |-> "active", c |-> "expired"]
MCRequests == {Wish("nsfw", {}, <<>>), Wish("refresh", {"a", "c"}, <<>>), Wish("refresh", {"c"}, <<>>),
               Wish("clear", {"a", "c"}, <<>>), Wish("sync", {}, <<>>), Wish("add", {"x", "y", "z"}, <<>>),
               Wish("replace", {}, <<1, 0>>), Wish("buildImport", {"x"}, <<>>),
               Wish("billing", {}, <<>>), Wish("renew", {"a"}, <<>>), Wish("cleanup", {}, <<>>)}

(* Two places, one per address.  Two connections of one address, of which    *)
(* the first may run twice; or four, of which the second of an address is    *)
(* refused by the one limit and that of a third address by the other.        *)
MCConn == {"c", "d", "e", "f", "g"}
MCCrowds == {{"c", "d"}, {"d", "e", "f", "g"}}
MCIpOf == [c \in MCConn |-> CASE c \in {"c", "d", "e"} -> "ip1" [] c = "f" -> "ip2" [] c = "g" -> "ip3"]
MCTicket == {x1}
MCMaxRuns == [c \in MCConn |-> IF c = "c" THEN 2 ELSE 0]

(* Two files fit together, the third exceeds the limit alone. *)
MCWorker == {x1, x2}
MCSize == [a |-> 5, b |-> 5, c |-> 9]

-----------------------------------------------------------------------------
(* Goroutines that can go on do.  One conjunct stands for one goroutine of   *)
(* every component: only the component in focus moves.                       *)
FirstWorker == \/ InDispatch /\ Dispatch!Step(x1)
               \/ InVideo /\ Video!JobStep(x1)
               \/ InBatch /\ Batch!RunStep(x1)
               \/ InSessions /\ Sessions!HandlerStep("c")
               \/ InCache /\ Cache!Step(x1)
SecondWorker == \/ InDispatch /\ Dispatch!Step(x2)
                \/ InSessions /\ \E c \in Conn \ {"c"} : Sessions!HandlerStep(c)
                \/ InCache /\ Cache!Step(x2)
ThirdWorker == \/ InDispatch /\ Dispatch!Work
               \/ InSessions /\ Sessions!RunStep(<<"c", 1>>)
FourthWorker == InSessions /\ Sessions!RunStep(<<"c", 2>>)
Fairness == WF_vars(FirstWorker) /\ WF_vars(SecondWorker) /\ WF_vars(ThirdWorker) /\ WF_vars(FourthWorker)

FairSpec == Spec /\ Fairness

(* Work comes to an end: every request, also when its client has left, with  *)
(* no account left busy; every refresh job in the queue (chatRefreshQueue);  *)
(* every video job whose worker lives; every task, cancelled or not; every   *)
(* run and every closed connection of an image session; every operation on   *)
(* the cache, whoever holds its lock.                                        *)
WorkEnds ==
    /\ Dispatch!RequestsEnd /\ Dispatch!JobsAreDone
    /\ Video!JobsSettle
    /\ Batch!TasksEnd
    /\ Sessions!RunsAreAnswered /\ Sessions!PlacesComeBack
    /\ Cache!OperationsReturn
=============================================================================
