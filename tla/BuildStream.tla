----------------------------- MODULE BuildStream -----------------------------
(***************************************************************************)
(* One streamed answer of the Build upstream on its way to the client      *)
(* (src/app/dataplane/build): the tools a request is given so that the     *)
(* prompt cache works (cache_route.go), the filter that hides the calls of *)
(* those tools from the client and renumbers the other output items        *)
(* (cache_route_filter.go), and the collector that turns the events into   *)
(* chat or responses frames (stream_compat.go, stream_tools.go,            *)
(* responses_native.go).  The filter's goroutine and the collector are     *)
(* joined by a pipe, so an event passes both before the next one is read.  *)
(*                                                                         *)
(* External: the upstream.  It opens output items in the order of their    *)
(* indexes, may have several open at once, and ends with completed,        *)
(* failed, or a clean end of the stream.                                   *)
(***************************************************************************)
EXTENDS Integers, Sequences, FiniteSets, SequencesExt

CONSTANTS ClientTools,  \* sets of tool types a client may declare
          MaxItems,     \* output items of one answer (bound)
          MaxChunks     \* text or argument deltas of one item (bound)

VARIABLES route,      \* PromptCacheRoute
          items,      \* external: what the upstream has sent of each item
          outcome,    \* external: "open", "completed", "failed", "cut"
          dropped,    \* droppedOutputIndexes (droppedItemIDs hold the same items)
          parsed,     \* sseStreamParse: [text, tools, failed, finished]
          seen,       \* history: item -> output_index the collector was shown
          taken,      \* history: the items as of the last event it looked at
          frames      \* the finish of the frames given to the client

vars == <<route, items, outcome, dropped, parsed, seen, taken, frames>>

(* Kinds of output items: a message, a web_search_call, a custom_tool_call   *)
(* with an xs_call id, a function_call with an internal x_* name, any other  *)
(* function_call.                                                            *)
Kind == {"message", "web", "xs", "xname", "call"}
IsTool(kind) == kind \in {"xs", "xname", "call"}

(* PreparePromptCacheRoute: without tools both searches are added, with      *)
(* tools x_search only when the session or web_search allows it.             *)
PreparePromptCacheRoute(tools, cached, allow) ==
    LET injected ==
          CASE ~cached \/ "image_generation" \in tools -> {}
            [] cached /\ tools = {} -> {"web_search", "x_search"}
            [] OTHER -> IF "x_search" \notin tools /\ (allow \/ "web_search" \in tools)
                        THEN {"x_search"} ELSE {}
    IN [injected |-> injected, filter |-> "x_search" \in tools \cup injected,
        declared |-> "xname" \in tools]

Init ==
    /\ \E tools \in ClientTools, cached, allow \in BOOLEAN :
          route = PreparePromptCacheRoute(tools, cached, allow)
    /\ items = <<>>
    /\ outcome = "open"
    /\ dropped = {}
    /\ parsed = [text |-> 0, tools |-> <<>>, failed |-> FALSE, finished |-> FALSE]
    /\ seen = {} /\ taken = <<>>
    /\ frames = "none"

-----------------------------------------------------------------------------
(* The filter. *)

IsInternalCall(kind) ==
    CASE kind = "web" -> "web_search" \in route.injected
      [] kind = "xs" -> TRUE
      [] kind = "xname" -> ~route.declared
      [] OTHER -> FALSE
NeedsResponseFilter == route.filter \/ route.injected # {}
(* An event with the item itself records an internal one; events that only   *)
(* name an item are dropped with it.                                         *)
Dropped(i, carriesItem) ==
    IF NeedsResponseFilter /\ carriesItem /\ IsInternalCall(items'[i].kind)
    THEN dropped \cup {i} ELSE dropped
(* Faulty variant: the upstream's index. *)
OriginalOutputIndex(i) == i

CompactOutputIndex(i) == i - Cardinality({d \in dropped : d < i})

-----------------------------------------------------------------------------
(* The collector.  The tools are kept in the order in which their indexes    *)
(* were first seen; args is what Args holds, parts what ArgDeltas holds.     *)

Position(index) == SelectInSeq(parsed.tools, LAMBDA t : t.index = index)
Ensured(index, i) ==
    IF Position(index) # 0 THEN parsed.tools
    ELSE Append(parsed.tools, [index |-> index, item |-> i, args |-> 0, parts |-> 0])
WithTool(index, i, Change(_)) ==
    LET tools == Ensured(index, i)
        n == SelectInSeq(tools, LAMBDA t : t.index = index)
    IN [parsed EXCEPT !.tools = [tools EXCEPT ![n] = Change(@)]]

ApplyToolOutputItem(index, i, args) ==
    WithTool(index, i, LAMBDA t : IF args > 0 THEN [t EXCEPT !.args = args] ELSE t)
ApplyToolArgsDelta(index, i) ==
    WithTool(index, i, LAMBDA t : [t EXCEPT !.args = @ + 1, !.parts = @ + 1])
ApplyToolArgsDone(index, i, args) ==
    WithTool(index, i, LAMBDA t : IF args > 0 THEN [t EXCEPT !.args = args] ELSE t)
(* collectSSEStream's flush; nothing is looked at once it has finished. *)
Collects(i, new) ==
    /\ UNCHANGED <<route, outcome, frames>>
    /\ taken' = IF parsed.finished THEN taken ELSE items'
    /\ IF i \in dropped' \/ parsed.finished
       THEN UNCHANGED <<parsed, seen>>
       ELSE parsed' = new /\ seen' = seen \cup {<<i, CompactOutputIndex(i)>>}

-----------------------------------------------------------------------------
(* The upstream's events, each through the filter and into the collector.    *)

Open(i) == i \in DOMAIN items /\ items[i].open /\ outcome = "open"
OutputItemAdded(kind) ==
    /\ outcome = "open"
    /\ Len(items) < MaxItems
    /\ items' = Append(items, [kind |-> kind, chunks |-> 0, open |-> TRUE, textDone |-> FALSE])
    /\ LET i == Len(items) + 1 IN
         /\ dropped' = Dropped(i, TRUE)
         /\ Collects(i, IF IsTool(kind) THEN ApplyToolOutputItem(CompactOutputIndex(i), i, 0) ELSE parsed)
OutputTextDelta(i) ==
    /\ Open(i) /\ items[i].kind = "message" /\ items[i].chunks < MaxChunks /\ ~items[i].textDone
    /\ items' = [items EXCEPT ![i].chunks = @ + 1]
    /\ dropped' = Dropped(i, FALSE)
    /\ Collects(i, [parsed EXCEPT !.text = @ + 1])
(* classifyEventData takes the end of one text for the end of the answer:    *)
(* what the upstream sends behind it is not looked at.                       *)
OutputTextDone(i) ==
    /\ Open(i) /\ items[i].kind = "message" /\ ~items[i].textDone
    /\ items' = [items EXCEPT ![i].textDone = TRUE]
    /\ dropped' = Dropped(i, FALSE)
    /\ Collects(i, [parsed EXCEPT !.finished = TRUE])
ArgumentsDelta(i) ==
    /\ Open(i) /\ IsTool(items[i].kind) /\ items[i].chunks < MaxChunks /\ ~items[i].textDone
    /\ items' = [items EXCEPT ![i].chunks = @ + 1]
    /\ dropped' = Dropped(i, FALSE)
    /\ Collects(i, ApplyToolArgsDelta(CompactOutputIndex(i), i))
ArgumentsDone(i) ==
    /\ Open(i) /\ IsTool(items[i].kind) /\ ~items[i].textDone
    /\ items' = [items EXCEPT ![i].textDone = TRUE]
    /\ dropped' = Dropped(i, FALSE)
    /\ Collects(i, ApplyToolArgsDone(CompactOutputIndex(i), i, items[i].chunks))
OutputItemDone(i) ==
    /\ Open(i)
    /\ items[i].textDone \/ items[i].kind = "web"
    /\ items' = [items EXCEPT ![i].open = FALSE]
    /\ dropped' = Dropped(i, TRUE)
    /\ Collects(i, IF IsTool(items[i].kind)
                   THEN ApplyToolOutputItem(CompactOutputIndex(i), i, items[i].chunks) ELSE parsed)

Completed ==
    /\ outcome = "open"
    /\ \A i \in DOMAIN items : ~items[i].open
    /\ outcome' = "completed"
    /\ parsed' = IF parsed.finished THEN parsed ELSE [parsed EXCEPT !.finished = TRUE]
    /\ UNCHANGED <<route, items, dropped, seen, taken, frames>>
Failed ==
    /\ outcome = "open"
    /\ outcome' = "failed"
    /\ parsed' = IF parsed.finished THEN parsed ELSE [parsed EXCEPT !.finished = TRUE, !.failed = TRUE]
    /\ UNCHANGED <<route, items, dropped, seen, taken, frames>>
Cut ==
    /\ outcome = "open"
    /\ outcome' = "cut"
    /\ UNCHANGED <<route, items, dropped, parsed, seen, taken, frames>>

(* framesFromStreamError, framesFromTextAndTools, or the error that makes    *)
(* the request try the next account.                                         *)
Finish ==
    /\ outcome # "open" /\ frames = "none"
    /\ frames' = CASE parsed.failed -> "error"
                   [] ~parsed.failed /\ parsed.tools # <<>> -> "tool_calls"
                   [] ~parsed.failed /\ parsed.tools = <<>> /\ parsed.text > 0 -> "stop"
                   [] OTHER -> "nothing"
    /\ UNCHANGED <<route, items, outcome, dropped, parsed, seen, taken>>

(* The arguments the client can put together from a tool's frames. *)
ArgumentsOf(t) == IF t.parts > 0 THEN t.parts ELSE t.args

Next ==
    \/ \E kind \in Kind : OutputItemAdded(kind)
    \/ \E i \in 1..MaxItems :
          \/ OutputTextDelta(i) \/ OutputTextDone(i) \/ ArgumentsDelta(i) \/ ArgumentsDone(i)
          \/ OutputItemDone(i)
    \/ Completed \/ Failed \/ Cut \/ Finish

Spec == Init /\ [][Next]_vars

-----------------------------------------------------------------------------

(* The filter's and the collector's state have their types. *)
TypeOK ==
    /\ route.injected \subseteq {"web_search", "x_search"}
    /\ dropped \subseteq 1..MaxItems
    /\ \A n \in DOMAIN parsed.tools : parsed.tools[n].index \in 1..MaxItems
    /\ frames \in {"none", "error", "tool_calls", "stop", "nothing"}

(* A client that did not ask for the searches never sees a call of theirs    *)
(* (filterEvent), not even through an event that only names the item.        *)
NoInternalCall ==
    \A n \in DOMAIN parsed.tools :
        NeedsResponseFilter => ~IsInternalCall(items[parsed.tools[n].item].kind)

(* All events of an item reach the collector under one output_index, which   *)
(* counts the visible items before it: the removal of an internal item never *)
(* makes two items share an index or leaves a hole (compactOutputIndex).     *)
Hidden(i) == NeedsResponseFilter /\ IsInternalCall(items[i].kind)
IndexesAreCompact ==
    \A s \in seen : s[2] = s[1] - Cardinality({j \in 1..s[1] : Hidden(j)})

(* Of every visible call the client gets once, and not mixed up with calls   *)
(* that run in parallel, exactly the arguments that had come when the        *)
(* collector finished, whatever mixture of deltas, done events and items     *)
(* carried them; and none of a call that had not begun.                      *)
CallsAreWhole ==
    /\ \A n \in DOMAIN parsed.tools :
          LET t == parsed.tools[n] IN
            t.item \in DOMAIN taken /\ ArgumentsOf(t) = taken[t.item].chunks
    /\ \A i \in DOMAIN taken : IsTool(taken[i].kind) /\ ~Hidden(i) =>
          \E n \in DOMAIN parsed.tools :
              \A m \in DOMAIN parsed.tools : parsed.tools[m].item = i <=> m = n

(* That is all of it unless a message's text has ended: collectSSEStream     *)
(* finishes there too, so a call that follows or still runs is lost or cut,  *)
(* though the answer ends as tool_calls or as complete.                      *)
TextEnded == \E i \in DOMAIN taken : taken[i].kind = "message" /\ taken[i].textDone
LostOnlyBehindText == taken # items => TextEnded

(* The filtered stream is one the upstream could have sent for the tools the *)
(* client named, up to where the collector stops looking.                    *)
StreamIsFiltered ==
    TypeOK /\ NoInternalCall /\ IndexesAreCompact /\ CallsAreWhole /\ LostOnlyBehindText
=============================================================================
