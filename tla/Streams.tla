------------------------------ MODULE Streams -------------------------------
(***************************************************************************)
(* Answers on their way to a client: the streams of Build and of the web   *)
(* chat (BuildStream, ChatStream), the reasoning that is summarised        *)
(* (ReasoningSummary), the rounds of an image generation (ImagineRounds)   *)
(* and the events of an admin task (BatchTasks).  The components share no  *)
(* variable; a behaviour is one of its focus, the others stay as they      *)
(* began.                                                                  *)
(***************************************************************************)
EXTENDS Integers, Sequences, FiniteSets

CONSTANTS Focus,  \* the components a behaviour may be of
          \* BuildStream
          ClientTools, MaxItems, MaxChunks,
          \* ChatStream
          Api, Modes, Dialects, MaxPieces, MaxChunk, MaxBuffer,
          \* ReasoningSummary
          Track, Promoted, Text, EnVotes, MaxPending, MaxReport, MaxInputs,
          \* ImagineRounds
          Image, N, Retries,
          \* BatchTasks
          Task, Listed, Requests, ChunkSize, Workers, Watcher, QueueCap, RedisFaults

VARIABLES focus,
          route, items, outcome, dropped, parsed, seen, taken, frames,
          req, sent, adapter, sieve, blocks, client, phase,
          agg, shown, inputs,
          stage, attempt, owed, collected, slots, completed, wsClosed, events, result, emitted,
          tasks, watchers, spawned, copies, persisted, redisFaults

Build == INSTANCE BuildStream
Chat == INSTANCE ChatStream
Summary == INSTANCE ReasoningSummary
Rounds == INSTANCE ImagineRounds
Batch == INSTANCE BatchTasks

buildVars == <<route, items, outcome, dropped, parsed, seen, taken, frames>>
chatVars == <<req, sent, adapter, sieve, blocks, client, phase>>
summaryVars == <<agg, shown, inputs>>
roundVars == <<stage, attempt, owed, collected, slots, completed, wsClosed, events, result, emitted>>
batchVars == <<tasks, watchers, spawned, copies, persisted, redisFaults>>
vars == <<focus, buildVars, chatVars, summaryVars, roundVars, batchVars>>

(* An answer has a number of output items.                                   *)
ASSUME BuildAssumption == MaxItems \in Nat

(* A websocket has finitely many image slots, and the limits are counts.     *)
ASSUME RoundsAssumption == IsFiniteSet(Image) /\ N \in Nat /\ Retries \in Nat

(* What a request names and what is listed for it is finite, a chunk has at  *)
(* least one token (adminTokensImportChunkSize), and the limits are counts.  *)
ASSUME BatchAssumption ==
    /\ IsFiniteSet(DOMAIN Listed)
    /\ \A request \in Requests : /\ request.kind \in Batch!Kinds
                                /\ IsFiniteSet(request.wants) /\ IsFiniteSet(DOMAIN request.pools)
                                /\ \A pool \in DOMAIN request.pools : request.pools[pool] \in Nat
    /\ ChunkSize \in Nat \ {0} /\ Workers \in Nat /\ QueueCap \in Nat /\ RedisFaults \in Nat

(* The votes and the events that wait for the language are counted.          *)
ASSUME SummaryAssumption == EnVotes \in Nat /\ MaxPending \in Nat /\ MaxReport \in Nat /\ MaxInputs \in Nat

(* Only the component in focus moves. *)
InBuild == focus = "build" /\ UNCHANGED <<focus, chatVars, summaryVars, roundVars, batchVars>>
InChat == focus = "chat" /\ UNCHANGED <<focus, buildVars, summaryVars, roundVars, batchVars>>
InSummary == focus = "summary" /\ UNCHANGED <<focus, buildVars, chatVars, roundVars, batchVars>>
InRounds == focus = "rounds" /\ UNCHANGED <<focus, buildVars, chatVars, summaryVars, batchVars>>
InBatch == focus = "batch" /\ UNCHANGED <<focus, buildVars, chatVars, summaryVars, roundVars>>

Init ==
    /\ focus \in Focus
    /\ Build!Init /\ Chat!Init /\ Summary!Init /\ Rounds!Init /\ Batch!Init
    /\ focus # "build" => route = Build!PreparePromptCacheRoute({}, FALSE, FALSE)
    /\ focus # "chat" => req = [api |-> "chat", mode |-> "plain"]

Next ==
    \/ InBuild /\ Build!Next
    \/ InChat /\ Chat!Next
    \/ InSummary /\ Summary!Next
    \/ InRounds /\ Rounds!Next
    \/ InBatch /\ Batch!Next

Spec == Init /\ [][Next]_vars

-----------------------------------------------------------------------------
(* No call of a search that the service added reaches the client, not even   *)
(* through an event that only names the item; the indexes of what it sees    *)
(* have no gaps; and a call is handed over once, with the arguments that had *)
(* come when the collector finished, as deltas, as a whole, or as both.      *)
(* Those are all of them unless the text of a message has ended before:      *)
(* collectSSEStream (stream_compat.go) takes that for the end of the answer. *)
StreamIsFiltered == Build!StreamIsFiltered

(* Where an answer is cut into lines does not show in the text a client      *)
(* gets, the calls streamed are those the whole answer would be parsed into, *)
(* and the stream is ended once with nothing after the end.                  *)
StreamIsTheAnswer == Chat!StreamIsTheAnswer

(* The sections of a summary come in their order (but for the understanding  *)
(* section, which may come anywhere), each under one title in the language   *)
(* that was voted or is the default, and no topic takes more than its share. *)
SummaryIsOrderly == Summary!SummaryIsOrderly

(* Each proxy lease of an image generation is reported on, whichever way its *)
(* connection ended; no image is final twice in a round; and after an error  *)
(* event nothing more is generated.                                          *)
RoundsAreTrue == Rounds!RoundsAreTrue

(* A stream that attached while the task was finishing gets its final event, *)
(* and the one in Redis outlives stale snapshots written after it.           *)
FinalIsKnown == Batch!FinalIsKnown

(* Its tally never exceeds its total, is the total when it reports "done",   *)
(* and nothing of it is still at work when it reports.                       *)
TallyIsExact == Batch!TallyIsExact
=============================================================================
