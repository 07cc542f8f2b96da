--------------------------- MODULE ReasoningReplay ---------------------------
(***************************************************************************)
(* Reasoning replay of the Build provider                                  *)
(* (src/app/dataplane/build/reasoningreplay and reasoning_recovery.go):    *)
(* the output items of a session's last turn are kept, put back into the   *)
(* input of the next turn, and thrown away when the upstream cannot decode *)
(* them.  Turns of one session may overlap.                                *)
(*                                                                         *)
(* A turn is a number; its output items are records [type, turn].  Call    *)
(* ids, ciphertexts and texts are told apart by the turn they come from;   *)
(* the toolu_ spelling of a call id is the same id.                        *)
(***************************************************************************)
EXTENDS Integers, Sequences, FiniteSets, SequencesExt

CONSTANTS Traffics,    \* what a behaviour may have: sessions, shapes (which output items the
                       \* answers have, [reasoning, message, call]), forms (how the clients
                       \* continue: chat, outputs, echo, previous), bounds on turns and ticks
          MaxSize,     \* entries the memory store holds
          TTL,         \* lifetime of an entry, in ticks
          NoEntry

ReplayAssumption ==
    /\ MaxSize \in Nat /\ TTL \in Nat
    /\ \A t \in Traffics : /\ IsFiniteSet(t.sessions) /\ t.turns \in Nat /\ t.ticks \in Nat
                          /\ t.shapes \subseteq [reasoning : BOOLEAN, message : BOOLEAN, call : BOOLEAN]

VARIABLES traffic,   \* the one of Traffics this behaviour has
          cache,     \* MemoryStore.values: session -> entry
          clock,     \* ticks passed; orders storedAt
          turns,     \* the requests
          refused    \* history: turns whose ciphertext was refused and then cleared

vars == <<traffic, cache, clock, turns, refused>>

Session == traffic.sessions
Turn == 1..traffic.turns
Item(type, t) == [type |-> type, turn |-> t]
(* The output items of an answer, in the order in which they are produced. *)
Output(t, shape) ==
    (IF shape.reasoning THEN <<Item("reasoning", t)>> ELSE <<>>)
    \o (IF shape.message THEN <<Item("assistant", t)>> ELSE <<>>)
    \o (IF shape.call THEN <<Item("call", t)>> ELSE <<>>)
Unused == [pc |-> "new", session |-> NoEntry, last |-> 0, previousId |-> FALSE,
           body |-> <<>>, injected |-> {}, shape |-> NoEntry]

Init ==
    /\ traffic \in Traffics
    /\ cache = [s \in Session |-> NoEntry]
    /\ clock = 0
    /\ turns = [t \in Turn |-> Unused]
    /\ refused = {}

At(t, pc) == turns[t].pc = pc
Places(seq, type) == {n \in DOMAIN seq : seq[n].type = type}
Types(seq, type) == {seq[n].turn : n \in Places(seq, type)}
(* SelectSeq for a set of items. *)
Kept(seq, wanted) ==
    LET kept[n \in 0..Len(seq)] ==
            IF n = 0 THEN <<>> ELSE IF seq[n] \in wanted THEN Append(kept[n - 1], seq[n]) ELSE kept[n - 1]
    IN  kept[Len(seq)]

-----------------------------------------------------------------------------
(* The memory store. *)

Live(s) == cache[s] # NoEntry /\ clock < cache[s].expiresAt
Keys == {s \in Session : cache[s] # NoEntry}
Delete(s) == [cache EXCEPT ![s] = NoEntry]
(* Get slides the lifetime and drops an entry that is over. *)
Got(s) == IF Live(s)
          THEN [cache EXCEPT ![s].expiresAt = clock + TTL, ![s].storedAt = clock]
          ELSE Delete(s)
(* evictLocked: the expired ones, then, when the store is full, the oldest.  *)
Evicted(s) ==
    LET live == {k \in Keys : Live(k)} IN
    IF Cardinality(live) < MaxSize THEN {[k \in Session |-> IF k \in live THEN cache[k] ELSE NoEntry]}
    ELSE {[k \in Session |-> IF k \in live \ {victim} THEN cache[k] ELSE NoEntry] :
             victim \in {v \in live : \A w \in live : cache[v].storedAt <= cache[w].storedAt}}
Set(s, items) ==
    \E before \in IF s \in Keys THEN {cache} ELSE Evicted(s) :
        cache' = [before EXCEPT ![s] = [items |-> items, expiresAt |-> clock + TTL, storedAt |-> clock]]

-----------------------------------------------------------------------------
(* Putting the items of an entry into an input. *)

(* filterReplayItemsForInput: nothing when the input's last assistant        *)
(* message is another one than the entry's; otherwise what the input lacks,  *)
(* and a call only when its output is there.                                 *)
LastAssistant(input) ==
    IF Places(input, "assistant") = {} THEN 0 ELSE input[Max(Places(input, "assistant"))].turn
FilterReplayItems(input, items) ==
    LET cached == Types(items, "assistant")
        last == LastAssistant(input)
        Lacking(x) ==
            CASE x.type = "reasoning" -> x.turn \notin Types(input, "reasoning")
              [] x.type = "assistant" -> last = 0
              [] OTHER -> x.turn \notin Types(input, "call") /\ x.turn \in Types(input, "output")
    IN IF last # 0 /\ cached # {} /\ last \notin cached THEN <<>>
       ELSE Kept(items, {x \in ToSet(items) : Lacking(x)})
(* replayInsertIndex: before the first output of a replayed call, else       *)
(* before the last assistant message, else after the system messages.        *)
ReplayInsertIndex(input, items) ==
    LET outputs == {n \in Places(input, "output") : input[n].turn \in Types(items, "call")}
        assistants == Places(input, "assistant")
        others == DOMAIN input \ Places(input, "system")
    IN CASE outputs # {} -> Min(outputs)
         [] outputs = {} /\ assistants # {} -> Max(assistants)
         [] outputs = {} /\ assistants = {} /\ others # {} -> Min(others)
         [] OTHER -> Len(input) + 1
InsertReplayItems(input, items) ==
    LET n == ReplayInsertIndex(input, items)
    IN SubSeq(input, 1, n - 1) \o items \o SubSeq(input, n, Len(input))

-----------------------------------------------------------------------------
(* A turn. *)

(* What the client sends after turn p (0: a new conversation): the history   *)
(* as chat clients keep it, only the outputs of the calls, or with the       *)
(* ciphertext echoed.                                                        *)
Input(p, form) ==
    IF p = 0 THEN <<Item("system", 0), Item("user", 0)>>
    ELSE <<Item("system", 0), Item("user", 0)>>
         \o (IF form = "echo" /\ turns[p].shape.reasoning THEN <<Item("reasoning", p)>> ELSE <<>>)
         \o (IF turns[p].shape.message THEN <<Item("assistant", p)>> ELSE <<>>)
         \o (IF turns[p].shape.call /\ form # "outputs" THEN <<Item("call", p)>> ELSE <<>>)
         \o <<Item(IF turns[p].shape.call THEN "output" ELSE "user", p)>>
Ask(t, s, p, form) ==
    /\ At(t, "new")
    /\ \A u \in 1..(t - 1) : ~At(u, "new")
    /\ p # 0 => At(p, "done") /\ turns[p].session = s
    /\ turns' = [turns EXCEPT ![t].pc = "asked", ![t].session = s, ![t].last = p,
                              ![t].previousId = (form = "previous"), ![t].body = Input(p, form)]
    /\ UNCHANGED <<traffic, cache, clock, refused>>
(* ReasoningReplay.Apply. *)
Apply(t) ==
    LET s == turns[t].session
        found == IF ~turns[t].previousId /\ Live(s) THEN FilterReplayItems(turns[t].body, cache[s].items) ELSE <<>>
    IN /\ At(t, "asked")
       /\ cache' = IF turns[t].previousId THEN cache ELSE Got(s)
       /\ turns' = [turns EXCEPT ![t].pc = "call", ![t].injected = ToSet(found),
                       ![t].body = IF found = <<>> THEN @ ELSE InsertReplayItems(@, found)]
       /\ UNCHANGED <<traffic, clock, refused>>

Answers(t, shape) ==
    /\ turns' = [turns EXCEPT ![t].pc = "answered", ![t].shape = shape]
    /\ UNCHANGED <<traffic, cache, clock, refused>>
CreateResponse(t) ==
    /\ At(t, "call")
    /\ \E shape \in traffic.shapes : Answers(t, shape)
(* An error other than a decode failure, or no account left. *)
CallFails(t) ==
    /\ turns[t].pc \in {"call", "stripped", "reset"}
    /\ turns' = [turns EXCEPT ![t].pc = "failed"]
    /\ UNCHANGED <<traffic, cache, clock, refused>>
(* Faulty variant: the entry stays. *)
DecodeFailureKept(t) ==
    /\ At(t, "call")
    /\ Types(turns[t].body, "reasoning") # {}
    /\ refused' = refused \cup Types(turns[t].body, "reasoning")
    /\ turns' = [turns EXCEPT ![t].pc = "stripped"]
    /\ UNCHANGED <<traffic, cache, clock>>

(* 400 with a decode failure: recoverReasoningDecodeFailure first clears the *)
(* session's entry.                                                          *)
DecodeFailure(t) ==
    /\ At(t, "call")
    /\ Types(turns[t].body, "reasoning") # {}
    /\ cache' = Delete(turns[t].session)
    /\ refused' = refused \cup Types(turns[t].body, "reasoning")
    /\ turns' = [turns EXCEPT ![t].pc = "stripped"]
    /\ UNCHANGED <<traffic, clock>>
(* The retry without the ciphertexts, then one without the session as well.  *)
StripReasoning(body) == Kept(body, {x \in ToSet(body) : x.type # "reasoning"})
RetryStripped(t) ==
    /\ At(t, "stripped")
    /\ \/ \E shape \in traffic.shapes : Answers(t, shape)
       \/ /\ ~turns[t].previousId
          /\ turns' = [turns EXCEPT ![t].pc = "reset", ![t].body = StripReasoning(@)]
          /\ UNCHANGED <<traffic, cache, clock, refused>>
RetryReset(t) ==
    /\ At(t, "reset")
    /\ \E shape \in traffic.shapes : Answers(t, shape)

(* replayCaptureBody.Close of an answer read to its end: the items are       *)
(* stored, or the entry deleted when the answer has neither reasoning nor a  *)
(* call.                                                                     *)
Close(t) ==
    LET s == turns[t].session  shape == turns[t].shape IN
    /\ At(t, "answered")
    /\ IF shape.reasoning \/ shape.call THEN Set(s, Output(t, shape)) ELSE cache' = Delete(s)
    /\ turns' = [turns EXCEPT ![t].pc = "done"]
    /\ UNCHANGED <<traffic, clock, refused>>
(* A body over the limit, cut off, or without a completed event: no store.   *)
CloseSkipped(t) ==
    /\ At(t, "answered")
    /\ turns' = [turns EXCEPT ![t].pc = "done"]
    /\ UNCHANGED <<traffic, cache, clock, refused>>

Tick ==
    /\ clock < traffic.ticks
    /\ clock' = clock + 1
    /\ UNCHANGED <<traffic, cache, turns, refused>>

TurnStep(t) ==
    \/ Apply(t) \/ CreateResponse(t) \/ CallFails(t) \/ DecodeFailure(t)
    \/ RetryStripped(t) \/ RetryReset(t) \/ Close(t) \/ CloseSkipped(t)
Next ==
    \/ \E t \in Turn : TurnStep(t)
    \/ \E t \in Turn, s \in Session, p \in {0} \cup Turn, form \in traffic.forms :
          Ask(t, s, p, form)
    \/ Tick

Spec == Init /\ [][Next]_vars

-----------------------------------------------------------------------------

(* Entries and turns have the shapes the code gives them. *)
TypeOK ==
    /\ \A s \in Keys : cache[s].storedAt \in 0..traffic.ticks /\ Len(cache[s].items) \in 1..3
    /\ \A t \in Turn : turns[t].pc \in {"new", "asked", "call", "stripped", "reset", "answered", "done", "failed"}
    /\ refused \subseteq Turn

(* The store never holds more than its limit, though answers are stored in   *)
(* any order and Get gives old entries a new life.                           *)
ReplayIsBounded == Cardinality(Keys) <= MaxSize

(* What is sent upstream is a conversation: no item twice, and the output of *)
(* a call after the call whenever the call is there, wherever it was put     *)
(* back (insertReplayItems).                                                 *)
Conversation(b) ==
    /\ \A m, n \in DOMAIN b : m # n /\ b[m].type \notin {"system", "user"} => b[m] # b[n]
    /\ \A m, n \in DOMAIN b : b[m].type = "output" /\ b[n] = Item("call", b[m].turn) => n < m
BodiesAreConversations == \A t \in Turn : Conversation(turns[t].body)

(* Items of another turn than the one the client continues get into its      *)
(* request only when the client's history or the stored answer has no        *)
(* assistant message to compare: overlapping turns that store in the wrong   *)
(* order are caught by filterReplayItemsForInput.                            *)
ReplayFitsHistory ==
    \A t \in Turn : \A x \in turns[t].injected :
        \/ x.turn = turns[t].last
        \/ turns[t].last = 0
        \/ ~turns[turns[t].last].shape.message
        \/ ~turns[x.turn].shape.message

(* What the store keeps is bounded and fits where it is replayed.            *)
ReplayIsSound == TypeOK /\ ReplayIsBounded /\ BodiesAreConversations /\ ReplayFitsHistory

(* A ciphertext the upstream refused is not put into any later request: the  *)
(* entry is cleared before the retry (recoverReasoningDecodeFailure) and no  *)
(* late Close or sliding Get brings it back.                                 *)
RefusedIsNotReplayed ==
    \A t \in Turn : At(t, "asked") =>
        \A x \in turns'[t].injected : x.type = "reasoning" => x.turn \notin refused
=============================================================================
