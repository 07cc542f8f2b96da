----------------------------- MODULE ChatStream -----------------------------
(***************************************************************************)
(* One streamed answer, from the lines of grok.com to the frames of the    *)
(* client: StreamAdapter, the sieve that cuts tool calls out of the text   *)
(* (ToolSieve), and the formatters of Chat Completions, Responses and      *)
(* Messages (src/app/dataplane/reverse/protocol, src/app/products).        *)
(*                                                                         *)
(* Text is a sequence of pieces: plain text, a proper prefix of the open   *)
(* tag shorter than "<tool_call" in lower case ("lt") or not ("LT"), what  *)
(* completes either ("rest"), the open tag as a whole, a call of a         *)
(* declared tool, any other call, the closing tag; and a call of a         *)
(* declared tool in a JSON envelope or as <function_call> or <invoke>.     *)
(* The upstream cuts it into lines where it likes.                         *)
(*                                                                         *)
(* External: the upstream.                                                 *)
(***************************************************************************)
EXTENDS Integers, Sequences, SequencesExt, FiniteSets

CONSTANTS Api,         \* which of "chat", "responses", "messages" are used
          Modes,       \* which of "plain", "tools", "disabled": tools declared, or tool_choice none
          Dialects,    \* which pieces come together in an answer (bound)
          MaxPieces,   \* length of an answer (bound)
          MaxChunk,    \* length of a line (bound)
          MaxBuffer    \* maxToolSieveBufferBytes, in pieces

Piece == {"text", "lt", "LT", "rest", "open", "call", "other", "close", "json", "invoke"}

VARIABLES req,      \* the request: API and mode
          sent,     \* history: the answer so far, uncut
          adapter,  \* StreamAdapter: started (text has begun), images
          sieve,    \* ToolSieve; history: cut (a block too large), torn (see Torn)
          blocks,   \* content blocks or output items: thinking, text (as far as opened), index
          client,   \* history: what the client has been sent
          phase

vars == <<req, sent, adapter, sieve, blocks, client, phase>>

NoCalls == -1
NewSieve == [buf |-> <<>>, capturing |-> FALSE, done |-> FALSE, cut |-> FALSE, torn |-> FALSE]
Init ==
    /\ req \in [api : Api, mode : Modes]
    /\ sent = <<>>
    /\ adapter = [started |-> FALSE, images |-> FALSE]
    /\ sieve = NewSieve
    /\ blocks = [think |-> "none", text |-> "none", index |-> 0]
    /\ client = [text |-> <<>>, calls |-> NoCalls, ends |-> 0, marks |-> <<>>]
    /\ phase = "reading"

-----------------------------------------------------------------------------
(* ParseToolCalls. *)

(* The first open tag, whole or in two pieces; 0 when there is none. *)
OpenAt(s) ==
    LET at == {i \in 1..Len(s) : s[i] = "open" \/ (s[i] \in {"lt", "LT"} /\ i < Len(s) /\ s[i + 1] = "rest")}
    IN  IF at = {} THEN 0 ELSE CHOOSE i \in at : \A j \in at : i <= j
CloseAt(s) ==
    LET at == {i \in 1..Len(s) : s[i] = "close"} IN IF at = {} THEN 0 ELSE CHOOSE i \in at : \A j \in at : i <= j
(* The first block, to the end of the text when it is not complete.          *)
Block(s) ==
    LET from == SubSeq(s, OpenAt(s), Len(s))
    IN  IF OpenAt(s) = 0 THEN <<>> ELSE IF CloseAt(from) = 0 THEN from ELSE SubSeq(from, 1, CloseAt(from))
Calls == {"call", "other", "json", "invoke"}
Count(s, kinds) == Cardinality({i \in 1..Len(s) : s[i] \in kinds})
(* parseXMLToolCalls: the calls of the first complete block, of any tool.    *)
XmlCalls(s, kinds) == IF CloseAt(Block(s)) = 0 THEN 0 ELSE Count(Block(s), kinds)
(* parseJSONEnvelope takes the first object of the text, parseJSONArray all  *)
(* from the first bracket to the last.                                       *)
JsonCalls(s) ==
    LET objects == SelectSeq(s, LAMBDA piece : piece \in {"call", "other", "json"})
    IN  IF (objects # <<>> /\ Head(objects) = "json") \/ Count(s, {"json"}) = 1 THEN 1 ELSE 0
AltCalls(s) == Count(s, {"invoke"})
(* Another syntax is looked for when the block has no call of any tool.      *)
ParseToolCalls(s) ==
    CASE XmlCalls(s, {"call", "other"}) > 0 -> XmlCalls(s, {"call"})
      [] XmlCalls(s, {"call", "other"}) = 0 /\ JsonCalls(s) > 0 -> JsonCalls(s)
      [] OTHER -> AltCalls(s)

-----------------------------------------------------------------------------
(* ToolSieve.Feed: the sieve after a chunk, the text that may pass, and the  *)
(* calls, NoCalls when no block has ended.                                   *)

Fed(s, safe, calls) == [sieve |-> s, safe |-> safe, calls |-> calls]
(* Faulty variant: the end of a chunk is taken as it is. *)
KeptNothing(s) == <<>>

(* splitAtBoundary: a prefix of the tag at the very end is kept back, when   *)
(* it is in lower case, though the tag is matched in any case.               *)
KeptBack(s) == IF s # <<>> /\ Last(s) = "lt" THEN <<"lt">> ELSE <<>>
FeedCapturing(s) ==
    CASE Len(s.buf) > MaxBuffer ->
           Fed([s EXCEPT !.buf = <<>>, !.capturing = FALSE, !.done = TRUE, !.cut = TRUE], <<>>, NoCalls)
      [] Len(s.buf) <= MaxBuffer /\ CloseAt(s.buf) = 0 -> Fed(s, <<>>, NoCalls)
      [] OTHER -> Fed([s EXCEPT !.buf = <<>>, !.capturing = FALSE, !.done = TRUE], <<>>,
                      ParseToolCalls(SubSeq(s.buf, 1, CloseAt(s.buf))))
FeedScanning(s, chunk) ==
    LET combined == s.buf \o chunk
        open == OpenAt(combined)
        kept == KeptBack(combined)
    IN  IF open = 0
        THEN Fed([s EXCEPT !.buf = kept], SubSeq(combined, 1, Len(combined) - Len(kept)), NoCalls)
        ELSE LET fed == FeedCapturing([s EXCEPT !.buf = SubSeq(combined, open, Len(combined)),
                                               !.capturing = TRUE])
             IN  [fed EXCEPT !.safe = SubSeq(combined, 1, open - 1)]
Feed(s, chunk) ==
    CASE s.done -> Fed(s, IF s.capturing THEN <<>> ELSE chunk, NoCalls)
      [] ~s.done /\ s.capturing -> FeedCapturing([s EXCEPT !.buf = @ \o chunk])
      [] OTHER -> FeedScanning(s, chunk)
(* ToolSieve.Flush at the end: an unfinished block is reported without calls; *)
(* text kept back is dropped.                                                *)
Flush(s) == IF s.done \/ s.buf = <<>> \/ OpenAt(s.buf) = 0 THEN NoCalls ELSE ParseToolCalls(s.buf)

Sieved(chunk) == IF req.mode = "plain" \/ (req.api = "messages" /\ req.mode = "disabled")
                 THEN Fed(sieve, chunk, NoCalls)
                 ELSE Feed(sieve, chunk)
Emitted == client.calls # NoCalls
(* A tag not in lower case is cut in two: its first half has been passed on. *)
Torn(chunk) == /\ ~sieve.done /\ ~sieve.capturing
               /\ sent # <<>> /\ Last(sent) = "LT" /\ Head(chunk) = "rest"

-----------------------------------------------------------------------------
(* The formatters.  marks are the frames that open and close blocks.         *)

Say(c, text) == [c EXCEPT !.text = @ \o text]
Mark(c, m) == [c EXCEPT !.marks = Append(@, m)]
Opens(i) == <<"start", i>>
Stops(i) == <<"stop", i>>
(* One block of its own for each call. *)
CallBlocks(c, i, n) == [c EXCEPT !.marks = @ \o [k \in 1..(2 * n) |->
                           IF k % 2 = 1 THEN Opens(i + (k - 1) \div 2) ELSE Stops(i + (k - 1) \div 2)]]
View(c, b) == [client |-> c, blocks |-> b]

(* Thinking opens its block at the first line; Messages drops what comes     *)
(* after that block is closed.                                               *)
Think(v) ==
    CASE req.api = "chat" \/ (req.api = "messages" /\ v.blocks.think = "closed") -> v
      [] req.api # "chat" /\ v.blocks.think = "none" ->
           View(Mark(v.client, Opens(IF req.api = "responses" THEN 0 ELSE v.blocks.index)),
                [v.blocks EXCEPT !.think = "open",
                                 !.index = IF req.api = "responses" THEN 1 ELSE @])
      [] OTHER -> v
(* closeThinkingBlock, responseReasoningDoneFrames. *)
CloseThinking(v) ==
    IF v.blocks.think # "open" THEN v
    ELSE View(Mark(v.client, Stops(IF req.api = "responses" THEN 0 ELSE v.blocks.index)),
              [v.blocks EXCEPT !.think = "closed", !.index = IF req.api = "messages" THEN @ + 1 ELSE @])
(* emitTextDelta and its counterparts: nothing for empty text. *)
TextDelta(v, text) ==
    IF text = <<>> THEN v
    ELSE IF req.api # "chat" /\ v.blocks.text = "none"
         THEN View(Say(Mark(v.client, Opens(v.blocks.index)), text), [v.blocks EXCEPT !.text = "open"])
         ELSE View(Say(v.client, text), v.blocks)
CloseText(v) ==
    IF v.blocks.text # "open" THEN v
    ELSE View(Mark(v.client, Stops(v.blocks.index)),
              [v.blocks EXCEPT !.text = "none", !.index = @ + 1])
(* appendToolCallFrames ends a chat stream there and then. *)
ToolCalls(v, n) ==
    View([CallBlocks(v.client, v.blocks.index, IF req.api = "chat" THEN 0 ELSE n)
            EXCEPT !.calls = n, !.ends = IF req.api = "chat" THEN @ + 1 ELSE @],
         [v.blocks EXCEPT !.index = IF req.api = "messages" THEN @ + n ELSE @])
Now == View(client, blocks)
Show(v) == client' = v.client /\ blocks' = v.blocks

-----------------------------------------------------------------------------
(* The lines of the upstream (StreamAdapter.Feed). *)

Reading == phase = "reading"
(* A thought or a tool card; those after the text has begun are not shown.   *)
Thinking ==
    /\ Reading /\ ~adapter.started /\ blocks.think = "none"
    /\ Show(Think(Now))
    /\ UNCHANGED <<req, sent, adapter, sieve, phase>>
ImageCard ==
    /\ Reading /\ ~adapter.images
    /\ adapter' = [adapter EXCEPT !.images = TRUE]
    /\ UNCHANGED <<req, sent, sieve, blocks, client, phase>>
(* A final token.  Chat and Responses pass the text before a call on;        *)
(* Messages passes only the calls on, and stops reading, as Responses does.  *)
FinalToken(chunk) ==
    LET fed == Sieved(chunk)
        closed == IF req.api = "messages" \/ (req.api = "responses" /\ fed.safe # <<>>)
                  THEN CloseThinking(Now) ELSE Now
        texted == IF fed.calls # NoCalls /\ req.api = "messages" THEN closed ELSE TextDelta(closed, fed.safe)
        calls == fed.calls # NoCalls /\ req.mode = "tools"
    IN
    /\ Reading /\ Len(sent) + Len(chunk) <= MaxPieces
    /\ \E pieces \in Dialects : ToSet(sent \o chunk) \subseteq pieces
    /\ sent' = sent \o chunk
    /\ adapter' = [adapter EXCEPT !.started = TRUE]
    /\ sieve' = [fed.sieve EXCEPT !.torn = @ \/ Torn(chunk)]
    /\ Show(CASE Emitted -> Now
              [] ~Emitted /\ calls -> ToolCalls(texted, fed.calls)
              [] OTHER -> texted)
    /\ phase' = IF ~Emitted /\ calls /\ req.api # "chat" THEN "finish" ELSE phase
    /\ UNCHANGED req
(* [DONE], the end of the body, or, in Messages, a soft stop.               *)
DoneLine ==
    /\ Reading
    /\ phase' = "finish"
    /\ UNCHANGED <<req, sent, adapter, sieve, blocks, client>>
(* An error line ends the attempt (StreamErrorFromPayload). *)
ErrorLine ==
    /\ Reading
    /\ phase' = "failed"
    /\ UNCHANGED <<req, sent, adapter, sieve, blocks, client>>

-----------------------------------------------------------------------------
(* Finish: flush the sieve, then close what is open and end the stream.      *)

Flushed ==
    LET calls == Flush(sieve)
        take == ~Emitted /\ req.mode = "tools" /\ (IF req.api = "messages" THEN calls > 0 ELSE calls # NoCalls)
    IN  IF ~take THEN Now
        ELSE ToolCalls(IF req.api = "messages" THEN CloseText(Now) ELSE Now, calls)
(* The resolved images become text, in Responses only behind other text,     *)
(* in a chat stream not at all.                                              *)
WithImages(v) ==
    IF adapter.images /\ (req.api = "messages" \/ (req.api = "responses" /\ v.blocks.text = "open"))
    THEN TextDelta(v, <<"image">>) ELSE v
Ended(v) == [v EXCEPT !.client.ends = @ + 1]
FinishText(v) ==
    CASE req.api = "chat" -> v
      [] req.api = "messages" -> CloseText(CloseThinking(WithImages(v)))
      [] OTHER -> LET w == WithImages(v)
                      o == IF w.blocks.text = "open" THEN w
                           ELSE View(Mark(w.client, Opens(w.blocks.index)), [w.blocks EXCEPT !.text = "open"])
                  IN  CloseText(o)
Finish ==
    LET v == Flushed IN
    /\ phase = "finish"
    /\ sieve' = IF Emitted \/ req.mode # "tools" \/ sieve.done \/ sieve.buf = <<>> THEN sieve
                ELSE [sieve EXCEPT !.done = TRUE, !.buf = <<>>]
    /\ Show(CASE v.client.calls # NoCalls /\ req.api = "chat" -> v
              [] v.client.calls # NoCalls /\ req.api # "chat" -> Ended(v)
              [] OTHER -> Ended(FinishText(v)))
    /\ phase' = "done"
    /\ UNCHANGED <<req, sent, adapter>>

Next ==
    \/ Thinking \/ ImageCard \/ DoneLine \/ ErrorLine \/ Finish
    \/ \E n \in 1..MaxChunk : \E chunk \in [1..n -> Piece] : FinalToken(chunk)

Spec == Init /\ [][Next]_vars

-----------------------------------------------------------------------------

(* The sieve and the stream are where the code can be. *)
TypeOK ==
    /\ phase \in {"reading", "finish", "done", "failed"}
    /\ sieve.buf \in Seq(Piece) /\ Len(sieve.buf) <= MaxBuffer
    /\ sieve.done => sieve.buf = <<>>
    /\ client.calls \in NoCalls..MaxPieces /\ client.ends \in 0..1

(* What may be shown of an answer with tools, however it was cut: the text   *)
(* before the first open tag, and without one all but a trailing prefix.     *)
Visible(s) == IF OpenAt(s) # 0 THEN SubSeq(s, 1, OpenAt(s) - 1)
              ELSE SubSeq(s, 1, Len(s) - Len(KeptBack(s)))

(* Where the upstream cuts the answer makes no difference: a Chat or         *)
(* Responses client with tools has been sent just the visible text of the    *)
(* answer so far, no open tag and no block among it, unless a block was too  *)
(* large or a tag not in lower case was torn: then its halves are text.      *)
CutsDoNotShow ==
    (req.mode = "tools" /\ req.api # "messages" /\ ~sieve.cut /\ ~sieve.torn)
        => SelectSeq(client.text, LAMBDA p : p # "image") = Visible(sent)

(* A streaming client gets the calls of the first block, and these are what  *)
(* a client that does not stream would have got from the whole answer        *)
(* (buildNonStreamChatResponse), unless that client's are looked for in      *)
(* another syntax and outside that block, where the streaming client has     *)
(* all as text.                                                              *)
StreamedCallsAgree ==
    LET calls == IF client.calls = NoCalls THEN 0 ELSE client.calls IN
    (phase = "done" /\ req.mode = "tools" /\ ~sieve.cut /\ ~sieve.torn) =>
        /\ calls = ParseToolCalls(Block(sent))
        /\ \/ XmlCalls(sent, {"call", "other"}) > 0
           \/ Count(sent, Calls) = Count(Block(sent), Calls)
           => calls = ParseToolCalls(sent)

(* Every answer that does not fail is ended once, though a chat stream ends  *)
(* at its tool calls and keeps reading.                                      *)
EndedOnce ==
    /\ (phase = "done" => client.ends = 1)
    /\ client.ends <= 1

(* A client that was told of the end gets nothing more. *)
NothingAfterEnd == [][client.ends = 1 => client' = client]_vars

(* A streamed answer is the whole answer, cut, as far as its calls are in    *)
(* a block whose tags the sieve can put together.                            *)
StreamIsTheAnswer == [](TypeOK /\ CutsDoNotShow /\ StreamedCallsAgree /\ EndedOnce) /\ NothingAfterEnd
=============================================================================
