--------------------------- MODULE RequestDispatch ---------------------------
(* One request through the product endpoints: reserve an account, run the     *)
(* upstream call, settle the account (release, feedback, quota bookkeeping)    *)
(* and retry with another account; the goroutine behind a streamed answer and  *)
(* the queue of refresh jobs.                                                  *)
EXTENDS Naturals, Sequences, FiniteSets

CONSTANTS Req,          \* requests
          Token,        \* accounts
          Settings,     \* how the service is configured and called, see setting
          MaxRetries,   \* SelectionMaxRetries
          QueueCap,     \* chatRefreshQueueCapacity
          LiteImages,   \* images one lite request asks for
          NoToken

VARIABLES setting,      \* [kinds, outcomes, quota]: the endpoints each request may
                        \* call, what upstream calls end with, whether the
                        \* strategy of selection is "quota" (else "random")
          reqs,         \* request -> its frame, see Idle
          inflight,     \* account -> leases the directory counts
          usable,       \* account -> "active", "limited" or "expired"
          jobs,         \* queued refresh jobs
          working,      \* the job in the hands of the queue's worker
          lost,         \* a job was dropped because the queue was full
          delivered     \* request -> attempts whose frames reached the client

vars == <<setting, reqs, inflight, usable, jobs, working, lost, delivered>>

AllKinds == {"chat", "responses", "console", "consoleResponses", "messages",
             "consoleMessages", "image", "lite", "edit", "video", "events"}
Outcome == {"ok", "429", "401", "403", "503", "502", "invalid"}
\* "401" is a plain unauthorized answer, "invalid" one whose body says that the
\* credentials are dead.  A broken transport, a parse error and a failed write
\* to the client are "502".

Idle == [pc |-> "idle", kind |-> "none", attempt |-> 0, left |-> 0, tried |-> {},
         token |-> NoToken, outcome |-> "none", todo |-> << >>, refreshed |-> FALSE,
         connected |-> TRUE]

Retries(k) == k \notin {"edit", "video", "events"}
Anthropic(k) == k \in {"messages", "consoleMessages"}
RetryCodes == {"429", "401", "503"}

\* shouldRetryUpstream never retries dead credentials; the Anthropic endpoints
\* look at the status alone.
ShouldRetry(k, o) == o \in RetryCodes \/ (o = "invalid" /\ Anthropic(k))

\* What happens to the account after the call, in the order of the code: inside
\* RunAccountDispatch the attempt itself does the bookkeeping, finishChatAttempt
\* does it last, a video reports only dead or forbidden accounts.
DispatchSettles == <<"sync", "release", "feedback">>
FinishSettles == <<"release", "feedback", "sync">>
VideoSettles(o) ==
    IF o \in {"401", "403", "invalid"} THEN <<"release", "feedback">> ELSE <<"release">>
Settlement(k, o) ==
    CASE k \in {"chat", "responses", "messages"} -> DispatchSettles
      [] k = "events" -> <<"release">>
      [] k = "video" -> VideoSettles(o)
      [] OTHER -> FinishSettles

\* What an answer that came can still turn into while it is read: an error inside
\* the stream has a status of its own, a download may be refused, an answer
\* without a picture is an error.
ChatConsumed == {"ok", "429", "502"}
ResponseConsumed == {"ok", "429", "502"}
MessagesConsumed == {"ok", "429", "502"}
ConsoleConsumed == {"ok", "502"}
ConsoleResponseConsumed == {"ok", "502"}
ConsoleMessagesConsumed == {"ok", "502"}
ImagineConsumed == {"ok", "401", "403", "502", "invalid"}
LiteConsumed == ImagineConsumed \cup {"429"}
EditConsumed == LiteConsumed
VideoConsumed == LiteConsumed
Consumed(k) ==
    CASE k = "chat" -> ChatConsumed
      [] k = "responses" -> ResponseConsumed
      [] k = "messages" -> MessagesConsumed
      [] k = "console" -> ConsoleConsumed
      [] k = "consoleResponses" -> ConsoleResponseConsumed
      [] k = "consoleMessages" -> ConsoleMessagesConsumed
      [] k = "image" -> ImagineConsumed
      [] k = "lite" -> LiteConsumed
      [] k = "edit" -> EditConsumed
      [] k = "video" -> VideoConsumed
      [] k = "events" -> {"ok"}

Call(r, frame) == reqs' = [reqs EXCEPT ![r] = frame]
End(r) == Call(r, [Idle EXCEPT !.pc = "done"])

-----------------------------------------------------------------------------
(* The endpoints *)

Start(k) == IF k \in {"console", "consoleResponses"} THEN "pace" ELSE "reserve"

Begin(r, k, images) ==
    /\ k \in setting.kinds[r] /\ reqs[r].pc = "idle"
    /\ Call(r, [Idle EXCEPT !.pc = Start(k), !.kind = k, !.left = images])
    /\ UNCHANGED <<setting, inflight, usable, jobs, working, lost, delivered>>

Completions(r) == Begin(r, "chat", 1)
Responses(r) == Begin(r, "responses", 1)
ConsoleCompletions(r) == Begin(r, "console", 1)
ConsoleResponses(r) == Begin(r, "consoleResponses", 1)
Messages(r) == Begin(r, "messages", 1)
ConsoleMessages(r) == Begin(r, "consoleMessages", 1)
GenerateImages(r) == Begin(r, "image", 1)
GenerateLiteImages(r) == Begin(r, "lite", LiteImages)
EditImages(r) == Begin(r, "edit", 1)
GenerateVideo(r) == Begin(r, "video", 1)
StreamImagineEvents(r) == Begin(r, "events", 1)

\* The checks before the directory is asked: an unknown model, an empty message.
Refuse(r) ==
    /\ reqs[r].pc = "idle" /\ End(r)
    /\ UNCHANGED <<setting, inflight, usable, jobs, working, lost, delivered>>

\* waitConsoleModelRateLimit: on to the reservation, or refused.
Pace(r) ==
    /\ reqs[r].pc = "pace"
    /\ Call(r, [reqs[r] EXCEPT !.pc = "reserve"]) \/ End(r)
    /\ UNCHANGED <<setting, inflight, usable, jobs, working, lost, delivered>>

Candidates(r) == {t \in Token : usable[t] = "active" /\ t \notin reqs[r].tried}

Reserve(r, t) ==
    /\ reqs[r].pc = "reserve" /\ t \in Candidates(r)
    /\ inflight' = [inflight EXCEPT ![t] = @ + 1]
    /\ Call(r, [reqs[r] EXCEPT !.pc = "run", !.token = t])
    /\ UNCHANGED <<setting, usable, jobs, working, lost, delivered>>

\* Nothing to reserve: with the quota strategy one refresh on demand and a
\* second look, otherwise the end of the request.
ReserveFails(r) ==
    /\ reqs[r].pc = "reserve" /\ Candidates(r) = {}
    /\ IF setting.quota /\ ~reqs[r].refreshed
       THEN Call(r, [reqs[r] EXCEPT !.pc = "ondemand"])
       ELSE End(r)
    /\ UNCHANGED <<setting, inflight, usable, jobs, working, lost, delivered>>

Refreshed(back) == [t \in Token |-> IF t \in back THEN "active" ELSE usable[t]]
Limited == {t \in Token : usable[t] = "limited"}

OnDemand(r, back) ==
    /\ reqs[r].pc = "ondemand" /\ back \subseteq Limited
    /\ usable' = Refreshed(back)
    /\ Call(r, [reqs[r] EXCEPT !.pc = "reserve", !.refreshed = TRUE])
    /\ UNCHANGED <<setting, inflight, jobs, working, lost, delivered>>

OnDemandFails(r) ==
    /\ reqs[r].pc = "ondemand" /\ End(r)
    /\ UNCHANGED <<setting, inflight, usable, jobs, working, lost, delivered>>

-----------------------------------------------------------------------------
(* The upstream call *)

Settle(r, o) == Call(r, [reqs[r] EXCEPT !.pc = "settle", !.outcome = o,
                                        !.todo = Settlement(reqs[r].kind, o)])

\* The call is answered or fails.  When the client has gone its context is
\* cancelled: the call may still have its answer, otherwise the transport fails.
Answer(r, o) ==
    /\ reqs[r].pc = "run"
    /\ reqs[r].connected \/ o \in {"ok", "502"}
    /\ IF o = "ok" THEN Call(r, [reqs[r] EXCEPT !.pc = "consume"]) ELSE Settle(r, o)
    /\ UNCHANGED <<setting, inflight, usable, jobs, working, lost, delivered>>

Consume(r, o) ==
    /\ reqs[r].pc = "consume" /\ o \in Consumed(reqs[r].kind)
    /\ Settle(r, o)
    /\ UNCHANGED <<setting, inflight, usable, jobs, working, lost, delivered>>

\* Faulty variant: the early return keeps the account.
EditPreparationLeaks(r) ==
    /\ reqs[r].pc = "run" /\ reqs[r].kind = "edit"
    /\ Call(r, [reqs[r] EXCEPT !.pc = "settle", !.outcome = "502", !.todo = <<>>])
    /\ UNCHANGED <<setting, inflight, usable, jobs, working, lost, delivered>>

\* EditImages gives the account back without a word about it when an upload or
\* the post of the edit fails.
EditPreparationFails(r) ==
    /\ reqs[r].pc = "run" /\ reqs[r].kind = "edit"
    /\ Call(r, [reqs[r] EXCEPT !.pc = "settle", !.outcome = "502", !.todo = <<"release">>])
    /\ UNCHANGED <<setting, inflight, usable, jobs, working, lost, delivered>>

\* A line of a streamed answer becomes frames for the handler, which is at the
\* other end of an unbuffered channel.
Line(r) ==
    /\ reqs[r].pc = "run" /\ reqs[r].kind = "chat"
    /\ reqs[r].attempt \notin delivered[r]
    /\ Call(r, [reqs[r] EXCEPT !.pc = "send"])
    /\ UNCHANGED <<setting, inflight, usable, jobs, working, lost, delivered>>

SendFrame(r) ==
    /\ reqs[r].pc = "send" /\ reqs[r].connected
    /\ delivered' = [delivered EXCEPT ![r] = @ \cup {reqs[r].attempt}]
    /\ Call(r, [reqs[r] EXCEPT !.pc = "run"])
    /\ UNCHANGED <<setting, inflight, usable, jobs, working, lost>>

\* Faulty variant: the writer does not look at the context.
SendBlocks(r) == FALSE

\* The handler has left with the client: the select of the writer sees the
\* cancelled context and the call ends as a transport failure.
SendFails(r) ==
    /\ reqs[r].pc = "send" /\ ~reqs[r].connected
    /\ Settle(r, "502")
    /\ UNCHANGED <<setting, inflight, usable, jobs, working, lost, delivered>>

Disconnect(r) ==
    /\ reqs[r].pc \notin {"idle", "done"} /\ reqs[r].connected
    /\ Call(r, [reqs[r] EXCEPT !.connected = FALSE])
    /\ UNCHANGED <<setting, inflight, usable, jobs, working, lost, delivered>>

-----------------------------------------------------------------------------
(* Settling the account, one call at a time *)

Doing(r, what) == reqs[r].pc = "settle" /\ reqs[r].todo # << >> /\ Head(reqs[r].todo) = what
Done(r) == Call(r, [reqs[r] EXCEPT !.todo = Tail(@)])

Release(r) ==
    /\ Doing(r, "release")
    /\ inflight' = [inflight EXCEPT ![reqs[r].token] = IF @ > 0 THEN @ - 1 ELSE 0]
    /\ Done(r)
    /\ UNCHANGED <<setting, usable, jobs, working, lost, delivered>>

\* The directory's feedback: a rate limit and dead credentials take the account
\* out of the selection, the other kinds only weigh on its health.
Feedback(r) ==
    /\ Doing(r, "feedback")
    /\ usable' = [usable EXCEPT ![reqs[r].token] =
                     CASE reqs[r].outcome = "429" -> "limited"
                       [] reqs[r].outcome \in {"401", "invalid"} -> "expired"
                       [] OTHER -> @]
    /\ Done(r)
    /\ UNCHANGED <<setting, inflight, jobs, working, lost, delivered>>

\* The job quotaSync or failSync leaves for the account.
JobAfter(r) ==
    CASE ~setting.quota \/ Anthropic(reqs[r].kind) -> "none"
      [] reqs[r].outcome = "ok" -> "call"
      [] reqs[r].outcome = "429" -> "ondemand"
      [] OTHER -> "none"

Enqueue(job) ==
    IF job = "none" THEN UNCHANGED <<jobs, lost>>
    ELSE IF Len(jobs) < QueueCap THEN jobs' = Append(jobs, job) /\ UNCHANGED lost
    ELSE lost' = TRUE /\ UNCHANGED jobs

Sync(r) ==
    /\ Doing(r, "sync")
    /\ Enqueue(JobAfter(r))
    /\ Done(r)
    /\ UNCHANGED <<setting, inflight, usable, working, delivered>>

\* The attempt is settled: the answer, the next image of a lite request, another
\* attempt without the accounts already tried, or the error.
Retry(r) ==
    /\ Retries(reqs[r].kind) /\ ShouldRetry(reqs[r].kind, reqs[r].outcome)
    /\ reqs[r].attempt < MaxRetries

Decide(r) ==
    /\ reqs[r].pc = "settle" /\ reqs[r].todo = << >>
    /\ CASE reqs[r].outcome = "ok" /\ reqs[r].left > 1 ->
              Call(r, [reqs[r] EXCEPT !.pc = "reserve", !.attempt = 0, !.tried = {},
                          !.left = @ - 1, !.token = NoToken, !.refreshed = FALSE])
         [] Retry(r) ->
              Call(r, [reqs[r] EXCEPT !.pc = Start(reqs[r].kind), !.attempt = @ + 1,
                          !.tried = @ \cup {reqs[r].token}, !.token = NoToken,
                          !.refreshed = FALSE])
         [] OTHER -> End(r)
    /\ UNCHANGED <<setting, inflight, usable, jobs, working, lost, delivered>>

-----------------------------------------------------------------------------
(* The worker of the refresh queue *)

TakeJob ==
    /\ working = "none" /\ jobs # << >>
    /\ working' = Head(jobs) /\ jobs' = Tail(jobs)
    /\ UNCHANGED <<setting, reqs, inflight, usable, lost, delivered>>

FinishJob(back) ==
    /\ working # "none"
    /\ back \subseteq Limited /\ (working = "call" => back = {})
    /\ usable' = Refreshed(back)
    /\ working' = "none"
    /\ UNCHANGED <<setting, reqs, inflight, jobs, lost, delivered>>

Init ==
    /\ setting \in Settings
    /\ reqs = [r \in Req |-> Idle]
    /\ inflight = [t \in Token |-> 0]
    /\ usable = [t \in Token |-> "active"]
    /\ jobs = << >> /\ working = "none" /\ lost = FALSE
    /\ delivered = [r \in Req |-> {}]

Step(r) ==
    \/ Pace(r) \/ ReserveFails(r) \/ OnDemandFails(r) \/ EditPreparationFails(r)
    \/ \E t \in Token : Reserve(r, t)
    \/ \E back \in SUBSET Token : OnDemand(r, back)
    \/ \E o \in setting.outcomes : Answer(r, o) \/ Consume(r, o)
    \/ SendFrame(r) \/ SendFails(r)
    \/ Release(r) \/ Feedback(r) \/ Sync(r) \/ Decide(r)
Work == TakeJob \/ \E back \in SUBSET Token : FinishJob(back)

Next ==
    \/ \E r \in Req :
          \/ Step(r) \/ Line(r) \/ Disconnect(r) \/ Refuse(r)
          \/ Completions(r) \/ Responses(r) \/ ConsoleCompletions(r) \/ ConsoleResponses(r)
          \/ Messages(r) \/ ConsoleMessages(r) \/ GenerateImages(r) \/ GenerateLiteImages(r)
          \/ EditImages(r) \/ GenerateVideo(r) \/ StreamImagineEvents(r)
    \/ Work

Spec == Init /\ [][Next]_vars

-----------------------------------------------------------------------------
TypeOK ==
    /\ \A r \in Req :
          /\ reqs[r].pc \in {"idle", "pace", "reserve", "ondemand", "run", "send",
                           "consume", "settle", "done"}
          /\ reqs[r].token \in Token \cup {NoToken} /\ reqs[r].tried \subseteq Token
          /\ reqs[r].attempt \in 0 .. MaxRetries
          /\ delivered[r] \subseteq 0 .. MaxRetries
    /\ inflight \in [Token -> Nat]
    /\ usable \in [Token -> {"active", "limited", "expired"}]
    /\ jobs \in Seq({"call", "ondemand"}) /\ Len(jobs) <= QueueCap
    /\ working \in {"none", "call", "ondemand"} /\ lost \in BOOLEAN

Owes(r, t) ==
    /\ reqs[r].token = t
    /\ \/ reqs[r].pc \in {"run", "send", "consume"}
       \/ reqs[r].pc = "settle" /\ \E i \in DOMAIN reqs[r].todo : reqs[r].todo[i] = "release"

\* The load the directory balances on is the number of calls in progress: every
\* way out of every endpoint, early returns and abandoned streams included,
\* gives its account back exactly once, before a retry takes the next one.
LeasesBalanced ==
    \A t \in Token : inflight[t] = Cardinality({r \in Req : Owes(r, t)})

\* Every request ends, also when its client has left and nobody reads the
\* frames any more, and then no account is left marked as busy.
RequestsEnd ==
    <>[]( (\A r \in Req : reqs[r].pc \in {"idle", "done"})
          /\ (\A t \in Token : inflight[t] = 0) )

\* An account a rate limit took out of the selection is refreshed afterwards
\* unless its job was dropped: a job in the queue is never forgotten.
JobsAreDone == []<>(jobs = << >> /\ working = "none")
=============================================================================
