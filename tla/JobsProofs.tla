---------------------------- MODULE JobsProofs ----------------------------
(***************************************************************************)
(* What is proved of the work that must come to an end, for every number   *)
(* of requests, accounts, jobs and connections: what is taken is counted   *)
(* and given back, what a client was told stays true, and the media cache  *)
(* keeps its index and its limit.                                          *)
(***************************************************************************)
EXTENDS Jobs, TLAPS, FiniteSetTheorems, WellFoundedInduction

-----------------------------------------------------------------------------
(* The requests.  A request has an account from the reservation to the end   *)
(* of its settlement, and what is left of a settlement gives it back once.   *)
Label == {"idle", "pace", "reserve", "ondemand", "run", "send", "consume", "settle", "done"}
WithAccount == {"run", "send", "consume", "settle"}
Todo == {<<>>, <<"sync", "release", "feedback">>, <<"release", "feedback">>, <<"feedback">>,
         <<"release", "feedback", "sync">>, <<"feedback", "sync">>, <<"sync">>, <<"release">>}

FrameType(frame) ==
    /\ DOMAIN frame = {"pc", "kind", "attempt", "left", "tried", "token", "outcome", "todo", "refreshed", "connected"}
    /\ frame.pc \in Label /\ frame.todo \in Todo
    /\ frame.attempt \in 0 .. MaxRetries /\ frame.tried \subseteq Token
    /\ IF frame.pc \in WithAccount THEN frame.token \in Token ELSE frame.token = NoToken

Releases(todo) == \E i \in DOMAIN todo : todo[i] = "release"
Holds(frame) == frame.pc \in {"run", "send", "consume"} \/ (frame.pc = "settle" /\ Releases(frame.todo))
Holders(t) == {r \in Req : reqs[r].token = t /\ Holds(reqs[r])}

RequestsType == DOMAIN reqs = Req /\ \A r \in Req : FrameType(reqs[r])
OthersType ==
    /\ delivered \in [Req -> SUBSET (0 .. MaxRetries)]
    /\ usable \in [Token -> {"active", "limited", "expired"}]
    /\ jobs \in Seq({"call", "ondemand"}) /\ Len(jobs) <= RefreshQueueCap
    /\ working \in {"none", "call", "ondemand"} /\ lost \in BOOLEAN
LoadIsCounted == inflight \in [Token -> Nat] /\ \A t \in Token : inflight[t] = Cardinality(Holders(t))
DispatchInv == RequestsType /\ OthersType /\ LoadIsCounted

LEMMA TodoSteps ==
    /\ \A todo \in Todo : todo # <<>> =>
          /\ Tail(todo) \in Todo
          /\ Head(todo) = "release" => Releases(todo) /\ ~Releases(Tail(todo))
          /\ Head(todo) # "release" => (Releases(Tail(todo)) <=> Releases(todo))
    /\ ~Releases(<<>>)
  <1>1. ~Releases(<<>>)
    BY DEF Releases
  <1>2. ASSUME NEW a, NEW b, NEW c PROVE
          /\ Tail(<<a, b, c>>) = <<b, c>> /\ Tail(<<b, c>>) = <<c>> /\ Tail(<<c>>) = <<>>
          /\ Head(<<a, b, c>>) = a /\ Head(<<b, c>>) = b /\ Head(<<c>>) = c
    OBVIOUS
  <1>3. ASSUME NEW todo \in Todo, todo # <<>>
        PROVE  /\ Tail(todo) \in Todo
               /\ Head(todo) = "release" => Releases(todo) /\ ~Releases(Tail(todo))
               /\ Head(todo) # "release" => (Releases(Tail(todo)) <=> Releases(todo))
    <2>1. CASE todo = <<"sync", "release", "feedback">>
      <3>1. Head(todo) = "sync" /\ Tail(todo) = <<"release", "feedback">>
        BY <1>2, <2>1
      <3>2. Releases(<<"sync", "release", "feedback">>) /\ Releases(<<"release", "feedback">>)
        BY <1>1 DEF Releases
      <3>3. <<"release", "feedback">> \in Todo
        BY DEF Todo
      <3> QED
        BY <2>1, <3>1, <3>2, <3>3
    <2>2. CASE todo = <<"release", "feedback">>
      <3>1. Head(todo) = "release" /\ Tail(todo) = <<"feedback">>
        BY <1>2, <2>2
      <3>2. Releases(<<"release", "feedback">>) /\ ~Releases(<<"feedback">>)
        BY <1>1 DEF Releases
      <3>3. <<"feedback">> \in Todo
        BY DEF Todo
      <3> QED
        BY <2>2, <3>1, <3>2, <3>3
    <2>3. CASE todo = <<"feedback">>
      <3>1. Head(todo) = "feedback" /\ Tail(todo) = <<>>
        BY <1>2, <2>3
      <3>2. ~Releases(<<"feedback">>) /\ ~Releases(<<>>)
        BY <1>1 DEF Releases
      <3>3. <<>> \in Todo
        BY DEF Todo
      <3> QED
        BY <2>3, <3>1, <3>2, <3>3
    <2>4. CASE todo = <<"release", "feedback", "sync">>
      <3>1. Head(todo) = "release" /\ Tail(todo) = <<"feedback", "sync">>
        BY <1>2, <2>4
      <3>2. Releases(<<"release", "feedback", "sync">>) /\ ~Releases(<<"feedback", "sync">>)
        BY <1>1 DEF Releases
      <3>3. <<"feedback", "sync">> \in Todo
        BY DEF Todo
      <3> QED
        BY <2>4, <3>1, <3>2, <3>3
    <2>5. CASE todo = <<"feedback", "sync">>
      <3>1. Head(todo) = "feedback" /\ Tail(todo) = <<"sync">>
        BY <1>2, <2>5
      <3>2. ~Releases(<<"feedback", "sync">>) /\ ~Releases(<<"sync">>)
        BY <1>1 DEF Releases
      <3>3. <<"sync">> \in Todo
        BY DEF Todo
      <3> QED
        BY <2>5, <3>1, <3>2, <3>3
    <2>6. CASE todo = <<"sync">>
      <3>1. Head(todo) = "sync" /\ Tail(todo) = <<>>
        BY <1>2, <2>6
      <3>2. ~Releases(<<"sync">>) /\ ~Releases(<<>>)
        BY <1>1 DEF Releases
      <3>3. <<>> \in Todo
        BY DEF Todo
      <3> QED
        BY <2>6, <3>1, <3>2, <3>3
    <2>7. CASE todo = <<"release">>
      <3>1. Head(todo) = "release" /\ Tail(todo) = <<>>
        BY <1>2, <2>7
      <3>2. Releases(<<"release">>) /\ ~Releases(<<>>)
        BY <1>1 DEF Releases
      <3>3. <<>> \in Todo
        BY DEF Todo
      <3> QED
        BY <2>7, <3>1, <3>2, <3>3
    <2> QED
      BY <1>3, <2>1, <2>2, <2>3, <2>4, <2>5, <2>6, <2>7 DEF Todo
  <1> QED
    BY <1>1, <1>3

LEMMA HoldersFinite == \A t \in Token : IsFiniteSet(Holders(t)) /\ Cardinality(Holders(t)) \in Nat
  BY JobsAssumption, FS_Subset, FS_CardinalityType DEF Holders

(* A step of one request that neither takes an account nor gives one back.   *)
LEMMA CallKeeps ==
    ASSUME DispatchInv, NEW r \in Req, NEW frame, FrameType(frame), Dispatch!Call(r, frame),
           Holds(frame) <=> Holds(reqs[r]), Holds(frame) => frame.token = reqs[r].token,
           UNCHANGED inflight, OthersType'
    PROVE  DispatchInv'
  <1> USE DEF DispatchInv
  <1>1. DOMAIN reqs' = Req /\ reqs'[r] = frame /\ \A q \in Req \ {r} : reqs'[q] = reqs[q]
    BY DEF RequestsType, Dispatch!Call
  <1>2. RequestsType'
    BY <1>1 DEF RequestsType
  <1>3. \A t \in Token : Holders(t)' = Holders(t)
    BY <1>1 DEF Holders
  <1> QED
    BY <1>2, <1>3 DEF LoadIsCounted

(* A request takes an account. *)
LEMMA CallTakes ==
    ASSUME DispatchInv, NEW r \in Req, NEW frame, FrameType(frame), Dispatch!Call(r, frame),
           NEW t \in Token, ~Holds(reqs[r]), Holds(frame), frame.token = t,
           inflight' = [inflight EXCEPT ![t] = @ + 1], OthersType'
    PROVE  DispatchInv'
  <1> USE DEF DispatchInv
  <1>1. DOMAIN reqs' = Req /\ reqs'[r] = frame /\ \A q \in Req \ {r} : reqs'[q] = reqs[q]
    BY DEF RequestsType, Dispatch!Call
  <1>2. RequestsType'
    BY <1>1 DEF RequestsType
  <1>3. Holders(t)' = Holders(t) \cup {r} /\ r \notin Holders(t)
    BY <1>1 DEF Holders
  <1>4. \A u \in Token \ {t} : Holders(u)' = Holders(u)
    BY <1>1 DEF Holders
  <1>5. Cardinality(Holders(t)') = Cardinality(Holders(t)) + 1
    BY <1>3, HoldersFinite, FS_AddElement
  <1>6. inflight' \in [Token -> Nat] /\ \A u \in Token : inflight'[u] = Cardinality(Holders(u)')
    BY <1>4, <1>5 DEF LoadIsCounted
  <1> QED
    BY <1>2, <1>6 DEF LoadIsCounted

(* A request gives its account back: it was counted. *)
LEMMA CallGivesBack ==
    ASSUME DispatchInv, NEW r \in Req, NEW frame, FrameType(frame), Dispatch!Call(r, frame),
           NEW t \in Token, Holds(reqs[r]), reqs[r].token = t, ~Holds(frame),
           inflight' = [inflight EXCEPT ![t] = IF @ > 0 THEN @ - 1 ELSE 0], OthersType'
    PROVE  DispatchInv'
  <1> USE DEF DispatchInv
  <1>1. DOMAIN reqs' = Req /\ reqs'[r] = frame /\ \A q \in Req \ {r} : reqs'[q] = reqs[q]
    BY DEF RequestsType, Dispatch!Call
  <1>2. RequestsType'
    BY <1>1 DEF RequestsType
  <1>3. Holders(t)' = Holders(t) \ {r} /\ r \in Holders(t)
    BY <1>1 DEF Holders
  <1>4. \A u \in Token \ {t} : Holders(u)' = Holders(u)
    BY <1>1 DEF Holders
  <1>5. Cardinality(Holders(t)') = Cardinality(Holders(t)) - 1 /\ Cardinality(Holders(t)') \in Nat
    BY <1>3, HoldersFinite, FS_RemoveElement, FS_CardinalityType
  <1>6. inflight' \in [Token -> Nat] /\ \A u \in Token : inflight'[u] = Cardinality(Holders(u)')
    BY <1>4, <1>5, HoldersFinite DEF LoadIsCounted
  <1> QED
    BY <1>2, <1>6 DEF LoadIsCounted


LEMMA IdleFrame ==
    ASSUME NEW pc \in {"idle", "pace", "reserve", "done"}, NEW kind, NEW left
    PROVE  LET frame == [Dispatch!Idle EXCEPT !.pc = pc, !.kind = kind, !.left = left]
           IN  FrameType(frame) /\ ~Holds(frame)
  <1> DEFINE frame == [Dispatch!Idle EXCEPT !.pc = pc, !.kind = kind, !.left = left]
  <1>1. /\ DOMAIN frame = {"pc", "kind", "attempt", "left", "tried", "token", "outcome", "todo", "refreshed", "connected"}
        /\ frame.pc = pc /\ frame.attempt = 0 /\ frame.tried = {} /\ frame.token = NoToken /\ frame.todo = <<>>
    BY DEF Dispatch!Idle
  <1> HIDE DEF frame
  <1>2. pc \in Label \ WithAccount /\ <<>> \in Todo /\ 0 \in 0 .. MaxRetries
    BY JobsAssumption DEF Label, WithAccount, Todo
  <1>3. FrameType(frame) /\ ~Holds(frame)
    BY <1>1, <1>2 DEF FrameType, Holds, WithAccount
  <1> QED
    BY <1>3 DEF frame

LEMMA EndFrame == FrameType([Dispatch!Idle EXCEPT !.pc = "done"]) /\ ~Holds([Dispatch!Idle EXCEPT !.pc = "done"])
  <1> DEFINE frame == [Dispatch!Idle EXCEPT !.pc = "done"]
  <1>1. /\ DOMAIN frame = {"pc", "kind", "attempt", "left", "tried", "token", "outcome", "todo", "refreshed", "connected"}
        /\ frame.pc = "done" /\ frame.attempt = 0 /\ frame.tried = {} /\ frame.token = NoToken /\ frame.todo = <<>>
    BY DEF Dispatch!Idle
  <1> HIDE DEF frame
  <1>2. "done" \in Label /\ <<>> \in Todo /\ 0 \in 0 .. MaxRetries
    BY JobsAssumption DEF Label, Todo
  <1>3. FrameType(frame) /\ ~Holds(frame)
    BY <1>1, <1>2 DEF FrameType, Holds, WithAccount
  <1> QED
    BY <1>3 DEF frame

(* A request that has no account goes on without one, one that has keeps it. *)
LEMMA MovedFrame ==
    ASSUME NEW old, FrameType(old), NEW pc \in Label, pc \in WithAccount <=> old.pc \in WithAccount,
           old.pc # "settle", pc # "settle"
    PROVE  LET frame == [old EXCEPT !.pc = pc]
           IN  FrameType(frame) /\ (Holds(frame) <=> Holds(old)) /\ frame.token = old.token
  <1> DEFINE frame == [old EXCEPT !.pc = pc]
  <1>1. /\ DOMAIN frame = DOMAIN old /\ frame.pc = pc /\ frame.attempt = old.attempt /\ frame.tried = old.tried
        /\ frame.token = old.token /\ frame.todo = old.todo
    BY DEF FrameType
  <1> HIDE DEF frame
  <1>2. FrameType(frame) /\ (Holds(frame) <=> Holds(old))
    BY <1>1 DEF FrameType, Holds, Label, WithAccount
  <1> QED
    BY <1>1, <1>2 DEF frame

LEMMA SettleKeeps ==
    ASSUME DispatchInv, NEW r \in Req, NEW outcome, Dispatch!Settle(r, outcome),
           reqs[r].pc \in {"run", "send", "consume"},
           UNCHANGED <<inflight, usable, jobs, working, lost, delivered>>
    PROVE  DispatchInv'
  <1> DEFINE todo == Dispatch!Settlement(reqs[r].kind, outcome)
             frame == [reqs[r] EXCEPT !.pc = "settle", !.outcome = outcome, !.todo = todo]
  <1>1. todo \in Todo /\ Releases(todo)
    <2>1. todo \in {Dispatch!DispatchSettles, Dispatch!FinishSettles, <<"release">>, <<"release", "feedback">>}
      BY DEF Dispatch!Settlement, Dispatch!VideoSettles
    <2>2. Releases(<<"sync", "release", "feedback">>) /\ Releases(<<"release", "feedback", "sync">>)
          /\ Releases(<<"release">>) /\ Releases(<<"release", "feedback">>)
      BY DEF Releases
    <2> HIDE DEF todo
    <2> QED
      BY <2>1, <2>2 DEF Todo, Dispatch!DispatchSettles, Dispatch!FinishSettles
  <1> HIDE DEF todo
  <1>2. FrameType(reqs[r])
    BY DEF DispatchInv, RequestsType
  <1>3. /\ DOMAIN frame = DOMAIN reqs[r] /\ frame.pc = "settle" /\ frame.attempt = reqs[r].attempt
        /\ frame.tried = reqs[r].tried /\ frame.token = reqs[r].token /\ frame.todo = todo
    BY <1>2 DEF FrameType
  <1>4. Dispatch!Call(r, frame)
    BY DEF Dispatch!Settle, todo
  <1> HIDE DEF frame
  <1>5. FrameType(frame) /\ Holds(frame) /\ Holds(reqs[r]) /\ frame.token = reqs[r].token
    BY <1>1, <1>2, <1>3 DEF FrameType, Holds, Label, WithAccount
  <1>6. OthersType'
    BY DEF DispatchInv, OthersType
  <1> QED
    BY <1>4, <1>5, <1>6, CallKeeps

LEMMA BeginKeeps ==
    ASSUME DispatchInv, NEW r \in Req, NEW k, NEW images, Dispatch!Begin(r, k, images)
    PROVE  DispatchInv'
  <1> DEFINE frame == [Dispatch!Idle EXCEPT !.pc = Dispatch!Start(k), !.kind = k, !.left = images]
  <1>1. Dispatch!Start(k) \in {"idle", "pace", "reserve", "done"}
    BY DEF Dispatch!Start
  <1>2. FrameType(frame) /\ ~Holds(frame)
    BY <1>1, IdleFrame
  <1>3. Dispatch!Call(r, frame) /\ ~Holds(reqs[r]) /\ OthersType' /\ UNCHANGED inflight
    BY DEF Dispatch!Begin, Holds, DispatchInv, OthersType
  <1> HIDE DEF frame
  <1> QED
    BY <1>2, <1>3, CallKeeps

LEMMA EndKeeps ==
    ASSUME DispatchInv, NEW r \in Req, Dispatch!End(r), ~Holds(reqs[r]),
           UNCHANGED <<inflight, usable, jobs, working, lost, delivered>>
    PROVE  DispatchInv'
  <1> DEFINE frame == [Dispatch!Idle EXCEPT !.pc = "done"]
  <1>1. FrameType(frame) /\ ~Holds(frame) /\ Dispatch!Call(r, frame)
    BY EndFrame DEF Dispatch!End
  <1> HIDE DEF frame
  <1>2. OthersType'
    BY DEF DispatchInv, OthersType
  <1> QED
    BY <1>1, <1>2, CallKeeps

LEMMA MoveKeeps ==
    ASSUME DispatchInv, NEW r \in Req, NEW pc \in Label, Dispatch!Call(r, [reqs[r] EXCEPT !.pc = pc]),
           pc \in WithAccount <=> reqs[r].pc \in WithAccount, reqs[r].pc # "settle", pc # "settle",
           UNCHANGED inflight, OthersType'
    PROVE  DispatchInv'
  <1> DEFINE frame == [reqs[r] EXCEPT !.pc = pc]
  <1>1. FrameType(frame) /\ (Holds(frame) <=> Holds(reqs[r])) /\ frame.token = reqs[r].token
    BY MovedFrame DEF DispatchInv, RequestsType
  <1>2. Dispatch!Call(r, frame)
    OBVIOUS
  <1> HIDE DEF frame
  <1> QED
    BY <1>1, <1>2, CallKeeps

LEMMA SameOthers == DispatchInv /\ UNCHANGED <<usable, jobs, working, lost, delivered>> => OthersType'
  BY DEF DispatchInv, OthersType

LEMMA PaceKeeps == ASSUME DispatchInv, NEW r \in Req, Dispatch!Pace(r) PROVE DispatchInv'
  <1>1. reqs[r].pc = "pace" /\ ~Holds(reqs[r]) /\ UNCHANGED <<inflight, usable, jobs, working, lost, delivered>>
    BY DEF Dispatch!Pace, Holds
  <1>2. CASE Dispatch!Call(r, [reqs[r] EXCEPT !.pc = "reserve"])
    BY <1>1, <1>2, MoveKeeps, SameOthers DEF Label, WithAccount
  <1>3. CASE Dispatch!End(r)
    BY <1>1, <1>3, EndKeeps
  <1> QED
    BY <1>2, <1>3 DEF Dispatch!Pace

LEMMA ReserveKeeps == ASSUME DispatchInv, NEW r \in Req, NEW t \in Token, Dispatch!Reserve(r, t) PROVE DispatchInv'
  <1> DEFINE frame == [reqs[r] EXCEPT !.pc = "run", !.token = t]
  <1>1. FrameType(reqs[r]) /\ ~Holds(reqs[r])
    BY DEF DispatchInv, RequestsType, Dispatch!Reserve, Holds
  <1>2. /\ DOMAIN frame = DOMAIN reqs[r] /\ frame.pc = "run" /\ frame.attempt = reqs[r].attempt
        /\ frame.tried = reqs[r].tried /\ frame.token = t /\ frame.todo = reqs[r].todo
    BY <1>1 DEF FrameType
  <1>3. Dispatch!Call(r, frame) /\ inflight' = [inflight EXCEPT ![t] = @ + 1] /\ OthersType'
    BY SameOthers DEF Dispatch!Reserve
  <1> HIDE DEF frame
  <1>4. FrameType(frame) /\ Holds(frame)
    BY <1>1, <1>2 DEF FrameType, Holds, Label, WithAccount
  <1> QED
    BY <1>1, <1>2, <1>3, <1>4, CallTakes

LEMMA ReserveFailsKeeps == ASSUME DispatchInv, NEW r \in Req, Dispatch!ReserveFails(r) PROVE DispatchInv'
  <1>1. reqs[r].pc = "reserve" /\ ~Holds(reqs[r]) /\ UNCHANGED <<inflight, usable, jobs, working, lost, delivered>>
    BY DEF Dispatch!ReserveFails, Holds
  <1>2. CASE Dispatch!Call(r, [reqs[r] EXCEPT !.pc = "ondemand"])
    BY <1>1, <1>2, MoveKeeps, SameOthers DEF Label, WithAccount
  <1>3. CASE Dispatch!End(r)
    BY <1>1, <1>3, EndKeeps
  <1> QED
    BY <1>2, <1>3 DEF Dispatch!ReserveFails

LEMMA RefreshedType == DispatchInv => \A back : Dispatch!Refreshed(back) \in [Token -> {"active", "limited", "expired"}]
  BY DEF DispatchInv, OthersType, Dispatch!Refreshed

LEMMA OnDemandKeeps == ASSUME DispatchInv, NEW r \in Req, NEW back, Dispatch!OnDemand(r, back) PROVE DispatchInv'
  <1> DEFINE frame == [reqs[r] EXCEPT !.pc = "reserve", !.refreshed = TRUE]
  <1>1. FrameType(reqs[r]) /\ reqs[r].pc = "ondemand"
    BY DEF DispatchInv, RequestsType, Dispatch!OnDemand
  <1>2. /\ DOMAIN frame = DOMAIN reqs[r] /\ frame.pc = "reserve" /\ frame.attempt = reqs[r].attempt
        /\ frame.tried = reqs[r].tried /\ frame.token = reqs[r].token /\ frame.todo = reqs[r].todo
    BY <1>1 DEF FrameType
  <1>3. Dispatch!Call(r, frame) /\ UNCHANGED inflight /\ OthersType'
    BY RefreshedType DEF Dispatch!OnDemand, DispatchInv, OthersType
  <1> HIDE DEF frame
  <1>4. FrameType(frame) /\ ~Holds(frame) /\ ~Holds(reqs[r])
    BY <1>1, <1>2 DEF FrameType, Holds, Label, WithAccount
  <1> QED
    BY <1>3, <1>4, CallKeeps

LEMMA AnswerKeeps == ASSUME DispatchInv, NEW r \in Req, NEW o, Dispatch!Answer(r, o) PROVE DispatchInv'
  <1>1. reqs[r].pc = "run" /\ UNCHANGED <<inflight, usable, jobs, working, lost, delivered>>
    BY DEF Dispatch!Answer
  <1>2. CASE Dispatch!Call(r, [reqs[r] EXCEPT !.pc = "consume"])
    BY <1>1, <1>2, MoveKeeps, SameOthers DEF Label, WithAccount
  <1>3. CASE Dispatch!Settle(r, o)
    BY <1>1, <1>3, SettleKeeps
  <1> QED
    BY <1>2, <1>3 DEF Dispatch!Answer

LEMMA EditPreparationFailsKeeps ==
    ASSUME DispatchInv, NEW r \in Req, Dispatch!EditPreparationFails(r) PROVE DispatchInv'
  <1> DEFINE frame == [reqs[r] EXCEPT !.pc = "settle", !.outcome = "502", !.todo = <<"release">>]
  <1>1. FrameType(reqs[r]) /\ reqs[r].pc = "run"
    BY DEF DispatchInv, RequestsType, Dispatch!EditPreparationFails
  <1>2. /\ DOMAIN frame = DOMAIN reqs[r] /\ frame.pc = "settle" /\ frame.attempt = reqs[r].attempt
        /\ frame.tried = reqs[r].tried /\ frame.token = reqs[r].token /\ frame.todo = <<"release">>
    BY <1>1 DEF FrameType
  <1>3. Dispatch!Call(r, frame) /\ UNCHANGED inflight /\ OthersType'
    BY SameOthers DEF Dispatch!EditPreparationFails
  <1> HIDE DEF frame
  <1>4. Releases(<<"release">>) /\ <<"release">> \in Todo
    BY DEF Releases, Todo
  <1>5. FrameType(frame) /\ Holds(frame) /\ Holds(reqs[r])
    BY <1>1, <1>2, <1>4 DEF FrameType, Holds, Label, WithAccount
  <1> QED
    BY <1>2, <1>3, <1>5, CallKeeps

LEMMA SendFrameKeeps == ASSUME DispatchInv, NEW r \in Req, Dispatch!SendFrame(r) PROVE DispatchInv'
  <1>1. reqs[r].pc = "send" /\ Dispatch!Call(r, [reqs[r] EXCEPT !.pc = "run"]) /\ UNCHANGED inflight
    BY DEF Dispatch!SendFrame
  <1>2. reqs[r].attempt \in 0 .. MaxRetries
    BY DEF DispatchInv, RequestsType, FrameType
  <1>3. OthersType'
    BY <1>2 DEF Dispatch!SendFrame, DispatchInv, OthersType
  <1> QED
    BY <1>1, <1>3, MoveKeeps DEF Label, WithAccount

LEMMA DisconnectKeeps == ASSUME DispatchInv, NEW r \in Req, Dispatch!Disconnect(r) PROVE DispatchInv'
  <1> DEFINE frame == [reqs[r] EXCEPT !.connected = FALSE]
  <1>1. FrameType(reqs[r])
    BY DEF DispatchInv, RequestsType
  <1>2. /\ DOMAIN frame = DOMAIN reqs[r] /\ frame.pc = reqs[r].pc /\ frame.attempt = reqs[r].attempt
        /\ frame.tried = reqs[r].tried /\ frame.token = reqs[r].token /\ frame.todo = reqs[r].todo
    BY <1>1 DEF FrameType
  <1>3. Dispatch!Call(r, frame) /\ UNCHANGED inflight /\ OthersType'
    BY SameOthers DEF Dispatch!Disconnect
  <1> HIDE DEF frame
  <1>4. FrameType(frame) /\ (Holds(frame) <=> Holds(reqs[r]))
    BY <1>1, <1>2 DEF FrameType, Holds
  <1> QED
    BY <1>2, <1>3, <1>4, CallKeeps

(* The settlement: one call of the directory or of the queue at a time.      *)
LEMMA DoneFrame ==
    ASSUME DispatchInv, NEW r \in Req, NEW what, Dispatch!Doing(r, what)
    PROVE  LET frame == [reqs[r] EXCEPT !.todo = Tail(@)]
           IN  /\ FrameType(frame) /\ frame.token = reqs[r].token /\ reqs[r].token \in Token
               /\ what = "release" => Holds(reqs[r]) /\ ~Holds(frame)
               /\ what # "release" => (Holds(frame) <=> Holds(reqs[r]))
  <1> DEFINE frame == [reqs[r] EXCEPT !.todo = Tail(@)]
  <1>1. FrameType(reqs[r]) /\ reqs[r].pc = "settle" /\ reqs[r].todo # <<>> /\ Head(reqs[r].todo) = what
    BY DEF DispatchInv, RequestsType, Dispatch!Doing
  <1>2. /\ DOMAIN frame = DOMAIN reqs[r] /\ frame.pc = reqs[r].pc /\ frame.attempt = reqs[r].attempt
        /\ frame.tried = reqs[r].tried /\ frame.token = reqs[r].token /\ frame.todo = Tail(reqs[r].todo)
    BY <1>1 DEF FrameType
  <1> HIDE DEF frame
  <1>3. reqs[r].todo \in Todo /\ reqs[r].token \in Token
    BY <1>1 DEF FrameType, WithAccount
  <1>4. /\ Tail(reqs[r].todo) \in Todo
        /\ what = "release" => Releases(reqs[r].todo) /\ ~Releases(Tail(reqs[r].todo))
        /\ what # "release" => (Releases(Tail(reqs[r].todo)) <=> Releases(reqs[r].todo))
    BY <1>1, <1>3, TodoSteps
  <1>5. FrameType(frame)
    BY <1>1, <1>2, <1>4 DEF FrameType
  <1>6. /\ what = "release" => Holds(reqs[r]) /\ ~Holds(frame)
        /\ what # "release" => (Holds(frame) <=> Holds(reqs[r]))
    BY <1>1, <1>2, <1>4 DEF Holds
  <1> QED
    BY <1>2, <1>3, <1>5, <1>6 DEF frame

LEMMA ReleaseKeeps == ASSUME DispatchInv, NEW r \in Req, Dispatch!Release(r) PROVE DispatchInv'
  <1> DEFINE frame == [reqs[r] EXCEPT !.todo = Tail(@)]
  <1>1. Dispatch!Doing(r, "release") /\ Dispatch!Call(r, frame) /\ OthersType'
        /\ inflight' = [inflight EXCEPT ![reqs[r].token] = IF @ > 0 THEN @ - 1 ELSE 0]
    BY SameOthers DEF Dispatch!Release, Dispatch!Done
  <1>2. FrameType(frame) /\ reqs[r].token \in Token /\ Holds(reqs[r]) /\ ~Holds(frame)
    BY <1>1, DoneFrame
  <1> HIDE DEF frame
  <1> QED
    BY <1>1, <1>2, CallGivesBack

LEMMA FeedbackKeeps == ASSUME DispatchInv, NEW r \in Req, Dispatch!Feedback(r) PROVE DispatchInv'
  <1> DEFINE frame == [reqs[r] EXCEPT !.todo = Tail(@)]
  <1>1. Dispatch!Doing(r, "feedback") /\ Dispatch!Call(r, frame) /\ UNCHANGED inflight
    BY DEF Dispatch!Feedback, Dispatch!Done
  <1>2. FrameType(frame) /\ frame.token = reqs[r].token /\ (Holds(frame) <=> Holds(reqs[r]))
    BY <1>1, DoneFrame
  <1>3. OthersType'
    BY DEF Dispatch!Feedback, DispatchInv, OthersType
  <1> HIDE DEF frame
  <1> QED
    BY <1>1, <1>2, <1>3, CallKeeps

LEMMA SyncKeeps == ASSUME DispatchInv, NEW r \in Req, Dispatch!Sync(r) PROVE DispatchInv'
  <1> DEFINE frame == [reqs[r] EXCEPT !.todo = Tail(@)]
  <1>1. Dispatch!Doing(r, "sync") /\ Dispatch!Call(r, frame) /\ UNCHANGED <<inflight, usable, working, delivered>>
    BY DEF Dispatch!Sync, Dispatch!Done
  <1>2. FrameType(frame) /\ frame.token = reqs[r].token /\ (Holds(frame) <=> Holds(reqs[r]))
    BY <1>1, DoneFrame
  <1>3. OthersType'
    <2> DEFINE job == Dispatch!JobAfter(r)
    <2>1. job \in {"none", "call", "ondemand"} /\ Dispatch!Enqueue(job)
      BY DEF Dispatch!Sync, Dispatch!JobAfter
    <2> HIDE DEF job
    <2>2. RefreshQueueCap \in Nat /\ jobs \in Seq({"call", "ondemand"}) /\ Len(jobs) <= RefreshQueueCap /\ lost \in BOOLEAN
      BY JobsAssumption DEF DispatchInv, OthersType
    <2>3. jobs' \in Seq({"call", "ondemand"}) /\ Len(jobs') <= RefreshQueueCap
      <3>1. CASE job = "none" \/ jobs' = jobs
        BY <2>1, <2>2, <3>1 DEF Dispatch!Enqueue
      <3>2. CASE job # "none" /\ Len(jobs) < RefreshQueueCap /\ jobs' = Append(jobs, job)
        BY <2>1, <2>2, <3>2
      <3> QED
        BY <2>1, <3>1, <3>2 DEF Dispatch!Enqueue
    <2>4. lost' \in BOOLEAN
      BY <2>1, <2>2 DEF Dispatch!Enqueue
    <2> QED
      BY <1>1, <2>3, <2>4 DEF DispatchInv, OthersType
  <1> HIDE DEF frame
  <1> QED
    BY <1>1, <1>2, <1>3, CallKeeps

LEMMA DecideKeeps == ASSUME DispatchInv, NEW r \in Req, Dispatch!Decide(r) PROVE DispatchInv'
  <1>1. /\ FrameType(reqs[r]) /\ reqs[r].pc = "settle" /\ reqs[r].todo = <<>>
        /\ UNCHANGED <<inflight, usable, jobs, working, lost, delivered>>
    BY DEF DispatchInv, RequestsType, Dispatch!Decide
  <1>2. ~Holds(reqs[r]) /\ OthersType' /\ reqs[r].token \in Token
    BY <1>1, TodoSteps, SameOthers DEF Holds, FrameType, WithAccount
  <1>3. MaxRetries \in Nat
    BY JobsAssumption
  <1>4. ASSUME Dispatch!Call(r, [reqs[r] EXCEPT !.pc = "reserve", !.attempt = 0, !.tried = {},
                                   !.left = @ - 1, !.token = NoToken, !.refreshed = FALSE])
        PROVE  DispatchInv'
    <2> DEFINE frame == [reqs[r] EXCEPT !.pc = "reserve", !.attempt = 0, !.tried = {},
                                   !.left = @ - 1, !.token = NoToken, !.refreshed = FALSE]
    <2>1. /\ DOMAIN frame = DOMAIN reqs[r] /\ frame.pc = "reserve" /\ frame.attempt = 0
          /\ frame.tried = {} /\ frame.token = NoToken /\ frame.todo = <<>>
      BY <1>1 DEF FrameType
    <2>2. Dispatch!Call(r, frame)
      BY <1>4
    <2> HIDE DEF frame
    <2>3. FrameType(frame) /\ ~Holds(frame)
      BY <1>1, <1>3, <2>1 DEF FrameType, Holds, Label, WithAccount, Todo
    <2> QED
      BY <1>1, <1>2, <2>2, <2>3, CallKeeps
  <1>5. ASSUME reqs[r].attempt < MaxRetries,
               Dispatch!Call(r, [reqs[r] EXCEPT !.pc = Dispatch!Start(reqs[r].kind), !.attempt = @ + 1,
                                   !.tried = @ \cup {reqs[r].token}, !.token = NoToken, !.refreshed = FALSE])
        PROVE  DispatchInv'
    <2> DEFINE pc == Dispatch!Start(reqs[r].kind)
               frame == [reqs[r] EXCEPT !.pc = pc, !.attempt = @ + 1,
                                   !.tried = @ \cup {reqs[r].token}, !.token = NoToken, !.refreshed = FALSE]
    <2>1. Dispatch!Call(r, frame)
      BY <1>5
    <2>2. pc \in {"pace", "reserve"}
      BY DEF Dispatch!Start
    <2> HIDE DEF pc
    <2>3. /\ DOMAIN frame = DOMAIN reqs[r] /\ frame.pc = pc /\ frame.attempt = reqs[r].attempt + 1
          /\ frame.tried = reqs[r].tried \cup {reqs[r].token} /\ frame.token = NoToken /\ frame.todo = <<>>
      BY <1>1 DEF FrameType
    <2> HIDE DEF frame
    <2>4. reqs[r].attempt + 1 \in 0 .. MaxRetries
      BY <1>1, <1>3, <1>5 DEF FrameType
    <2>5. FrameType(frame) /\ ~Holds(frame)
      BY <1>1, <1>2, <2>2, <2>3, <2>4 DEF FrameType, Holds, Label, WithAccount, Todo
    <2> QED
      BY <1>1, <1>2, <2>1, <2>5, CallKeeps
  <1>6. CASE Dispatch!End(r)
    BY <1>1, <1>2, <1>6, EndKeeps
  <1> QED
    BY <1>4, <1>5, <1>6 DEF Dispatch!Decide, Dispatch!Retry

LEMMA QueueKeeps == ASSUME DispatchInv, Dispatch!Work PROVE DispatchInv'
  <1>1. UNCHANGED <<reqs, inflight, lost, delivered>>
    BY DEF Dispatch!Work, Dispatch!TakeJob, Dispatch!FinishJob
  <1>2. OthersType'
    <2>1. CASE Dispatch!TakeJob
      <3>1. jobs \in Seq({"call", "ondemand"}) /\ jobs # <<>> /\ Len(jobs) <= RefreshQueueCap /\ RefreshQueueCap \in Nat
        BY <2>1, JobsAssumption DEF Dispatch!TakeJob, DispatchInv, OthersType
      <3>2. Head(jobs) \in {"call", "ondemand"} /\ Tail(jobs) \in Seq({"call", "ondemand"}) /\ Len(Tail(jobs)) <= RefreshQueueCap
        BY <3>1
      <3> QED
        BY <2>1, <3>2 DEF Dispatch!TakeJob, DispatchInv, OthersType
    <2>2. ASSUME NEW back, Dispatch!FinishJob(back) PROVE OthersType'
      BY <2>2, RefreshedType DEF Dispatch!FinishJob, DispatchInv, OthersType
    <2> QED
      BY <2>1, <2>2 DEF Dispatch!Work
  <1>3. \A t \in Token : Holders(t)' = Holders(t)
    BY <1>1 DEF Holders
  <1> QED
    BY <1>1, <1>2, <1>3 DEF DispatchInv, RequestsType, LoadIsCounted

LEMMA DispatchStep == ASSUME DispatchInv, Dispatch!Next PROVE DispatchInv'
  <1>1. ASSUME NEW r \in Req, Dispatch!Refuse(r) \/ Dispatch!OnDemandFails(r) PROVE DispatchInv'
    BY <1>1, EndKeeps DEF Dispatch!Refuse, Dispatch!OnDemandFails, Holds
  <1>2. ASSUME NEW r \in Req, Dispatch!Line(r) PROVE DispatchInv'
    <2>1. reqs[r].pc = "run" /\ Dispatch!Call(r, [reqs[r] EXCEPT !.pc = "send"]) /\ UNCHANGED inflight /\ OthersType'
      BY <1>2, SameOthers DEF Dispatch!Line
    <2> QED
      BY <2>1, MoveKeeps DEF Label, WithAccount
  <1>3. ASSUME NEW r \in Req, (\E o : Dispatch!Consume(r, o)) \/ Dispatch!SendFails(r) PROVE DispatchInv'
    <2>1. PICK outcome : Dispatch!Settle(r, outcome)
      BY <1>3 DEF Dispatch!Consume, Dispatch!SendFails
    <2>2. reqs[r].pc \in {"run", "send", "consume"} /\ UNCHANGED <<inflight, usable, jobs, working, lost, delivered>>
      BY <1>3 DEF Dispatch!Consume, Dispatch!SendFails
    <2> QED
      BY <2>1, <2>2, SettleKeeps
  <1>4. ASSUME NEW r \in Req, Dispatch!Step(r) PROVE DispatchInv'
    BY <1>1, <1>3, <1>4, PaceKeeps, ReserveKeeps, ReserveFailsKeeps, OnDemandKeeps, AnswerKeeps, EditPreparationFailsKeeps,
       SendFrameKeeps, ReleaseKeeps, FeedbackKeeps, SyncKeeps, DecideKeeps DEF Dispatch!Step
  <1>5. ASSUME NEW r \in Req,
               \/ Dispatch!Completions(r) \/ Dispatch!Responses(r) \/ Dispatch!ConsoleCompletions(r)
               \/ Dispatch!ConsoleResponses(r) \/ Dispatch!Messages(r) \/ Dispatch!ConsoleMessages(r)
               \/ Dispatch!GenerateImages(r) \/ Dispatch!GenerateLiteImages(r) \/ Dispatch!EditImages(r)
               \/ Dispatch!GenerateVideo(r) \/ Dispatch!StreamImagineEvents(r)
        PROVE  DispatchInv'
    BY <1>5, BeginKeeps DEF Dispatch!Completions, Dispatch!Responses, Dispatch!ConsoleCompletions,
       Dispatch!ConsoleResponses, Dispatch!Messages, Dispatch!ConsoleMessages, Dispatch!GenerateImages,
       Dispatch!GenerateLiteImages, Dispatch!EditImages, Dispatch!GenerateVideo, Dispatch!StreamImagineEvents
  <1> QED
    BY <1>1, <1>2, <1>4, <1>5, DisconnectKeeps, QueueKeeps DEF Dispatch!Next

LEMMA DispatchInit == Init => DispatchInv
  <1> SUFFICES ASSUME Init PROVE DispatchInv
    OBVIOUS
  <1>1. /\ reqs = [r \in Req |-> Dispatch!Idle] /\ inflight = [t \in Token |-> 0]
        /\ usable = [t \in Token |-> "active"] /\ jobs = <<>> /\ working = "none" /\ lost = FALSE
        /\ delivered = [r \in Req |-> {}]
    BY DEF Init, Dispatch!Init
  <1>2. DOMAIN reqs = Req /\ \A r \in Req : reqs[r] = Dispatch!Idle
    BY <1>1
  <1>3. FrameType(Dispatch!Idle) /\ ~Holds(Dispatch!Idle)
    BY JobsAssumption DEF Dispatch!Idle, FrameType, Holds, Label, WithAccount, Todo
  <1>4. RequestsType
    BY <1>2, <1>3 DEF RequestsType
  <1>5. OthersType
    <2>1. <<>> \in Seq({"call", "ondemand"}) /\ Len(<<>>) <= RefreshQueueCap
      BY JobsAssumption
    <2>2. delivered \in [Req -> SUBSET (0 .. MaxRetries)] /\ usable \in [Token -> {"active", "limited", "expired"}]
      BY <1>1
    <2> QED
      BY <1>1, <2>1, <2>2 DEF OthersType
  <1>6. \A t \in Token : Holders(t) = {}
    BY <1>2, <1>3 DEF Holders
  <1>7. LoadIsCounted
    BY <1>1, <1>6, FS_EmptySet DEF LoadIsCounted
  <1> QED
    BY <1>4, <1>5, <1>7 DEF DispatchInv

(* The load the directory balances on is the number of calls in progress,    *)
(* for any number of requests, accounts and attempts: every way out of every *)
(* endpoint gives its account back once (RunAccountDispatch,                 *)
(* finishChatAttempt, EditImages).                                           *)
THEOREM LoadIsBalanced == Spec => []LeasesBalanced
  <1>1. DispatchInv /\ [Next]_vars => DispatchInv'
    <2> SUFFICES ASSUME DispatchInv, [Next]_vars PROVE DispatchInv'
      OBVIOUS
    <2>1. CASE UNCHANGED dispatchVars
      <3>1. UNCHANGED <<reqs, inflight, usable, jobs, working, lost, delivered>>
        BY <2>1 DEF dispatchVars
      <3>2. \A t \in Token : Holders(t)' = Holders(t)
        BY <3>1 DEF Holders
      <3> QED
        BY <3>1, <3>2 DEF DispatchInv, RequestsType, OthersType, LoadIsCounted
    <2> QED
      BY <2>1, DispatchStep DEF Next, vars, InDispatch, InVideo, InBatch, InSessions, InCache
  <1>2. DispatchInv => LeasesBalanced
    <2> SUFFICES ASSUME DispatchInv PROVE LeasesBalanced
      OBVIOUS
    <2>1. \A r \in Req : /\ reqs[r].pc \in Label /\ reqs[r].token \in Token \cup {NoToken} /\ reqs[r].tried \subseteq Token
                         /\ reqs[r].attempt \in 0 .. MaxRetries
      BY DEF DispatchInv, RequestsType, FrameType
    <2>2. Dispatch!TypeOK
      BY <2>1 DEF DispatchInv, OthersType, LoadIsCounted, Label, Dispatch!TypeOK
    <2>3. \A t \in Token : Holders(t) = {r \in Req : Dispatch!Owes(r, t)}
      BY DEF Holders, Holds, Releases, Dispatch!Owes
    <2>4. \A S : Dispatch!Cardinality(S) = Cardinality(S)
      BY DEF Dispatch!Cardinality, Cardinality
    <2>5. Dispatch!LeasesBalanced
      BY <2>3, <2>4 DEF DispatchInv, LoadIsCounted, Dispatch!LeasesBalanced
    <2> QED
      BY <2>2, <2>5 DEF LeasesBalanced
  <1> QED
    BY <1>1, <1>2, DispatchInit, PTL DEF Spec

-----------------------------------------------------------------------------
(* The video jobs.  What the goroutine is about to do tells the state of its *)
(* job; a snapshot is never ahead of the job it was taken from.              *)
VideoPc == {"none", "killed", "publish_queued", "start", "publish_progress", "references", "segment",
            "download", "complete", "publish_end"}
Waiting == {"publish_queued", "start"}
Generating == {"publish_progress", "references", "segment", "download", "complete"}
Unfinished == {"publish_queued", "start", "publish_progress", "references", "segment"}
Lasts(seconds) == Len(Video!SegmentLengths(seconds))

WorkerType(work) ==
    /\ DOMAIN work = {"pc", "seconds", "refs", "done"}
    /\ work.pc \in VideoPc /\ work.done \in Nat /\ work.done <= Lasts(work.seconds)
    /\ work.pc \in Unfinished => work.done < Lasts(work.seconds)
PcTellsState(j) ==
    /\ vjob[j] = Missing => vworker[j].pc \in {"none", "killed"} /\ vsnap[j] = Missing
    /\ vworker[j].pc \in Waiting => vjob[j].status = "queued"
    /\ vworker[j].pc \in Generating => vjob[j].status = "in_progress"
    /\ vworker[j].pc = "complete" => vfile[j] # "none"
SnapshotFollows(j) ==
    vsnap[j] # Missing => vsnap[j] = vjob[j] \/ Video!Rank(vjob[j].status) > Video!Rank(vsnap[j].status)
(* A file that has been saved is there or has been removed.                  *)
FileState == {"none", "kept", "removed"}
FilesStay == /\ vfile' \in [VideoJob -> FileState]
             /\ \A j \in VideoJob : vfile[j] # "none" => vfile'[j] # "none"
CompletedIsSaved(j) ==
    /\ vjob[j] # Missing /\ vjob[j].status = "completed" => vjob[j].content /\ vfile[j] # "none"
    /\ vsnap[j] # Missing /\ vsnap[j].status = "completed" => vsnap[j].content /\ vfile[j] # "none"
JobInv(j) ==
    /\ WorkerType(vworker[j])
    /\ vjob[j] \in Video!JobState \cup {Missing} /\ vsnap[j] \in Video!JobState \cup {Missing}
    /\ PcTellsState(j) /\ SnapshotFollows(j) /\ CompletedIsSaved(j)
VideoInv ==
    /\ DOMAIN vworker = VideoJob /\ vjob \in [VideoJob -> Video!JobState \cup {Missing}]
    /\ vsnap \in [VideoJob -> Video!JobState \cup {Missing}]
    /\ vmap \subseteq VideoJob /\ vfile \in [VideoJob -> FileState] /\ vfaults \in 0 .. VideoFaults
    /\ \A j \in VideoJob : JobInv(j)
Advances(j) ==
    vsnap[j] # Missing /\ vsnap'[j] # Missing =>
        vsnap'[j] = vsnap[j] \/ Video!Rank(vsnap'[j].status) > Video!Rank(vsnap[j].status)
VideoGood == VideoInv' /\ \A j \in VideoJob : Advances(j)

LEMMA FilesUnchanged == VideoInv /\ UNCHANGED vfile => FilesStay
  BY DEF VideoInv, FilesStay

(* A step of one job. *)
LEMMA OneJob ==
    ASSUME VideoInv, NEW j \in VideoJob, NEW work, NEW job, NEW snap,
           vworker' = [vworker EXCEPT ![j] = work], vjob' = [vjob EXCEPT ![j] = job],
           vsnap' = [vsnap EXCEPT ![j] = snap],
           job \in Video!JobState \cup {Missing}, snap \in Video!JobState \cup {Missing},
           vmap' \subseteq VideoJob, FilesStay, vfaults' \in 0 .. VideoFaults,
           JobInv(j)', Advances(j)
    PROVE  VideoGood
  <1>1. /\ DOMAIN vworker' = VideoJob /\ vjob' \in [VideoJob -> Video!JobState \cup {Missing}]
        /\ vsnap' \in [VideoJob -> Video!JobState \cup {Missing}]
    BY DEF VideoInv
  <1>2. \A k \in VideoJob \ {j} : vworker'[k] = vworker[k] /\ vjob'[k] = vjob[k] /\ vsnap'[k] = vsnap[k]
    BY DEF VideoInv
  <1>3. \A k \in VideoJob \ {j} : JobInv(k)' /\ Advances(k)
    BY <1>2 DEF VideoInv, JobInv, PcTellsState, SnapshotFollows, CompletedIsSaved, Advances, FilesStay
  <1> QED
    BY <1>1, <1>3 DEF VideoInv, VideoGood, FilesStay

LEMMA RankIsNatural == \A status : Video!Rank(status) \in {0, 1, 2}
  BY DEF Video!Rank

(* What the goroutine's record is when only its place changes. *)
LEMMA WorkMoves ==
    ASSUME VideoInv, NEW j \in VideoJob, NEW pc \in VideoPc, Video!Goto(j, pc),
           pc \in Unfinished => vworker[j].pc \in Unfinished
    PROVE  /\ vworker' = [vworker EXCEPT ![j] = [vworker[j] EXCEPT !.pc = pc]]
           /\ vworker'[j].pc = pc /\ WorkerType(vworker'[j])
  <1>1. WorkerType(vworker[j]) /\ DOMAIN vworker = VideoJob
    BY DEF VideoInv, JobInv
  <1> DEFINE work == [vworker[j] EXCEPT !.pc = pc]
  <1>2. vworker' = [vworker EXCEPT ![j] = work]
    BY DEF Video!Goto
  <1>3. DOMAIN work = DOMAIN vworker[j] /\ work.pc = pc /\ work.done = vworker[j].done /\ work.seconds = vworker[j].seconds
    BY <1>1 DEF WorkerType
  <1> HIDE DEF work
  <1>4. WorkerType(work) /\ vworker'[j] = work
    BY <1>1, <1>2, <1>3 DEF WorkerType
  <1> QED
    BY <1>2, <1>3, <1>4 DEF work

LEMMA CreateGood ==
    ASSUME VideoInv, NEW j \in VideoJob, NEW seconds, NEW refs, Video!CreateVideo(j, seconds, refs)
    PROVE  VideoGood
  <1> DEFINE work == [pc |-> "publish_queued", seconds |-> seconds, refs |-> refs, done |-> 0]
             job == [status |-> "queued", content |-> FALSE]
  <1>1. /\ vworker' = [vworker EXCEPT ![j] = work] /\ vjob' = [vjob EXCEPT ![j] = job]
        /\ vjob[j] = Missing /\ vmap' = vmap \cup {j} /\ UNCHANGED <<vsnap, vfile, vfaults>>
    BY DEF Video!CreateVideo
  <1>2. /\ DOMAIN work = {"pc", "seconds", "refs", "done"} /\ work.pc = "publish_queued"
        /\ work.seconds = seconds /\ work.done = 0
    OBVIOUS
  <1>3. job \in Video!JobState /\ job.status = "queued"
    BY DEF Video!JobState
  <1> HIDE DEF work, job
  <1>4. Video!SegmentLengths(seconds) # <<>> /\ Video!SegmentLengths(seconds) \in Seq(Nat)
    BY DEF Video!CreateVideo, Video!Accepted, Video!SegmentLengths
  <1>5. WorkerType(work)
    BY <1>2, <1>4 DEF WorkerType, VideoPc, Lasts
  <1>6. /\ vworker'[j] = work /\ vjob'[j] = job /\ vsnap'[j] = Missing /\ vsnap[j] = Missing /\ job # Missing
        /\ vsnap' = [vsnap EXCEPT ![j] = vsnap[j]]
    BY <1>1, <1>3, JobsAssumption DEF VideoInv, JobInv, PcTellsState
  <1>7. JobInv(j)' /\ Advances(j)
    BY <1>2, <1>3, <1>5, <1>6 DEF JobInv, PcTellsState, SnapshotFollows, CompletedIsSaved, Advances, Waiting, Generating
  <1>9. FilesStay
    BY <1>1, FilesUnchanged
  <1> QED
    BY <1>1, <1>3, <1>6, <1>7, <1>9, OneJob DEF VideoInv

(* A step that changes neither the job nor its snapshot. *)
LEMMA WorkGood ==
    ASSUME VideoInv, NEW j \in VideoJob, NEW work, WorkerType(work), vworker' = [vworker EXCEPT ![j] = work],
           UNCHANGED <<vjob, vmap, vsnap>>, FilesStay,
           vfaults' \in 0 .. VideoFaults, vworker[j].pc # "none", vworker[j].pc # "killed",
           work.pc \in Waiting => vworker[j].pc \in Waiting,
           work.pc \in Generating => vworker[j].pc \in Generating, work.pc = "complete" => vfile'[j] # "none"
    PROVE  VideoGood
  <1>1. /\ vjob' = [vjob EXCEPT ![j] = vjob[j]] /\ vsnap' = [vsnap EXCEPT ![j] = vsnap[j]]
        /\ vworker'[j] = work /\ vjob'[j] = vjob[j] /\ vsnap'[j] = vsnap[j] /\ JobInv(j)
    BY DEF VideoInv
  <1>2. JobInv(j)' /\ Advances(j)
    BY <1>1 DEF JobInv, PcTellsState, SnapshotFollows, CompletedIsSaved, Advances, FilesStay
  <1> QED
    BY <1>1, <1>2, OneJob DEF VideoInv, JobInv

LEMMA PublishGood == ASSUME VideoInv, NEW j \in VideoJob, Video!Publish(j) PROVE VideoGood
  <1> DEFINE pc == Video!After(vworker[j].pc)
  <1>1. /\ vworker[j].pc \in {"publish_queued", "publish_progress", "publish_end"}
        /\ Video!Goto(j, pc) /\ vsnap' = [vsnap EXCEPT ![j] = vjob[j]] /\ UNCHANGED <<vjob, vmap, vfile, vfaults>>
    BY DEF Video!Publish
  <1>2. /\ pc \in {"start", "references", "none"}
        /\ pc \in Waiting => vworker[j].pc \in Waiting
        /\ pc \in Generating => vworker[j].pc \in Generating
        /\ pc \in Unfinished => vworker[j].pc \in Unfinished
    BY <1>1 DEF Video!After, Waiting, Generating, Unfinished
  <1> HIDE DEF pc
  <1>3. /\ vworker' = [vworker EXCEPT ![j] = [vworker[j] EXCEPT !.pc = pc]]
        /\ vworker'[j].pc = pc /\ WorkerType(vworker'[j])
    BY <1>1, <1>2, WorkMoves DEF VideoPc
  <1>4. vjob' = [vjob EXCEPT ![j] = vjob[j]] /\ vjob'[j] = vjob[j] /\ vsnap'[j] = vjob[j] /\ JobInv(j) /\ vjob[j] # Missing
    BY <1>1 DEF VideoInv, JobInv, PcTellsState
  <1>5. JobInv(j)' /\ Advances(j)
    BY <1>1, <1>2, <1>3, <1>4 DEF JobInv, PcTellsState, SnapshotFollows, CompletedIsSaved, Advances
  <1>9. FilesStay
    BY <1>1, FilesUnchanged
  <1> QED
    BY <1>1, <1>3, <1>4, <1>5, <1>9, OneJob DEF VideoInv, JobInv

LEMMA PublishFailsGood == ASSUME VideoInv, NEW j \in VideoJob, Video!PublishFails(j) PROVE VideoGood
  <1> DEFINE pc == Video!After(vworker[j].pc)
  <1>1. /\ vworker[j].pc \in {"publish_queued", "publish_progress", "publish_end"}
        /\ Video!Goto(j, pc) /\ vfaults < VideoFaults /\ vfaults' = vfaults + 1 /\ UNCHANGED <<vjob, vmap, vsnap, vfile>>
    BY DEF Video!PublishFails
  <1>2. /\ pc \in {"start", "references", "none"}
        /\ pc \in Waiting => vworker[j].pc \in Waiting
        /\ pc \in Generating => vworker[j].pc \in Generating
        /\ pc \in Unfinished => vworker[j].pc \in Unfinished
    BY <1>1 DEF Video!After, Waiting, Generating, Unfinished
  <1> HIDE DEF pc
  <1>3. /\ vworker' = [vworker EXCEPT ![j] = [vworker[j] EXCEPT !.pc = pc]]
        /\ vworker'[j].pc = pc /\ WorkerType(vworker'[j])
    BY <1>1, <1>2, WorkMoves DEF VideoPc
  <1>4. vfaults' \in 0 .. VideoFaults /\ vworker'[j] = [vworker[j] EXCEPT !.pc = pc]
    BY <1>1, <1>3, JobsAssumption DEF VideoInv
  <1>9. FilesStay
    BY <1>1, FilesUnchanged
  <1> QED
    BY <1>1, <1>2, <1>3, <1>4, <1>9, WorkGood DEF VideoInv

(* A step that changes the job and not its snapshot takes it on. *)
LEMMA JobGood ==
    ASSUME VideoInv, NEW j \in VideoJob, NEW pc \in VideoPc, Video!Goto(j, pc), NEW job \in Video!JobState,
           vjob' = [vjob EXCEPT ![j] = job], UNCHANGED <<vmap, vsnap, vfile, vfaults>>, vjob[j] # Missing,
           Video!Rank(job.status) > Video!Rank(vjob[j].status),
           pc \in Unfinished => vworker[j].pc \in Unfinished,
           pc \notin Waiting, pc # "complete", pc \in Generating => job.status = "in_progress",
           job.status = "completed" => job.content /\ vfile[j] # "none"
    PROVE  VideoGood
  <1>1. /\ vworker' = [vworker EXCEPT ![j] = [vworker[j] EXCEPT !.pc = pc]]
        /\ vworker'[j].pc = pc /\ WorkerType(vworker'[j])
    BY WorkMoves
  <1>2. /\ vsnap' = [vsnap EXCEPT ![j] = vsnap[j]] /\ vsnap'[j] = vsnap[j] /\ vjob'[j] = job /\ JobInv(j)
        /\ job # Missing
    BY JobsAssumption DEF VideoInv
  <1>3. SnapshotFollows(j)'
    <2>1. vsnap[j] # Missing => \/ vsnap[j].status = vjob[j].status
                                \/ Video!Rank(vjob[j].status) > Video!Rank(vsnap[j].status)
      BY <1>2 DEF JobInv, SnapshotFollows
    <2>2. vsnap[j] # Missing => Video!Rank(job.status) > Video!Rank(vsnap[j].status)
      BY <2>1, RankIsNatural
    <2> QED
      BY <1>2, <2>2 DEF SnapshotFollows
  <1>4. JobInv(j)' /\ Advances(j)
    BY <1>1, <1>2, <1>3 DEF JobInv, PcTellsState, CompletedIsSaved, Advances
  <1>9. FilesStay
    BY FilesUnchanged
  <1> QED
    BY <1>1, <1>2, <1>4, <1>9, OneJob DEF VideoInv, JobInv

LEMMA Edited ==
    ASSUME VideoInv, NEW j \in VideoJob, vjob[j] # Missing, NEW status \in {"in_progress", "failed"}
    PROVE  LET job == [vjob[j] EXCEPT !.status = status]
           IN  job \in Video!JobState /\ job.status = status
  BY DEF VideoInv, JobInv, Video!JobState

LEMMA StartGood == ASSUME VideoInv, NEW j \in VideoJob, Video!StartVideo(j) PROVE VideoGood
  <1> DEFINE job == [vjob[j] EXCEPT !.status = "in_progress"]
  <1>1. vworker[j].pc = "start" /\ JobInv(j)
    BY DEF Video!StartVideo, VideoInv
  <1>2. vjob[j] # Missing /\ vjob[j].status = "queued"
    BY <1>1 DEF JobInv, PcTellsState, Waiting
  <1>3. job \in Video!JobState /\ job.status = "in_progress"
    BY <1>2, Edited
  <1>4. /\ vjob' = [vjob EXCEPT ![j] = job] /\ Video!Goto(j, "publish_progress")
        /\ UNCHANGED <<vmap, vsnap, vfile, vfaults>>
    BY DEF Video!StartVideo
  <1> HIDE DEF job
  <1>5. /\ "publish_progress" \in (VideoPc \cap Generating) \ Waiting
        /\ vworker[j].pc \in Unfinished
    BY <1>1 DEF VideoPc, Waiting, Generating, Unfinished
  <1>6. Video!Rank(job.status) > Video!Rank(vjob[j].status)
    BY <1>2, <1>3 DEF Video!Rank
  <1> QED
    BY <1>1, <1>2, <1>3, <1>4, <1>5, <1>6, JobGood

LEMMA CompleteGood == ASSUME VideoInv, NEW j \in VideoJob, Video!CompleteVideo(j) PROVE VideoGood
  <1> DEFINE job == [status |-> "completed", content |-> TRUE]
  <1>1. vworker[j].pc = "complete" /\ JobInv(j)
    BY DEF Video!CompleteVideo, VideoInv
  <1>2. vjob[j] # Missing /\ vjob[j].status = "in_progress" /\ vfile[j] # "none"
    BY <1>1 DEF JobInv, PcTellsState, Generating
  <1>3. job \in Video!JobState /\ job.status = "completed" /\ job.content
    BY DEF Video!JobState
  <1>4. vjob' = [vjob EXCEPT ![j] = job] /\ Video!Goto(j, "publish_end") /\ UNCHANGED <<vmap, vsnap, vfile, vfaults>>
    BY DEF Video!CompleteVideo
  <1> HIDE DEF job
  <1>5. "publish_end" \in VideoPc \ (Waiting \cup Generating \cup Unfinished)
    BY DEF VideoPc, Waiting, Generating, Unfinished
  <1>6. Video!Rank(job.status) > Video!Rank(vjob[j].status)
    BY <1>2, <1>3 DEF Video!Rank
  <1> QED
    BY <1>1, <1>2, <1>3, <1>4, <1>5, <1>6, JobGood

LEMMA FailGood == ASSUME VideoInv, NEW j \in VideoJob, Video!FailVideo(j) PROVE VideoGood
  <1> DEFINE job == [vjob[j] EXCEPT !.status = "failed"]
  <1>1. vworker[j].pc \in {"references", "segment", "download"} /\ JobInv(j)
    BY DEF Video!FailVideo, VideoInv
  <1>2. vjob[j] # Missing /\ vjob[j].status = "in_progress"
    BY <1>1 DEF JobInv, PcTellsState, Generating
  <1>3. job \in Video!JobState /\ job.status = "failed"
    BY <1>2, Edited
  <1>4. vjob' = [vjob EXCEPT ![j] = job] /\ Video!Goto(j, "publish_end") /\ UNCHANGED <<vmap, vsnap, vfile, vfaults>>
    BY DEF Video!FailVideo
  <1> HIDE DEF job
  <1>5. "publish_end" \in VideoPc \ (Waiting \cup Generating \cup Unfinished)
    BY DEF VideoPc, Waiting, Generating, Unfinished
  <1>6. Video!Rank(job.status) > Video!Rank(vjob[j].status)
    BY <1>2, <1>3 DEF Video!Rank
  <1> QED
    BY <1>1, <1>2, <1>3, <1>4, <1>5, <1>6, JobGood

LEMMA PrepareGood == ASSUME VideoInv, NEW j \in VideoJob, Video!PrepareReference(j) PROVE VideoGood
  <1> DEFINE refs == IF vworker[j].refs > 0 THEN vworker[j].refs - 1 ELSE 0
             pc == IF vworker[j].refs <= 1 THEN "segment" ELSE vworker[j].pc
             work == [vworker[j] EXCEPT !.refs = refs, !.pc = pc]
  <1>1. /\ vworker[j].pc = "references" /\ WorkerType(vworker[j]) /\ DOMAIN vworker = VideoJob
        /\ UNCHANGED <<vjob, vmap, vsnap, vfile, vfaults>>
    BY DEF Video!PrepareReference, VideoInv, JobInv
  <1>2. pc \in {"references", "segment"}
    BY <1>1
  <1>3. vworker' = [vworker EXCEPT ![j] = work]
    BY <1>1 DEF Video!PrepareReference, WorkerType
  <1> HIDE DEF refs, pc
  <1>4. DOMAIN work = DOMAIN vworker[j] /\ work.pc = pc /\ work.done = vworker[j].done /\ work.seconds = vworker[j].seconds
    BY <1>1 DEF WorkerType
  <1> HIDE DEF work
  <1>5. WorkerType(work)
    BY <1>1, <1>2, <1>4 DEF WorkerType, VideoPc, Unfinished
  <1>9. FilesStay
    BY <1>1, FilesUnchanged
  <1> QED
    BY <1>1, <1>2, <1>3, <1>4, <1>5, <1>9, WorkGood DEF VideoInv, Waiting, Generating

LEMMA CollectGood == ASSUME VideoInv, NEW j \in VideoJob, Video!CollectSegment(j) PROVE VideoGood
  <1> DEFINE done == vworker[j].done + 1
             pc == IF done = Lasts(vworker[j].seconds) THEN "download" ELSE vworker[j].pc
             work == [vworker[j] EXCEPT !.done = done, !.pc = pc]
  <1>1. /\ vworker[j].pc = "segment" /\ WorkerType(vworker[j]) /\ DOMAIN vworker = VideoJob
        /\ UNCHANGED <<vjob, vmap, vsnap, vfile, vfaults>>
    BY DEF Video!CollectSegment, VideoInv, JobInv
  <1>2. pc \in {"segment", "download"}
    BY <1>1
  <1>3. vworker' = [vworker EXCEPT ![j] = work]
    BY <1>1 DEF Video!CollectSegment, WorkerType, Lasts
  <1>4. done \in Nat /\ done <= Lasts(vworker[j].seconds) /\ (pc = "segment" => done < Lasts(vworker[j].seconds))
    <2>1. Lasts(vworker[j].seconds) \in Nat
      BY DEF Lasts, Video!SegmentLengths
    <2> QED
      BY <1>1, <2>1 DEF WorkerType, Unfinished
  <1> HIDE DEF done, pc
  <1>5. DOMAIN work = DOMAIN vworker[j] /\ work.pc = pc /\ work.done = done /\ work.seconds = vworker[j].seconds
    BY <1>1 DEF WorkerType
  <1> HIDE DEF work
  <1>6. WorkerType(work)
    BY <1>1, <1>2, <1>4, <1>5 DEF WorkerType, VideoPc, Unfinished
  <1>9. FilesStay
    BY <1>1, FilesUnchanged
  <1> QED
    BY <1>1, <1>2, <1>3, <1>5, <1>6, <1>9, WorkGood DEF VideoInv, Waiting, Generating

LEMMA SaveGood == ASSUME VideoInv, NEW j \in VideoJob, Video!SaveVideo(j) PROVE VideoGood
  <1>1. /\ vworker[j].pc = "download" /\ Video!Goto(j, "complete") /\ vfile' = [vfile EXCEPT ![j] = "kept"]
        /\ UNCHANGED <<vjob, vmap, vsnap, vfaults>>
    BY DEF Video!SaveVideo
  <1>2. /\ vworker' = [vworker EXCEPT ![j] = [vworker[j] EXCEPT !.pc = "complete"]]
        /\ vworker'[j].pc = "complete" /\ WorkerType(vworker'[j])
    BY <1>1, WorkMoves DEF VideoPc, Unfinished
  <1>3. vworker'[j] = [vworker[j] EXCEPT !.pc = "complete"]
    BY <1>2 DEF VideoInv
  <1>4. FilesStay /\ vfile'[j] # "none"
    BY <1>1 DEF VideoInv, FilesStay, FileState
  <1> QED
    BY <1>1, <1>2, <1>3, <1>4, WorkGood DEF VideoInv, Waiting, Generating

LEMMA RemoveGood == ASSUME VideoInv, NEW j \in VideoJob, Video!RemoveVideo(j) PROVE VideoGood
  <1>1. vfile' = [vfile EXCEPT ![j] = "removed"] /\ UNCHANGED <<vjob, vmap, vsnap, vworker, vfaults>>
    BY DEF Video!RemoveVideo
  <1>2. vfile' \in [VideoJob -> FileState] /\ \A k \in VideoJob : vfile[k] # "none" => vfile'[k] # "none"
    BY <1>1 DEF VideoInv, FileState
  <1>3. \A k \in VideoJob : JobInv(k)' /\ Advances(k)
    BY <1>1, <1>2 DEF VideoInv, JobInv, PcTellsState, SnapshotFollows, CompletedIsSaved, Advances
  <1> QED
    BY <1>1, <1>2, <1>3 DEF VideoGood, VideoInv

LEMMA ExpireGood ==
    ASSUME VideoInv, NEW j \in VideoJob, Video!ExpireJob(j) \/ Video!ExpireSnapshot(j)
    PROVE  VideoGood
  <1>1. CASE Video!ExpireJob(j)
    <2>1. UNCHANGED <<vjob, vsnap, vworker, vfile, vfaults>> /\ vmap' \subseteq VideoJob
      BY <1>1 DEF Video!ExpireJob, VideoInv
    <2> QED
      BY <2>1 DEF VideoGood, VideoInv, JobInv, PcTellsState, SnapshotFollows, CompletedIsSaved, Advances
  <1>2. CASE Video!ExpireSnapshot(j)
    <2>1. UNCHANGED <<vjob, vmap, vworker, vfile, vfaults>> /\ vsnap' = [vsnap EXCEPT ![j] = Missing]
      BY <1>2 DEF Video!ExpireSnapshot
    <2>2. \A k \in VideoJob : vsnap'[k] \in {vsnap[k], Missing}
      BY <2>1 DEF VideoInv
    <2>3. \A k \in VideoJob : JobInv(k)' /\ Advances(k)
      BY <2>1, <2>2 DEF VideoInv, JobInv, PcTellsState, SnapshotFollows, CompletedIsSaved, Advances
    <2>4. vsnap' \in [VideoJob -> Video!JobState \cup {Missing}]
      BY <2>1 DEF VideoInv
    <2> QED
      BY <2>1, <2>3, <2>4 DEF VideoGood, VideoInv
  <1> QED
    BY <1>1, <1>2

LEMMA RestartGood == ASSUME VideoInv, Video!Restart PROVE VideoGood
  <1>1. /\ vmap' = {} /\ vfaults' = vfaults + 1 /\ vfaults < VideoFaults /\ UNCHANGED <<vjob, vsnap, vfile>>
        /\ DOMAIN vworker' = VideoJob
        /\ \A j \in VideoJob : vworker'[j] \in {Video!NoWork, [Video!NoWork EXCEPT !.pc = "killed"]}
    BY DEF Video!Restart
  <1>2. /\ WorkerType(Video!NoWork) /\ WorkerType([Video!NoWork EXCEPT !.pc = "killed"])
        /\ Video!NoWork.pc = "none" /\ [Video!NoWork EXCEPT !.pc = "killed"].pc = "killed"
    BY DEF Video!NoWork, WorkerType, VideoPc, Unfinished, Lasts, Video!SegmentLengths
  <1>3. vfaults' \in 0 .. VideoFaults
    BY <1>1, JobsAssumption DEF VideoInv
  <1>4. \A j \in VideoJob : JobInv(j)' /\ Advances(j)
    BY <1>1, <1>2 DEF VideoInv, JobInv, PcTellsState, SnapshotFollows, CompletedIsSaved, Advances, Waiting, Generating
  <1> QED
    BY <1>1, <1>3, <1>4 DEF VideoInv, VideoGood

LEMMA VideoStays == ASSUME VideoInv, UNCHANGED <<vjob, vmap, vsnap, vworker, vfile, vfaults>> PROVE VideoGood
  BY DEF VideoGood, VideoInv, JobInv, PcTellsState, SnapshotFollows, CompletedIsSaved, Advances

LEMMA VideoStep == ASSUME VideoInv, [Next]_vars PROVE VideoGood
  <1>1. CASE Video!Next
    <2>1. ASSUME NEW j \in VideoJob, Video!JobStep(j) PROVE VideoGood
      BY <2>1, PublishGood, StartGood, PrepareGood, CollectGood, SaveGood, CompleteGood, FailGood DEF Video!JobStep
    <2>2. ASSUME NEW messages, Video!VideoCompletions(messages) PROVE VideoGood
      BY <2>2, VideoStays DEF Video!VideoCompletions
    <2> QED
      BY <1>1, <2>1, <2>2, CreateGood, PublishFailsGood, ExpireGood, RemoveGood, RestartGood DEF Video!Next
  <1>2. CASE UNCHANGED videoVars
    BY <1>2, VideoStays DEF videoVars
  <1> QED
    BY <1>1, <1>2 DEF Next, vars, InDispatch, InVideo, InBatch, InSessions, InCache

LEMMA VideoInit == Init => VideoInv
  <1> SUFFICES ASSUME Init PROVE VideoInv
    OBVIOUS
  <1>1. /\ vjob = [j \in VideoJob |-> Missing] /\ vmap = {} /\ vsnap = [j \in VideoJob |-> Missing]
        /\ vworker = [j \in VideoJob |-> Video!NoWork] /\ vfile = [j \in VideoJob |-> "none"] /\ vfaults = 0
    BY DEF Init, Video!Init
  <1>2. WorkerType(Video!NoWork) /\ Video!NoWork.pc = "none"
    BY DEF Video!NoWork, WorkerType, VideoPc, Unfinished, Lasts, Video!SegmentLengths
  <1>3. \A j \in VideoJob : JobInv(j)
    BY <1>1, <1>2 DEF JobInv, PcTellsState, SnapshotFollows, CompletedIsSaved, Waiting, Generating
  <1> QED
    BY <1>1, <1>3, JobsAssumption DEF VideoInv, FileState

(* What a client is told of a video is true and stays true, for any jobs,    *)
(* lengths and failures: whoever is told that it is completed gets its file  *)
(* unless the media cache has removed it since, and neither a late           *)
(* publication nor a restart takes a snapshot back (publishVideoJobSnapshot, *)
(* runVideoJob, VideoContentPath).                                           *)
THEOREM VideosStayTrue == Spec => VideosAreTrue
  <1>1. VideoInv => Video!TypeOK /\ Video!CompletedHasContent
    <2> SUFFICES ASSUME VideoInv PROVE Video!TypeOK /\ Video!CompletedHasContent
      OBVIOUS
    <2>1. Video!TypeOK
      BY DEF Video!TypeOK, VideoInv, JobInv, WorkerType, Lasts, FileState
    <2>2. Video!CompletedHasContent
      <3> SUFFICES ASSUME NEW j \in VideoJob, NEW answer \in {vsnap[j], vjob[j]}, answer # Missing,
                          answer.status = "completed"
                   PROVE  Video!ContentPath(j, answer) = IF vfile[j] = "removed" THEN "gone" ELSE "file"
        BY DEF Video!CompletedHasContent, Video!Answers
      <3>1. answer.content /\ vfile[j] # "none" /\ vfile[j] \in FileState
        BY DEF VideoInv, JobInv, CompletedIsSaved
      <3> QED
        BY <3>1 DEF Video!ContentPath, FileState
    <2> QED
      BY <2>1, <2>2
  <1>2. VideoInv /\ [Next]_vars => VideoInv'
    BY VideoStep DEF VideoGood
  <1> DEFINE Forward == \A j \in VideoJob : vsnap[j] # Missing /\ vsnap'[j] # Missing =>
                \/ vsnap'[j] = vsnap[j]
                \/ Video!Rank(vsnap'[j].status) > Video!Rank(vsnap[j].status)
  <1>3. VideoInv /\ [Next]_vars => [Forward]_(Video!vars)
    BY VideoStep DEF VideoGood, Advances
  <1>4. VideosAreTrue <=> [](Video!TypeOK /\ Video!CompletedHasContent) /\ [][Forward]_(Video!vars)
    BY DEF VideosAreTrue, Video!VideosAreTrue, Video!SnapshotsAdvance
  <1> HIDE DEF Forward
  <1> QED
    BY <1>1, <1>2, <1>3, <1>4, VideoInit, PTL DEF Spec

-----------------------------------------------------------------------------
(* The image sessions.  A run that nobody has cancelled is the current one   *)
(* of a connection that is being read.                                       *)
ConnPc == {"away", "new", "allowed", "refused", "hijack", "read", "stopping", "start", "close", "closed"}
RunPc == {"none", "generate", "forward", "write", "complete", "done"}
WithPlace == {"hijack", "read", "stopping", "start", "close"}

ConnType(c, conn) ==
    /\ DOMAIN conn = {"pc", "started", "current", "after"}
    /\ conn.pc \in ConnPc /\ conn.after \in {"read", "start", "close"}
    /\ conn.started \in 0 .. MaxRuns[c] /\ conn.current \in 0 .. MaxRuns[c]
    /\ conn.pc = "start" \/ (conn.pc = "stopping" /\ conn.after = "start") => conn.started < MaxRuns[c]
    /\ conn.pc = "stopping" => conn.current # 0
ConnsType == DOMAIN conns = Conn /\ \A c \in Conn : ConnType(c, conns[c])
(* A run about to write has looked at its context since the last image.      *)
RunOK(run) ==
    /\ DOMAIN run = {"pc", "cancelled", "left", "told", "late"} /\ run.pc \in RunPc
    /\ run.late \in {0, 1} /\ (~run.cancelled \/ run.pc = "write" => run.late = 0)
RunsType ==
    /\ DOMAIN runs = Sessions!Run
    /\ \A r \in Sessions!Run : RunOK(runs[r])
Goes(r) == runs[r].pc \notin {"none", "done"} /\ ~runs[r].cancelled
LatestGoes ==
    \A c \in Conn, n \in Nat : <<c, n>> \in Sessions!Run /\ Goes(<<c, n>>)
                                => conns[c].pc = "read" /\ conns[c].current = n

Placed == {c \in Conn : conns[c].pc \in WithPlace}
PlacedFrom(ip) == {c \in Placed : IpOf[c] = ip}
PlacesInv ==
    /\ DOMAIN limiter = {"total", "byIP"} /\ DOMAIN limiter.byIP = Sessions!IPs
    /\ limiter.total = Cardinality(Placed) /\ limiter.total <= MaxConnections
    /\ \A ip \in Sessions!IPs : limiter.byIP[ip] = Cardinality(PlacedFrom(ip)) /\ limiter.byIP[ip] <= MaxPerIP

TicketsInv ==
    /\ tickets \in [Ticket -> Int] /\ admitted \in [Ticket -> Nat]
    /\ \A t \in Ticket : /\ admitted[t] <= 1
                         /\ tickets[t] > 0 \/ tickets[t] = -1 => admitted[t] = 0

SessionsInv == ConnsType /\ RunsType /\ LatestGoes /\ PlacesInv /\ TicketsInv

LEMMA RunOf == \A c \in Conn : \A n : <<c, n>> \in Sessions!Run <=> n \in 1 .. MaxRuns[c]
  BY DEF Sessions!Run

LEMMA PlacedFinite ==
    /\ IsFiniteSet(Placed) /\ Cardinality(Placed) \in Nat
    /\ \A ip : IsFiniteSet(PlacedFrom(ip)) /\ Cardinality(PlacedFrom(ip)) \in Nat
  <1>1. IsFiniteSet(Placed)
    BY JobsAssumption, FS_Subset DEF Placed
  <1>2. \A ip : IsFiniteSet(PlacedFrom(ip))
    BY <1>1, FS_Subset DEF PlacedFrom
  <1> QED
    BY <1>1, <1>2, FS_CardinalityType

(* A connection moves from place to place, or to none and back to none. *)
LEMMA PlacesStay ==
    ASSUME SessionsInv, ConnsType', UNCHANGED limiter,
           \A c \in Conn : conns'[c].pc \in WithPlace <=> conns[c].pc \in WithPlace
    PROVE  PlacesInv'
  <1>1. Placed' = Placed
    BY DEF Placed
  <1>2. \A ip : PlacedFrom(ip)' = PlacedFrom(ip)
    BY <1>1 DEF PlacedFrom
  <1> QED
    BY <1>1, <1>2 DEF SessionsInv, PlacesInv

LEMMA OneConn ==
    ASSUME SessionsInv, NEW c \in Conn, NEW conn, ConnType(c, conn), conns' = [conns EXCEPT ![c] = conn]
    PROVE  ConnsType' /\ conns'[c] = conn /\ \A d \in Conn \ {c} : conns'[d] = conns[d]
  BY DEF SessionsInv, ConnsType

LEMMA TicketsStay == SessionsInv /\ UNCHANGED <<tickets, admitted>> => TicketsInv'
  BY DEF SessionsInv, TicketsInv

LEMMA LatestStays ==
    ASSUME SessionsInv, UNCHANGED runs,
           \A c \in Conn : conns[c].pc = "read" => conns'[c] = conns[c]
    PROVE  RunsType' /\ LatestGoes'
  BY DEF SessionsInv, RunsType, LatestGoes, Goes

(* The tickets. *)
LEMMA IssueKeeps == ASSUME SessionsInv, NEW t \in Ticket, Sessions!Issue(t) PROVE SessionsInv'
  <1>1. tickets[t] = -1 /\ tickets' = [tickets EXCEPT ![t] = TicketTTL] /\ UNCHANGED <<admitted, limiter, conns, runs>>
    BY DEF Sessions!Issue, Sessions!Unissued
  <1>2. TicketsInv'
    BY <1>1, JobsAssumption DEF SessionsInv, TicketsInv
  <1>3. ConnsType'
    BY <1>1 DEF SessionsInv, ConnsType
  <1> QED
    BY <1>1, <1>2, <1>3, PlacesStay, LatestStays DEF SessionsInv

LEMMA TicketTickKeeps == ASSUME SessionsInv, Sessions!Tick PROVE SessionsInv'
  <1>1. /\ tickets' = [t \in Ticket |-> IF tickets[t] > 0 THEN tickets[t] - 1 ELSE tickets[t]]
        /\ UNCHANGED <<admitted, limiter, conns, runs>>
    BY DEF Sessions!Tick, Sessions!Issued
  <1>2. TicketsInv'
    BY <1>1 DEF SessionsInv, TicketsInv
  <1>3. ConnsType'
    BY <1>1 DEF SessionsInv, ConnsType
  <1> QED
    BY <1>1, <1>2, <1>3, PlacesStay, LatestStays DEF SessionsInv

(* The pc of a connection alone. *)
LEMMA MovedConn ==
    ASSUME SessionsInv, NEW c \in Conn, NEW pc \in ConnPc \ {"start", "stopping"},
           conns' = [conns EXCEPT ![c].pc = pc]
    PROVE  /\ ConnsType' /\ conns'[c].pc = pc /\ \A d \in Conn \ {c} : conns'[d] = conns[d]
  <1> DEFINE conn == [conns[c] EXCEPT !.pc = pc]
  <1>1. ConnType(c, conns[c]) /\ conns' = [conns EXCEPT ![c] = conn]
    BY DEF SessionsInv, ConnsType
  <1>2. /\ DOMAIN conn = DOMAIN conns[c] /\ conn.pc = pc /\ conn.after = conns[c].after
        /\ conn.started = conns[c].started /\ conn.current = conns[c].current
    BY <1>1 DEF ConnType
  <1> HIDE DEF conn
  <1>3. ConnType(c, conn)
    BY <1>1, <1>2 DEF ConnType
  <1> QED
    BY <1>1, <1>2, <1>3, OneConn

LEMMA ConsumeKeeps == ASSUME SessionsInv, NEW c \in Conn, NEW t \in Ticket, Sessions!Consume(c, t) PROVE SessionsInv'
  <1> DEFINE pc == IF tickets[t] > 0 THEN "allowed" ELSE "refused"
  <1>1. /\ conns[c].pc = "new" /\ conns' = [conns EXCEPT ![c].pc = pc] /\ UNCHANGED <<limiter, runs>>
        /\ tickets' = IF tickets[t] > 0 THEN [tickets EXCEPT ![t] = 0] ELSE tickets
        /\ admitted' = IF tickets[t] > 0 THEN [admitted EXCEPT ![t] = @ + 1] ELSE admitted
    BY DEF Sessions!Consume, Sessions!Issued
  <1>2. pc \in ConnPc \ {"start", "stopping"} /\ pc \notin WithPlace
    BY DEF ConnPc, WithPlace
  <1> HIDE DEF pc
  <1>3. ConnsType' /\ conns'[c].pc = pc /\ \A d \in Conn \ {c} : conns'[d] = conns[d]
    BY <1>1, <1>2, MovedConn
  <1>4. TicketsInv'
    BY <1>1 DEF SessionsInv, TicketsInv
  <1> QED
    BY <1>1, <1>2, <1>3, <1>4, PlacesStay, LatestStays DEF SessionsInv, WithPlace

LEMMA MoveConnKeeps ==
    ASSUME SessionsInv, NEW c \in Conn, NEW pc \in ConnPc \ {"start", "stopping"}, conns[c].pc # "read",
           pc \in WithPlace <=> conns[c].pc \in WithPlace,
           conns' = [conns EXCEPT ![c].pc = pc], UNCHANGED <<tickets, admitted, limiter, runs>>
    PROVE  SessionsInv'
  <1>1. ConnsType' /\ conns'[c].pc = pc /\ \A d \in Conn \ {c} : conns'[d] = conns[d]
    BY MovedConn
  <1> QED
    BY <1>1, PlacesStay, LatestStays, TicketsStay DEF SessionsInv

(* A place is taken while both limits leave one. *)
LEMMA PlaceTaken ==
    ASSUME SessionsInv, NEW c \in Conn, conns[c].pc \notin WithPlace, conns'[c].pc \in WithPlace,
           \A d \in Conn \ {c} : conns'[d] = conns[d],
           limiter.total < MaxConnections, limiter.byIP[IpOf[c]] < MaxPerIP,
           limiter' = [limiter EXCEPT !.total = @ + 1, !.byIP[IpOf[c]] = @ + 1]
    PROVE  PlacesInv'
  <1> DEFINE ip == IpOf[c]
  <1>1. Placed' = Placed \cup {c} /\ c \notin Placed
    BY DEF Placed
  <1>2. PlacedFrom(ip)' = PlacedFrom(ip) \cup {c} /\ c \notin PlacedFrom(ip)
    BY <1>1 DEF PlacedFrom
  <1>3. \A other : other # ip => PlacedFrom(other)' = PlacedFrom(other)
    BY <1>1 DEF PlacedFrom
  <1>4. Cardinality(Placed') = Cardinality(Placed) + 1 /\ Cardinality(PlacedFrom(ip)') = Cardinality(PlacedFrom(ip)) + 1
    BY <1>1, <1>2, PlacedFinite, FS_AddElement
  <1>5. ip \in Sessions!IPs
    BY DEF Sessions!IPs
  <1> HIDE DEF ip
  <1>6. /\ DOMAIN limiter = {"total", "byIP"} /\ DOMAIN limiter.byIP = Sessions!IPs
        /\ limiter' = [limiter EXCEPT !.total = @ + 1, !.byIP[ip] = @ + 1]
    BY DEF SessionsInv, PlacesInv, ip
  <1>7. /\ DOMAIN limiter' = {"total", "byIP"} /\ limiter'.total = limiter.total + 1
        /\ limiter'.byIP = [limiter.byIP EXCEPT ![ip] = @ + 1]
    BY <1>6
  <1>8. limiter'.total = Cardinality(Placed') /\ limiter'.total <= MaxConnections
    BY <1>4, <1>7, PlacedFinite, JobsAssumption DEF SessionsInv, PlacesInv
  <1>9. /\ limiter.byIP[ip] < MaxPerIP /\ limiter.byIP[ip] = Cardinality(PlacedFrom(ip))
        /\ limiter'.byIP[ip] = limiter.byIP[ip] + 1
    BY <1>5, <1>6, <1>7 DEF SessionsInv, PlacesInv, ip
  <1>10. limiter'.byIP[ip] = Cardinality(PlacedFrom(ip)') /\ limiter'.byIP[ip] <= MaxPerIP
    BY <1>4, <1>9, PlacedFinite, JobsAssumption
  <1>11. \A other \in Sessions!IPs \ {ip} :
            limiter'.byIP[other] = Cardinality(PlacedFrom(other)') /\ limiter'.byIP[other] <= MaxPerIP
    BY <1>3, <1>6, <1>7 DEF SessionsInv, PlacesInv
  <1> QED
    BY <1>6, <1>7, <1>8, <1>10, <1>11 DEF PlacesInv

(* A place is given back once. *)
LEMMA PlaceGivenBack ==
    ASSUME SessionsInv, NEW c \in Conn, conns[c].pc \in WithPlace, conns'[c].pc \notin WithPlace,
           \A d \in Conn \ {c} : conns'[d] = conns[d], limiter' = Sessions!Release(c)
    PROVE  PlacesInv'
  <1> DEFINE ip == IpOf[c]
  <1>1. Placed' = Placed \ {c} /\ c \in Placed
    BY DEF Placed
  <1>2. PlacedFrom(ip)' = PlacedFrom(ip) \ {c} /\ c \in PlacedFrom(ip)
    BY <1>1 DEF PlacedFrom
  <1>3. \A other : other # ip => PlacedFrom(other)' = PlacedFrom(other)
    BY <1>1 DEF PlacedFrom
  <1>4. /\ Cardinality(Placed') = Cardinality(Placed) - 1
        /\ Cardinality(PlacedFrom(ip)') = Cardinality(PlacedFrom(ip)) - 1
    BY <1>1, <1>2, PlacedFinite, FS_RemoveElement
  <1>5. ip \in Sessions!IPs
    BY DEF Sessions!IPs
  <1> HIDE DEF ip
  <1>6. /\ DOMAIN limiter = {"total", "byIP"} /\ DOMAIN limiter.byIP = Sessions!IPs
        /\ limiter' = [limiter EXCEPT !.total = @ - 1, !.byIP[ip] = @ - 1]
    BY DEF SessionsInv, PlacesInv, Sessions!Release, ip
  <1>7. /\ DOMAIN limiter' = {"total", "byIP"} /\ limiter'.total = limiter.total - 1
        /\ limiter'.byIP = [limiter.byIP EXCEPT ![ip] = @ - 1]
    BY <1>6
  <1>8. limiter'.total = Cardinality(Placed') /\ limiter'.total <= MaxConnections
    BY <1>4, <1>7, PlacedFinite, JobsAssumption DEF SessionsInv, PlacesInv
  <1>9. /\ limiter.byIP[ip] <= MaxPerIP /\ limiter.byIP[ip] = Cardinality(PlacedFrom(ip))
        /\ limiter'.byIP[ip] = limiter.byIP[ip] - 1
    BY <1>5, <1>6, <1>7 DEF SessionsInv, PlacesInv
  <1>10. limiter'.byIP[ip] = Cardinality(PlacedFrom(ip)') /\ limiter'.byIP[ip] <= MaxPerIP
    BY <1>4, <1>9, PlacedFinite, JobsAssumption
  <1>11. \A other \in Sessions!IPs \ {ip} :
            limiter'.byIP[other] = Cardinality(PlacedFrom(other)') /\ limiter'.byIP[other] <= MaxPerIP
    BY <1>3, <1>6, <1>7 DEF SessionsInv, PlacesInv
  <1> QED
    BY <1>6, <1>7, <1>8, <1>10, <1>11 DEF PlacesInv

LEMMA AcquireKeeps == ASSUME SessionsInv, NEW c \in Conn, Sessions!AcquirePlace(c) PROVE SessionsInv'
  <1>1. conns[c].pc = "allowed" /\ UNCHANGED <<tickets, admitted, runs>>
    BY DEF Sessions!AcquirePlace
  <1>2. CASE limiter.total >= MaxConnections \/ limiter.byIP[IpOf[c]] >= MaxPerIP
    <2>1. conns' = [conns EXCEPT ![c].pc = "refused"] /\ UNCHANGED limiter
      BY <1>2 DEF Sessions!AcquirePlace
    <2>2. "refused" \in ConnPc \ {"start", "stopping"} /\ "refused" \notin WithPlace /\ "allowed" \notin WithPlace
      BY DEF ConnPc, WithPlace
    <2> QED
      BY <1>1, <2>1, <2>2, MoveConnKeeps
  <1>3. CASE ~(limiter.total >= MaxConnections \/ limiter.byIP[IpOf[c]] >= MaxPerIP)
    <2>1. /\ conns' = [conns EXCEPT ![c].pc = "hijack"]
          /\ limiter' = [limiter EXCEPT !.total = @ + 1, !.byIP[IpOf[c]] = @ + 1]
      BY <1>3 DEF Sessions!AcquirePlace
    <2>2. "hijack" \in ConnPc \ {"start", "stopping"} /\ "hijack" \in WithPlace /\ "allowed" \notin WithPlace
      BY DEF ConnPc, WithPlace
    <2>3. ConnsType' /\ conns'[c].pc = "hijack" /\ \A d \in Conn \ {c} : conns'[d] = conns[d]
      BY <2>1, <2>2, MovedConn
    <2>4. limiter.total < MaxConnections /\ limiter.byIP[IpOf[c]] < MaxPerIP
      <3>1. IpOf[c] \in Sessions!IPs
        BY DEF Sessions!IPs
      <3> QED
        BY <1>3, <3>1, PlacedFinite, JobsAssumption DEF SessionsInv, PlacesInv
    <2>5. PlacesInv'
      BY <1>1, <2>1, <2>2, <2>3, <2>4, PlaceTaken
    <2> QED
      BY <1>1, <2>3, <2>5, LatestStays, TicketsStay DEF SessionsInv
  <1> QED
    BY <1>2, <1>3

LEMMA GivesBackKeeps ==
    ASSUME SessionsInv, NEW c \in Conn, Sessions!HandshakeFails(c) \/ Sessions!Close(c)
    PROVE  SessionsInv'
  <1>1. /\ conns[c].pc \in {"hijack", "close"} /\ limiter' = Sessions!Release(c) /\ UNCHANGED <<tickets, admitted, runs>>
        /\ conns' = [conns EXCEPT ![c].pc = "refused"] \/ conns' = [conns EXCEPT ![c].pc = "closed"]
    BY DEF Sessions!HandshakeFails, Sessions!Close
  <1>2. PICK pc \in {"refused", "closed"} : conns' = [conns EXCEPT ![c].pc = pc]
    BY <1>1
  <1>3. pc \in ConnPc \ {"start", "stopping"} /\ pc \notin WithPlace /\ conns[c].pc \in WithPlace
    BY <1>1 DEF ConnPc, WithPlace
  <1>4. ConnsType' /\ conns'[c].pc = pc /\ \A d \in Conn \ {c} : conns'[d] = conns[d]
    BY <1>2, <1>3, MovedConn
  <1>5. PlacesInv'
    BY <1>1, <1>3, <1>4, PlaceGivenBack
  <1> QED
    BY <1>1, <1>4, <1>5, LatestStays, TicketsStay DEF SessionsInv

(* The reader.  A run that is going is told to stop before the reader turns  *)
(* to anything else.                                                         *)
LEMMA StopRunKeeps ==
    ASSUME SessionsInv, NEW c \in Conn, NEW next \in {"read", "start", "close"}, conns[c].pc = "read",
           next = "start" => conns[c].started < MaxRuns[c], Sessions!StopRun(c, next),
           UNCHANGED <<tickets, admitted, limiter>>
    PROVE  SessionsInv'
  <1>1. ConnType(c, conns[c]) /\ DOMAIN runs = Sessions!Run
    BY DEF SessionsInv, ConnsType, RunsType
  <1>2. CASE conns[c].current = 0
    <2> DEFINE conn == [conns[c] EXCEPT !.pc = next]
    <2>1. conns' = [conns EXCEPT ![c] = conn] /\ UNCHANGED runs
      BY <1>2 DEF Sessions!StopRun
    <2>2. /\ DOMAIN conn = DOMAIN conns[c] /\ conn.pc = next /\ conn.after = conns[c].after
          /\ conn.started = conns[c].started /\ conn.current = conns[c].current
      BY <1>1 DEF ConnType
    <2> HIDE DEF conn
    <2>3. ConnType(c, conn)
      BY <1>1, <2>2 DEF ConnType, ConnPc
    <2>4. ConnsType' /\ conns'[c] = conn /\ \A d \in Conn \ {c} : conns'[d] = conns[d]
      BY <2>1, <2>3, OneConn
    <2>5. PlacesInv'
      BY <2>2, <2>4, PlacesStay DEF WithPlace
    <2>6. \A n : <<c, n>> \in Sessions!Run => ~Goes(<<c, n>>)
      BY <1>2, RunOf DEF SessionsInv, LatestGoes
    <2>7. RunsType' /\ LatestGoes'
      BY <2>1, <2>4, <2>6 DEF SessionsInv, RunsType, LatestGoes, Goes
    <2> QED
      BY <2>4, <2>5, <2>7, TicketsStay DEF SessionsInv
  <1>3. CASE conns[c].current # 0
    <2>1. PICK run \in Sessions!Run : run = <<c, conns[c].current>>
      <3>1. conns[c].current \in 1 .. MaxRuns[c]
        BY <1>1, <1>3, JobsAssumption DEF ConnType
      <3>2. <<c, conns[c].current>> \in Sessions!Run
        BY <3>1, RunOf
      <3> QED
        BY <3>2
    <2> DEFINE conn == [conns[c] EXCEPT !.pc = "stopping", !.after = next]
               stopped == [runs[run] EXCEPT !.cancelled = TRUE]
    <2>2. conns' = [conns EXCEPT ![c] = conn] /\ runs' = [runs EXCEPT ![run] = stopped]
      BY <1>3, <2>1 DEF Sessions!StopRun, Sessions!Current
    <2>3. /\ DOMAIN conn = DOMAIN conns[c] /\ conn.pc = "stopping" /\ conn.after = next
          /\ conn.started = conns[c].started /\ conn.current = conns[c].current
      BY <1>1 DEF ConnType
    <2>4. RunOK(stopped) /\ stopped.cancelled
      <3>1. RunOK(runs[run])
        BY DEF SessionsInv, RunsType
      <3> QED
        BY <3>1 DEF RunOK
    <2> HIDE DEF conn, stopped
    <2>5. ConnType(c, conn)
      BY <1>1, <1>3, <2>3 DEF ConnType, ConnPc
    <2>6. ConnsType' /\ conns'[c] = conn /\ \A d \in Conn \ {c} : conns'[d] = conns[d]
      BY <2>2, <2>5, OneConn
    <2>7. PlacesInv'
      BY <2>3, <2>6, PlacesStay DEF WithPlace
    <2>8. RunsType' /\ ~Goes(run)' /\ \A r \in Sessions!Run \ {run} : Goes(r)' <=> Goes(r)
      <3>1. DOMAIN runs' = Sessions!Run /\ runs'[run] = stopped /\ \A r \in Sessions!Run \ {run} : runs'[r] = runs[r]
        BY <1>1, <2>2
      <3> QED
        BY <2>4, <3>1 DEF SessionsInv, RunsType, Goes
    <2>9. LatestGoes'
      <3> SUFFICES ASSUME NEW d \in Conn, NEW n \in Nat, <<d, n>> \in Sessions!Run, Goes(<<d, n>>)'
                   PROVE  conns'[d].pc = "read" /\ conns'[d].current = n
        BY DEF LatestGoes
      <3>1. <<d, n>> # run /\ Goes(<<d, n>>)
        BY <2>8
      <3>2. conns[d].pc = "read" /\ conns[d].current = n
        BY <3>1 DEF SessionsInv, LatestGoes
      <3>3. d # c
        BY <2>1, <3>1, <3>2
      <3> QED
        BY <2>6, <3>2, <3>3
    <2> QED
      BY <2>6, <2>7, <2>8, <2>9, TicketsStay DEF SessionsInv
  <1> QED
    BY <1>2, <1>3

LEMMA StopsWaiting ==
    ASSUME SessionsInv, NEW c \in Conn, conns[c].pc = "stopping",
           conns' = [conns EXCEPT ![c].pc = conns[c].after, ![c].current = 0], UNCHANGED limiter
    PROVE  ConnsType' /\ PlacesInv' /\ \A d \in Conn : conns[d].pc = "read" => conns'[d] = conns[d]
  <1> DEFINE conn == [conns[c] EXCEPT !.pc = conns[c].after, !.current = 0]
  <1>1. ConnType(c, conns[c]) /\ conns' = [conns EXCEPT ![c] = conn] /\ MaxRuns[c] \in Nat
    BY JobsAssumption DEF SessionsInv, ConnsType
  <1>2. /\ DOMAIN conn = DOMAIN conns[c] /\ conn.pc = conns[c].after /\ conn.after = conns[c].after
        /\ conn.started = conns[c].started /\ conn.current = 0
    BY <1>1 DEF ConnType
  <1> HIDE DEF conn
  <1>3. ConnType(c, conn)
    BY <1>1, <1>2 DEF ConnType, ConnPc
  <1>4. ConnsType' /\ conns'[c] = conn /\ \A d \in Conn \ {c} : conns'[d] = conns[d]
    BY <1>1, <1>3, OneConn
  <1>5. conn.pc \in {"read", "start", "close"}
    BY <1>1, <1>2 DEF ConnType
  <1>6. PlacesInv'
    BY <1>4, <1>5, PlacesStay DEF WithPlace
  <1> QED
    BY <1>4, <1>6

LEMMA RunHasStoppedKeeps == ASSUME SessionsInv, NEW c \in Conn, Sessions!RunHasStopped(c) PROVE SessionsInv'
  <1>1. /\ conns[c].pc = "stopping" /\ UNCHANGED <<tickets, admitted, limiter, runs>>
        /\ conns' = [conns EXCEPT ![c].pc = conns[c].after, ![c].current = 0]
    BY DEF Sessions!RunHasStopped
  <1> QED
    BY <1>1, StopsWaiting, LatestStays, TicketsStay DEF SessionsInv

(* A step of one run that is not set going again. *)
LEMMA OneRun ==
    ASSUME SessionsInv, NEW r \in Sessions!Run, NEW run,
           runs' = [runs EXCEPT ![r] = run], RunOK(run),
           (run.pc \notin {"none", "done"} /\ ~run.cancelled) => Goes(r),
           \A d \in Conn : conns[d].pc = "read" => conns'[d] = conns[d]
    PROVE  RunsType' /\ LatestGoes'
  <1>1. DOMAIN runs' = Sessions!Run /\ runs'[r] = run /\ \A q \in Sessions!Run \ {r} : runs'[q] = runs[q]
    BY DEF SessionsInv, RunsType
  <1>2. RunsType'
    BY <1>1 DEF SessionsInv, RunsType
  <1>3. \A q \in Sessions!Run : Goes(q)' => Goes(q)
    BY <1>1 DEF Goes
  <1> QED
    BY <1>2, <1>3 DEF SessionsInv, LatestGoes

LEMMA StopTimesOutKeeps == ASSUME SessionsInv, NEW c \in Conn, Sessions!StopTimesOut(c) PROVE SessionsInv'
  <1>1. /\ conns[c].pc = "stopping" /\ UNCHANGED <<tickets, admitted, limiter>>
        /\ conns' = [conns EXCEPT ![c].pc = conns[c].after, ![c].current = 0]
    BY DEF Sessions!StopTimesOut
  <1>2. ConnsType' /\ PlacesInv' /\ \A d \in Conn : conns[d].pc = "read" => conns'[d] = conns[d]
    BY <1>1, StopsWaiting
  <1>3. PICK r \in Sessions!Run : r = <<c, conns[c].current>>
    <2>1. conns[c].current \in 1 .. MaxRuns[c]
      BY <1>1, JobsAssumption DEF SessionsInv, ConnsType, ConnType
    <2>2. <<c, conns[c].current>> \in Sessions!Run
      BY <2>1, RunOf
    <2> QED
      BY <2>2
  <1> DEFINE run == [runs[r] EXCEPT !.told = TRUE]
  <1>4. runs' = [runs EXCEPT ![r] = run]
    BY <1>3 DEF Sessions!StopTimesOut, Sessions!Current
  <1>5. RunOK(run) /\ run.pc = runs[r].pc /\ run.cancelled = runs[r].cancelled
    <2>1. RunOK(runs[r])
      BY DEF SessionsInv, RunsType
    <2> QED
      BY <2>1 DEF RunOK
  <1> HIDE DEF run
  <1>6. RunsType' /\ LatestGoes'
    BY <1>2, <1>4, <1>5, OneRun DEF Goes
  <1> QED
    BY <1>1, <1>2, <1>6, TicketsStay DEF SessionsInv

LEMMA NewRunKeeps == ASSUME SessionsInv, NEW c \in Conn, Sessions!NewRun(c) PROVE SessionsInv'
  <1>1. PICK n : n = conns[c].started + 1
    OBVIOUS
  <1> DEFINE conn == [conns[c] EXCEPT !.pc = "read", !.started = n, !.current = n]
             run == [runs[<<c, n>>] EXCEPT !.pc = "generate"]
  <1>2. /\ conns[c].pc = "start" /\ conns' = [conns EXCEPT ![c] = conn] /\ runs' = [runs EXCEPT ![<<c, n>>] = run]
        /\ UNCHANGED <<tickets, admitted, limiter>>
    BY <1>1 DEF Sessions!NewRun
  <1>3. ConnType(c, conns[c]) /\ MaxRuns[c] \in Nat
    BY JobsAssumption DEF SessionsInv, ConnsType
  <1>4. n \in 1 .. MaxRuns[c]
    BY <1>1, <1>2, <1>3 DEF ConnType
  <1>5. <<c, n>> \in Sessions!Run
    BY <1>4, RunOf
  <1>6. /\ DOMAIN conn = DOMAIN conns[c] /\ conn.pc = "read" /\ conn.after = conns[c].after
        /\ conn.started = n /\ conn.current = n
    BY <1>3 DEF ConnType
  <1>7. RunOK(run) /\ run.pc = "generate"
    <2>1. RunOK(runs[<<c, n>>])
      BY <1>5 DEF SessionsInv, RunsType
    <2> QED
      BY <2>1 DEF RunOK, RunPc
  <1> HIDE DEF conn, run
  <1>8. ConnType(c, conn)
    BY <1>3, <1>4, <1>6 DEF ConnType, ConnPc
  <1>9. ConnsType' /\ conns'[c] = conn /\ \A d \in Conn \ {c} : conns'[d] = conns[d]
    BY <1>2, <1>8, OneConn
  <1>10. PlacesInv'
    BY <1>2, <1>6, <1>9, PlacesStay DEF WithPlace
  <1>11. /\ DOMAIN runs' = Sessions!Run /\ runs'[<<c, n>>] = run
         /\ \A r \in Sessions!Run \ {<<c, n>>} : runs'[r] = runs[r]
    BY <1>2, <1>5 DEF SessionsInv, RunsType
  <1>12. RunsType'
    BY <1>5, <1>7, <1>11 DEF SessionsInv, RunsType
  <1>13. LatestGoes'
    <2> SUFFICES ASSUME NEW d \in Conn, NEW m \in Nat, <<d, m>> \in Sessions!Run, Goes(<<d, m>>)'
                 PROVE  conns'[d].pc = "read" /\ conns'[d].current = m
      BY DEF LatestGoes
    <2>1. CASE <<d, m>> = <<c, n>>
      BY <1>6, <1>9, <2>1
    <2>2. CASE <<d, m>> # <<c, n>>
      <3>1. Goes(<<d, m>>)
        BY <1>11, <2>2 DEF Goes
      <3>2. conns[d].pc = "read" /\ conns[d].current = m
        BY <3>1 DEF SessionsInv, LatestGoes
      <3> QED
        BY <1>2, <1>9, <3>2
    <2> QED
      BY <2>1, <2>2
  <1> QED
    BY <1>2, <1>9, <1>10, <1>12, <1>13, TicketsStay DEF SessionsInv

(* What a run does in its own goroutine: it goes on, and no image is late    *)
(* but the one it was about to write when it was cancelled.                  *)
LEMMA RunMoves ==
    ASSUME SessionsInv, NEW r \in Sessions!Run, runs[r].pc \notin {"none", "done"},
           NEW run, runs' = [runs EXCEPT ![r] = run], RunOK(run), run.cancelled = runs[r].cancelled,
           UNCHANGED <<tickets, admitted, limiter, conns>>
    PROVE  SessionsInv'
  <1>1. RunsType' /\ LatestGoes'
    BY OneRun DEF Goes
  <1>2. ConnsType' /\ PlacesInv'
    BY PlacesStay DEF SessionsInv, ConnsType
  <1> QED
    BY <1>1, <1>2, TicketsStay DEF SessionsInv

LEMMA RunEnds ==
    ASSUME SessionsInv, NEW r \in Sessions!Run, runs[r].pc \notin {"none", "done"}, Sessions!Ends(r),
           UNCHANGED <<tickets, admitted, limiter, conns>>
    PROVE  SessionsInv'
  <1> DEFINE run == [runs[r] EXCEPT !.pc = "done", !.told = TRUE, !.left = 0]
  <1>1. RunOK(runs[r])
    BY DEF SessionsInv, RunsType
  <1>2. RunOK(run) /\ run.cancelled = runs[r].cancelled
    BY <1>1 DEF RunOK, RunPc
  <1>3. runs' = [runs EXCEPT ![r] = run]
    BY DEF Sessions!Ends
  <1> HIDE DEF run
  <1> QED
    BY <1>2, <1>3, RunMoves

LEMMA RunTurns ==
    ASSUME SessionsInv, NEW r \in Sessions!Run, runs[r].pc \notin {"none", "done"}, NEW pc \in RunPc,
           runs' = [runs EXCEPT ![r].pc = pc], pc = "write" => ~runs[r].cancelled,
           UNCHANGED <<tickets, admitted, limiter, conns>>
    PROVE  SessionsInv'
  <1> DEFINE run == [runs[r] EXCEPT !.pc = pc]
  <1>1. RunOK(runs[r])
    BY DEF SessionsInv, RunsType
  <1>2. run.pc = pc /\ run.cancelled = runs[r].cancelled /\ run.late = runs[r].late /\ DOMAIN run = DOMAIN runs[r]
    BY <1>1 DEF RunOK
  <1>3. runs' = [runs EXCEPT ![r] = run]
    OBVIOUS
  <1> HIDE DEF run
  <1>4. RunOK(run)
    BY <1>1, <1>2 DEF RunOK
  <1> QED
    BY <1>2, <1>3, <1>4, RunMoves

LEMMA RunStepKeeps == ASSUME SessionsInv, NEW r \in Sessions!Run, Sessions!RunStep(r) PROVE SessionsInv'
  <1>1. RunOK(runs[r])
    BY DEF SessionsInv, RunsType
  <1>2. runs[r].pc \notin {"none", "done"} /\ UNCHANGED <<tickets, admitted, limiter, conns>>
    BY DEF Sessions!RunStep, Sessions!RunOnly, Sessions!Generated, Sessions!GenerationFails,
       Sessions!GenerationCancelled, Sessions!CheckCancelled, Sessions!ForwardEvent, Sessions!RunCompleted
  <1>3. CASE Sessions!Generated(r)
    <2>1. PICK n \in 0 .. MaxEvents : runs' = [runs EXCEPT ![r].pc = "forward", ![r].left = n]
      BY <1>3 DEF Sessions!Generated
    <2> DEFINE run == [runs[r] EXCEPT !.pc = "forward", !.left = n]
    <2>2. RunOK(run) /\ run.cancelled = runs[r].cancelled
      BY <1>1 DEF RunOK, RunPc
    <2>3. runs' = [runs EXCEPT ![r] = run]
      BY <2>1
    <2> HIDE DEF run
    <2> QED
      BY <1>2, <2>2, <2>3, RunMoves
  <1>4. CASE Sessions!GenerationFails(r) \/ Sessions!GenerationCancelled(r) \/ Sessions!RunCompleted(r)
    BY <1>2, <1>4, RunEnds DEF Sessions!GenerationFails, Sessions!GenerationCancelled, Sessions!RunCompleted
  <1>5. CASE Sessions!CheckCancelled(r)
    <2>1. CASE Sessions!Ends(r)
      BY <1>2, <2>1, RunEnds
    <2>2. CASE ~runs[r].cancelled /\ runs' = [runs EXCEPT ![r].pc = "write"]
      BY <1>2, <2>2, RunTurns DEF RunPc
    <2>3. CASE runs' = [runs EXCEPT ![r].pc = "done"] \/ runs' = [runs EXCEPT ![r].pc = "complete"]
      BY <1>2, <2>3, RunTurns DEF RunPc
    <2>5. CASE runs[r].left # 0 /\ runs[r].cancelled
      BY <1>5, <2>1, <2>5 DEF Sessions!CheckCancelled
    <2>6. CASE runs[r].left # 0 /\ ~runs[r].cancelled
      BY <1>5, <2>2, <2>6 DEF Sessions!CheckCancelled
    <2>7. CASE runs[r].left = 0
      <3>1. runs' = [runs EXCEPT ![r].pc = IF runs[r].cancelled THEN "done" ELSE "complete"]
        BY <1>5, <2>7 DEF Sessions!CheckCancelled
      <3> QED
        BY <2>3, <3>1
    <2> QED
      BY <2>5, <2>6, <2>7
  <1>6. CASE Sessions!ForwardEvent(r)
    <2>1. ASSUME ~Sessions!Ends(r) PROVE SessionsInv'
      <3>1. PICK left, late : /\ late = IF runs[r].cancelled THEN 1 ELSE 0
                              /\ runs' = [runs EXCEPT ![r] = [runs[r] EXCEPT !.pc = "forward", !.left = left, !.late = late]]
        <4>1. runs[r].pc = "write" /\ runs[r].late = 0
          BY <1>1, <1>6 DEF Sessions!ForwardEvent, RunOK
        <4>2. PICK left : left = runs[r].left - 1
          OBVIOUS
        <4>3. PICK late : late = IF runs[r].cancelled THEN runs[r].late + 1 ELSE runs[r].late
          OBVIOUS
        <4>4. runs' = [runs EXCEPT ![r] = [runs[r] EXCEPT !.pc = "forward", !.left = left, !.late = late]]
          BY <1>1, <1>6, <2>1, <4>2, <4>3 DEF Sessions!ForwardEvent, RunOK
        <4>5. late = IF runs[r].cancelled THEN 1 ELSE 0
          BY <4>1, <4>3
        <4> QED
          BY <4>4, <4>5
      <3> DEFINE run == [runs[r] EXCEPT !.pc = "forward", !.left = left, !.late = late]
      <3>2. DOMAIN run = DOMAIN runs[r] /\ run.pc = "forward" /\ run.late = late /\ run.cancelled = runs[r].cancelled
        BY <1>1 DEF RunOK
      <3>3. runs' = [runs EXCEPT ![r] = run]
        BY <3>1
      <3> HIDE DEF run
      <3>4. RunOK(run)
        BY <1>1, <3>1, <3>2 DEF RunOK, RunPc
      <3> QED
        BY <1>2, <3>2, <3>3, <3>4, RunMoves
    <2> QED
      BY <1>2, <2>1, RunEnds
  <1> QED
    BY <1>3, <1>4, <1>5, <1>6 DEF Sessions!RunStep

LEMMA SessionsStep == ASSUME SessionsInv, Sessions!Next PROVE SessionsInv'
  <1> USE DEF ConnPc, WithPlace
  <1>1. ASSUME NEW c \in Conn, Sessions!KeyGiven(c) \/ Sessions!Hijack(c) PROVE SessionsInv'
    <2>1. CASE Sessions!KeyGiven(c)
      BY <2>1, MoveConnKeeps DEF Sessions!KeyGiven
    <2>2. CASE Sessions!Hijack(c)
      BY <2>2, MoveConnKeeps DEF Sessions!Hijack
    <2> QED
      BY <1>1, <2>1, <2>2
  <1>2. ASSUME NEW c \in Conn, Sessions!HandleStart(c) \/ Sessions!HandleStop(c) \/ Sessions!ReadFails(c)
        PROVE  SessionsInv'
    BY <1>2, StopRunKeeps DEF Sessions!HandleStart, Sessions!HandleStop, Sessions!ReadFails
  <1>3. ASSUME NEW c \in Conn, Sessions!HandlerStep(c) PROVE SessionsInv'
    BY <1>1, <1>3, AcquireKeeps, GivesBackKeeps, RunHasStoppedKeeps, StopTimesOutKeeps, NewRunKeeps DEF Sessions!HandlerStep
  <1> QED
    BY <1>1, <1>2, <1>3, IssueKeeps, TicketTickKeeps, ConsumeKeeps, RunStepKeeps DEF Sessions!Next

LEMMA SessionsInit == Init => SessionsInv
  <1> SUFFICES ASSUME Init PROVE SessionsInv
    OBVIOUS
  <1>1. /\ tickets = [t \in Ticket |-> -1] /\ admitted = [t \in Ticket |-> 0]
        /\ limiter = [total |-> 0, byIP |-> [ip \in Sessions!IPs |-> 0]]
        /\ runs = [r \in Sessions!Run |-> Sessions!NoRun]
    BY DEF Init, Sessions!Init, Sessions!Unissued
  <1> PICK crowd \in Crowds : conns = Sessions!Coming(crowd)
    BY DEF Init, Sessions!Init
  <1>2. \A c \in Conn : conns[c].pc \in {"new", "away"} /\ ConnType(c, conns[c])
    <2> SUFFICES ASSUME NEW c \in Conn PROVE conns[c].pc \in {"new", "away"} /\ ConnType(c, conns[c])
      OBVIOUS
    <2>1. PICK pc \in {"new", "away"} : conns[c] = [pc |-> pc, started |-> 0, current |-> 0, after |-> "read"]
      BY DEF Sessions!Coming
    <2> QED
      BY <2>1, JobsAssumption DEF ConnType, ConnPc
  <1>3. ConnsType
    BY <1>2 DEF ConnsType, Sessions!Coming
  <1>4. \A r \in Sessions!Run : runs[r].pc = "none" /\ RunOK(runs[r])
    BY <1>1 DEF Sessions!NoRun, RunOK, RunPc
  <1>5. RunsType /\ LatestGoes
    BY <1>1, <1>4 DEF RunsType, LatestGoes, Goes
  <1>6. Placed = {} /\ \A ip : PlacedFrom(ip) = {}
    BY <1>2 DEF Placed, PlacedFrom, WithPlace
  <1>7. /\ DOMAIN limiter = {"total", "byIP"} /\ DOMAIN limiter.byIP = Sessions!IPs /\ limiter.total = 0
        /\ \A ip \in Sessions!IPs : limiter.byIP[ip] = 0
    BY <1>1
  <1>8. PlacesInv
    BY <1>6, <1>7, FS_EmptySet, JobsAssumption DEF PlacesInv
  <1>9. TicketsInv
    BY <1>1 DEF TicketsInv
  <1> QED
    BY <1>3, <1>5, <1>8, <1>9 DEF SessionsInv

(* Places, tickets and runs are each held by one at a time, for any number   *)
(* of connections, addresses, tickets and runs: no place is lost or given    *)
(* back twice, a ticket lets one connection in, all runs of a connection but *)
(* the latest are cancelled, and a cancelled run sends one image more at     *)
(* most (webUIImagineLimiter, stopRun, forwardImagineEvents).                *)
THEOREM SessionsCount == Spec => []SessionsAreCounted
  <1>1. SessionsInv /\ [Next]_vars => SessionsInv'
    <2> SUFFICES ASSUME SessionsInv, [Next]_vars PROVE SessionsInv'
      OBVIOUS
    <2>1. CASE UNCHANGED sessionVars
      <3>1. UNCHANGED <<tickets, admitted, limiter, conns, runs>>
        BY <2>1 DEF sessionVars
      <3>2. ConnsType'
        BY <3>1 DEF SessionsInv, ConnsType
      <3> QED
        BY <3>1, <3>2, PlacesStay, LatestStays, TicketsStay DEF SessionsInv
    <2> QED
      BY <2>1, SessionsStep DEF Next, vars, InDispatch, InVideo, InBatch, InSessions, InCache
  <1>2. SessionsInv => SessionsAreCounted
    <2> SUFFICES ASSUME SessionsInv PROVE SessionsAreCounted
      OBVIOUS
    <2>1. \A S : Sessions!Cardinality(S) = Cardinality(S)
      BY DEF Sessions!Cardinality, Cardinality
    <2>2. limiter.total \in 0 .. MaxConnections
      BY PlacedFinite, JobsAssumption DEF SessionsInv, PlacesInv
    <2>3. Sessions!TypeOK
      BY <2>2 DEF SessionsInv, ConnsType, ConnType, RunsType, RunOK, ConnPc, RunPc, Sessions!TypeOK
    <2>4. Placed = Sessions!Holders /\ \A ip : PlacedFrom(ip) = {c \in Sessions!Holders : IpOf[c] = ip}
      BY DEF Placed, PlacedFrom, WithPlace, Sessions!Holders
    <2>5. Sessions!PlacesAreCounted
      BY <2>1, <2>4 DEF SessionsInv, PlacesInv, Sessions!PlacesAreCounted
    <2>6. Sessions!TicketsAdmitOnce
      BY DEF SessionsInv, TicketsInv, Sessions!TicketsAdmitOnce
    <2>7. Sessions!OnlyLatestRuns
      <3>0. \A r \in Sessions!Run : runs[r].late <= 1
        BY DEF SessionsInv, RunsType, RunOK
      <3> SUFFICES ASSUME NEW c \in Conn, NEW n \in Sessions!Uncancelled(c)
                   PROVE  n \in (IF conns[c].pc = "closed" THEN {} ELSE {conns[c].current})
        BY <3>0 DEF Sessions!OnlyLatestRuns
      <3>1. n \in 1 .. MaxRuns[c] /\ Goes(<<c, n>>)
        BY DEF Sessions!Uncancelled, Goes
      <3>2. n \in Nat /\ <<c, n>> \in Sessions!Run
        BY <3>1, RunOf, JobsAssumption
      <3>3. conns[c].pc = "read" /\ conns[c].current = n
        BY <3>1, <3>2 DEF SessionsInv, LatestGoes
      <3> QED
        BY <3>3
    <2> QED
      BY <2>3, <2>5, <2>6, <2>7 DEF SessionsAreCounted, Sessions!SessionsAreCounted
  <1> QED
    BY <1>1, <1>2, SessionsInit, PTL DEF Spec

-----------------------------------------------------------------------------
(* Induction over the natural numbers, with a set in the place of the        *)
(* library's operator: a set of numbers that is not empty has a least one.   *)
LEMMA MinimalElement ==
    ASSUME NEW R, IsWellFoundedOn(R, Nat)
    PROVE  \A T : T \subseteq Nat /\ T # {} => \E m \in T : \A n \in T : ~(<<n, m>> \in R)
  <1> SUFFICES ASSUME NEW T, T \subseteq Nat, T # {} PROVE \E m \in T : \A n \in T : ~(<<n, m>> \in R)
    OBVIOUS
  <1> QED
    BY WFMin

LEMMA LeastOfRelation ==
    ASSUME NEW R, IsWellFoundedOn(R, Nat), \A x, y \in Nat : x < y => <<x, y>> \in R
    PROVE  \A T : T \subseteq Nat /\ T # {} => \E m \in T : \A n \in T : m <= n
  <1>1. \A T : T \subseteq Nat /\ T # {} => \E m \in T : \A n \in T : ~(<<n, m>> \in R)
    BY MinimalElement
  <1> SUFFICES ASSUME NEW T, T \subseteq Nat, T # {} PROVE \E m \in T : \A n \in T : m <= n
    OBVIOUS
  <1>2. PICK m \in T : \A n \in T : ~(<<n, m>> \in R)
    BY <1>1
  <1>3. ASSUME NEW n \in T, n < m PROVE FALSE
    <2>1. m \in Nat /\ n \in Nat
      OBVIOUS
    <2>2. <<n, m>> \in R
      BY <1>3, <2>1
    <2> QED
      BY <1>2, <2>2
  <1> QED
    BY <1>3

LEMMA LeastNumber == \A T : T \subseteq Nat /\ T # {} => \E m \in T : \A n \in T : m <= n
  <1>1. IsWellFoundedOn(OpToRel(<, Nat), Nat)
    BY NatLessThanWellFounded
  <1>2. \A x, y \in Nat : x < y => <<x, y>> \in OpToRel(<, Nat)
    BY DEF OpToRel
  <1>3. \E R : IsWellFoundedOn(R, Nat) /\ \A x, y \in Nat : x < y => <<x, y>> \in R
    BY <1>1, <1>2, Zenon
  <1> QED
    BY <1>3, LeastOfRelation

LEMMA InductionOverNat ==
    \A S : 0 \in S /\ (\A n \in Nat : n \in S => n + 1 \in S) => Nat \subseteq S
  <1> SUFFICES ASSUME NEW S, 0 \in S, \A n \in Nat : n \in S => n + 1 \in S, ~(Nat \subseteq S) PROVE FALSE
    OBVIOUS
  <1>1. Nat \ S \subseteq Nat /\ Nat \ S # {}
    OBVIOUS
  <1>2. PICK m \in Nat \ S : \A n \in Nat \ S : m <= n
    BY <1>1, LeastNumber
  <1>3. m \in Nat /\ m # 0
    BY <1>2
  <1>4. m - 1 \in Nat /\ ~(m <= m - 1) /\ (m - 1) + 1 = m
    BY <1>3
  <1>5. m - 1 \in S
    BY <1>2, <1>4
  <1> QED
    BY <1>2, <1>4, <1>5

-----------------------------------------------------------------------------
(* Lists of names, and what their files take.                                *)

KeptSteps(seq, T, after, n) ==
    after = [i \in 0 .. n |-> IF i = 0 THEN <<>> ELSE IF seq[i] \in T THEN Append(after[i - 1], seq[i]) ELSE after[i - 1]]

LEMMA KeptStepsExist ==
    ASSUME NEW seq, NEW T
    PROVE  \A n \in Nat : \E after : KeptSteps(seq, T, after, n)
  <1> DEFINE S == {n \in Nat : \E after : KeptSteps(seq, T, after, n)}
  <1>1. 0 \in S
    <2> DEFINE after == [i \in 0 .. 0 |-> <<>>]
    <2>1. KeptSteps(seq, T, after, 0)
      BY DEF KeptSteps
    <2> HIDE DEF after
    <2> QED
      BY <2>1
  <1>2. ASSUME NEW n \in Nat, n \in S PROVE n + 1 \in S
    <2>1. PICK old : KeptSteps(seq, T, old, n)
      BY <1>2
    <2> DEFINE next == IF seq[n + 1] \in T THEN Append(old[n], seq[n + 1]) ELSE old[n]
    <2> DEFINE after == [i \in 0 .. n + 1 |-> IF i = n + 1 THEN next ELSE old[i]]
    <2>2. \A i \in 0 .. n : after[i] = old[i]
      OBVIOUS
    <2>3. \A i \in 0 .. n + 1 : after[i] = IF i = 0 THEN <<>> ELSE IF seq[i] \in T THEN Append(after[i - 1], seq[i]) ELSE after[i - 1]
      <3> SUFFICES ASSUME NEW i \in 0 .. n + 1
                   PROVE  after[i] = IF i = 0 THEN <<>> ELSE IF seq[i] \in T THEN Append(after[i - 1], seq[i]) ELSE after[i - 1]
        OBVIOUS
      <3>1. CASE i = n + 1
        <4>1. after[i] = next /\ i - 1 = n /\ i # 0
          BY <3>1
        <4>2. after[i - 1] = old[n]
          BY <2>2, <4>1
        <4> QED
          BY <3>1, <4>1, <4>2
      <3>2. CASE i = 0
        <4>1. i \in 0 .. n
          BY <3>2
        <4>2. old[i] = <<>>
          BY <2>1, <3>2, <4>1 DEF KeptSteps
        <4> QED
          BY <2>2, <3>2, <4>1, <4>2
      <3>3. CASE i # n + 1 /\ i # 0
        <4>1. i \in 0 .. n /\ i - 1 \in 0 .. n
          BY <3>3
        <4>2. old[i] = IF seq[i] \in T THEN Append(old[i - 1], seq[i]) ELSE old[i - 1]
          BY <2>1, <3>3, <4>1 DEF KeptSteps
        <4>3. after[i] = old[i] /\ after[i - 1] = old[i - 1]
          BY <2>2, <4>1
        <4> QED
          BY <3>3, <4>2, <4>3
      <3> QED
        BY <3>1, <3>2, <3>3
    <2>4. after = [i \in 0 .. n + 1 |-> after[i]]
      OBVIOUS
    <2> HIDE DEF after
    <2>5. KeptSteps(seq, T, after, n + 1)
      BY <2>3, <2>4 DEF KeptSteps
    <2> QED
      BY <2>5
  <1> HIDE DEF S
  <1>3. Nat \subseteq S
    BY <1>1, <1>2, InductionOverNat
  <1> QED
    BY <1>3 DEF S

LEMMA KeptStepsAre ==
    ASSUME NEW seq, NEW T, NEW n \in Nat, NEW after, KeptSteps(seq, T, after, n)
    PROVE  /\ after[0] = <<>>
           /\ \A i \in 0 .. n : i # 0 => after[i] = IF seq[i] \in T THEN Append(after[i - 1], seq[i]) ELSE after[i - 1]
  <1>1. after[0] = <<>>
    BY DEF KeptSteps
  <1>2. ASSUME NEW i \in 0 .. n, i # 0
        PROVE  after[i] = IF seq[i] \in T THEN Append(after[i - 1], seq[i]) ELSE after[i - 1]
    BY <1>2 DEF KeptSteps
  <1> QED
    BY <1>1, <1>2

LEMMA KeptBySteps ==
    ASSUME NEW seq, NEW T, Len(seq) \in Nat
    PROVE  \E after : Cache!Kept(seq, T) = after[Len(seq)] /\ KeptSteps(seq, T, after, Len(seq))
  <1> DEFINE Steps == CHOOSE after : KeptSteps(seq, T, after, Len(seq))
  <1>1. \E after : KeptSteps(seq, T, after, Len(seq))
    BY KeptStepsExist
  <1>2. KeptSteps(seq, T, Steps, Len(seq))
    BY <1>1
  <1>3. Cache!Kept(seq, T) = Steps[Len(seq)]
    BY DEF Cache!Kept, KeptSteps
  <1> HIDE DEF Steps
  <1> QED
    BY <1>2, <1>3

SumSteps(seq, after, n) ==
    after = [i \in 0 .. n |-> IF i = 0 THEN 0 ELSE after[i - 1] + Size[seq[i]]]

LEMMA SumStepsExist ==
    ASSUME NEW seq
    PROVE  \A n \in Nat : \E after : SumSteps(seq, after, n)
  <1> DEFINE S == {n \in Nat : \E after : SumSteps(seq, after, n)}
  <1>1. 0 \in S
    <2> DEFINE after == [i \in 0 .. 0 |-> 0]
    <2>1. SumSteps(seq, after, 0)
      BY DEF SumSteps
    <2> HIDE DEF after
    <2> QED
      BY <2>1
  <1>2. ASSUME NEW n \in Nat, n \in S PROVE n + 1 \in S
    <2>1. PICK old : SumSteps(seq, old, n)
      BY <1>2
    <2> DEFINE next == old[n] + Size[seq[n + 1]]
    <2> DEFINE after == [i \in 0 .. n + 1 |-> IF i = n + 1 THEN next ELSE old[i]]
    <2>2. \A i \in 0 .. n : after[i] = old[i]
      OBVIOUS
    <2>3. \A i \in 0 .. n + 1 : after[i] = IF i = 0 THEN 0 ELSE after[i - 1] + Size[seq[i]]
      <3> SUFFICES ASSUME NEW i \in 0 .. n + 1
                   PROVE  after[i] = IF i = 0 THEN 0 ELSE after[i - 1] + Size[seq[i]]
        OBVIOUS
      <3>1. CASE i = n + 1
        <4>1. after[i] = next /\ i - 1 = n /\ i # 0
          BY <3>1
        <4>2. after[i - 1] = old[n]
          BY <2>2, <4>1
        <4> QED
          BY <3>1, <4>1, <4>2
      <3>2. CASE i = 0
        <4>1. i \in 0 .. n
          BY <3>2
        <4>2. old[i] = 0
          BY <2>1, <3>2, <4>1 DEF SumSteps
        <4> QED
          BY <2>2, <3>2, <4>1, <4>2
      <3>3. CASE i # n + 1 /\ i # 0
        <4>1. i \in 0 .. n /\ i - 1 \in 0 .. n
          BY <3>3
        <4>2. old[i] = old[i - 1] + Size[seq[i]]
          BY <2>1, <3>3, <4>1 DEF SumSteps
        <4>3. after[i] = old[i] /\ after[i - 1] = old[i - 1]
          BY <2>2, <4>1
        <4> QED
          BY <3>3, <4>2, <4>3
      <3> QED
        BY <3>1, <3>2, <3>3
    <2>4. after = [i \in 0 .. n + 1 |-> after[i]]
      OBVIOUS
    <2> HIDE DEF after
    <2>5. SumSteps(seq, after, n + 1)
      BY <2>3, <2>4 DEF SumSteps
    <2> QED
      BY <2>5
  <1> HIDE DEF S
  <1>3. Nat \subseteq S
    BY <1>1, <1>2, InductionOverNat
  <1> QED
    BY <1>3 DEF S

LEMMA SumStepsAre ==
    ASSUME NEW seq, NEW n \in Nat, NEW after, SumSteps(seq, after, n)
    PROVE  /\ after[0] = 0
           /\ \A i \in 0 .. n : i # 0 => after[i] = after[i - 1] + Size[seq[i]]
  BY DEF SumSteps

LEMMA UsageBySteps ==
    ASSUME NEW seq, Len(seq) \in Nat
    PROVE  \E after : Cache!UsageBytes(seq) = after[Len(seq)] /\ SumSteps(seq, after, Len(seq))
  <1> DEFINE Steps == CHOOSE after : SumSteps(seq, after, Len(seq))
  <1>1. \E after : SumSteps(seq, after, Len(seq))
    BY SumStepsExist
  <1>2. SumSteps(seq, Steps, Len(seq))
    BY <1>1
  <1>3. Cache!UsageBytes(seq) = Steps[Len(seq)]
    BY DEF Cache!UsageBytes, SumSteps
  <1> HIDE DEF Steps
  <1> QED
    BY <1>2, <1>3

IsList(seq) == seq \in Seq(Name) /\ Cache!Distinct(seq)
Members(seq) == {seq[i] : i \in 1 .. Len(seq)}

LEMMA InMembers ==
    ASSUME NEW seq \in Seq(Name), NEW x
    PROVE  Cache!In(x, seq) <=> x \in Members(seq)
  BY DEF Cache!In, Members

LEMMA EmptyList == IsList(<<>>) /\ Members(<<>>) = {}
  BY DEF IsList, Members, Cache!Distinct

LEMMA AppendedList ==
    ASSUME NEW seq \in Seq(Name), NEW x \in Name
    PROVE  /\ Append(seq, x) \in Seq(Name)
           /\ Members(Append(seq, x)) = Members(seq) \cup {x}
           /\ IsList(seq) /\ x \notin Members(seq) => IsList(Append(seq, x))
  <1>0. PICK n \in Nat : n = Len(seq)
    OBVIOUS
  <1>1. PICK more : more = Append(seq, x)
    OBVIOUS
  <1>2. /\ more \in Seq(Name) /\ Len(more) = n + 1 /\ more[n + 1] = x
        /\ \A i \in 1 .. n : more[i] = seq[i]
    BY <1>0, <1>1
  <1>3. \A i \in 1 .. n + 1 : i \in 1 .. n \/ i = n + 1
    OBVIOUS
  <1>4. Members(more) = Members(seq) \cup {x}
    BY <1>0, <1>2, <1>3 DEF Members
  <1>5. ASSUME IsList(seq), x \notin Members(seq) PROVE Cache!Distinct(more)
    <2>1. \A i \in 1 .. n : seq[i] # x
      BY <1>0, <1>5 DEF Members
    <2>2. \A i, j \in 1 .. n : seq[i] = seq[j] => i = j
      BY <1>0, <1>5 DEF IsList, Cache!Distinct
    <2>3. DOMAIN more = 1 .. n + 1
      BY <1>2
    <2> QED
      BY <1>2, <1>3, <2>1, <2>2, <2>3 DEF Cache!Distinct
  <1> QED
    BY <1>0, <1>1, <1>2, <1>4, <1>5 DEF IsList

LEMMA TailOfList ==
    ASSUME NEW seq, IsList(seq), seq # <<>>
    PROVE  /\ IsList(Tail(seq)) /\ Head(seq) \in Name
           /\ Members(seq) = Members(Tail(seq)) \cup {Head(seq)} /\ Head(seq) \notin Members(Tail(seq))
  <1>0. PICK n \in Nat : n = Len(seq)
    BY DEF IsList
  <1>1. PICK rest : rest = Tail(seq)
    OBVIOUS
  <1>2. /\ n # 0 /\ rest \in Seq(Name) /\ Len(rest) = n - 1
        /\ \A i \in 1 .. n - 1 : rest[i] = seq[i + 1]
        /\ Head(seq) = seq[1] /\ Head(seq) \in Name
    BY <1>0, <1>1 DEF IsList
  <1>3. \A i, j \in 1 .. n : seq[i] = seq[j] => i = j
    BY <1>0 DEF IsList, Cache!Distinct
  <1>4. \A i \in 1 .. n : i = 1 \/ (i - 1 \in 1 .. n - 1 /\ seq[i] = rest[i - 1])
    BY <1>2
  <1>5. Cache!Distinct(rest)
    <2> SUFFICES ASSUME NEW i \in 1 .. n - 1, NEW j \in 1 .. n - 1, rest[i] = rest[j] PROVE i = j
      BY <1>2 DEF Cache!Distinct
    <2>1. i + 1 \in 1 .. n /\ j + 1 \in 1 .. n /\ seq[i + 1] = seq[j + 1]
      BY <1>2
    <2>2. i + 1 = j + 1
      BY <1>3, <2>1
    <2> QED
      BY <2>2
  <1>6. Members(seq) = Members(rest) \cup {seq[1]}
    <2>1. \A x \in Members(rest) : x \in Members(seq)
      BY <1>0, <1>2 DEF Members
    <2>2. ASSUME NEW x \in Members(seq) PROVE x \in Members(rest) \/ x = seq[1]
      <3>1. PICK i \in 1 .. n : x = seq[i]
        BY <1>0 DEF Members
      <3>2. CASE i - 1 \in 1 .. n - 1 /\ seq[i] = rest[i - 1]
        <4>1. rest[i - 1] \in Members(rest)
          BY <1>2, <3>2 DEF Members
        <4> QED
          BY <3>1, <3>2, <4>1
      <3> QED
        BY <1>4, <3>1, <3>2
    <2>3. seq[1] \in Members(seq)
      BY <1>0, <1>2 DEF Members
    <2> QED
      BY <2>1, <2>2, <2>3
  <1>7. seq[1] \notin Members(rest)
    <2> SUFFICES ASSUME NEW i \in 1 .. n - 1, rest[i] = seq[1] PROVE FALSE
      BY <1>2 DEF Members
    <2>1. i + 1 \in 1 .. n /\ 1 \in 1 .. n /\ seq[i + 1] = seq[1]
      BY <1>2
    <2> QED
      BY <1>3, <2>1
  <1> QED
    BY <1>1, <1>2, <1>5, <1>6, <1>7 DEF IsList

LEMMA KeptIsList ==
    ASSUME NEW seq, IsList(seq), NEW T, NEW kept, kept = Cache!Kept(seq, T)
    PROVE  IsList(kept) /\ Members(kept) = Members(seq) \cap T
  <1>1. PICK n \in Nat : n = Len(seq)
    BY DEF IsList
  <1>2. /\ \A i \in 1 .. n : seq[i] \in Name
        /\ \A i, j \in 1 .. n : seq[i] = seq[j] => i = j
    BY <1>1 DEF IsList, Cache!Distinct
  <1>3. PICK f : kept = f[n] /\ KeptSteps(seq, T, f, n)
    BY <1>1, KeptBySteps
  <1>4. /\ f[0] = <<>>
        /\ \A i \in 0 .. n : i # 0 => f[i] = IF seq[i] \in T THEN Append(f[i - 1], seq[i]) ELSE f[i - 1]
    BY <1>3, KeptStepsAre
  <1> DEFINE First(i) == {seq[j] : j \in 1 .. i}
  <1> DEFINE S == {i \in Nat : i <= n => IsList(f[i]) /\ Members(f[i]) = First(i) \cap T}
  <1>5. 0 \in S
    <2>1. First(0) = {}
      OBVIOUS
    <2> QED
      BY <1>4, <2>1, EmptyList
  <1>6. ASSUME NEW i \in Nat, i \in S PROVE i + 1 \in S
    <2> SUFFICES ASSUME i + 1 <= n PROVE IsList(f[i + 1]) /\ Members(f[i + 1]) = First(i + 1) \cap T
      OBVIOUS
    <2>1. PICK x \in Name : x = seq[i + 1]
      BY <1>2
    <2>2. IsList(f[i]) /\ Members(f[i]) = First(i) \cap T
      BY <1>6
    <2>3. i + 1 \in 0 .. n /\ i + 1 # 0 /\ (i + 1) - 1 = i /\ i + 1 \in 1 .. n
      OBVIOUS
    <2>4. f[i + 1] = IF x \in T THEN Append(f[i], x) ELSE f[i]
      BY <1>4, <2>1, <2>3
    <2>5. \A j \in 1 .. i + 1 : j \in 1 .. i \/ j = i + 1
      OBVIOUS
    <2>6. First(i + 1) = First(i) \cup {x}
      BY <2>1, <2>3, <2>5
    <2>7. x \notin First(i)
      <3> SUFFICES ASSUME NEW j \in 1 .. i, seq[j] = x PROVE FALSE
        OBVIOUS
      <3>1. j \in 1 .. n /\ j # i + 1
        OBVIOUS
      <3> QED
        BY <1>2, <2>1, <2>3, <3>1
    <2> HIDE DEF First
    <2>8. CASE x \in T
      <3>1. f[i + 1] = Append(f[i], x) /\ x \notin Members(f[i]) /\ f[i] \in Seq(Name)
        BY <2>2, <2>4, <2>7, <2>8 DEF IsList
      <3>2. IsList(f[i + 1]) /\ Members(f[i + 1]) = Members(f[i]) \cup {x}
        BY <2>2, <3>1, AppendedList
      <3> QED
        BY <2>2, <2>6, <2>8, <3>2
    <2>9. CASE x \notin T
      BY <2>2, <2>4, <2>6, <2>9
    <2> QED
      BY <2>8, <2>9
  <1>7. First(n) = Members(seq)
    BY <1>1 DEF Members
  <1> HIDE DEF S, First
  <1>8. Nat \subseteq S
    BY <1>5, <1>6, InductionOverNat
  <1>9. n \in S
    BY <1>8
  <1> QED
    BY <1>3, <1>7, <1>9 DEF S

-----------------------------------------------------------------------------
(* What the files of a list take.                                            *)

LEMMA UsageOfNone == Cache!UsageBytes(<<>>) = 0
  <1>1. PICK f : Cache!UsageBytes(<<>>) = f[0] /\ SumSteps(<<>>, f, 0)
    <2>1. Len(<<>>) = 0
      OBVIOUS
    <2> QED
      BY <2>1, UsageBySteps
  <1> QED
    BY <1>1, SumStepsAre

LEMMA UsageIsNat ==
    ASSUME NEW seq \in Seq(Name)
    PROVE  Cache!UsageBytes(seq) \in Nat
  <1>1. PICK n \in Nat : n = Len(seq) /\ \A i \in 1 .. n : seq[i] \in Name
    OBVIOUS
  <1>2. PICK f : Cache!UsageBytes(seq) = f[n] /\ SumSteps(seq, f, n)
    BY <1>1, UsageBySteps
  <1>3. f[0] = 0 /\ \A i \in 0 .. n : i # 0 => f[i] = f[i - 1] + Size[seq[i]]
    BY <1>2, SumStepsAre
  <1> DEFINE S == {i \in Nat : i <= n => f[i] \in Nat}
  <1>4. 0 \in S
    BY <1>3
  <1>5. ASSUME NEW i \in Nat, i \in S PROVE i + 1 \in S
    <2> SUFFICES ASSUME i + 1 <= n PROVE f[i + 1] \in Nat
      OBVIOUS
    <2>1. i + 1 \in 0 .. n /\ i + 1 # 0 /\ (i + 1) - 1 = i /\ f[i] \in Nat
      BY <1>5
    <2>2. Size[seq[i + 1]] \in Nat
      BY <1>1, CacheAssumption
    <2>3. f[i + 1] = f[i] + Size[seq[i + 1]]
      BY <1>3, <2>1
    <2> QED
      BY <2>1, <2>2, <2>3
  <1> HIDE DEF S
  <1>6. Nat \subseteq S
    BY <1>4, <1>5, InductionOverNat
  <1>7. n \in S
    BY <1>6
  <1> QED
    BY <1>2, <1>7 DEF S

LEMMA UsageOfAppended ==
    ASSUME NEW seq \in Seq(Name), NEW x \in Name
    PROVE  Cache!UsageBytes(Append(seq, x)) = Cache!UsageBytes(seq) + Size[x]
  <1>0. PICK n \in Nat : n = Len(seq)
    OBVIOUS
  <1>01. PICK more : more = Append(seq, x)
    OBVIOUS
  <1>1. /\ n + 1 \in Nat
        /\ n = Len(seq) /\ more = Append(seq, x) /\ Len(more) = n + 1 /\ more[n + 1] = x
        /\ \A i \in 1 .. n : more[i] = seq[i]
    BY <1>0, <1>01
  <1>2. PICK f : Cache!UsageBytes(seq) = f[n] /\ SumSteps(seq, f, n)
    BY <1>1, UsageBySteps
  <1>3. PICK g : Cache!UsageBytes(more) = g[n + 1] /\ SumSteps(more, g, n + 1)
    BY <1>1, UsageBySteps
  <1>4. f[0] = 0 /\ \A i \in 0 .. n : i # 0 => f[i] = f[i - 1] + Size[seq[i]]
    BY <1>2, SumStepsAre
  <1>5. g[0] = 0 /\ \A i \in 0 .. n + 1 : i # 0 => g[i] = g[i - 1] + Size[more[i]]
    BY <1>3, SumStepsAre
  <1> DEFINE S == {i \in Nat : i <= n => f[i] = g[i]}
  <1>6. 0 \in S
    BY <1>4, <1>5
  <1>7. ASSUME NEW i \in Nat, i \in S PROVE i + 1 \in S
    <2> SUFFICES ASSUME i + 1 <= n PROVE f[i + 1] = g[i + 1]
      OBVIOUS
    <2>1. i + 1 \in 0 .. n /\ i + 1 \in 0 .. n + 1 /\ i + 1 # 0 /\ (i + 1) - 1 = i /\ i + 1 \in 1 .. n /\ f[i] = g[i]
      BY <1>7
    <2>2. f[i + 1] = f[i] + Size[seq[i + 1]] /\ g[i + 1] = g[i] + Size[more[i + 1]]
      BY <1>4, <1>5, <2>1
    <2> QED
      BY <1>1, <2>1, <2>2
  <1> HIDE DEF S
  <1>8. Nat \subseteq S
    BY <1>6, <1>7, InductionOverNat
  <1>9. f[n] = g[n]
    <2>1. n \in S
      BY <1>8
    <2> QED
      BY <2>1 DEF S
  <1>10. g[n + 1] = g[n] + Size[x]
    <2>1. n + 1 \in 0 .. n + 1 /\ n + 1 # 0 /\ (n + 1) - 1 = n
      OBVIOUS
    <2>2. g[n + 1] = g[n] + Size[more[n + 1]]
      BY <1>5, <2>1
    <2> QED
      BY <1>1, <2>2
  <1> QED
    BY <1>1, <1>2, <1>3, <1>9, <1>10

LEMMA UsageOfKept ==
    ASSUME NEW seq, IsList(seq), NEW x \in Members(seq), NEW T,
           \A y : y \in T <=> y \in Name /\ y # x, NEW kept, kept = Cache!Kept(seq, T)
    PROVE  Cache!UsageBytes(seq) = Cache!UsageBytes(kept) + Size[x]
  <1>1. PICK n \in Nat : n = Len(seq)
    BY DEF IsList
  <1>2. /\ \A i \in 1 .. n : seq[i] \in Name
        /\ \A i, j \in 1 .. n : seq[i] = seq[j] => i = j
    BY <1>1 DEF IsList, Cache!Distinct
  <1>3. PICK at \in 1 .. n : seq[at] = x
    BY <1>1 DEF Members
  <1>5. PICK f : kept = f[n] /\ KeptSteps(seq, T, f, n)
    BY <1>1, KeptBySteps
  <1>6. /\ f[0] = <<>>
        /\ \A i \in 0 .. n : i # 0 => f[i] = IF seq[i] \in T THEN Append(f[i - 1], seq[i]) ELSE f[i - 1]
    <2>1. PICK T2, f2 : T2 = T /\ f2 = f
      OBVIOUS
    <2>2. KeptSteps(seq, T2, f2, n)
      BY <1>5, <2>1
    <2>3. /\ f2[0] = <<>>
          /\ \A i \in 0 .. n : i # 0 => f2[i] = IF seq[i] \in T2 THEN Append(f2[i - 1], seq[i]) ELSE f2[i - 1]
      BY <2>2, KeptStepsAre
    <2> QED
      BY <2>1, <2>3
  <1>7. PICK g : Cache!UsageBytes(seq) = g[n] /\ SumSteps(seq, g, n)
    BY <1>1, UsageBySteps
  <1>8. g[0] = 0 /\ \A i \in 0 .. n : i # 0 => g[i] = g[i - 1] + Size[seq[i]]
    BY <1>7, SumStepsAre
  <1>9. x \in Name /\ Size[x] \in Nat
    BY <1>2, <1>3, CacheAssumption
  <1> DEFINE S == {i \in Nat : i <= n => /\ f[i] \in Seq(Name)
                                         /\ g[i] = Cache!UsageBytes(f[i]) + (IF at <= i THEN Size[x] ELSE 0)}
  <1>10. 0 \in S
    <2>1. ~(at <= 0)
      OBVIOUS
    <2>2. f[0] \in Seq(Name) /\ Cache!UsageBytes(f[0]) = 0
      BY <1>6, UsageOfNone
    <2> QED
      BY <1>8, <2>1, <2>2
  <1>11. ASSUME NEW i \in Nat, i \in S PROVE i + 1 \in S
    <2> SUFFICES ASSUME i + 1 <= n
                 PROVE  /\ f[i + 1] \in Seq(Name)
                        /\ g[i + 1] = Cache!UsageBytes(f[i + 1]) + (IF at <= i + 1 THEN Size[x] ELSE 0)
      OBVIOUS
    <2>1. i + 1 \in 0 .. n /\ i + 1 # 0 /\ (i + 1) - 1 = i /\ i + 1 \in 1 .. n
      OBVIOUS
    <2>2. PICK y \in Name : y = seq[i + 1]
      BY <1>2, <2>1
    <2>3. f[i] \in Seq(Name) /\ g[i] = Cache!UsageBytes(f[i]) + (IF at <= i THEN Size[x] ELSE 0)
      BY <1>11
    <2>4. f[i + 1] = (IF y \in T THEN Append(f[i], y) ELSE f[i]) /\ g[i + 1] = g[i] + Size[y]
      BY <1>6, <1>8, <2>1, <2>2
    <2>5. PICK u \in Nat : u = Cache!UsageBytes(f[i])
      BY <2>3, UsageIsNat
    <2>6. Size[y] \in Nat
      BY CacheAssumption
    <2>7. CASE at = i + 1
      <3>1. y = x /\ y \notin T /\ ~(at <= i) /\ at <= i + 1
        BY <1>3, <2>2, <2>7
      <3> QED
        BY <1>9, <2>3, <2>4, <2>5, <3>1
    <2>8. CASE at # i + 1
      <3>1. y \in T
        BY <1>2, <1>3, <2>1, <2>2, <2>8
      <3>2. at <= i <=> at <= i + 1
        BY <2>8
      <3>3. f[i + 1] = Append(f[i], y) /\ f[i + 1] \in Seq(Name) /\ Cache!UsageBytes(f[i + 1]) = u + Size[y]
        BY <2>3, <2>4, <2>5, <3>1, UsageOfAppended
      <3> QED
        BY <1>9, <2>3, <2>4, <2>5, <2>6, <3>2, <3>3
    <2> QED
      BY <2>7, <2>8
  <1> HIDE DEF S
  <1>12. Nat \subseteq S
    BY <1>10, <1>11, InductionOverNat
  <1>13. n \in S /\ at <= n
    BY <1>12
  <1> QED
    BY <1>5, <1>7, <1>13 DEF S

LEMMA UsageWithout ==
    ASSUME NEW seq, IsList(seq), NEW x \in Members(seq), NEW kept, kept = Cache!Without(seq, x)
    PROVE  Cache!UsageBytes(seq) = Cache!UsageBytes(kept) + Size[x]
  <1>1. \E T : (\A y : y \in T <=> y \in Name /\ y # x) /\ kept = Cache!Kept(seq, T)
    <2>1. \A y : y \in Name \ {x} <=> y \in Name /\ y # x
      OBVIOUS
    <2> QED
      BY <2>1 DEF Cache!Without
  <1> QED
    BY <1>1, UsageOfKept

-----------------------------------------------------------------------------
(* The media cache.                                                          *)

CacheOp == [op : {"none", "save", "delete", "clear", "reconcile"},
            pc : {"idle", "lock", "stat", "rename", "row", "limit", "evict", "evictRow", "work", "rows", "fill"},
            name : Name \cup {"none"}, guarded : BOOLEAN, left : Seq(Name), usage : Nat, max : Nat,
            result : {"none", "ok", "error"}]

(* The phases of each operation; only a save without a limit has no lock.    *)
OpOK(o) ==
    /\ o \in CacheOp /\ Cache!Distinct(o.left)
    /\ o.pc # "idle" => o.result = "none"
    /\ o.pc = "lock" => o.op # "none"
    /\ o.pc \in {"stat", "rename", "row"} => o.op = "save"
    /\ o.pc \in {"limit", "evict", "evictRow"} => o.op \in {"save", "reconcile"}
    /\ o.pc = "work" => o.op \in {"delete", "clear", "reconcile"}
    /\ o.pc = "rows" => o.op \in {"delete", "clear"}
    /\ o.pc = "fill" => o.op = "reconcile"
    /\ IF o.op \in {"save", "delete"} THEN o.name \in Name ELSE o.name = "none"
    /\ o.pc \notin {"idle", "stat", "rename"} => o.guarded

Holding(o) == o.guarded /\ o.pc \notin {"idle", "lock"}

(* What an operation that holds the lock relies on: the file it saves is     *)
(* there, and what it may evict is all but one of the rows, the saved one.   *)
HolderOK(o, onDisk, listed) ==
    /\ o.op = "save" /\ o.pc \in {"row", "limit", "evict", "evictRow"} => o.name \in Members(onDisk)
    /\ o.op = "save" /\ o.pc = "limit" => listed # <<>> /\ listed[Len(listed)] = o.name
    /\ o.pc \in {"evict", "evictRow"} =>
          /\ o.usage = Cache!UsageBytes(listed)
          /\ \E x : /\ Members(listed) = Members(o.left) \cup {x} /\ x \notin Members(o.left)
                    /\ o.op = "save" => o.name = x
    /\ o.pc = "evictRow" => o.left # <<>>

(* Names whose file the operation has removed and whose row it removes next. *)
Leaving(o) ==
    CASE o.pc = "evictRow" -> {Head(o.left)}
      [] o.pc = "rows" -> IF o.op = "clear" THEN Name ELSE {o.name}
      [] OTHER -> {}

CacheSorts ==
    /\ parts \subseteq Worker /\ limit \in Limits /\ broken \in BOOLEAN /\ started \in BOOLEAN
    /\ cacheOps \in 0 .. MaxCacheOps /\ ioFaults \in 0 .. MaxIOFaults
CacheLists == IsList(files) /\ IsList(rows)
OpsOK == ops = [w \in Worker |-> ops[w]] /\ \A w \in Worker : OpOK(ops[w])
LockOK == lock \in Worker \cup {NoWorker} /\ \A w \in Worker : Holding(ops[w]) <=> lock = w
StartedOK == ~started => \A w \in Worker : ops[w].pc = "idle"
HoldersOK == \A w \in Worker : Holding(ops[w]) => HolderOK(ops[w], files, rows)
RowsHaveFiles ==
    ~broken => \A n \in Members(rows) : n \in Members(files) \/ (lock \in Worker /\ n \in Leaving(ops[lock]))

CacheInv == CacheSorts /\ CacheLists /\ OpsOK /\ LockOK /\ StartedOK /\ HoldersOK /\ RowsHaveFiles

LEMMA HolderKeeps ==
    ASSUME NEW o, NEW onDisk, NEW listed, HolderOK(o, onDisk, listed), NEW later, Members(onDisk) \subseteq Members(later)
    PROVE  HolderOK(o, later, listed)
  BY DEF HolderOK

(* A step of a worker that does not hold the lock, before and after it.      *)
LEMMA OutsideStep ==
    ASSUME CacheInv, CacheSorts', NEW w \in Worker, NEW o, OpOK(o), ops' = [ops EXCEPT ![w] = o],
           lock # w, ~Holding(o), lock' = lock,
           IsList(files'), Members(files) \subseteq Members(files'), rows' = rows, broken => broken',
           ~started' => ~started /\ o.pc = "idle"
    PROVE  CacheInv'
  <1>1. ops'[w] = o /\ \A v \in Worker : v # w => ops'[v] = ops[v]
    BY DEF CacheInv, OpsOK
  <1>2. CacheLists' /\ OpsOK'
    BY <1>1 DEF CacheInv, CacheLists, OpsOK
  <1>3. LockOK'
    BY <1>1 DEF CacheInv, LockOK
  <1>4. StartedOK'
    BY <1>1 DEF CacheInv, StartedOK
  <1>5. HoldersOK'
    <2> SUFFICES ASSUME NEW v \in Worker, Holding(ops'[v]) PROVE HolderOK(ops'[v], files', rows')
      BY DEF HoldersOK
    <2>1. ops'[v] = ops[v] /\ HolderOK(ops[v], files, rows)
      BY <1>1 DEF CacheInv, HoldersOK
    <2> QED
      BY <2>1, HolderKeeps
  <1>6. RowsHaveFiles'
    BY <1>1 DEF CacheInv, RowsHaveFiles
  <1> QED
    BY <1>2, <1>3, <1>4, <1>5, <1>6 DEF CacheInv

(* A step of the worker that has the lock, and one that gives it up.         *)
LEMMA HolderStep ==
    ASSUME CacheInv, CacheSorts', NEW w \in Worker, NEW o, OpOK(o), ops' = [ops EXCEPT ![w] = o],
           lock = w, Holding(o), lock' = lock, started' = started,
           CacheLists', HolderOK(o, files', rows'),
           ~broken' => \A n \in Members(rows') : n \in Members(files') \/ n \in Leaving(o)
    PROVE  CacheInv'
  <1>1. ops'[w] = o /\ \A v \in Worker : v # w => ops'[v] = ops[v]
    BY DEF CacheInv, OpsOK
  <1>2. OpsOK'
    BY <1>1 DEF CacheInv, OpsOK
  <1>3. LockOK'
    BY <1>1 DEF CacheInv, LockOK
  <1>4. StartedOK'
    BY <1>1 DEF CacheInv, StartedOK, LockOK, Holding
  <1>5. HoldersOK'
    BY <1>1 DEF CacheInv, HoldersOK, LockOK
  <1>6. RowsHaveFiles'
    BY <1>1 DEF RowsHaveFiles
  <1> QED
    BY <1>2, <1>3, <1>4, <1>5, <1>6 DEF CacheInv

LEMMA HolderReturn ==
    ASSUME CacheInv, CacheSorts', NEW w \in Worker, NEW o, OpOK(o), ops' = [ops EXCEPT ![w] = o],
           lock = w, o.pc = "idle", lock' = NoWorker, started' = started,
           CacheLists', ~broken' => Members(rows') \subseteq Members(files')
    PROVE  CacheInv'
  <1>1. ops'[w] = o /\ \A v \in Worker : v # w => ops'[v] = ops[v]
    BY DEF CacheInv, OpsOK
  <1>2. OpsOK'
    BY <1>1 DEF CacheInv, OpsOK
  <1>3. \A v \in Worker : ~Holding(ops'[v])
    BY <1>1 DEF CacheInv, LockOK, Holding
  <1>4. LockOK' /\ HoldersOK'
    BY <1>3, CacheAssumption DEF LockOK, HoldersOK
  <1>5. StartedOK'
    BY <1>1 DEF CacheInv, StartedOK
  <1>6. RowsHaveFiles'
    BY DEF RowsHaveFiles
  <1> QED
    BY <1>2, <1>4, <1>5, <1>6 DEF CacheInv

LEMMA IdleIsOp == OpOK(Cache!Idle) /\ Cache!Idle.pc = "idle" /\ Cache!Idle.result = "none"
  <1>1. Cache!Idle \in CacheOp
    BY DEF Cache!Idle, CacheOp
  <1>2. Cache!Distinct(Cache!Idle.left)
    BY DEF Cache!Idle, Cache!Distinct
  <1> QED
    BY <1>1, <1>2 DEF OpOK, Cache!Idle

Begun(kind, n, guarded) ==
    [Cache!Idle EXCEPT !.op = kind, !.name = n, !.guarded = guarded, !.pc = IF guarded THEN "lock" ELSE "stat"]

LEMMA StartedIsBegun ==
    ASSUME NEW kind, NEW guarded \in BOOLEAN, NEW p, p = IF guarded THEN "lock" ELSE "stat"
    PROVE  [Cache!Idle EXCEPT !.op = kind, !.pc = p, !.guarded = guarded] = Begun(kind, "none", guarded)
  <1>1. PICK n : n = "none"
    OBVIOUS
  <1>2. PICK o : o = Begun(kind, n, guarded)
    OBVIOUS
  <1>3. o = [op |-> kind, pc |-> p, name |-> n, guarded |-> guarded,
             left |-> <<>>, usage |-> 0, max |-> 0, result |-> "none"]
    BY <1>2 DEF Begun, Cache!Idle
  <1>4. PICK s : s = [Cache!Idle EXCEPT !.op = kind, !.pc = p, !.guarded = guarded]
    OBVIOUS
  <1>5. s = [op |-> kind, pc |-> p, name |-> n, guarded |-> guarded,
             left |-> <<>>, usage |-> 0, max |-> 0, result |-> "none"]
    BY <1>1, <1>4 DEF Cache!Idle
  <1> QED
    BY <1>1, <1>2, <1>3, <1>4, <1>5

LEMMA BegunOp ==
    ASSUME NEW kind \in {"save", "delete", "clear", "reconcile"}, NEW n, NEW guarded \in BOOLEAN,
           ~guarded => kind = "save",
           IF kind \in {"save", "delete"} THEN n \in Name ELSE n = "none"
    PROVE  OpOK(Begun(kind, n, guarded)) /\ ~Holding(Begun(kind, n, guarded))
  <1>1. PICK p : p = IF guarded THEN "lock" ELSE "stat"
    OBVIOUS
  <1>2. PICK o : o = Begun(kind, n, guarded)
    OBVIOUS
  <1>3. o = [op |-> kind, pc |-> p, name |-> n, guarded |-> guarded,
             left |-> <<>>, usage |-> 0, max |-> 0, result |-> "none"]
    BY <1>1, <1>2 DEF Begun, Cache!Idle
  <1>4. n \in Name \cup {"none"} /\ p \in {"lock", "stat"}
    BY <1>1
  <1>5. o \in CacheOp
    BY <1>3, <1>4 DEF CacheOp
  <1>6. Cache!Distinct(o.left)
    BY <1>3 DEF Cache!Distinct
  <1>7. OpOK(o) /\ ~Holding(o)
    BY <1>1, <1>3, <1>5, <1>6 DEF OpOK, Holding
  <1> QED
    BY <1>2, <1>7

Ended(o, result) ==
    [Cache!Idle EXCEPT !.op = o.op, !.name = o.name, !.guarded = o.guarded, !.result = result]

LEMMA EndedOp ==
    ASSUME NEW o, OpOK(o), NEW result \in {"ok", "error"}
    PROVE  /\ OpOK(Ended(o, result)) /\ Ended(o, result).pc = "idle" /\ Ended(o, result).result = result
           /\ Ended(o, result).op = o.op /\ Ended(o, result).name = o.name
  <1>1. /\ o.op \in {"none", "save", "delete", "clear", "reconcile"} /\ o.name \in Name \cup {"none"}
        /\ o.guarded \in BOOLEAN
    BY DEF OpOK, CacheOp
  <1>2. PICK next : next = Ended(o, result)
    OBVIOUS
  <1>3. next = [op |-> o.op, pc |-> "idle", name |-> o.name, guarded |-> o.guarded,
                left |-> <<>>, usage |-> 0, max |-> 0, result |-> result]
    BY <1>2 DEF Ended, Cache!Idle
  <1>4. next \in CacheOp
    BY <1>1, <1>3 DEF CacheOp
  <1>5. Cache!Distinct(next.left)
    BY <1>3 DEF Cache!Distinct
  <1>6. next.op = o.op /\ next.name = o.name /\ next.pc = "idle" /\ next.result = result
    BY <1>3
  <1>7. IF o.op \in {"save", "delete"} THEN o.name \in Name ELSE o.name = "none"
    BY DEF OpOK
  <1>8. OpOK(next)
    BY <1>4, <1>5, <1>6, <1>7 DEF OpOK
  <1> QED
    BY <1>2, <1>6, <1>8

Gone(o, p) == [o EXCEPT !.pc = p]

LEMMA GoneOp ==
    ASSUME NEW o, OpOK(o), NEW p \in {"stat", "rename", "row", "limit", "evict", "evictRow", "work", "rows", "fill"}
    PROVE  /\ Gone(o, p) \in CacheOp /\ Cache!Distinct(Gone(o, p).left)
           /\ Gone(o, p).op = o.op /\ Gone(o, p).name = o.name /\ Gone(o, p).guarded = o.guarded /\ Gone(o, p).pc = p
           /\ Gone(o, p).left = o.left /\ Gone(o, p).usage = o.usage /\ Gone(o, p).max = o.max
           /\ Gone(o, p).result = o.result
  <1>1. o \in CacheOp /\ Cache!Distinct(o.left)
    BY DEF OpOK
  <1>2. PICK next : next = [o EXCEPT !.pc = p]
    OBVIOUS
  <1>3. /\ next.op = o.op /\ next.name = o.name /\ next.guarded = o.guarded /\ next.pc = p
        /\ next.left = o.left /\ next.usage = o.usage /\ next.max = o.max /\ next.result = o.result
    BY <1>1, <1>2 DEF CacheOp
  <1>4. next \in CacheOp
    BY <1>1, <1>2 DEF CacheOp
  <1> QED
    BY <1>1, <1>2, <1>3, <1>4 DEF Gone

(* Whoever returns leaves no row behind whose file he has removed.           *)
LEMMA Returned ==
    ASSUME CacheInv, CacheSorts', NEW w \in Worker, NEW result \in {"ok", "error"}, Cache!Returns(w, result),
           ops[w].pc \notin {"idle", "lock"}, started' = started, CacheLists', broken => broken',
           ops[w].guarded => (~broken' => Members(rows') \subseteq Members(files')),
           ~ops[w].guarded => rows' = rows /\ Members(files) \subseteq Members(files')
    PROVE  CacheInv'
  <1>1. PICK o : o = Ended(ops[w], result)
    OBVIOUS
  <1>2. ops' = [ops EXCEPT ![w] = o] /\ lock' = IF lock = w THEN NoWorker ELSE lock
    BY <1>1 DEF Cache!Returns, Ended
  <1>3. OpOK(ops[w]) /\ (Holding(ops[w]) <=> lock = w) /\ started
    BY DEF CacheInv, OpsOK, LockOK, StartedOK
  <1>4. OpOK(o) /\ o.pc = "idle"
    BY <1>1, <1>3, EndedOp
  <1>5. CASE ops[w].guarded
    <2>1. lock = w /\ lock' = NoWorker
      BY <1>2, <1>3, <1>5 DEF Holding
    <2> QED
      BY <1>2, <1>4, <1>5, <2>1, HolderReturn
  <1>6. CASE ~ops[w].guarded
    <2>1. lock # w /\ lock' = lock /\ ~Holding(o)
      BY <1>2, <1>3, <1>4, <1>6 DEF Holding
    <2> QED
      BY <1>2, <1>3, <1>4, <1>6, <2>1, OutsideStep DEF CacheLists
  <1> QED
    BY <1>5, <1>6

(* What is known of the worker that takes a step.                            *)
LEMMA WhoMoves ==
    ASSUME CacheInv, NEW w \in Worker
    PROVE  /\ OpOK(ops[w]) /\ ops[w].guarded \in BOOLEAN /\ (Holding(ops[w]) <=> lock = w)
           /\ lock = w => HolderOK(ops[w], files, rows)
           /\ ops[w].pc # "idle" => started
           /\ lock = w /\ ~broken => \A n \in Members(rows) : n \in Members(files) \/ n \in Leaving(ops[w])
  BY DEF CacheInv, OpsOK, LockOK, StartedOK, HoldersOK, RowsHaveFiles, OpOK, CacheOp

-----------------------------------------------------------------------------
(* Operations begin.                                                         *)

LEMMA BeginsStep ==
    ASSUME CacheInv, CacheSorts', NEW w \in Worker, NEW kind \in {"save", "delete", "clear", "reconcile"}, NEW n,
           NEW guarded \in BOOLEAN, Cache!Begins(w, kind, n, guarded), ~guarded => kind = "save",
           IF kind \in {"save", "delete"} THEN n \in Name ELSE n = "none",
           UNCHANGED <<files, rows, lock, started, broken>>
    PROVE  CacheInv'
  <1>1. PICK o : o = Begun(kind, n, guarded)
    OBVIOUS
  <1>2. ops' = [ops EXCEPT ![w] = o] /\ started /\ ops[w].pc = "idle"
    BY <1>1 DEF Cache!Begins, Begun
  <1>3. OpOK(o) /\ ~Holding(o)
    BY <1>1, BegunOp
  <1>4. lock # w
    BY <1>2, WhoMoves DEF Holding
  <1>5. IsList(files') /\ Members(files) \subseteq Members(files')
    BY DEF CacheInv, CacheLists
  <1> QED
    BY <1>2, <1>3, <1>4, <1>5, OutsideStep

LEMMA SortsOfBegins ==
    ASSUME CacheInv, NEW w \in Worker, NEW kind, NEW n, NEW guarded, Cache!Begins(w, kind, n, guarded),
           UNCHANGED <<parts, started, broken, ioFaults>>, limit' \in Limits
    PROVE  CacheSorts'
  BY CacheAssumption DEF CacheInv, CacheSorts, Cache!Begins

LEMMA SaveOK ==
    ASSUME CacheInv, NEW w \in Worker, NEW n \in Name, Cache!Save(w, n)
    PROVE  CacheInv'
  <1>0. (limit > 0) \in BOOLEAN
    OBVIOUS
  <1>1. Cache!Begins(w, "save", n, limit > 0) /\ UNCHANGED <<files, rows, parts, limit, lock, started, broken, ioFaults>>
    BY DEF Cache!Save
  <1>2. limit' \in Limits
    BY <1>1 DEF CacheInv, CacheSorts
  <1>3. CacheSorts'
    BY <1>1, <1>2, SortsOfBegins
  <1> QED
    BY <1>0, <1>1, <1>3, BeginsStep, Zenon

LEMMA DeleteOK ==
    ASSUME CacheInv, NEW w \in Worker, NEW n \in Name, Cache!Delete(w, n)
    PROVE  CacheInv'
  <1>1. Cache!Begins(w, "delete", n, TRUE) /\ UNCHANGED <<files, rows, parts, limit, lock, started, broken, ioFaults>>
    BY DEF Cache!Delete
  <1>2. limit' \in Limits
    BY <1>1 DEF CacheInv, CacheSorts
  <1>3. CacheSorts'
    BY <1>1, <1>2, SortsOfBegins
  <1> QED
    BY <1>1, <1>3, BeginsStep

LEMMA ClearOK ==
    ASSUME CacheInv, NEW w \in Worker, Cache!Clear(w)
    PROVE  CacheInv'
  <1>1. Cache!Begins(w, "clear", "none", TRUE) /\ UNCHANGED <<files, rows, parts, limit, lock, started, broken, ioFaults>>
    BY DEF Cache!Clear
  <1>2. limit' \in Limits
    BY <1>1 DEF CacheInv, CacheSorts
  <1>3. CacheSorts'
    BY <1>1, <1>2, SortsOfBegins
  <1> QED
    BY <1>1, <1>3, BeginsStep

LEMMA ConfigureOK ==
    ASSUME CacheInv, NEW w \in Worker, NEW new \in Limits, Cache!Configure(w, new)
    PROVE  CacheInv'
  <1>1. UNCHANGED <<files, rows, parts, lock, started, broken, ioFaults>> /\ limit' \in Limits
    BY DEF Cache!Configure
  <1>2. CASE Cache!Begins(w, "reconcile", "none", TRUE)
    <2>1. CacheSorts'
      BY <1>1, <1>2, SortsOfBegins
    <2> QED
      BY <1>1, <1>2, <2>1, BeginsStep
  <1>3. CASE cacheOps < MaxCacheOps /\ cacheOps' = cacheOps + 1 /\ UNCHANGED ops
    <2>1. CacheSorts'
      BY <1>1, <1>3, CacheAssumption DEF CacheInv, CacheSorts
    <2> QED
      BY <1>1, <1>3, <2>1 DEF CacheInv, CacheLists, OpsOK, LockOK, StartedOK, HoldersOK, RowsHaveFiles
  <1> QED
    BY <1>2, <1>3 DEF Cache!Configure

LEMMA StartupOK ==
    ASSUME CacheInv, NEW w \in Worker, Cache!Startup(w)
    PROVE  CacheInv'
  <1>1. PICK o : o = IF limit > 0 THEN [Cache!Idle EXCEPT !.op = "reconcile", !.pc = "lock", !.guarded = TRUE] ELSE Cache!Idle
    OBVIOUS
  <1>2. /\ ops' = [ops EXCEPT ![w] = o] /\ ~started /\ started' = TRUE
        /\ UNCHANGED <<files, rows, parts, limit, lock, broken, cacheOps, ioFaults>>
    BY <1>1 DEF Cache!Startup
  <1>3. OpOK(o) /\ ~Holding(o)
    <2>1. CASE limit > 0
      <3>1. PICK yes \in BOOLEAN : yes = TRUE
        OBVIOUS
      <3>2. PICK kind, p : kind = "reconcile" /\ p = IF yes THEN "lock" ELSE "stat"
        OBVIOUS
      <3>3. [Cache!Idle EXCEPT !.op = kind, !.pc = p, !.guarded = yes] = Begun(kind, "none", yes)
        BY <3>2, StartedIsBegun
      <3>6. o = Begun("reconcile", "none", yes)
        BY <1>1, <2>1, <3>1, <3>2, <3>3
      <3> QED
        BY <3>1, <3>6, BegunOp
    <2>2. CASE ~(limit > 0)
      BY <1>1, <2>2, IdleIsOp DEF Holding
    <2> QED
      BY <2>1, <2>2
  <1>4. lock # w
    BY <1>2, WhoMoves DEF Holding
  <1>5. CacheSorts'
    BY <1>2 DEF CacheInv, CacheSorts
  <1>6. IsList(files') /\ Members(files) \subseteq Members(files')
    BY <1>2 DEF CacheInv, CacheLists
  <1> QED
    BY <1>2, <1>3, <1>4, <1>5, <1>6, OutsideStep

LEMMA LockTaken ==
    ASSUME CacheInv, NEW w \in Worker, Cache!Lock(w)
    PROVE  CacheInv'
  <1>1. PICK p \in {"stat", "work"} : p = IF ops[w].op = "save" THEN "stat" ELSE "work"
    OBVIOUS
  <1>2. PICK o : o = Gone(ops[w], p)
    OBVIOUS
  <1>3. /\ ops[w].pc = "lock" /\ lock = NoWorker /\ lock' = w /\ ops' = [ops EXCEPT ![w] = o]
        /\ UNCHANGED <<files, rows, parts, limit, started, broken, cacheOps, ioFaults>>
    BY <1>1, <1>2 DEF Cache!Lock, Cache!Goes, CacheInv, OpsOK, Gone
  <1>4. OpOK(ops[w]) /\ started /\ ops[w].guarded
    BY <1>3, WhoMoves DEF OpOK
  <1>5. OpOK(o) /\ Holding(o) /\ (o.pc = "stat" \/ o.pc = "work")
    <2>1. /\ o \in CacheOp /\ Cache!Distinct(o.left) /\ o.op = ops[w].op /\ o.name = ops[w].name
          /\ o.guarded = ops[w].guarded /\ o.pc = p /\ o.result = ops[w].result
      <3>1. p \in {"stat", "rename", "row", "limit", "evict", "evictRow", "work", "rows", "fill"}
        BY <1>1
      <3>2. OpOK(ops[w])
        BY <1>4
      <3>3. /\ Gone(ops[w], p) \in CacheOp /\ Cache!Distinct(Gone(ops[w], p).left)
            /\ Gone(ops[w], p).op = ops[w].op /\ Gone(ops[w], p).name = ops[w].name
            /\ Gone(ops[w], p).guarded = ops[w].guarded /\ Gone(ops[w], p).pc = p
            /\ Gone(ops[w], p).result = ops[w].result
        BY <3>1, <3>2, GoneOp
      <3> QED
        BY <1>2, <3>3
    <2>2. ops[w].op \in {"none", "save", "delete", "clear", "reconcile"}
      BY <1>4 DEF OpOK, CacheOp
    <2> QED
      BY <1>1, <1>3, <1>4, <2>1, <2>2 DEF OpOK, Holding
  <1>6. ops'[w] = o /\ \A v \in Worker : v # w => ops'[v] = ops[v]
    BY <1>3 DEF CacheInv, OpsOK
  <1>7. CacheSorts' /\ CacheLists'
    BY <1>3 DEF CacheInv, CacheSorts, CacheLists
  <1>8. OpsOK'
    BY <1>3, <1>5, <1>6 DEF CacheInv, OpsOK
  <1>9. \A v \in Worker : ~Holding(ops[v])
    BY <1>3, CacheAssumption DEF CacheInv, LockOK
  <1>10. LockOK'
    BY <1>3, <1>5, <1>6, <1>9 DEF LockOK
  <1>11. StartedOK'
    BY <1>3, <1>4 DEF StartedOK
  <1>12. HolderOK(o, files, rows)
    BY <1>5 DEF HolderOK
  <1>13. HoldersOK'
    BY <1>3, <1>6, <1>9, <1>12 DEF HoldersOK
  <1>14. RowsHaveFiles'
    BY <1>3, CacheAssumption DEF CacheInv, RowsHaveFiles
  <1> QED
    BY <1>7, <1>8, <1>10, <1>11, <1>13, <1>14 DEF CacheInv

(* The worker goes on with what it does; the components that stay.           *)
LEMMA GoesOn ==
    ASSUME CacheInv, NEW w \in Worker, NEW p, Cache!Goes(w, p)
    PROVE  ops' = [ops EXCEPT ![w] = Gone(ops[w], p)]
  BY DEF Cache!Goes, CacheInv, OpsOK, Gone

-----------------------------------------------------------------------------
(* A save.                                                                   *)

LEMMA SaveExistingOK ==
    ASSUME CacheInv, NEW w \in Worker, Cache!SaveExisting(w)
    PROVE  CacheInv'
  <1>1. /\ ops[w].op = "save" /\ ops[w].pc = "stat" /\ Cache!In(ops[w].name, files)
        /\ UNCHANGED <<files, rows, parts, limit, started, broken, cacheOps, ioFaults>>
    BY DEF Cache!SaveExisting, Cache!At
  <1>2. OpOK(ops[w]) /\ ops[w].guarded \in BOOLEAN /\ started /\ IsList(files) /\ IsList(rows)
    BY <1>1, WhoMoves DEF CacheInv, CacheLists
  <1>3. CacheSorts' /\ CacheLists'
    BY <1>1 DEF CacheInv, CacheSorts, CacheLists
  <1>4. CASE ops[w].guarded
    <2>1. Cache!Goes(w, "row") /\ lock' = lock /\ lock = w
      BY <1>1, <1>4, WhoMoves DEF Cache!SaveExisting, Holding
    <2>2. PICK o : o = Gone(ops[w], "row")
      OBVIOUS
    <2>3. ops' = [ops EXCEPT ![w] = o]
      BY <2>1, <2>2, GoesOn
    <2>4. /\ o \in CacheOp /\ Cache!Distinct(o.left) /\ o.op = "save" /\ o.name = ops[w].name
          /\ o.guarded = ops[w].guarded /\ o.pc = "row" /\ o.result = ops[w].result
      BY <1>1, <1>2, <2>2, GoneOp
    <2>5. OpOK(o) /\ Holding(o)
      BY <1>1, <1>2, <1>4, <2>4 DEF OpOK, Holding
    <2>6. HolderOK(o, files', rows')
      BY <1>1, <1>2, <2>4, InMembers DEF HolderOK, IsList
    <2>7. ~broken' => \A n \in Members(rows') : n \in Members(files') \/ n \in Leaving(o)
      BY <1>1, <2>1, WhoMoves DEF Leaving
    <2> QED
      BY <1>1, <1>3, <2>1, <2>3, <2>5, <2>6, <2>7, HolderStep
  <1>5. CASE ~ops[w].guarded
    <2>1. Cache!Returns(w, "ok")
      BY <1>5 DEF Cache!SaveExisting
    <2> QED
      BY <1>1, <1>3, <1>5, <2>1, Returned
  <1> QED
    BY <1>2, <1>4, <1>5

LEMMA WriteTempOK ==
    ASSUME CacheInv, NEW w \in Worker, Cache!WriteTemp(w)
    PROVE  CacheInv'
  <1>1. /\ ops[w].op = "save" /\ ops[w].pc = "stat" /\ Cache!Goes(w, "rename") /\ parts' = parts \cup {w}
        /\ UNCHANGED <<files, rows, limit, lock, started, broken, cacheOps, ioFaults>>
    BY DEF Cache!WriteTemp, Cache!At
  <1>2. OpOK(ops[w]) /\ started /\ IsList(files) /\ IsList(rows)
    BY <1>1, WhoMoves DEF CacheInv, CacheLists
  <1>3. CacheSorts' /\ CacheLists'
    BY <1>1 DEF CacheInv, CacheSorts, CacheLists
  <1>4. PICK o : o = Gone(ops[w], "rename")
    OBVIOUS
  <1>5. ops' = [ops EXCEPT ![w] = o]
    BY <1>1, <1>4, GoesOn
  <1>6. /\ o \in CacheOp /\ Cache!Distinct(o.left) /\ o.op = "save" /\ o.name = ops[w].name
        /\ o.guarded = ops[w].guarded /\ o.pc = "rename" /\ o.result = ops[w].result
    BY <1>1, <1>2, <1>4, GoneOp
  <1>7. OpOK(o) /\ (Holding(o) <=> Holding(ops[w])) /\ o.pc # "idle"
    BY <1>1, <1>2, <1>6 DEF OpOK, Holding
  <1>8. CASE lock = w
    <2>1. Holding(o)
      BY <1>7, <1>8, WhoMoves
    <2>2. HolderOK(o, files', rows')
      BY <1>6 DEF HolderOK
    <2>3. ~broken' => \A n \in Members(rows') : n \in Members(files') \/ n \in Leaving(o)
      BY <1>1, <1>8, WhoMoves DEF Leaving
    <2> QED
      BY <1>1, <1>3, <1>5, <1>7, <1>8, <2>1, <2>2, <2>3, HolderStep
  <1>9. CASE lock # w
    <2>1. ~Holding(o)
      BY <1>7, <1>9, WhoMoves
    <2>2. IsList(files') /\ Members(files) \subseteq Members(files')
      BY <1>1, <1>2
    <2> QED
      BY <1>1, <1>2, <1>3, <1>5, <1>7, <1>9, <2>1, <2>2, OutsideStep
  <1> QED
    BY <1>8, <1>9

LEMMA RenamedFiles ==
    ASSUME CacheInv, NEW w \in Worker, Cache!RenameTemp(w)
    PROVE  /\ IsList(files') /\ Members(files) \subseteq Members(files')
           /\ w \in parts => ops[w].name \in Members(files')
  <1>1. PICK n : n = ops[w].name
    OBVIOUS
  <1>2. n \in Name /\ IsList(files)
    BY <1>1, WhoMoves DEF CacheInv, CacheLists, OpOK, Cache!RenameTemp, Cache!At
  <1>3. files' = IF w \in parts /\ ~Cache!In(n, files) THEN Append(files, n) ELSE files
    BY <1>1 DEF Cache!RenameTemp
  <1>4. Cache!In(n, files) <=> n \in Members(files)
    BY <1>2, InMembers DEF IsList
  <1>5. n \notin Members(files) => IsList(Append(files, n)) /\ Members(Append(files, n)) = Members(files) \cup {n}
    BY <1>2, AppendedList DEF IsList
  <1> QED
    BY <1>1, <1>2, <1>3, <1>4, <1>5

LEMMA RenameTempOK ==
    ASSUME CacheInv, NEW w \in Worker, Cache!RenameTemp(w)
    PROVE  CacheInv'
  <1>1. /\ ops[w].op = "save" /\ ops[w].pc = "rename" /\ parts' = parts \ {w}
        /\ UNCHANGED <<rows, limit, started, broken, cacheOps, ioFaults>>
    BY DEF Cache!RenameTemp, Cache!At
  <1>2. OpOK(ops[w]) /\ ops[w].guarded \in BOOLEAN /\ started /\ IsList(rows)
    BY <1>1, WhoMoves DEF CacheInv, CacheLists
  <1>3. /\ IsList(files') /\ Members(files) \subseteq Members(files')
        /\ w \in parts => ops[w].name \in Members(files')
    BY RenamedFiles
  <1>4. CacheSorts' /\ CacheLists'
    BY <1>1, <1>2, <1>3 DEF CacheInv, CacheSorts, CacheLists
  <1>5. ops[w].guarded => lock = w
    BY <1>1, WhoMoves DEF Holding
  <1>6. lock = w /\ ~broken => \A n \in Members(rows) : n \in Members(files)
    BY <1>1, WhoMoves DEF Leaving
  <1>7. CASE w \in parts /\ ops[w].guarded
    <2>1. Cache!Goes(w, "row") /\ lock' = lock
      BY <1>7 DEF Cache!RenameTemp
    <2>2. PICK o : o = Gone(ops[w], "row")
      OBVIOUS
    <2>3. ops' = [ops EXCEPT ![w] = o]
      BY <2>1, <2>2, GoesOn
    <2>4. /\ o \in CacheOp /\ Cache!Distinct(o.left) /\ o.op = "save" /\ o.name = ops[w].name
          /\ o.guarded = ops[w].guarded /\ o.pc = "row" /\ o.result = ops[w].result
      BY <1>1, <1>2, <2>2, GoneOp
    <2>5. OpOK(o) /\ Holding(o)
      BY <1>1, <1>2, <1>7, <2>4 DEF OpOK, Holding
    <2>6. HolderOK(o, files', rows')
      BY <1>3, <1>7, <2>4 DEF HolderOK
    <2>7. ~broken' => \A n \in Members(rows') : n \in Members(files') \/ n \in Leaving(o)
      BY <1>1, <1>3, <1>5, <1>6, <1>7
    <2> QED
      BY <1>1, <1>4, <1>5, <1>7, <2>1, <2>3, <2>5, <2>6, <2>7, HolderStep
  <1>8. CASE ~(w \in parts /\ ops[w].guarded)
    <2>1. PICK result \in {"ok", "error"} : Cache!Returns(w, result)
      BY <1>8 DEF Cache!RenameTemp
    <2>2. ops[w].guarded => (~broken' => Members(rows') \subseteq Members(files'))
      BY <1>1, <1>3, <1>5, <1>6
    <2> QED
      BY <1>1, <1>3, <1>4, <2>1, <2>2, Returned
  <1> QED
    BY <1>7, <1>8

LEMMA TouchedRows ==
    ASSUME NEW seq, IsList(seq), NEW x \in Name, NEW later, later = Cache!Touched(seq, x)
    PROVE  /\ IsList(later) /\ Members(later) = Members(seq) \cup {x}
           /\ later # <<>> /\ later[Len(later)] = x
  <1>1. PICK rest : rest = Cache!Without(seq, x)
    OBVIOUS
  <1>2. IsList(rest) /\ Members(rest) = Members(seq) \cap (Name \ {x})
    BY <1>1, KeptIsList DEF Cache!Without
  <1>3. later = Append(rest, x)
    BY <1>1 DEF Cache!Touched
  <1>4. IsList(later) /\ Members(later) = Members(rest) \cup {x}
    BY <1>2, <1>3, AppendedList DEF IsList
  <1>5. later # <<>> /\ later[Len(later)] = x
    BY <1>2, <1>3 DEF IsList
  <1>6. Members(seq) \subseteq Name
    BY DEF IsList, Members
  <1> QED
    BY <1>2, <1>4, <1>5, <1>6

LEMMA UpsertRowOK ==
    ASSUME CacheInv, NEW w \in Worker, Cache!UpsertRow(w)
    PROVE  CacheInv'
  <1>1. /\ ops[w].op = "save" /\ ops[w].pc = "row" /\ Cache!Goes(w, "limit")
        /\ rows' = Cache!Touched(rows, ops[w].name)
        /\ UNCHANGED <<files, parts, limit, lock, started, broken, cacheOps, ioFaults>>
    BY DEF Cache!UpsertRow, Cache!At
  <1>2. OpOK(ops[w]) /\ started /\ IsList(files) /\ IsList(rows)
    BY <1>1, WhoMoves DEF CacheInv, CacheLists
  <1>3. lock = w /\ ops[w].guarded /\ ops[w].name \in Name /\ ops[w].name \in Members(files)
    BY <1>1, <1>2, WhoMoves DEF OpOK, Holding, HolderOK
  <1>4. /\ IsList(rows') /\ Members(rows') = Members(rows) \cup {ops[w].name}
        /\ rows' # <<>> /\ rows'[Len(rows')] = ops[w].name
    BY <1>1, <1>2, <1>3, TouchedRows
  <1>5. CacheSorts' /\ CacheLists'
    BY <1>1, <1>2, <1>4 DEF CacheInv, CacheSorts, CacheLists
  <1>6. PICK o : o = Gone(ops[w], "limit")
    OBVIOUS
  <1>7. ops' = [ops EXCEPT ![w] = o]
    BY <1>1, <1>6, GoesOn
  <1>8. /\ o \in CacheOp /\ Cache!Distinct(o.left) /\ o.op = "save" /\ o.name = ops[w].name
        /\ o.guarded = ops[w].guarded /\ o.pc = "limit" /\ o.result = ops[w].result
    BY <1>1, <1>2, <1>6, GoneOp
  <1>9. OpOK(o) /\ Holding(o)
    BY <1>1, <1>2, <1>3, <1>8 DEF OpOK, Holding
  <1>10. HolderOK(o, files', rows')
    BY <1>1, <1>3, <1>4, <1>8 DEF HolderOK
  <1>11. ~broken' => \A n \in Members(rows') : n \in Members(files') \/ n \in Leaving(o)
    BY <1>1, <1>3, <1>4, WhoMoves DEF Leaving
  <1> QED
    BY <1>1, <1>3, <1>5, <1>7, <1>9, <1>10, <1>11, HolderStep

-----------------------------------------------------------------------------
(* The limit.                                                                *)

(* All rows but the last and the one that was saved.                         *)
LEMMA Spared ==
    ASSUME NEW seq, IsList(seq), seq # <<>>, NEW n, NEW left, left = Cache!Kept(seq, Name \ {seq[Len(seq)], n}),
           n \in Name => seq[Len(seq)] = n
    PROVE  /\ IsList(left)
           /\ \E x : /\ Members(seq) = Members(left) \cup {x} /\ x \notin Members(left)
                     /\ n \in Name => n = x
  <1>1. PICK x : x = seq[Len(seq)]
    OBVIOUS
  <1>2. IsList(left) /\ Members(left) = Members(seq) \cap (Name \ {x, n})
    BY <1>1, KeptIsList
  <1>3. x \in Members(seq) /\ x \in Name
    <2>1. PICK k \in Nat : k = Len(seq)
      BY DEF IsList
    <2>2. k \in 1 .. Len(seq)
      BY <2>1 DEF IsList
    <2> QED
      BY <1>1, <2>1, <2>2 DEF Members, IsList
  <1>4. Members(seq) \subseteq Name
    BY DEF Members, IsList
  <1>5. n \in Name => n = x
    BY <1>1
  <1>6. Members(seq) = Members(left) \cup {x} /\ x \notin Members(left)
    BY <1>2, <1>3, <1>4, <1>5
  <1> QED
    BY <1>2, <1>5, <1>6

Evicting(o, left, usage, max) ==
    [o EXCEPT !.pc = "evict", !.usage = usage, !.max = max, !.left = left]

LEMMA EvictingOp ==
    ASSUME NEW o, OpOK(o), NEW left, IsList(left), NEW usage \in Nat, NEW max \in Nat, NEW next,
           next = Evicting(o, left, usage, max)
    PROVE  /\ next \in CacheOp /\ Cache!Distinct(next.left)
           /\ next.op = o.op /\ next.name = o.name /\ next.guarded = o.guarded /\ next.pc = "evict"
           /\ next.left = left /\ next.usage = usage /\ next.max = max /\ next.result = o.result
  <1>1. o \in CacheOp /\ left \in Seq(Name) /\ Cache!Distinct(left)
    BY DEF OpOK, IsList
  <1>2. /\ next.op = o.op /\ next.name = o.name /\ next.guarded = o.guarded /\ next.pc = "evict"
        /\ next.left = left /\ next.usage = usage /\ next.max = max /\ next.result = o.result
    BY <1>1 DEF CacheOp, Evicting
  <1>3. next \in CacheOp
    BY <1>1 DEF CacheOp, Evicting
  <1> QED
    BY <1>1, <1>2, <1>3

(* The limit that was read stays.                                            *)
LEMMA EvictingOn ==
    ASSUME NEW o \in CacheOp, NEW left, NEW usage, NEW p, NEW q, p = "evict",
           q = [o EXCEPT !.pc = p, !.left = left, !.usage = usage]
    PROVE  q = Evicting(o, left, usage, o.max)
  <1>1. q = [op |-> o.op, pc |-> p, name |-> o.name, guarded |-> o.guarded,
             left |-> left, usage |-> usage, max |-> o.max, result |-> o.result]
    BY DEF CacheOp
  <1>2. PICK r : r = Evicting(o, left, usage, o.max)
    OBVIOUS
  <1>3. r = [op |-> o.op, pc |-> p, name |-> o.name, guarded |-> o.guarded,
             left |-> left, usage |-> usage, max |-> o.max, result |-> o.result]
    BY <1>2 DEF CacheOp, Evicting
  <1> QED
    BY <1>1, <1>2, <1>3

LEMMA EnforceLimitOK ==
    ASSUME CacheInv, NEW w \in Worker, Cache!EnforceLimit(w)
    PROVE  CacheInv'
  <1>1. ops[w].pc = "limit" /\ UNCHANGED <<files, rows, parts, limit, started, broken, cacheOps, ioFaults>>
    BY DEF Cache!EnforceLimit
  <1>2. OpOK(ops[w]) /\ started /\ IsList(files) /\ IsList(rows)
    BY <1>1, WhoMoves DEF CacheInv, CacheLists
  <1>3. lock = w /\ ops[w].guarded /\ HolderOK(ops[w], files, rows)
    BY <1>1, <1>2, WhoMoves DEF OpOK, Holding
  <1>4. CacheSorts' /\ CacheLists'
    BY <1>1, <1>2 DEF CacheInv, CacheSorts, CacheLists
  <1>5. ~broken => \A n \in Members(rows) : n \in Members(files)
    BY <1>1, <1>3, WhoMoves DEF Leaving
  <1>6. PICK usage : usage = Cache!UsageBytes(rows)
    OBVIOUS
  <1>7. usage \in Nat /\ limit \in Nat
    BY <1>2, <1>6, UsageIsNat, CacheAssumption DEF IsList, CacheInv, CacheSorts
  <1>8. CASE limit = 0 \/ usage <= limit
    <2>1. Cache!Returns(w, "ok")
      BY <1>6, <1>8 DEF Cache!EnforceLimit
    <2> QED
      BY <1>1, <1>3, <1>4, <1>5, <2>1, Returned
  <1>9. CASE ~(limit = 0 \/ usage <= limit)
    <2>1. PICK left : left = Cache!Kept(rows, Name \ {rows[Len(rows)], ops[w].name})
      OBVIOUS
    <2>2. PICK o : o = Evicting(ops[w], left, usage, limit)
      OBVIOUS
    <2>3. ops' = [ops EXCEPT ![w] = o] /\ lock' = lock
      <3>1. /\ ops' = [ops EXCEPT ![w].pc = "evict", ![w].usage = usage, ![w].max = limit, ![w].left = left]
            /\ lock' = lock
        BY <1>6, <1>9, <2>1 DEF Cache!EnforceLimit
      <3> QED
        BY <2>2, <3>1 DEF Evicting, CacheInv, OpsOK
    <2>4. rows # <<>>
      BY <1>6, <1>7, <1>9, UsageOfNone
    <2>5. ops[w].op \in {"save", "reconcile"} /\ (ops[w].op = "save" => rows[Len(rows)] = ops[w].name)
      BY <1>1, <1>2, <1>3 DEF OpOK, HolderOK
    <2>6. ops[w].name \in Name <=> ops[w].op = "save"
      BY <1>2, <2>5, CacheAssumption DEF OpOK
    <2>7. /\ IsList(left)
          /\ \E x : /\ Members(rows) = Members(left) \cup {x} /\ x \notin Members(left)
                    /\ ops[w].name \in Name => ops[w].name = x
      BY <1>2, <2>1, <2>4, <2>5, <2>6, Spared
    <2>8. /\ o \in CacheOp /\ Cache!Distinct(o.left)
          /\ o.op = ops[w].op /\ o.name = ops[w].name /\ o.guarded = ops[w].guarded /\ o.pc = "evict"
          /\ o.left = left /\ o.usage = usage /\ o.max = limit /\ o.result = ops[w].result
      BY <1>2, <1>7, <2>2, <2>7, EvictingOp
    <2>9. OpOK(o) /\ Holding(o)
      BY <1>1, <1>2, <1>3, <2>5, <2>8 DEF OpOK, Holding
    <2>10. o.op = "save" => o.name \in Members(files')
      BY <1>1, <1>3, <2>8 DEF HolderOK
    <2>11. HolderOK(o, files', rows')
      BY <1>1, <1>6, <2>6, <2>7, <2>8, <2>10 DEF HolderOK
    <2>12. ~broken' => \A n \in Members(rows') : n \in Members(files') \/ n \in Leaving(o)
      BY <1>1, <1>5
    <2> QED
      BY <1>1, <1>3, <1>4, <2>3, <2>9, <2>11, <2>12, HolderStep
  <1> QED
    BY <1>8, <1>9

(* A name taken off a list.                                                  *)
LEMMA ListWithout ==
    ASSUME NEW seq, IsList(seq), NEW x, NEW later, later = Cache!Without(seq, x)
    PROVE  IsList(later) /\ Members(later) = Members(seq) \ {x}
  <1>1. IsList(later) /\ Members(later) = Members(seq) \cap (Name \ {x})
    BY KeptIsList DEF Cache!Without
  <1>2. Members(seq) \subseteq Name
    BY DEF Members, IsList
  <1> QED
    BY <1>1, <1>2

LEMMA EvictFileOK ==
    ASSUME CacheInv, NEW w \in Worker, Cache!EvictFile(w)
    PROVE  CacheInv'
  <1>1. /\ ops[w].pc = "evict" /\ ops[w].left # <<>> /\ Cache!Goes(w, "evictRow")
        /\ files' = Cache!Without(files, Head(ops[w].left))
        /\ UNCHANGED <<rows, parts, limit, lock, started, broken, cacheOps, ioFaults>>
    BY DEF Cache!EvictFile
  <1>2. OpOK(ops[w]) /\ started /\ IsList(files) /\ IsList(rows) /\ IsList(ops[w].left)
    BY <1>1, WhoMoves DEF CacheInv, CacheLists, OpOK, CacheOp, IsList
  <1>3. lock = w /\ ops[w].guarded /\ HolderOK(ops[w], files, rows)
    BY <1>1, <1>2, WhoMoves DEF OpOK, Holding
  <1>4. PICK h : h = Head(ops[w].left)
    OBVIOUS
  <1>5. IsList(files') /\ Members(files') = Members(files) \ {h}
    BY <1>1, <1>2, <1>4, ListWithout
  <1>6. h \in Members(ops[w].left)
    BY <1>1, <1>2, <1>4, TailOfList
  <1>7. CacheSorts' /\ CacheLists'
    BY <1>1, <1>2, <1>5 DEF CacheInv, CacheSorts, CacheLists
  <1>8. PICK o : o = Gone(ops[w], "evictRow")
    OBVIOUS
  <1>9. ops' = [ops EXCEPT ![w] = o]
    BY <1>1, <1>8, GoesOn
  <1>10. /\ o \in CacheOp /\ Cache!Distinct(o.left)
         /\ o.op = ops[w].op /\ o.name = ops[w].name /\ o.guarded = ops[w].guarded /\ o.pc = "evictRow"
         /\ o.left = ops[w].left /\ o.usage = ops[w].usage /\ o.max = ops[w].max /\ o.result = ops[w].result
    BY <1>2, <1>8, GoneOp
  <1>11. OpOK(o) /\ Holding(o)
    BY <1>1, <1>2, <1>3, <1>10 DEF OpOK, Holding
  <1>12. HolderOK(o, files', rows')
    BY <1>1, <1>3, <1>5, <1>6, <1>10 DEF HolderOK
  <1>13. Leaving(o) = {h}
    BY <1>4, <1>10 DEF Leaving
  <1>14. ~broken => \A n \in Members(rows) : n \in Members(files)
    BY <1>1, <1>3, WhoMoves DEF Leaving
  <1>15. ~broken' => \A n \in Members(rows') : n \in Members(files') \/ n \in Leaving(o)
    BY <1>1, <1>5, <1>13, <1>14
  <1> QED
    BY <1>1, <1>3, <1>7, <1>9, <1>11, <1>12, <1>15, HolderStep

LEMMA EvictRowOK ==
    ASSUME CacheInv, NEW w \in Worker, Cache!EvictRow(w)
    PROVE  CacheInv'
  <1>1. /\ ops[w].pc = "evictRow" /\ rows' = Cache!Without(rows, Head(ops[w].left))
        /\ ops' = [ops EXCEPT ![w].pc = "evict", ![w].left = Tail(@), ![w].usage = @ - Size[Head(ops[w].left)]]
        /\ UNCHANGED <<files, parts, limit, lock, started, broken, cacheOps, ioFaults>>
    BY DEF Cache!EvictRow
  <1>2. OpOK(ops[w]) /\ started /\ IsList(files) /\ IsList(rows) /\ IsList(ops[w].left) /\ ops[w].max \in Nat
    BY <1>1, WhoMoves DEF CacheInv, CacheLists, OpOK, CacheOp, IsList
  <1>3. lock = w /\ ops[w].guarded /\ HolderOK(ops[w], files, rows) /\ ops[w].left # <<>>
    BY <1>1, <1>2, WhoMoves DEF OpOK, Holding, HolderOK
  <1>4. PICK h : h = Head(ops[w].left)
    OBVIOUS
  <1>5. PICK rest : rest = Tail(ops[w].left)
    OBVIOUS
  <1>6. /\ IsList(rest) /\ h \in Name /\ Members(ops[w].left) = Members(rest) \cup {h} /\ h \notin Members(rest)
    BY <1>2, <1>3, <1>4, <1>5, TailOfList
  <1>7. PICK x : /\ Members(rows) = Members(ops[w].left) \cup {x} /\ x \notin Members(ops[w].left)
                 /\ ops[w].op = "save" => ops[w].name = x
    BY <1>1, <1>3 DEF HolderOK
  <1>8. IsList(rows') /\ Members(rows') = Members(rows) \ {h}
    BY <1>1, <1>2, <1>4, ListWithout
  <1>9. Members(rows') = Members(rest) \cup {x} /\ x \notin Members(rest)
    BY <1>6, <1>7, <1>8
  <1>10. PICK usage : usage = Cache!UsageBytes(rows')
    OBVIOUS
  <1>11. usage \in Nat /\ Size[h] \in Nat /\ ops[w].usage = usage + Size[h]
    <2>1. h \in Members(rows) /\ ops[w].usage = Cache!UsageBytes(rows)
      BY <1>1, <1>3, <1>6, <1>7 DEF HolderOK
    <2>2. rows' = Cache!Without(rows, h)
      BY <1>1, <1>4
    <2>3. Cache!UsageBytes(rows) = Cache!UsageBytes(rows') + Size[h]
      BY <1>2, <2>1, <2>2, UsageWithout
    <2>4. Cache!UsageBytes(rows') \in Nat
      BY <1>8, UsageIsNat DEF IsList
    <2> QED
      BY <1>6, <1>10, <2>1, <2>3, <2>4, CacheAssumption
  <1>12. ops[w].usage - Size[h] = usage
    BY <1>11
  <1>13. CacheSorts' /\ CacheLists'
    BY <1>1, <1>2, <1>8 DEF CacheInv, CacheSorts, CacheLists
  <1>14. PICK o : o = Evicting(ops[w], rest, usage, ops[w].max)
    OBVIOUS
  <1>15. ops' = [ops EXCEPT ![w] = o]
    <2>1. ops' = [ops EXCEPT ![w].pc = "evict", ![w].left = rest, ![w].usage = usage]
      BY <1>1, <1>4, <1>5, <1>12
    <2>2. PICK p : p = "evict"
      OBVIOUS
    <2>3. PICK q : q = [ops[w] EXCEPT !.pc = p, !.left = rest, !.usage = usage]
      OBVIOUS
    <2>4. ops' = [ops EXCEPT ![w] = q]
      BY <2>1, <2>2, <2>3 DEF CacheInv, OpsOK
    <2>5. ops[w] \in CacheOp
      BY <1>2 DEF OpOK
    <2>6. q = o
      BY <1>14, <2>2, <2>3, <2>5, EvictingOn
    <2> QED
      BY <2>4, <2>6
  <1>16. /\ o \in CacheOp /\ Cache!Distinct(o.left)
         /\ o.op = ops[w].op /\ o.name = ops[w].name /\ o.guarded = ops[w].guarded /\ o.pc = "evict"
         /\ o.left = rest /\ o.usage = usage /\ o.max = ops[w].max /\ o.result = ops[w].result
    BY <1>2, <1>6, <1>11, <1>14, EvictingOp
  <1>17. OpOK(o) /\ Holding(o)
    BY <1>1, <1>2, <1>3, <1>16 DEF OpOK, Holding
  <1>18. o.op = "save" => o.name \in Members(files')
    BY <1>1, <1>3, <1>16 DEF HolderOK
  <1>19. HolderOK(o, files', rows')
    BY <1>7, <1>9, <1>10, <1>16, <1>18 DEF HolderOK
  <1>20. Leaving(ops[w]) = {h}
    BY <1>1, <1>4 DEF Leaving
  <1>21. ~broken' => \A n \in Members(rows') : n \in Members(files') \/ n \in Leaving(o)
    BY <1>1, <1>3, <1>8, <1>20, WhoMoves
  <1> QED
    BY <1>1, <1>3, <1>13, <1>15, <1>17, <1>19, <1>21, HolderStep

LEMMA EvictionEndsOK ==
    ASSUME CacheInv, NEW w \in Worker, Cache!EvictionEnds(w)
    PROVE  CacheInv'
  <1>1. /\ ops[w].pc = "evict" /\ Cache!Returns(w, "ok")
        /\ UNCHANGED <<files, rows, parts, limit, started, broken, cacheOps, ioFaults>>
    BY DEF Cache!EvictionEnds
  <1>2. OpOK(ops[w])
    BY WhoMoves
  <1>3. ops[w].guarded /\ lock = w
    BY <1>1, <1>2, WhoMoves DEF OpOK, Holding
  <1>4. CacheSorts' /\ CacheLists'
    BY <1>1 DEF CacheInv, CacheSorts, CacheLists
  <1>5. ~broken => \A n \in Members(rows) : n \in Members(files)
    BY <1>1, <1>3, WhoMoves DEF Leaving
  <1> QED
    BY <1>1, <1>3, <1>4, <1>5, Returned

-----------------------------------------------------------------------------
(* Deletions and the reconciliation.                                         *)

LEMMA RemoveFilesOK ==
    ASSUME CacheInv, NEW w \in Worker, Cache!RemoveFiles(w)
    PROVE  CacheInv'
  <1>1. /\ ops[w].op \in {"delete", "clear"} /\ ops[w].pc = "work" /\ Cache!Goes(w, "rows")
        /\ files' = IF ops[w].op = "clear" THEN <<>> ELSE Cache!Without(files, ops[w].name)
        /\ UNCHANGED <<rows, parts, limit, lock, started, broken, cacheOps, ioFaults>>
    BY DEF Cache!RemoveFiles
  <1>2. OpOK(ops[w]) /\ started /\ IsList(files) /\ IsList(rows)
    BY <1>1, WhoMoves DEF CacheInv, CacheLists
  <1>3. lock = w /\ ops[w].guarded
    BY <1>1, <1>2, WhoMoves DEF OpOK, Holding
  <1>4. IsList(files')
    BY <1>1, <1>2, ListWithout, EmptyList
  <1>5. ops[w].op # "clear" => Members(files') = Members(files) \ {ops[w].name}
    BY <1>1, <1>2, ListWithout
  <1>6. CacheSorts' /\ CacheLists'
    BY <1>1, <1>2, <1>4 DEF CacheInv, CacheSorts, CacheLists
  <1>7. PICK o : o = Gone(ops[w], "rows")
    OBVIOUS
  <1>8. ops' = [ops EXCEPT ![w] = o]
    BY <1>1, <1>7, GoesOn
  <1>9. /\ o \in CacheOp /\ Cache!Distinct(o.left) /\ o.op = ops[w].op /\ o.name = ops[w].name
        /\ o.guarded = ops[w].guarded /\ o.pc = "rows" /\ o.result = ops[w].result
    BY <1>2, <1>7, GoneOp
  <1>10. OpOK(o) /\ Holding(o)
    BY <1>1, <1>2, <1>3, <1>9 DEF OpOK, Holding
  <1>11. HolderOK(o, files', rows')
    BY <1>1, <1>9 DEF HolderOK
  <1>12. Leaving(o) = IF o.op = "clear" THEN Name ELSE {o.name}
    BY <1>9 DEF Leaving
  <1>13. ~broken => \A n \in Members(rows) : n \in Members(files)
    BY <1>1, <1>3, WhoMoves DEF Leaving
  <1>14. Members(rows) \subseteq Name
    BY <1>2 DEF Members, IsList
  <1>15. ~broken' => \A n \in Members(rows') : n \in Members(files') \/ n \in Leaving(o)
    BY <1>1, <1>5, <1>9, <1>12, <1>13, <1>14
  <1> QED
    BY <1>1, <1>3, <1>6, <1>8, <1>10, <1>11, <1>15, HolderStep

LEMMA RemoveRowsOK ==
    ASSUME CacheInv, NEW w \in Worker, Cache!RemoveRows(w)
    PROVE  CacheInv'
  <1>1. /\ ops[w].pc = "rows" /\ Cache!Returns(w, "ok")
        /\ rows' = IF ops[w].op = "clear" THEN <<>> ELSE Cache!Without(rows, ops[w].name)
        /\ UNCHANGED <<files, parts, limit, started, broken, cacheOps, ioFaults>>
    BY DEF Cache!RemoveRows
  <1>2. OpOK(ops[w]) /\ started /\ IsList(files) /\ IsList(rows)
    BY <1>1, WhoMoves DEF CacheInv, CacheLists
  <1>3. lock = w /\ ops[w].guarded
    BY <1>1, <1>2, WhoMoves DEF OpOK, Holding
  <1>4. IsList(rows')
    BY <1>1, <1>2, ListWithout, EmptyList
  <1>5. Members(rows') = IF ops[w].op = "clear" THEN {} ELSE Members(rows) \ {ops[w].name}
    BY <1>1, <1>2, ListWithout, EmptyList
  <1>6. CacheSorts' /\ CacheLists'
    BY <1>1, <1>2, <1>4 DEF CacheInv, CacheSorts, CacheLists
  <1>7. Leaving(ops[w]) = IF ops[w].op = "clear" THEN Name ELSE {ops[w].name}
    BY <1>1 DEF Leaving
  <1>8. ~broken' => Members(rows') \subseteq Members(files')
    BY <1>1, <1>3, <1>5, <1>7, WhoMoves
  <1> QED
    BY <1>1, <1>3, <1>6, <1>8, Returned

(* A list is read, and what else the operation keeps is as before.           *)
Reading(o, p, left) == [o EXCEPT !.pc = p, !.left = left]

LEMMA ReadingOp ==
    ASSUME NEW o, OpOK(o), NEW p \in {"limit", "fill"}, NEW left, IsList(left), NEW next, next = Reading(o, p, left)
    PROVE  /\ next \in CacheOp /\ Cache!Distinct(next.left)
           /\ next.op = o.op /\ next.name = o.name /\ next.guarded = o.guarded /\ next.pc = p
           /\ next.left = left /\ next.result = o.result
  <1>1. o \in CacheOp /\ left \in Seq(Name) /\ Cache!Distinct(left)
    BY DEF OpOK, IsList
  <1>2. /\ next.op = o.op /\ next.name = o.name /\ next.guarded = o.guarded /\ next.pc = p
        /\ next.left = left /\ next.result = o.result
    BY <1>1 DEF CacheOp, Reading
  <1>3. next \in CacheOp
    BY <1>1 DEF CacheOp, Reading
  <1> QED
    BY <1>1, <1>2, <1>3

LEMMA WipeRowsOK ==
    ASSUME CacheInv, NEW w \in Worker, Cache!WipeRows(w)
    PROVE  CacheInv'
  <1>1. /\ ops[w].op = "reconcile" /\ ops[w].pc = "work" /\ rows' = <<>>
        /\ ops' = [ops EXCEPT ![w].pc = "fill", ![w].left = files]
        /\ UNCHANGED <<files, parts, limit, lock, started, broken, cacheOps, ioFaults>>
    BY DEF Cache!WipeRows, Cache!At
  <1>2. OpOK(ops[w]) /\ started /\ IsList(files)
    BY <1>1, WhoMoves DEF CacheInv, CacheLists
  <1>3. lock = w /\ ops[w].guarded
    BY <1>1, <1>2, WhoMoves DEF OpOK, Holding
  <1>4. CacheSorts' /\ CacheLists' /\ Members(rows') = {}
    BY <1>1, <1>2, EmptyList DEF CacheInv, CacheSorts, CacheLists
  <1>5. PICK o : o = Reading(ops[w], "fill", files)
    OBVIOUS
  <1>6. ops' = [ops EXCEPT ![w] = o]
    BY <1>1, <1>5 DEF Reading, CacheInv, OpsOK
  <1>7. /\ o \in CacheOp /\ Cache!Distinct(o.left) /\ o.op = ops[w].op /\ o.name = ops[w].name
        /\ o.guarded = ops[w].guarded /\ o.pc = "fill" /\ o.result = ops[w].result
    BY <1>2, <1>5, ReadingOp
  <1>8. OpOK(o) /\ Holding(o)
    BY <1>1, <1>2, <1>3, <1>7 DEF OpOK, Holding
  <1>9. HolderOK(o, files', rows')
    BY <1>1, <1>7 DEF HolderOK
  <1> QED
    BY <1>1, <1>3, <1>4, <1>6, <1>8, <1>9, HolderStep

LEMMA FillRowsOK ==
    ASSUME CacheInv, NEW w \in Worker, Cache!FillRows(w)
    PROVE  CacheInv'
  <1>1. /\ ops[w].op = "reconcile" /\ ops[w].pc = "fill" /\ parts' = {} /\ broken' = FALSE
        /\ rows' = Cache!Kept(ops[w].left, {n \in Name : Cache!In(n, files)})
        /\ ops' = [ops EXCEPT ![w].pc = "limit", ![w].left = <<>>]
        /\ UNCHANGED <<files, limit, lock, started, cacheOps, ioFaults>>
    BY DEF Cache!FillRows, Cache!At
  <1>2. OpOK(ops[w]) /\ started /\ IsList(files) /\ IsList(ops[w].left)
    BY <1>1, WhoMoves DEF CacheInv, CacheLists, OpOK, CacheOp, IsList
  <1>3. lock = w /\ ops[w].guarded
    BY <1>1, <1>2, WhoMoves DEF OpOK, Holding
  <1>4. IsList(rows') /\ Members(rows') \subseteq Members(files)
    <2>1. PICK T : T = {n \in Name : Cache!In(n, files)}
      OBVIOUS
    <2>2. IsList(rows') /\ Members(rows') = Members(ops[w].left) \cap T
      BY <1>1, <1>2, <2>1, KeptIsList
    <2>3. \A n \in T : n \in Members(files)
      BY <1>2, <2>1, InMembers DEF IsList
    <2> QED
      BY <2>2, <2>3
  <1>5. CacheSorts' /\ CacheLists'
    BY <1>1, <1>2, <1>4 DEF CacheInv, CacheSorts, CacheLists
  <1>6. PICK o : o = Reading(ops[w], "limit", <<>>)
    OBVIOUS
  <1>7. ops' = [ops EXCEPT ![w] = o]
    BY <1>1, <1>6 DEF Reading, CacheInv, OpsOK
  <1>8. /\ o \in CacheOp /\ Cache!Distinct(o.left) /\ o.op = ops[w].op /\ o.name = ops[w].name
        /\ o.guarded = ops[w].guarded /\ o.pc = "limit" /\ o.result = ops[w].result
    BY <1>2, <1>6, ReadingOp, EmptyList
  <1>9. OpOK(o) /\ Holding(o)
    BY <1>1, <1>2, <1>3, <1>8 DEF OpOK, Holding
  <1>10. HolderOK(o, files', rows')
    BY <1>1, <1>8 DEF HolderOK
  <1>11. ~broken' => \A n \in Members(rows') : n \in Members(files') \/ n \in Leaving(o)
    BY <1>1, <1>4
  <1> QED
    BY <1>1, <1>3, <1>5, <1>7, <1>9, <1>10, <1>11, HolderStep

-----------------------------------------------------------------------------
(* Failures, and every step.                                                 *)

LEMMA CacheFailsOK ==
    ASSUME CacheInv, NEW w \in Worker, Cache!Fails(w)
    PROVE  CacheInv'
  <1>1. /\ ops[w].pc \notin {"idle", "lock"} /\ ioFaults < MaxIOFaults /\ ioFaults' = ioFaults + 1
        /\ parts' \in {parts, parts \ {w}} /\ broken' = TRUE /\ Cache!Returns(w, "error")
        /\ UNCHANGED <<files, rows, limit, started, cacheOps>>
    BY DEF Cache!Fails
  <1>2. CacheSorts'
    BY <1>1, CacheAssumption DEF CacheInv, CacheSorts
  <1>3. CacheLists'
    BY <1>1 DEF CacheInv, CacheLists
  <1> QED
    BY <1>1, <1>2, <1>3, Returned

LEMMA CrashOK ==
    ASSUME CacheInv, Cache!Crash
    PROVE  CacheInv'
  <1>1. /\ ioFaults < MaxIOFaults /\ ioFaults' = ioFaults + 1 /\ started' = FALSE /\ broken' = TRUE
        /\ ops' = [w \in Worker |-> Cache!Idle] /\ lock' = NoWorker
        /\ UNCHANGED <<files, rows, parts, limit, cacheOps>>
    BY DEF Cache!Crash
  <1>2. CacheSorts' /\ CacheLists'
    <2>1. CacheLists'
      BY <1>1 DEF CacheInv, CacheLists
    <2>2. ioFaults' \in 0 .. MaxIOFaults
      BY <1>1, CacheAssumption DEF CacheInv, CacheSorts
    <2>3. started' \in BOOLEAN /\ broken' \in BOOLEAN
      BY <1>1
    <2> QED
      BY <1>1, <2>1, <2>2, <2>3 DEF CacheInv, CacheSorts
  <1>3. \A w \in Worker : ops'[w] = Cache!Idle
    BY <1>1
  <1>4. OpsOK'
    BY <1>1, <1>3, IdleIsOp DEF OpsOK
  <1>5. \A w \in Worker : ops'[w].pc = "idle" /\ ~Holding(ops'[w])
    BY <1>3, IdleIsOp DEF Holding
  <1> QED
    BY <1>1, <1>2, <1>4, <1>5, CacheAssumption DEF CacheInv, LockOK, StartedOK, HoldersOK, RowsHaveFiles

LEMMA CacheInit == Cache!Init => CacheInv
  <1> SUFFICES ASSUME Cache!Init PROVE CacheInv
    OBVIOUS
  <1>1. /\ files = <<>> /\ rows = <<>> /\ parts = {} /\ limit \in Limits /\ lock = NoWorker
        /\ ops = [w \in Worker |-> Cache!Idle]
        /\ started = FALSE /\ broken = FALSE /\ cacheOps = 0 /\ ioFaults = 0
    BY DEF Cache!Init
  <1>2. CacheSorts /\ CacheLists /\ Members(rows) = {}
    <2>1. CacheLists /\ Members(rows) = {}
      BY <1>1, EmptyList DEF CacheLists
    <2>2. cacheOps \in 0 .. MaxCacheOps /\ ioFaults \in 0 .. MaxIOFaults
      BY <1>1, CacheAssumption
    <2>3. started \in BOOLEAN /\ broken \in BOOLEAN /\ parts \subseteq Worker /\ limit \in Limits
      BY <1>1
    <2> QED
      BY <2>1, <2>2, <2>3 DEF CacheSorts
  <1>3. \A w \in Worker : ops[w] = Cache!Idle
    BY <1>1
  <1>4. OpsOK
    BY <1>1, <1>3, IdleIsOp DEF OpsOK
  <1>5. \A w \in Worker : ops[w].pc = "idle" /\ ~Holding(ops[w])
    BY <1>3, IdleIsOp DEF Holding
  <1> QED
    BY <1>1, <1>2, <1>4, <1>5, CacheAssumption DEF CacheInv, LockOK, StartedOK, HoldersOK, RowsHaveFiles

LEMMA CacheSteps ==
    ASSUME CacheInv, NEW w \in Worker, Cache!Step(w)
    PROVE  CacheInv'
  <1>1. CASE Cache!Lock(w)
    BY <1>1, LockTaken
  <1>2. CASE Cache!SaveExisting(w)
    BY <1>2, SaveExistingOK
  <1>3. CASE Cache!WriteTemp(w)
    BY <1>3, WriteTempOK
  <1>4. CASE Cache!RenameTemp(w)
    BY <1>4, RenameTempOK
  <1>5. CASE Cache!UpsertRow(w)
    BY <1>5, UpsertRowOK
  <1>6. CASE Cache!EnforceLimit(w)
    BY <1>6, EnforceLimitOK
  <1>7. CASE Cache!EvictFile(w)
    BY <1>7, EvictFileOK
  <1>8. CASE Cache!EvictRow(w)
    BY <1>8, EvictRowOK
  <1>9. CASE Cache!EvictionEnds(w)
    BY <1>9, EvictionEndsOK
  <1>10. CASE Cache!RemoveFiles(w)
    BY <1>10, RemoveFilesOK
  <1>11. CASE Cache!RemoveRows(w)
    BY <1>11, RemoveRowsOK
  <1>12. CASE Cache!WipeRows(w)
    BY <1>12, WipeRowsOK
  <1>13. CASE Cache!FillRows(w)
    BY <1>13, FillRowsOK
  <1> QED
    BY <1>1, <1>2, <1>3, <1>4, <1>5, <1>6, <1>7, <1>8, <1>9, <1>10, <1>11, <1>12, <1>13 DEF Cache!Step

LEMMA CacheStep == CacheInv /\ [Cache!Next]_cacheVars => CacheInv'
  <1> SUFFICES ASSUME CacheInv, [Cache!Next]_cacheVars PROVE CacheInv'
    OBVIOUS
  <1>1. CASE \E w \in Worker : Cache!Step(w)
    BY <1>1, CacheSteps
  <1>2. CASE \E w \in Worker : Cache!Fails(w)
    BY <1>2, CacheFailsOK
  <1>3. CASE \E w \in Worker : Cache!Startup(w)
    BY <1>3, StartupOK
  <1>4. CASE \E w \in Worker : Cache!Clear(w)
    BY <1>4, ClearOK
  <1>5. CASE \E w \in Worker : \E n \in Name : Cache!Save(w, n) \/ Cache!Delete(w, n)
    BY <1>5, SaveOK, DeleteOK
  <1>6. CASE \E w \in Worker : \E new \in Limits : Cache!Configure(w, new)
    BY <1>6, ConfigureOK
  <1>7. CASE Cache!Crash
    BY <1>7, CrashOK
  <1>8. CASE UNCHANGED cacheVars
    BY <1>8 DEF cacheVars, CacheInv, CacheSorts, CacheLists, OpsOK, LockOK, StartedOK, HoldersOK, RowsHaveFiles
  <1> QED
    BY <1>1, <1>2, <1>3, <1>4, <1>5, <1>6, <1>7, <1>8 DEF Cache!Next

-----------------------------------------------------------------------------
(* What the invariant says of the cache, and of the steps that end a save.   *)

LEMMA CacheInvGives == CacheInv => Cache!TypeOK /\ Cache!NoGhostRows
  <1> SUFFICES ASSUME CacheInv PROVE Cache!TypeOK /\ Cache!NoGhostRows
    OBVIOUS
  <1>1. ASSUME NEW s \in {files, rows} PROVE Cache!Distinct(s) /\ \A i \in DOMAIN s : s[i] \in Name
    BY DEF CacheInv, CacheLists, IsList
  <1>2. \A w \in Worker : ops[w].usage \in Nat
    BY DEF CacheInv, OpsOK, OpOK, CacheOp
  <1>3. Cache!TypeOK
    BY <1>1, <1>2 DEF CacheInv, CacheSorts, LockOK, Cache!TypeOK
  <1>4. ASSUME lock = NoWorker, ~broken, NEW i \in DOMAIN rows PROVE Cache!In(rows[i], files)
    <2>1. rows[i] \in Members(rows)
      BY DEF CacheInv, CacheLists, IsList, Members
    <2>2. rows[i] \in Members(files)
      BY <1>4, <2>1, CacheAssumption DEF CacheInv, RowsHaveFiles
    <2> QED
      BY <2>2, InMembers DEF CacheInv, CacheLists, IsList
  <1> QED
    BY <1>3, <1>4 DEF Cache!NoGhostRows

Serves(w) ==
    ops[w].op = "save" /\ ops[w].pc # "idle" /\ ops'[w].result = "ok" /\ ops'[w].op = "save" => Cache!In(ops[w].name, files')

Trims(w) ==
    LET max == IF ops[w].pc = "limit" THEN limit ELSE ops[w].max IN
    ops[w].pc \in {"limit", "evict"} /\ ops'[w].result = "ok" /\ ops'[w].pc = "idle" /\ max > 0
        => Cache!UsageBytes(rows') <= max \/ Len(rows') <= 1

(* An operation that has not returned has no result, and neither has one     *)
(* that goes on.                                                             *)
LEMMA OthersReturnNothing ==
    ASSUME CacheInv, NEW w \in Worker, NEW o, ops' = [ops EXCEPT ![w] = o], NEW v \in Worker,
           ops[v].pc # "idle", ops'[v].result = "ok", v # w \/ o.result = "none"
    PROVE  FALSE
  <1>1. ops[v].result = "none"
    BY WhoMoves DEF OpOK
  <1>2. ops'[v] = IF v = w THEN o ELSE ops[v]
    BY DEF CacheInv, OpsOK
  <1> QED
    BY <1>1, <1>2

(* Which steps return "ok".                                                  *)
Returning(w) ==
    \/ Cache!SaveExisting(w) \/ Cache!RenameTemp(w) \/ Cache!EnforceLimit(w) \/ Cache!EvictionEnds(w)
    \/ Cache!RemoveRows(w)

LEMMA OnlyReturns ==
    ASSUME CacheInv, [Cache!Next]_cacheVars, NEW v \in Worker, ops[v].pc # "idle", ops'[v].result = "ok"
    PROVE  Returning(v) /\ Cache!Returns(v, "ok")
  <1>1. ops[v].result = "none"
    BY WhoMoves DEF OpOK
  <1>2. ASSUME NEW w \in Worker, NEW p, Cache!Goes(w, p) PROVE FALSE
    <2>1. ops'[v].result = ops[v].result
      <3>1. v \in DOMAIN ops /\ ops[v] \in CacheOp
        BY WhoMoves DEF CacheInv, OpsOK, OpOK
      <3> QED
        BY <1>2, <3>1 DEF Cache!Goes, CacheOp
    <2> QED
      BY <1>1, <2>1
  <1>3. ASSUME NEW w \in Worker, NEW result, Cache!Returns(w, result), v # w \/ result # "ok" PROVE FALSE
    <2>1. ops' = [ops EXCEPT ![w] = Ended(ops[w], result)]
      BY <1>3 DEF Cache!Returns, Ended
    <2>2. ops'[v] = IF v = w THEN Ended(ops[w], result) ELSE ops[v]
      BY <2>1 DEF CacheInv, OpsOK
    <2>3. Ended(ops[w], result).result = result
      BY DEF Ended, Cache!Idle
    <2> QED
      BY <1>1, <1>3, <2>2, <2>3
  <1>4. ASSUME NEW w \in Worker, NEW kind, NEW n, NEW guarded, Cache!Begins(w, kind, n, guarded) PROVE FALSE
    <2>1. ops' = [ops EXCEPT ![w] = Begun(kind, n, guarded)]
      BY <1>4 DEF Cache!Begins, Begun
    <2>2. ops'[v] = IF v = w THEN Begun(kind, n, guarded) ELSE ops[v]
      BY <2>1 DEF CacheInv, OpsOK
    <2>3. Begun(kind, n, guarded).result = "none"
      BY DEF Begun, Cache!Idle
    <2> QED
      BY <1>1, <2>2, <2>3
  <1>5. ASSUME NEW w \in Worker, NEW o, ops' = [ops EXCEPT ![w] = o], o.result = "none" PROVE FALSE
    BY <1>5, OthersReturnNothing
  <1>6. ASSUME NEW w \in Worker, Cache!Step(w) PROVE Returning(v) /\ Cache!Returns(v, "ok")
    <2>1. \A p : ~Cache!Goes(w, p)
      BY <1>2
    <2>2. \A result : Cache!Returns(w, result) => v = w /\ result = "ok"
      BY <1>3
    <2>3. ops[w].result = "none" \/ ops[w].pc = "idle"
      BY WhoMoves DEF OpOK
    <2>4. ops[w] \in CacheOp
      BY WhoMoves DEF OpOK
    <2>5. ~Cache!Lock(w) /\ ~Cache!WriteTemp(w) /\ ~Cache!UpsertRow(w) /\ ~Cache!EvictFile(w) /\ ~Cache!RemoveFiles(w)
      BY <2>1 DEF Cache!Lock, Cache!WriteTemp, Cache!UpsertRow, Cache!EvictFile, Cache!RemoveFiles
    <2>6. ~Cache!WipeRows(w)
      <3> SUFFICES ASSUME Cache!WipeRows(w) PROVE FALSE
        OBVIOUS
      <3>1. ops' = [ops EXCEPT ![w] = Reading(ops[w], "fill", files)]
        BY DEF Cache!WipeRows, Reading, CacheInv, OpsOK
      <3>2. Reading(ops[w], "fill", files).result = "none"
        BY <2>3, <2>4 DEF Cache!WipeRows, Cache!At, Reading, CacheOp
      <3> QED
        BY <1>5, <3>1, <3>2
    <2>7. ~Cache!FillRows(w)
      <3> SUFFICES ASSUME Cache!FillRows(w) PROVE FALSE
        OBVIOUS
      <3>1. ops' = [ops EXCEPT ![w] = Reading(ops[w], "limit", <<>>)]
        BY DEF Cache!FillRows, Reading, CacheInv, OpsOK
      <3>2. Reading(ops[w], "limit", <<>>).result = "none"
        BY <2>3, <2>4 DEF Cache!FillRows, Cache!At, Reading, CacheOp
      <3> QED
        BY <1>5, <3>1, <3>2
    <2>8. ~Cache!EvictRow(w)
      <3> SUFFICES ASSUME Cache!EvictRow(w) PROVE FALSE
        OBVIOUS
      <3>1. PICK o : o = [ops[w] EXCEPT !.pc = "evict", !.left = Tail(@), !.usage = @ - Size[Head(ops[w].left)]]
        OBVIOUS
      <3>2. ops' = [ops EXCEPT ![w] = o] /\ ops[w].pc = "evictRow"
        BY <3>1 DEF Cache!EvictRow, CacheInv, OpsOK
      <3>3. o.result = "none"
        BY <2>3, <2>4, <3>1, <3>2 DEF CacheOp
      <3> QED
        BY <1>5, <3>2, <3>3
    <2>9. Returning(w)
      BY <1>6, <2>5, <2>6, <2>7, <2>8 DEF Cache!Step, Returning
    <2>10. CASE Cache!SaveExisting(w)
      BY <2>1, <2>2, <2>9, <2>10 DEF Cache!SaveExisting
    <2>11. CASE Cache!RenameTemp(w)
      BY <2>1, <2>2, <2>9, <2>11 DEF Cache!RenameTemp
    <2>12. CASE Cache!EnforceLimit(w)
      <3>1. CASE Cache!Returns(w, "ok")
        BY <2>2, <2>9, <3>1
      <3>2. CASE ~Cache!Returns(w, "ok")
        <4>1. PICK left : left = Cache!Kept(rows, Name \ {rows[Len(rows)], ops[w].name})
          OBVIOUS
        <4>2. PICK o : o = Evicting(ops[w], left, Cache!UsageBytes(rows), limit)
          OBVIOUS
        <4>3. ops' = [ops EXCEPT ![w] = o] /\ ops[w].pc = "limit"
          BY <2>12, <3>2, <4>1, <4>2 DEF Cache!EnforceLimit, Evicting, CacheInv, OpsOK
        <4>4. o.result = "none"
          BY <2>3, <2>4, <4>2, <4>3 DEF Evicting, CacheOp
        <4> QED
          BY <1>5, <4>3, <4>4
      <3> QED
        BY <3>1, <3>2
    <2>13. CASE Cache!EvictionEnds(w)
      BY <2>2, <2>9, <2>13 DEF Cache!EvictionEnds
    <2>14. CASE Cache!RemoveRows(w)
      BY <2>2, <2>9, <2>14 DEF Cache!RemoveRows
    <2> QED
      BY <2>9, <2>10, <2>11, <2>12, <2>13, <2>14 DEF Returning
  <1>7. \A w \in Worker : ~Cache!Fails(w)
    BY <1>3 DEF Cache!Fails
  <1>8. \A w \in Worker : ~Cache!Startup(w)
    BY WhoMoves DEF Cache!Startup
  <1>9. \A w \in Worker : ~Cache!Clear(w) /\ \A n \in Name : ~Cache!Save(w, n) /\ ~Cache!Delete(w, n)
    BY <1>4 DEF Cache!Clear, Cache!Save, Cache!Delete
  <1>10. ASSUME UNCHANGED ops PROVE FALSE
    BY <1>1, <1>10
  <1>11. \A w \in Worker : \A new \in Limits : ~Cache!Configure(w, new)
    BY <1>4, <1>10 DEF Cache!Configure
  <1>12. ~Cache!Crash
    BY IdleIsOp DEF Cache!Crash
  <1> QED
    BY <1>6, <1>7, <1>8, <1>9, <1>10, <1>11, <1>12 DEF Cache!Next, cacheVars

LEMMA SavesServe ==
    ASSUME CacheInv, [Cache!Next]_cacheVars, NEW w \in Worker
    PROVE  Serves(w)
  <1> SUFFICES ASSUME ops[w].op = "save", ops[w].pc # "idle", ops'[w].result = "ok"
               PROVE  Cache!In(ops[w].name, files')
    BY DEF Serves
  <1>1. Returning(w) /\ Cache!Returns(w, "ok")
    BY OnlyReturns
  <1>2. OpOK(ops[w]) /\ IsList(files)
    BY WhoMoves DEF CacheInv, CacheLists
  <1>3. CASE Cache!SaveExisting(w)
    BY <1>3 DEF Cache!SaveExisting, Cache!In
  <1>4. CASE Cache!RenameTemp(w)
    <2>1. w \in parts
      <3> SUFFICES ASSUME w \notin parts PROVE FALSE
        OBVIOUS
      <3>1. Cache!Returns(w, "error")
        BY <1>4 DEF Cache!RenameTemp
      <3>2. ops' = [ops EXCEPT ![w] = Ended(ops[w], "error")]
        BY <3>1 DEF Cache!Returns, Ended
      <3>3. ops'[w].result = "error"
        BY <1>2, <3>2, EndedOp DEF CacheInv, OpsOK
      <3> QED
        BY <3>3
    <2>2. IsList(files') /\ ops[w].name \in Members(files')
      BY <1>4, <2>1, RenamedFiles
    <2> QED
      BY <2>2, InMembers DEF IsList
  <1>5. CASE Cache!EnforceLimit(w) \/ Cache!EvictionEnds(w)
    <2>1. ops[w].pc \in {"limit", "evict"} /\ UNCHANGED files
      BY <1>5 DEF Cache!EnforceLimit, Cache!EvictionEnds
    <2>2. ops[w].guarded /\ lock = w
      BY <1>2, <2>1, WhoMoves DEF OpOK, Holding
    <2>3. ops[w].name \in Members(files)
      BY <2>1, <2>2, WhoMoves DEF HolderOK
    <2> QED
      BY <1>2, <2>1, <2>3, InMembers DEF IsList
  <1>6. CASE Cache!RemoveRows(w)
    BY <1>2, <1>6 DEF Cache!RemoveRows, OpOK
  <1> QED
    BY <1>1, <1>3, <1>4, <1>5, <1>6 DEF Returning

(* A list all of whose members are one name has one entry at most.           *)
LEMMA OneIsShort ==
    ASSUME NEW seq, IsList(seq), NEW x, Members(seq) \subseteq {x}
    PROVE  Len(seq) <= 1
  <1>1. PICK n \in Nat : n = Len(seq)
    BY DEF IsList
  <1> SUFFICES ASSUME n > 1 PROVE FALSE
    BY <1>1
  <1>2. 1 \in 1 .. n /\ 2 \in 1 .. n
    BY <1>1
  <1>3. seq[1] = x /\ seq[2] = x
    BY <1>1, <1>2 DEF Members
  <1>4. 1 \in DOMAIN seq /\ 2 \in DOMAIN seq
    BY <1>1, <1>2 DEF IsList
  <1> QED
    BY <1>3, <1>4 DEF IsList, Cache!Distinct

LEMMA WatermarkIsBelow ==
    ASSUME NEW max \in Nat
    PROVE  Cache!LowWatermark(max) \in Nat /\ Cache!LowWatermark(max) <= max
  BY DEF Cache!LowWatermark

LEMMA OperationsTrim ==
    ASSUME CacheInv, [Cache!Next]_cacheVars, NEW w \in Worker
    PROVE  Trims(w)
  <1>1. PICK max : max = IF ops[w].pc = "limit" THEN limit ELSE ops[w].max
    OBVIOUS
  <1> SUFFICES ASSUME ops[w].pc \in {"limit", "evict"}, ops'[w].result = "ok", max > 0
               PROVE  Cache!UsageBytes(rows') <= max \/ Len(rows') <= 1
    BY <1>1 DEF Trims
  <1>2. Returning(w) /\ Cache!Returns(w, "ok")
    BY OnlyReturns
  <1>3. OpOK(ops[w]) /\ IsList(rows) /\ limit \in Nat /\ ops[w].max \in Nat
    BY WhoMoves, CacheAssumption DEF CacheInv, CacheLists, CacheSorts, OpOK, CacheOp
  <1>4. CASE Cache!EnforceLimit(w)
    <2>1. ops[w].pc = "limit" /\ UNCHANGED rows
      BY <1>4 DEF Cache!EnforceLimit
    <2>2. CASE limit = 0 \/ Cache!UsageBytes(rows) <= limit
      BY <1>1, <2>1, <2>2
    <2>3. CASE ~(limit = 0 \/ Cache!UsageBytes(rows) <= limit)
      <3>1. ops'[w].pc = "evict"
        BY <1>4, <2>3 DEF Cache!EnforceLimit, CacheInv, OpsOK, OpOK, CacheOp
      <3>2. ops'[w].pc = "idle"
        BY <1>2, <1>3, EndedOp DEF Cache!Returns, Ended, CacheInv, OpsOK
      <3> QED
        BY <3>1, <3>2
    <2> QED
      BY <2>2, <2>3
  <1>5. CASE Cache!EvictionEnds(w)
    <2>1. /\ ops[w].pc = "evict" /\ UNCHANGED rows
          /\ ops[w].left = <<>> \/ ops[w].usage <= Cache!LowWatermark(ops[w].max)
      BY <1>5 DEF Cache!EvictionEnds
    <2>2. ops[w].guarded /\ lock = w
      BY <1>3, <2>1, WhoMoves DEF OpOK, Holding
    <2>3. /\ ops[w].usage = Cache!UsageBytes(rows)
          /\ \E x : Members(rows) = Members(ops[w].left) \cup {x}
      BY <2>1, <2>2, WhoMoves DEF HolderOK
    <2>4. max = ops[w].max
      BY <1>1, <2>1
    <2>5. CASE ops[w].left = <<>>
      <3>1. PICK x : Members(rows) \subseteq {x}
        BY <2>3, <2>5, EmptyList
      <3> QED
        BY <1>3, <2>1, <3>1, OneIsShort
    <2>6. CASE ops[w].usage <= Cache!LowWatermark(ops[w].max)
      <3>1. ops[w].usage \in Nat
        BY <1>3 DEF OpOK, CacheOp
      <3>2. PICK low \in Nat : low = Cache!LowWatermark(ops[w].max) /\ low <= max
        BY <1>3, <2>4, WatermarkIsBelow
      <3>3. ops[w].usage <= max
        BY <1>3, <2>4, <2>6, <3>1, <3>2
      <3> QED
        BY <2>1, <2>3, <3>3
    <2> QED
      BY <2>1, <2>5, <2>6
  <1>6. CASE Cache!SaveExisting(w) \/ Cache!RenameTemp(w) \/ Cache!RemoveRows(w)
    BY <1>6 DEF Cache!SaveExisting, Cache!RenameTemp, Cache!RemoveRows, Cache!At
  <1> QED
    BY <1>2, <1>4, <1>5, <1>6 DEF Returning

(* While nobody holds the lock the index lists no file that is gone, what a  *)
(* crash or a failing call left behind apart; a save that reports success    *)
(* has its file on disk, and an operation that trimmed the cache left it     *)
(* within the limit it had read, or one file alone exceeds it.               *)
THEOREM CacheStaysTrue == Spec => CacheIsTrue
  <1>1. Init => CacheInv
    BY CacheInit DEF Init
  <1>2. [Next]_vars => [Cache!Next]_cacheVars
    BY DEF Next, vars, InDispatch, InVideo, InBatch, InSessions, InCache
  <1>3. CacheInv /\ [Next]_vars => CacheInv'
    BY <1>2, CacheStep
  <1>4. CacheInv /\ [Next]_vars =>
           [\A w \in Worker : (ops[w].op = "save" /\ ops[w].pc # "idle" /\ ops'[w].result = "ok"
                               /\ ops'[w].op = "save") => Cache!In(ops[w].name, files')]_cacheVars
    BY <1>2, SavesServe DEF Serves
  <1>5. CacheInv /\ [Next]_vars =>
           [\A w \in Worker :
               LET max == IF ops[w].pc = "limit" THEN limit ELSE ops[w].max IN
               (ops[w].pc \in {"limit", "evict"} /\ ops'[w].result = "ok" /\ ops'[w].pc = "idle"
                /\ max > 0) => (Cache!UsageBytes(rows') <= max \/ Len(rows') <= 1)]_cacheVars
    BY <1>2, OperationsTrim DEF Trims
  <1> QED
    BY <1>1, <1>3, <1>4, <1>5, CacheInvGives, PTL
    DEF Spec, CacheIsTrue, Cache!CacheIsTrue, Cache!SavedIsServed, Cache!TrimmedToLimit, cacheVars, Cache!vars
=============================================================================
