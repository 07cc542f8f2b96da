---------------------------- MODULE BuildAccounts ----------------------------
(***************************************************************************)
(* The accounts of the Build provider (src/app/control/buildaccount), the  *)
(* requests that use them (products/openai/build_*.go) and the admin       *)
(* handlers and batches that maintain them (products/web/admin/build_*.go).*)
(*                                                                         *)
(* Every call of the store is one statement under one mutex, so a call is  *)
(* one step; what interleaves are the calls of different flows.  A flow    *)
(* works on the COPIES of the accounts it listed when it began: tokens,    *)
(* expiry and billing of a copy are as old as the listing.                 *)
(*                                                                         *)
(* External, modelled from its use: the OAuth server, which holds for each *)
(* account the set of refresh tokens it still accepts and, when it         *)
(* rotates, replaces the token of every exchange; and the Build upstream,  *)
(* which answers as it likes.                                              *)
(***************************************************************************)
EXTENDS Integers, Sequences, FiniteSets, SequencesExt

CONSTANTS User,          \* user_id of the credentials that are imported
          MaxIds,        \* rows the table may ever hold (bound)
          Flow,          \* concurrent requests and admin jobs
          FlowKinds,     \* what each of them may be
          Payloads,      \* bodies of GET /billing: see ParseBilling
          Answers,       \* what the upstream answers: "ok", "401", "402", "429", "500"
          QuotaPause,    \* FreeQuotaRecoveryPause (2 h), in ticks
          PaymentPause,  \* PaymentRequiredRecoveryPause (20 h), in ticks
          MaxTokens,     \* refresh tokens the server ever hands out (bound)
          MaxBuildOps,   \* flows, operator calls and outside events (bound)
          MaxStoreErrors,\* store calls that fail (bound)
          NoRow,         \* a row not inserted yet, or deleted
          NoBilling      \* an account whose billing was never synced

BuildAssumption ==
    /\ MaxIds \in Nat \ {0} /\ MaxTokens \in Nat \ {0}
    /\ QuotaPause \in Nat /\ PaymentPause \in Nat
    /\ \A body \in Payloads : body.period \in Nat

VARIABLES brow,     \* build_accounts: id -> row
          nextId,   \* AUTOINCREMENT
          flows,    \* the flows
          valid,    \* external: refresh tokens the server accepts, per id
          lastToken,\* external: the last refresh token handed out
          rotates,  \* external: an exchange replaces the refresh token
          models,   \* defaultBuildModelsCache: [ids, fresh]
          owed,     \* history: ticks a refused account has still to rest
          damaged,  \* history: ids whose grant was revoked once, or whose new token was once not stored
          marked,   \* history: ids whose last status was set by an operator
          buildOps, storeErrors

vars == <<brow, nextId, flows, valid, lastToken, rotates, models, owed, damaged, marked, buildOps, storeErrors>>

Id == 1..MaxIds
Product == {"chat", "responses", "models"}
Present == {i \in Id : brow[i] # NoRow}
Lower(n) == IF n > 0 THEN n - 1 ELSE 0

(* Billing of GET /billing: limits and use in units, the period's end in     *)
(* ticks (0 unknown).  The percentage is derived when the body has none.     *)
ParseBilling(body) ==
    [limit |-> body.limit, used |-> body.used, cap |-> body.cap, onUsed |-> body.onUsed,
     prepaid |-> body.prepaid, period |-> body.period,
     percent |-> CASE body.cap > 0 -> (body.onUsed * 100) \div body.cap
                   [] body.cap = 0 /\ body.limit > 0 -> (body.used * 100) \div body.limit
                   [] OTHER -> 0]
MergeBillingSnapshots(monthly, credits) ==
    [monthly EXCEPT !.cap = credits.cap, !.onUsed = credits.onUsed,
                    !.prepaid = credits.prepaid, !.percent = credits.percent]
GetBilling ==
    LET parsed == {ParseBilling(b) : b \in Payloads}
    IN parsed \cup {MergeBillingSnapshots(m, c) : m \in parsed, c \in parsed}
Billing == GetBilling \cup {NoBilling}
QuotaExhausted(b) ==
    /\ b # NoBilling
    /\ \/ b.percent >= 100
       \/ /\ b.prepaid = 0
          /\ ~(b.cap > 0 /\ b.onUsed < b.cap)
          /\ ~(b.limit > 0 /\ b.used < b.limit)
          /\ b.limit > 0 \/ b.cap > 0 \/ b.percent > 0
PaymentCoolingUntil(b) == IF b # NoBilling /\ b.period > 0 THEN b.period ELSE PaymentPause

Status == {"active", "cooling", "disabled", "expired"}
Row == [user : User, access : BOOLEAN, refresh : 0..MaxTokens, fresh : BOOLEAN,
        status : Status, cool : Nat, billing : Billing, old : BOOLEAN]
(* The part of a row a flow's copy is used for. *)
Copy(i) == [id |-> i, access |-> brow[i].access, refresh |-> brow[i].refresh,
            fresh |-> brow[i].fresh, billing |-> brow[i].billing]

Idle == [kind |-> "none", pc |-> "idle", todo |-> <<>>, retried |-> FALSE, new |-> 0, result |-> "none"]
Acc(f) == Head(flows[f].todo)
At(f, label) == flows[f].pc = label
Move(f, to) == flows' = [flows EXCEPT ![f] = to]
Goto(f, pc) == [flows[f] EXCEPT !.pc = pc]
(* The loop's "continue": the next account of the list. *)
NextAccount(f) == [flows[f] EXCEPT !.pc = "next", !.todo = Tail(@), !.retried = FALSE]
Served(f, result) == [flows[f] EXCEPT !.pc = "done", !.todo = <<>>, !.result = result]

-----------------------------------------------------------------------------
(* The store. *)

SetStatusUntil(i, status, until) ==
    IF i \in Present
    THEN brow' = [brow EXCEPT ![i].status = status,
                              ![i].cool = IF status = "cooling" THEN until ELSE 0,
                              ![i].old = FALSE]
    ELSE UNCHANGED brow
(* Faulty variant: the new refresh token is not stored. *)
UpdateAccessToken(i, refresh) ==
    IF i \in Present
    THEN brow' = [brow EXCEPT ![i].access = TRUE, ![i].fresh = TRUE, ![i].status = "active"]
    ELSE UNCHANGED brow

(* The renewed token makes the account active, whatever it was. *)
UpdateTokens(i, refresh) ==
    IF i \in Present
    THEN brow' = [brow EXCEPT ![i].access = TRUE, ![i].refresh = refresh, ![i].fresh = TRUE,
                              ![i].status = "active", ![i].old = FALSE]
    ELSE UNCHANGED brow
UpdateBilling(i, billing) ==
    IF i \in Present
    THEN brow' = [brow EXCEPT ![i].billing = billing, ![i].old = FALSE]
    ELSE UNCHANGED brow
(* Faulty variant: the cooldown is not looked at. *)
ListByStatus == {i \in Present : brow[i].status = "active"}

ListActive == {i \in Present : brow[i].status = "active" /\ brow[i].cool = 0}

(* ORDER BY id: the one ordered sequence of a set of numbers. *)
Ordered(S) ==
    {s \in [1..Cardinality(S) -> S] : \A m, n \in DOMAIN s : m < n => s[m] < s[n]}

Init ==
    /\ \E u \in User, access, fresh \in BOOLEAN :
          brow = [i \in Id |-> IF i = 1
                   THEN [user |-> u, access |-> access, refresh |-> 1, fresh |-> access /\ fresh,
                         status |-> "active", cool |-> 0, billing |-> NoBilling, old |-> FALSE]
                   ELSE NoRow]
    /\ nextId = 2
    /\ flows = [f \in Flow |-> Idle]
    /\ valid = [i \in Id |-> IF i = 1 THEN {1} ELSE {}]
    /\ lastToken = 1
    /\ rotates \in BOOLEAN
    /\ models = [ids |-> FALSE, fresh |-> FALSE]
    /\ owed = [i \in Id |-> 0]
    /\ damaged = {} /\ marked = {}
    /\ buildOps = 0 /\ storeErrors = 0

Counted == buildOps < MaxBuildOps /\ buildOps' = buildOps + 1

-----------------------------------------------------------------------------
(* The operator. *)

(* Import and a device login that succeeded: FromCredential, then Upsert by  *)
(* user_id.  The row keeps its cooldown and its billing; a deleted account   *)
(* comes back under a new id.  The credential is a new grant of the server.  *)
Upsert(u, access, refresh) ==
    /\ Counted
    /\ LET known == {i \in Present : brow[i].user = u}
           i == IF known # {} THEN CHOOSE x \in known : TRUE ELSE nextId
           g == lastToken + 1
           kept == IF known # {} THEN brow[i] ELSE [cool |-> 0, billing |-> NoBilling]
       IN /\ i \in Id
          /\ refresh => g <= MaxTokens
          /\ brow' = [brow EXCEPT ![i] =
                [user |-> u, access |-> access, refresh |-> IF refresh THEN g ELSE 0, fresh |-> access,
                 status |-> "active", cool |-> kept.cool, billing |-> kept.billing, old |-> FALSE]]
          /\ nextId' = IF known # {} THEN nextId ELSE nextId + 1
          /\ valid' = IF refresh THEN [valid EXCEPT ![i] = @ \cup {g}] ELSE valid
          /\ lastToken' = IF refresh THEN g ELSE lastToken
          /\ marked' = marked \cup {i}
    /\ UNCHANGED <<flows, rotates, models, owed, damaged, storeErrors>>
(* What ParseCredentials lets through: it refuses an entry without any token. *)
Credentials == {c \in [access : BOOLEAN, refresh : BOOLEAN] : c.access \/ c.refresh}
Import == \E u \in User, c \in Credentials : Upsert(u, c.access, c.refresh)
DevicePoll == \E u \in User : Upsert(u, TRUE, TRUE)

SetStatus(i, status) ==
    /\ Counted
    /\ i \in Present
    /\ SetStatusUntil(i, status, QuotaPause)
    /\ owed' = [owed EXCEPT ![i] = IF status = "cooling" THEN QuotaPause ELSE 0]
    /\ marked' = marked \cup {i}
    /\ UNCHANGED <<nextId, flows, valid, lastToken, rotates, models, damaged, storeErrors>>
Delete(i) ==
    /\ Counted
    /\ i \in Present
    /\ brow' = [brow EXCEPT ![i] = NoRow]
    /\ UNCHANGED <<nextId, flows, valid, lastToken, rotates, models, owed, damaged, marked, storeErrors>>

-----------------------------------------------------------------------------
(* A flow begins with a listing; nothing of the accounts is read again,      *)
(* except where the admin's billing flow says so.                            *)

Begin(f, kind, listed, pc) ==
    /\ flows[f].pc \in {"idle", "done"}
    /\ kind \in FlowKinds[f]
    /\ Counted
    /\ \E s \in Ordered(listed) :
          Move(f, [Idle EXCEPT !.kind = kind, !.pc = pc, !.todo = [n \in DOMAIN s |-> Copy(s[n])]])
    /\ UNCHANGED <<brow, nextId, valid, lastToken, rotates, models, owed, damaged, marked, storeErrors>>
BuildCompletions(f) == Begin(f, "chat", ListActive, "filter")
BuildResponses(f) == Begin(f, "responses", ListActive, "filter")
ListBuildModelSpecs(f) ==
    ~(models.ids /\ models.fresh) /\ Begin(f, "models", ListActive, "next")
BillingBatch(f) == Begin(f, "billing", Present, "next")
BillingOne(f, i) == i \in Present /\ Begin(f, "billing", {i}, "next")
RefreshBatch(f) == Begin(f, "renew", Present, "next")
CleanupBatch(f) ==
    \E how \in {"expired", "disabled"} :
        Begin(f, "cleanup", {i \in Present : brow[i].status = how}, "next")
AutoClean(f) ==
    Begin(f, "cleanup", {i \in Present : brow[i].status = "expired" /\ brow[i].old}, "next")

(* filterBuildAccountsByBilling: the accounts whose copy says the quota is   *)
(* used up are cooled and dropped from the list.                             *)
FilterByBilling(f) ==
    /\ At(f, "filter")
    /\ LET full == {c.id : c \in {d \in ToSet(flows[f].todo) : QuotaExhausted(d.billing)}} \cap Present
       IN /\ brow' = [i \in Id |-> IF i \in full
                         THEN [brow[i] EXCEPT !.status = "cooling", !.cool = QuotaPause, !.old = FALSE]
                         ELSE brow[i]]
          /\ owed' = [i \in Id |-> IF i \in full THEN QuotaPause ELSE owed[i]]
          /\ marked' = marked \ full
    /\ \E s \in Ordered({n \in DOMAIN flows[f].todo : ~QuotaExhausted(flows[f].todo[n].billing)}) :
          Move(f, [flows[f] EXCEPT !.pc = "next", !.todo = [n \in DOMAIN s |-> @[s[n]]]])
    /\ UNCHANGED <<nextId, valid, lastToken, rotates, models, damaged, buildOps, storeErrors>>

(* ensureBuildAccessToken, in its two versions: a request without a refresh  *)
(* token goes on with the old access token, an admin job does not.           *)
NeedsRefresh(c) == ~c.access \/ ~c.fresh
Ensure(f) ==
    /\ At(f, "next")
    /\ flows[f].kind \in {"chat", "responses", "models", "billing"}
    /\ flows[f].todo # <<>>
    /\ Move(f, CASE ~NeedsRefresh(Acc(f)) -> Goto(f, "call")
                 [] NeedsRefresh(Acc(f)) /\ Acc(f).refresh # 0 -> Goto(f, "exchange")
                 [] OTHER -> IF flows[f].kind \in Product /\ Acc(f).access
                             THEN Goto(f, "call") ELSE NextAccount(f))
    /\ UNCHANGED <<brow, nextId, valid, lastToken, rotates, models, owed, damaged, marked, buildOps, storeErrors>>
RenewListed(f) ==
    /\ At(f, "next") /\ flows[f].kind = "renew" /\ flows[f].todo # <<>>
    /\ Move(f, IF Acc(f).refresh # 0 THEN Goto(f, "exchange") ELSE NextAccount(f))
    /\ UNCHANGED <<brow, nextId, valid, lastToken, rotates, models, owed, damaged, marked, buildOps, storeErrors>>
DeleteListed(f) ==
    /\ At(f, "next") /\ flows[f].kind = "cleanup" /\ flows[f].todo # <<>>
    /\ brow' = [brow EXCEPT ![Acc(f).id] = NoRow]
    /\ Move(f, NextAccount(f))
    /\ UNCHANGED <<nextId, valid, lastToken, rotates, models, owed, damaged, marked, buildOps, storeErrors>>
ListExhausted(f) ==
    /\ At(f, "next") /\ flows[f].todo = <<>>
    /\ Move(f, Served(f, "error"))
    /\ UNCHANGED <<brow, nextId, valid, lastToken, rotates, models, owed, damaged, marked, buildOps, storeErrors>>

(* OAuthClient.Refresh with the refresh token of the copy.  The server       *)
(* answers 400 or 401 for a token it does not know, which is permanent.      *)
Exchange(f) ==
    /\ At(f, "exchange")
    /\ LET i == Acc(f).id  g == Acc(f).refresh IN
         IF g \in valid[i]
         THEN /\ rotates => lastToken < MaxTokens
              /\ LET new == IF rotates THEN lastToken + 1 ELSE g IN
                   /\ valid' = [valid EXCEPT ![i] = (@ \ {g}) \cup {new}]
                   /\ lastToken' = IF rotates THEN new ELSE lastToken
                   /\ Move(f, [flows[f] EXCEPT !.pc = "granted", !.new = new])
         ELSE Move(f, Goto(f, "refused")) /\ UNCHANGED <<valid, lastToken>>
    /\ UNCHANGED <<brow, nextId, rotates, models, owed, damaged, marked, buildOps, storeErrors>>
(* A transport error, 429 or 5xx of the token endpoint.  The request that    *)
(* was answered 401 ends with that 401.                                      *)
ExchangeFails(f) ==
    /\ At(f, "exchange")
    /\ Move(f, NextAccount(f))
    /\ UNCHANGED <<brow, nextId, valid, lastToken, rotates, models, owed, damaged, marked, buildOps, storeErrors>>

(* After the renewal: a batch goes to the next account, a request calls with *)
(* the new access token, the billing flow reads the account again.           *)
Renewed(f) ==
    CASE flows[f].kind = "renew" -> NextAccount(f)
      [] flows[f].kind \in Product -> Goto(f, "call")
      [] OTHER -> Goto(f, "reread")
StoreTokens(f) ==
    /\ At(f, "granted")
    /\ UpdateTokens(Acc(f).id, flows[f].new)
    /\ marked' = marked \ {Acc(f).id}
    /\ Move(f, Renewed(f))
    /\ UNCHANGED <<nextId, valid, lastToken, rotates, models, owed, damaged, buildOps, storeErrors>>
(* The error of UpdateTokens is ignored by a request (`_ =`), which goes on  *)
(* with the new access token, and ends the account's turn in a batch.        *)
StoreTokensFails(f) ==
    /\ At(f, "granted")
    /\ storeErrors < MaxStoreErrors
    /\ storeErrors' = storeErrors + 1
    /\ damaged' = damaged \cup {Acc(f).id}
    /\ Move(f, IF flows[f].kind \in Product THEN Renewed(f) ELSE NextAccount(f))
    /\ UNCHANGED <<brow, nextId, valid, lastToken, rotates, models, owed, marked, buildOps>>
MarkExpired(f) ==
    /\ At(f, "refused")
    /\ SetStatusUntil(Acc(f).id, "expired", 0)
    /\ owed' = [owed EXCEPT ![Acc(f).id] = 0]
    /\ marked' = marked \ {Acc(f).id}
    /\ Move(f, NextAccount(f))
    /\ UNCHANGED <<nextId, valid, lastToken, rotates, models, damaged, buildOps, storeErrors>>
(* store.Get after the renewal. *)
Reread(f) ==
    /\ At(f, "reread")
    /\ Move(f, IF Acc(f).id \in Present
               THEN [flows[f] EXCEPT !.pc = "call", !.todo = <<Copy(Acc(f).id)>> \o Tail(@)]
               ELSE NextAccount(f))
    /\ UNCHANGED <<brow, nextId, valid, lastToken, rotates, models, owed, damaged, marked, buildOps, storeErrors>>

-----------------------------------------------------------------------------
(* The upstream answers; what the handler then writes is in the same step,   *)
(* as the answer is a free choice.                                           *)

Cool(i, pause) ==
    /\ SetStatusUntil(i, "cooling", pause)
    /\ owed' = [owed EXCEPT ![i] = pause]
    /\ marked' = marked \ {i}
HandleBuildUpstreamFailure(acc, answer) ==
    CASE answer = "402" -> Cool(acc.id, PaymentCoolingUntil(acc.billing))
      [] answer = "429" -> Cool(acc.id, QuotaPause)
      [] OTHER -> UNCHANGED <<brow, owed, marked>>
InvokeBuildOnce(f, answer) ==
    /\ At(f, "call") /\ flows[f].kind \in {"chat", "responses"} /\ ~flows[f].retried
    /\ IF answer = "401" /\ Acc(f).refresh # 0
       THEN Move(f, [flows[f] EXCEPT !.pc = "exchange", !.retried = TRUE]) /\ UNCHANGED <<brow, owed, marked>>
       ELSE IF answer = "ok"
       THEN Move(f, Served(f, "ok")) /\ UNCHANGED <<brow, owed, marked>>
       ELSE Move(f, NextAccount(f)) /\ HandleBuildUpstreamFailure(Acc(f), answer)
    /\ UNCHANGED <<nextId, valid, lastToken, rotates, models, damaged, buildOps, storeErrors>>
(* The answer after the renewal is read without looking at its status: an    *)
(* error body is no chat completion (extractOutputText fails) and the next   *)
(* account is tried, but /v1/responses hands it out as a completed response. *)
ReadRetried(f, answer) ==
    /\ At(f, "call") /\ flows[f].kind \in {"chat", "responses"} /\ flows[f].retried
    /\ Move(f, IF answer = "ok" \/ flows[f].kind = "responses" THEN Served(f, answer) ELSE NextAccount(f))
    /\ UNCHANGED <<brow, nextId, valid, lastToken, rotates, models, owed, damaged, marked, buildOps, storeErrors>>
(* loadOrFetch: a failed fetch keeps the old ids and stops asking for 30 s.  *)
LoadOrFetch(f, answer) ==
    /\ At(f, "call") /\ flows[f].kind = "models"
    /\ LET known == models.ids \/ answer = "ok" IN
         /\ models' = [ids |-> known, fresh |-> TRUE]
         /\ Move(f, IF known THEN Served(f, "ok") ELSE NextAccount(f))
    /\ UNCHANGED <<brow, nextId, valid, lastToken, rotates, owed, damaged, marked, buildOps, storeErrors>>
FetchBuildBilling(f, answer, billing) ==
    /\ At(f, "call") /\ flows[f].kind = "billing"
    /\ IF answer = "401" /\ Acc(f).refresh # 0 /\ ~flows[f].retried
       THEN Move(f, [flows[f] EXCEPT !.pc = "exchange", !.retried = TRUE]) /\ UNCHANGED brow
       ELSE /\ Move(f, NextAccount(f))
            /\ IF answer = "ok" THEN UpdateBilling(Acc(f).id, billing) ELSE UNCHANGED brow
    /\ UNCHANGED <<nextId, valid, lastToken, rotates, models, owed, damaged, marked, buildOps, storeErrors>>

FlowStep(f) ==
    \/ FilterByBilling(f) \/ Ensure(f) \/ RenewListed(f) \/ DeleteListed(f) \/ ListExhausted(f)
    \/ Exchange(f) \/ ExchangeFails(f) \/ StoreTokens(f) \/ StoreTokensFails(f)
    \/ MarkExpired(f) \/ Reread(f)
    \/ \E answer \in Answers :
         \/ InvokeBuildOnce(f, answer) \/ ReadRetried(f, answer) \/ LoadOrFetch(f, answer)
         \/ \E billing \in GetBilling : FetchBuildBilling(f, answer, billing)
BeginFlow(f) ==
    \/ BuildCompletions(f) \/ BuildResponses(f) \/ ListBuildModelSpecs(f)
    \/ BillingBatch(f) \/ (\E i \in Id : BillingOne(f, i)) \/ RefreshBatch(f)
    \/ CleanupBatch(f) \/ AutoClean(f)

-----------------------------------------------------------------------------
(* Time and the outside. *)

Tick ==
    /\ Counted
    /\ brow' = [i \in Id |-> IF i \in Present
                   THEN [brow[i] EXCEPT !.cool = Lower(@), !.old = TRUE, !.fresh = FALSE]
                   ELSE NoRow]
    /\ owed' = [i \in Id |-> Lower(owed[i])]
    /\ models' = [models EXCEPT !.fresh = FALSE]
    /\ UNCHANGED <<nextId, flows, valid, lastToken, rotates, damaged, marked, storeErrors>>
Revoke(i) ==
    /\ Counted
    /\ valid[i] # {}
    /\ valid' = [valid EXCEPT ![i] = {}]
    /\ damaged' = damaged \cup {i}
    /\ UNCHANGED <<brow, nextId, flows, lastToken, rotates, models, owed, marked, storeErrors>>

Next ==
    \/ Import \/ DevicePoll \/ Tick
    \/ \E i \in Id : Delete(i) \/ Revoke(i) \/ (\E s \in Status : SetStatus(i, s))
    \/ \E f \in Flow : BeginFlow(f) \/ FlowStep(f)

Spec == Init /\ [][Next]_vars

-----------------------------------------------------------------------------

(* Rows, flows and the server's tokens have the shapes the code gives them. *)
TypeOK ==
    /\ \A i \in Id : brow[i] = NoRow \/ brow[i] \in Row
    /\ nextId \in 1..MaxIds + 1
    /\ \A f \in Flow : /\ flows[f].pc \in {"idle", "filter", "next", "exchange", "granted", "refused",
                                            "reread", "call", "done"}
                        /\ \A c \in ToSet(flows[f].todo) : c.id \in Id /\ c.refresh \in 0..MaxTokens
    /\ valid \in [Id -> SUBSET (1..MaxTokens)]
    /\ models \in [ids : BOOLEAN, fresh : BOOLEAN]
    /\ owed \in [Id -> Nat]

(* No interleaving of requests, batches and logins loses an account's grant: *)
(* the refresh token in the table is one the server accepts, unless the      *)
(* grant was revoked, a write of the new token failed, or the flow that      *)
(* exchanged it is about to write the new one (UpdateTokens).                *)
GrantIsKept ==
    \A i \in Present \ damaged :
        \/ brow[i].refresh \in valid[i] \cup {0}
        \/ \E f \in Flow : At(f, "granted") /\ Acc(f).id = i

(* While refresh tokens do not rotate, only a revoked grant or an operator   *)
(* makes an account expired (MarkExpired): no race between flows does.  When *)
(* they rotate one does: of two flows that exchange the same token the       *)
(* second is refused and marks the account expired that the first has        *)
(* renewed (build_chat.go:148-152, build_batch_workers.go:95-99).  What such *)
(* an account keeps is its grant (GrantIsKept speaks of expired rows too),   *)
(* so a renewal by the operator brings it back.                              *)
NoRaceWithoutRotation ==
    \A i \in Present \ (damaged \cup marked) : brow[i].status = "expired" => rotates

(* A request does not list an account before the cooldown of its last        *)
(* refusal is over, though a renewal or a new login makes it active again in *)
(* between (ListActive tests cooling_until too).                             *)
CooledIsNotListed ==
    [][ \A f \in Flow :
          (/\ flows[f].pc \in {"idle", "done"}
           /\ flows'[f].pc \in {"filter", "next"}
           /\ flows'[f].kind \in Product)
          => \A c \in ToSet(flows'[f].todo) : owed[c.id] = 0 ]_vars

(* A 402 makes the request change the account: the upstream's refusal is     *)
(* never what the client is given (build_errors.go).                         *)
RefusalIsNotServed == \A f \in Flow : flows[f].result # "402"

(* What interleaved flows may not do to an account: lose its grant or, while *)
(* tokens do not rotate, expire it.                                          *)
GrantsAreKept == TypeOK /\ GrantIsKept /\ NoRaceWithoutRotation
=============================================================================
