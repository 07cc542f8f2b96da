---------------------------- MODULE AccountHealth ----------------------------
(***************************************************************************)
(* How an account leaves the pool.  Four activities share its row in the   *)
(* SQL account store, each reading the row in one transaction and writing  *)
(* in a later one:                                                         *)
(*   - a request or a refresh that meets "invalid credentials" counts the  *)
(*     failure and, at the threshold, expires and then deletes the account *)
(*     (control/account/invalid_credentials.go);                           *)
(*   - the SSO validation loop probes the sessions of one page of accounts *)
(*     after the other (sso_validation.go, sso_validation_scheduler.go);   *)
(*   - auto-clean deletes what has been expired, or disabled, long enough  *)
(*     (auto_clean.go, auto_clean_scheduler.go);                           *)
(*   - the operator disables, restores and imports accounts (admin), and   *)
(*     sweeps dead sessions from the command line (account sso-sweep).     *)
(* Times are ages that Tick advances; an age saturates at MinAge and a     *)
(* failure count at its threshold, beyond which the code tells no values   *)
(* apart.                                                                  *)
(***************************************************************************)
EXTENDS Integers, FiniteSets

CONSTANTS
    Account,          \* accounts, numbers in the order of their tokens
    MarkJob,          \* calls in progress that hold a row they read
    Deployments,      \* how the pool is set up and run, see deployment
    IcThreshold,      \* account.invalid_credentials.max_failures
    SsoMaxFailures,   \* account.sso_validation.max_failures
    MinAge,           \* account.auto_clean.min_age_sec, in ticks
    PageSize,         \* accounts per SSO validation batch
    MaxDeletes,       \* account.auto_clean.max_deletes_per_tick
    Absent            \* a key missing from a row's ext

VARIABLES
    deployment, \* [accounts, jobs, includeDisabled, sweep, ops]: the accounts and
                \* the calls there are, account.auto_clean.include_disabled, whether
                \* the operator sweeps, and a bound on what the operator does and
                \* on store faults
    health,     \* per account: the columns of its row these activities use
    dead,       \* the upstream session of these accounts has ended
    marks,      \* per job: the call in progress and the row it read
    ssoPage,    \* SSOValidationScheduler.nextPage
    ssoBatch,   \* per account of the batch being validated: the work in hand
    ssoNext,    \* the page ValidateSSOBatch will report, 0 after an error
    cleaning,   \* the auto-clean run in progress
    icSeen,     \* history: invalid-credential answers since the first import
    ssoSeen,    \* history: failed validations since the first import
    disabledBy, \* history: accounts an operator has disabled
    healthOps   \* operator actions and faults so far

vars == <<deployment, health, dead, marks, ssoPage, ssoBatch, ssoNext, cleaning,
          icSeen, ssoSeen, disabledBy, healthOps>>

NoExt == [ic |-> Absent, sso |-> Absent, expiredAt |-> Absent, disabledAt |-> Absent]
Idle == [kind |-> "idle", a |-> Absent, ext |-> NoExt]
NoClean == [pc |-> "idle", tokens |-> {}, deleted |-> 0]

Upto(n, bound) == IF n > bound THEN bound ELSE n
Count(value) == IF value = Absent THEN 0 ELSE value
Older(age) == IF age = Absent THEN Absent ELSE Upto(age + 1, MinAge)
OlderExt(ext) == [ext EXCEPT !.expiredAt = Older(@), !.disabledAt = Older(@)]

\* appendExtPatchSets: a key the patch names replaces the stored one.
ExtMerge(stored, patch) ==
    [key \in DOMAIN stored |-> IF patch[key] = Absent THEN stored[key] ELSE patch[key]]

\* failureExtKeys: what ClearFailures removes; the two counters stay.
ClearFailureExt(ext) == [ext EXCEPT !.expiredAt = Absent, !.disabledAt = Absent]

\* UpsertAccounts: the row is active again, with the ext of the import.
Upserted == [status |-> "active", deleted |-> FALSE, ext |-> NoExt]

\* DeleteAccounts: a row already deleted is left alone.
DeleteAccounts(tokens) ==
    health' = [a \in Account |-> IF a \in tokens THEN [health[a] EXCEPT !.deleted = TRUE]
                                 ELSE health[a]]

Listed == {a \in deployment.accounts : ~health[a].deleted}
Manageable(row) == ~row.deleted /\ row.status = "active"

-----------------------------------------------------------------------------
(* Invalid credentials and the operator's toggle: read, patch, delete *)

\* The first half of MarkAccountInvalidCredentials: a request answered
\* "invalid credentials" reads the row (deleted rows are returned too).
MarkRead(j, a) ==
    /\ marks[j].kind = "idle" /\ a \in dead
    /\ marks' = [marks EXCEPT ![j] = [kind |-> "mark", a |-> a, ext |-> health[a].ext]]
    /\ icSeen' = [icSeen EXCEPT ![a] = Upto(@ + 1, IcThreshold)]
    /\ UNCHANGED <<deployment, health, dead, ssoPage, ssoBatch, ssoNext, cleaning, ssoSeen,
                   disabledBy, healthOps>>

\* Its patch: the ext that was read, whole, with the count incremented; at the
\* threshold the account expires and a deletion follows.
MarkPatch(j) ==
    LET a == marks[j].a
        failures == Upto(Count(marks[j].ext.ic) + 1, IcThreshold)
        expires == failures >= IcThreshold
        ext == [marks[j].ext EXCEPT !.ic = failures,
                                    !.expiredAt = IF expires THEN 0 ELSE @]
    IN  /\ marks[j].kind = "mark"
        /\ health' = [health EXCEPT ![a].ext = ExtMerge(@, ext),
                                    ![a].status = IF expires THEN "expired" ELSE @]
        /\ marks' = [marks EXCEPT ![j] = IF expires THEN [kind |-> "delete", a |-> a, ext |-> NoExt]
                                           ELSE Idle]
        /\ UNCHANGED <<deployment, dead, ssoPage, ssoBatch, ssoNext, cleaning, icSeen, ssoSeen,
                       disabledBy, healthOps>>

MarkDelete(j) ==
    /\ marks[j].kind = "delete"
    /\ DeleteAccounts({marks[j].a})
    /\ marks' = [marks EXCEPT ![j] = Idle]
    /\ UNCHANGED <<deployment, dead, ssoPage, ssoBatch, ssoNext, cleaning, icSeen, ssoSeen,
                   disabledBy, healthOps>>

\* The process stops, or the store refuses the statement, between two steps of
\* a call: what was written stays, the rest is not done.
MarkAbandoned(j) ==
    /\ marks[j].kind # "idle" /\ healthOps < deployment.ops
    /\ marks' = [marks EXCEPT ![j] = Idle]
    /\ healthOps' = healthOps + 1
    /\ UNCHANGED <<deployment, health, dead, ssoPage, ssoBatch, ssoNext, cleaning, icSeen,
                   ssoSeen, disabledBy>>

\* adminTokensToggle reads the row, deleted or not, before it patches it.
ToggleRead(j, a, kind) ==
    /\ marks[j].kind = "idle" /\ healthOps < deployment.ops
    /\ marks' = [marks EXCEPT ![j] = [kind |-> kind, a |-> a,
                     ext |-> IF kind = "disable" THEN health[a].ext ELSE NoExt]]
    /\ healthOps' = healthOps + 1
    /\ UNCHANGED <<deployment, health, dead, ssoPage, ssoBatch, ssoNext, cleaning, icSeen,
                   ssoSeen, disabledBy>>

\* adminTokensTogglePatch: disabling writes the whole ext back with the time;
\* restoring clears the failures and keeps the counters.
TogglePatch(j) ==
    LET a == marks[j].a IN
    /\ \/ /\ marks[j].kind = "disable"
          /\ health' = [health EXCEPT ![a].status = "disabled",
                            ![a].ext = ExtMerge(@, [marks[j].ext EXCEPT !.disabledAt = 0])]
          /\ disabledBy' = disabledBy \cup {a}
       \/ /\ marks[j].kind = "restore"
          /\ health' = [health EXCEPT ![a].status = "active", ![a].ext = ClearFailureExt(@)]
          /\ disabledBy' = disabledBy
    /\ marks' = [marks EXCEPT ![j] = Idle]
    /\ UNCHANGED <<deployment, dead, ssoPage, ssoBatch, ssoNext, cleaning, icSeen, ssoSeen,
                   healthOps>>

\* adminTokensAdd imports what is not in the store, or is deleted there.
ImportAccount(a) ==
    /\ health[a].deleted /\ healthOps < deployment.ops
    /\ health' = [health EXCEPT ![a] = Upserted]
    /\ healthOps' = healthOps + 1
    /\ UNCHANGED <<deployment, dead, marks, ssoPage, ssoBatch, ssoNext, cleaning, icSeen, ssoSeen,
                   disabledBy>>

-----------------------------------------------------------------------------
(* account sso-sweep: a process of its own, whose workers share nothing but   *)
(* the list of tokens; a job is the work on one of them.                      *)

\* listActiveTokensForSweep, from any offset and up to any limit.
SweepList(j, a) ==
    /\ deployment.sweep /\ marks[j].kind = "idle" /\ a \in Listed /\ Manageable(health[a])
    /\ healthOps < deployment.ops
    /\ marks' = [marks EXCEPT ![j] = [kind |-> "sweep", a |-> a, ext |-> NoExt]]
    /\ healthOps' = healthOps + 1
    /\ UNCHANGED <<deployment, health, dead, ssoPage, ssoBatch, ssoNext, cleaning, icSeen,
                   ssoSeen, disabledBy>>

\* classifyAndQueue: a session that is locally or upstream invalid is queued for
\* deletion; one that lives, or is hidden by a block, a limit or another error,
\* is left alone, and so is all a dry run finds.
SweepProbe(j) ==
    /\ marks[j].kind = "sweep"
    /\ \/ marks[j].a \in dead /\ marks' = [marks EXCEPT ![j].kind = "swept"]
       \/ marks' = [marks EXCEPT ![j] = Idle]
    /\ UNCHANGED <<deployment, health, dead, ssoPage, ssoBatch, ssoNext, cleaning, icSeen, ssoSeen,
                   disabledBy, healthOps>>

\* runSSOSweepDeleter asks the admin API, which deletes without another look.
SweepDelete(j) ==
    /\ marks[j].kind = "swept"
    /\ DeleteAccounts({marks[j].a})
    /\ marks' = [marks EXCEPT ![j] = Idle]
    /\ UNCHANGED <<deployment, dead, ssoPage, ssoBatch, ssoNext, cleaning, icSeen, ssoSeen,
                   disabledBy, healthOps>>

\* The command: its steps for one token, in the order they are taken.
RunAccountSSOSweep(j) == SweepProbe(j) \/ SweepDelete(j)

-----------------------------------------------------------------------------
(* The SSO validation loop *)

\* ListAccounts by token: a page holds the accounts at its places of the order.
Place(a) == Cardinality({b \in Listed : b <= a})
PageItems(page) ==
    {a \in Listed : Place(a) > (page - 1) * PageSize /\ Place(a) <= page * PageSize}

\* page >= TotalPages
IsLastPage(page) == Cardinality(Listed) <= page * PageSize

\* ValidateSSOBatch lists one page of the accounts that are not deleted and
\* gives the manageable ones to its workers, each with the row as listed.
ValidateSSOBatch ==
    LET items == PageItems(ssoPage)
        records == {a \in items : Manageable(health[a])}
    IN  /\ ssoNext = Absent
        /\ ssoBatch' = [a \in records |-> [pc |-> "probe", sso |-> Count(health[a].ext.sso)]]
        /\ ssoNext' = IF items = {} \/ IsLastPage(ssoPage) THEN 1 ELSE ssoPage + 1
        /\ UNCHANGED <<deployment, health, dead, marks, ssoPage, cleaning, icSeen, ssoSeen,
                       disabledBy, healthOps>>

Busy(a, pc) == a \in DOMAIN ssoBatch /\ ssoBatch[a].pc = pc
Work(a, pc) == ssoBatch' = [ssoBatch EXCEPT ![a].pc = pc]
WorkDone(a) == ssoBatch' = [b \in DOMAIN ssoBatch \ {a} |-> ssoBatch[b]]

\* validateSSOAccount: local check, session probe, console models.  A dead
\* session is met for certain or hidden by a block, a live one may be hidden too.
ProbeSSO(a, answer) ==
    /\ Busy(a, "probe")
    /\ answer \in (IF a \in dead THEN {"terminal", "soft"} ELSE {"ok", "soft"})
    /\ Work(a, answer)
    /\ ssoSeen' = IF answer = "ok" THEN ssoSeen
                  ELSE [ssoSeen EXCEPT ![a] = Upto(@ + 1, SsoMaxFailures)]
    /\ UNCHANGED <<deployment, health, dead, marks, ssoPage, ssoNext, cleaning, icSeen,
                   disabledBy, healthOps>>

\* recordSSOValidationSuccess
RecordSSOSuccess(a) ==
    /\ Busy(a, "ok")
    /\ health' = [health EXCEPT ![a].ext.sso = 0]
    /\ WorkDone(a)
    /\ UNCHANGED <<deployment, dead, marks, ssoPage, ssoNext, cleaning, icSeen, ssoSeen,
                   disabledBy, healthOps>>

\* Faulty variant: a failure that proves nothing deletes as well.
RecordSSOFailureAny(a) ==
    LET failures == Upto(ssoBatch[a].sso + 1, SsoMaxFailures)
    IN  /\ Busy(a, "terminal") \/ Busy(a, "soft")
        /\ health' = [health EXCEPT ![a].ext.sso = failures]
        /\ IF failures >= SsoMaxFailures THEN Work(a, "delete") ELSE WorkDone(a)
        /\ UNCHANGED <<deployment, dead, marks, ssoPage, ssoNext, cleaning, icSeen, ssoSeen,
                       disabledBy, healthOps>>

\* recordSSOValidationFailure: every failure counts, from the row as listed;
\* only one that proves the session dead deletes.
RecordSSOFailure(a) ==
    LET failures == Upto(ssoBatch[a].sso + 1, SsoMaxFailures)
        deletes == Busy(a, "terminal") /\ failures >= SsoMaxFailures
    IN  /\ Busy(a, "terminal") \/ Busy(a, "soft")
        /\ health' = [health EXCEPT ![a].ext.sso = failures]
        /\ IF deletes THEN Work(a, "delete") ELSE WorkDone(a)
        /\ UNCHANGED <<deployment, dead, marks, ssoPage, ssoNext, cleaning, icSeen, ssoSeen,
                       disabledBy, healthOps>>

DeleteSSO(a) ==
    /\ Busy(a, "delete")
    /\ DeleteAccounts({a})
    /\ WorkDone(a)
    /\ UNCHANGED <<deployment, dead, marks, ssoPage, ssoNext, cleaning, icSeen, ssoSeen, disabledBy,
                   healthOps>>

\* A statement fails: the worker goes on with the others, the batch reports
\* the error and the scheduler stays on its page.
SSOStoreFault(a) ==
    /\ a \in DOMAIN ssoBatch /\ ssoBatch[a].pc # "probe" /\ healthOps < deployment.ops
    /\ WorkDone(a)
    /\ ssoNext' = 0
    /\ healthOps' = healthOps + 1
    /\ UNCHANGED <<deployment, health, dead, marks, ssoPage, cleaning, icSeen, ssoSeen,
                   disabledBy>>

\* Faulty variant: the page only moves on.
FinishSSOBatchForward ==
    /\ ssoNext # Absent /\ DOMAIN ssoBatch = {}
    /\ ssoPage' = IF ssoNext > ssoPage THEN ssoNext ELSE ssoPage
    /\ ssoNext' = Absent
    /\ UNCHANGED <<deployment, health, dead, marks, ssoBatch, cleaning, icSeen, ssoSeen,
                   disabledBy, healthOps>>

\* runOnce stores the next page when the batch has ended without error.
FinishSSOBatch ==
    /\ ssoNext # Absent /\ DOMAIN ssoBatch = {}
    /\ ssoPage' = IF ssoNext = 0 THEN ssoPage ELSE ssoNext
    /\ ssoNext' = Absent
    /\ UNCHANGED <<deployment, health, dead, marks, ssoBatch, cleaning, icSeen, ssoSeen,
                   disabledBy, healthOps>>

-----------------------------------------------------------------------------
(* Auto-clean *)

\* expiredMarkedAtUnix, isAutoCleanCandidate.  Both writers of these states
\* store the time, so the fallback on updated_at is not reached.
MarkedAt(row) ==
    IF row.ext.expiredAt # Absent THEN row.ext.expiredAt
    ELSE IF row.status = "disabled" THEN row.ext.disabledAt ELSE Absent
IsAutoCleanCandidate(row) == MarkedAt(row) # Absent /\ MarkedAt(row) >= MinAge

\* RunExpiredAccountAutoClean lists the expired accounts, then the disabled
\* ones when so configured, and deletes the old ones up to MaxDeletes.
AutoCleanList(status, pc) ==
    LET rows == {a \in Listed : health[a].status = status}
        old == {a \in rows : IsAutoCleanCandidate(health[a])}
        room == MaxDeletes - cleaning.deleted
    IN  /\ cleaning.pc = pc /\ cleaning.tokens = {} /\ room > 0
        /\ \E tokens \in SUBSET old :
              /\ Cardinality(tokens) = Upto(Cardinality(old), room)
              /\ cleaning' = [cleaning EXCEPT !.tokens = tokens, !.pc = status]
        /\ UNCHANGED <<deployment, health, dead, marks, ssoPage, ssoBatch, ssoNext, icSeen, ssoSeen,
                       disabledBy, healthOps>>

AutoCleanExpired == AutoCleanList("expired", "idle")
AutoCleanDisabled == deployment.includeDisabled /\ AutoCleanList("disabled", "expired")

\* DeleteAccounts on the batch, one transaction; the rows are not looked at again.
AutoCleanDelete ==
    /\ cleaning.tokens # {}
    /\ DeleteAccounts(cleaning.tokens)
    /\ cleaning' = [cleaning EXCEPT !.tokens = {}, !.deleted = @ + Cardinality(cleaning.tokens)]
    /\ UNCHANGED <<deployment, dead, marks, ssoPage, ssoBatch, ssoNext, icSeen, ssoSeen, disabledBy,
                   healthOps>>

AutoCleanEnd ==
    /\ cleaning.pc # "idle" /\ cleaning.tokens = {}
    /\ cleaning.pc = "disabled" \/ ~deployment.includeDisabled \/ cleaning.deleted >= MaxDeletes
    /\ cleaning' = NoClean
    /\ UNCHANGED <<deployment, health, dead, marks, ssoPage, ssoBatch, ssoNext, icSeen, ssoSeen,
                   disabledBy, healthOps>>

-----------------------------------------------------------------------------
(* The environment *)

SessionEnds(a) ==
    /\ a \notin dead
    /\ dead' = dead \cup {a}
    /\ UNCHANGED <<deployment, health, marks, ssoPage, ssoBatch, ssoNext, cleaning, icSeen, ssoSeen,
                   disabledBy, healthOps>>

Tick ==
    /\ health' = [a \in Account |-> [health[a] EXCEPT !.ext = OlderExt(@)]]
    /\ marks' = [j \in MarkJob |-> [marks[j] EXCEPT !.ext = OlderExt(@)]]
    /\ UNCHANGED <<deployment, dead, ssoPage, ssoBatch, ssoNext, cleaning, icSeen, ssoSeen, disabledBy,
                   healthOps>>

Init ==
    /\ deployment \in Deployments
    /\ health = [a \in Account |-> Upserted]
    /\ dead = {}
    /\ marks = [j \in MarkJob |-> Idle]
    /\ ssoPage = 1 /\ ssoBatch = <<>> /\ ssoNext = Absent
    /\ cleaning = NoClean
    /\ icSeen = [a \in Account |-> 0] /\ ssoSeen = [a \in Account |-> 0]
    /\ disabledBy = {} /\ healthOps = 0

Next ==
    \/ \E j \in deployment.jobs, a \in deployment.accounts : MarkRead(j, a)
    \/ \E j \in deployment.jobs : MarkPatch(j) \/ MarkDelete(j) \/ MarkAbandoned(j) \/ TogglePatch(j)
    \/ \E j \in deployment.jobs, a \in deployment.accounts, kind \in {"disable", "restore"} :
           ToggleRead(j, a, kind)
    \/ \E j \in deployment.jobs, a \in deployment.accounts : SweepList(j, a)
    \/ \E j \in deployment.jobs : RunAccountSSOSweep(j)
    \/ \E a \in deployment.accounts : ImportAccount(a) \/ SessionEnds(a)
    \/ ValidateSSOBatch \/ FinishSSOBatch
    \/ \E a \in Account, answer \in {"ok", "terminal", "soft"} : ProbeSSO(a, answer)
    \/ \E a \in Account : \/ RecordSSOSuccess(a) \/ RecordSSOFailure(a)
                          \/ DeleteSSO(a) \/ SSOStoreFault(a)
    \/ AutoCleanExpired \/ AutoCleanDisabled \/ AutoCleanDelete \/ AutoCleanEnd
    \/ Tick

Spec == Init /\ [][Next]_vars

\* The loops run on timers and every call in progress goes on; a probe of a dead
\* session that is tried again and again is not blocked every time.
SsoWork == ValidateSSOBatch \/ FinishSSOBatch
           \/ \E a \in Account : \/ \E answer \in {"ok", "terminal", "soft"} : ProbeSSO(a, answer)
                                 \/ RecordSSOSuccess(a) \/ RecordSSOFailure(a) \/ DeleteSSO(a)
CleanWork == AutoCleanExpired \/ AutoCleanDisabled \/ AutoCleanDelete \/ AutoCleanEnd
MarkWork(j) == MarkPatch(j) \/ MarkDelete(j) \/ TogglePatch(j) \/ RunAccountSSOSweep(j)

-----------------------------------------------------------------------------
Ext == [ic : {Absent} \cup 0 .. IcThreshold, sso : {Absent} \cup 0 .. SsoMaxFailures,
        expiredAt : {Absent} \cup 0 .. MinAge, disabledAt : {Absent} \cup 0 .. MinAge]

TypeOK ==
    /\ deployment \in Deployments
    /\ health \in [Account -> [status : {"active", "expired", "disabled"},
                               deleted : BOOLEAN, ext : Ext]]
    /\ dead \subseteq Account /\ disabledBy \subseteq Account
    /\ marks \in [MarkJob -> [kind : {"idle", "mark", "delete", "disable", "restore", "sweep", "swept"},
                              a : Account \cup {Absent}, ext : Ext]]
    /\ \A j \in MarkJob : marks[j].kind # "idle" => marks[j].a \in Account
    /\ DOMAIN ssoBatch \subseteq Account
    /\ \A a \in DOMAIN ssoBatch :
          ssoBatch[a] \in [pc : {"probe", "ok", "soft", "terminal", "delete"},
                         sso : 0 .. SsoMaxFailures]
    /\ ssoPage \in 1 .. Cardinality(Account) + 1
    /\ ssoNext \in {Absent} \cup 0 .. Cardinality(Account) + 1
    /\ cleaning.tokens \subseteq Account /\ cleaning.deleted \in 0 .. MaxDeletes
    /\ cleaning.pc \in {"idle", "expired", "disabled"}
    /\ icSeen \in [Account -> 0 .. IcThreshold]
    /\ ssoSeen \in [Account -> 0 .. SsoMaxFailures]
    /\ healthOps \in 0 .. deployment.ops

\* An account is deleted only for what upstream or the operator did to it: after
\* IcThreshold answers "invalid credentials", after SsoMaxFailures failed
\* validations of a session that really ended, when auto-clean includes them
\* after an operator disabled it, or when the operator's sweep met its dead
\* session.  Stale rows that the four activities write over one another may lose
\* a failure and never invent one.  A failure is what the code counts as one: the
\* answers need not be consecutive, as README.md:340 calls them, since no success
\* resets their count, and a validation that was blocked or rate limited counts
\* too, where README.md:342 says that only deaths do (see OnlyDeathsAddUp in
\* MCAccountHealth, which TLC refutes).
DeletionHasCause ==
    \A a \in Account : ~health[a].deleted /\ health'[a].deleted =>
        \/ icSeen[a] >= IcThreshold
        \/ a \in dead /\ ssoSeen[a] >= SsoMaxFailures
        \/ deployment.includeDisabled /\ a \in disabledBy
        \/ deployment.sweep /\ a \in dead
DeletedForCause == [][DeletionHasCause]_vars

\* An account whose session has ended does not stay in the pool: the loop
\* reaches it although deletions shift the pages, and what an abandoned call left
\* expired is cleaned.  Only an operator's disabling keeps it.
Removed(a) == health[a].deleted \/ health[a].status = "disabled"
DeadAreRemoved == \A a \in Account : []<>(a \in dead => Removed(a))
=============================================================================
