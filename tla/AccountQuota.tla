---------------------------- MODULE AccountQuota -----------------------------
(***************************************************************************)
(* The quota windows of one account and the calls that rewrite them        *)
(* (control/account refresh_fetch.go, refresh_apply.go, refresh_helpers.go,*)
(* quota_defaults.go).  A call reads the row, may spend seconds fetching   *)
(* the usage upstream, and patches what it computed from the row it read;  *)
(* windows are written as values, counters as increments.  Every process   *)
(* also resets expired console windows on a timer.                         *)
(*                                                                         *)
(* The windows kept are those of the modes 1 ("fast") and 5 ("console"),   *)
(* the two that code singles out; of the modes 0, 2, 3 and 4 it matters    *)
(* here that their answers tell the pool and that a patch has them or not. *)
(* "super" stands for the two paying pools.  A window's reset time is the  *)
(* number of ticks left until it; 0 is an expired window and NoReset a     *)
(* missing time.                                                           *)
(***************************************************************************)
EXTENDS Integers

CONSTANTS
    Call,          \* refresh, use and failure calls that can be in progress
    FastLimit,     \* per pool, the default total of its fast window
    ConsoleLimit,  \* basicConsoleLimit
    AutoTotal,     \* the total upstream reports for the mode "auto"
    ConsoleMark,   \* a console window this low gets its reset time (12)
    Span,          \* window_seconds, in ticks
    MaxCalls,      \* bound: calls started in a run
    NoReset, None

VARIABLES
    row,        \* the stored account
    calls,      \* per call: what it is doing and the row it read
    resetting,  \* the snapshot row of ResetExpiredConsoleWindows, or None
    onDemand,   \* the call that holds onDemandRunning, or None
    used,       \* history: uses written to the row since an import reset them
    again,      \* history: uses that edits of the row have added a second time since
    started     \* calls started so far

vars == <<row, calls, resetting, onDemand, used, again, started>>

Window(rem, total, left, source) ==
    [rem |-> rem, total |-> total, left |-> left, source |-> source]
NoCall == [kind |-> "idle", row |-> None, got |-> None]
Clamp(n, low, high) == IF n < low THEN low ELSE IF n > high THEN high ELSE n

\* DefaultQuotaWindow: only the basic pool has a console window of its own.
DefaultWindow(pool, mode) ==
    CASE mode = "fast" -> Window(FastLimit[pool], FastLimit[pool], NoReset, "default")
      [] mode = "console" /\ pool = "basic" ->
             Window(ConsoleLimit, ConsoleLimit, NoReset, "default")
      [] OTHER -> None

\* NormalizeQuotaWindow: the fast window of a basic account has a fixed total,
\* another pool's keeps the total it has, whatever pool it came from.
Normalized(pool, mode, window) ==
    IF pool = "basic" /\ mode = "fast"
    THEN [window EXCEPT !.rem = Clamp(@, 0, FastLimit["basic"]), !.total = FastLimit["basic"]]
    ELSE window

Expired(window) == window.left = 0

\* ToUsageQuotaWindow, with usageWindowToQuotaWindow
RealWindow(rem, total) == Window(rem, total, Span, "real")

\* applyFallbackWindowPatch: a window that was real is estimated one lower, another
\* one is reset to the default once it has expired.
FallbackWindow(pool, mode, window) ==
    IF window = None THEN None
    ELSE IF window.source = "real"
         THEN [window EXCEPT !.rem = Clamp(@ - 1, 0, window.total), !.source = "estimated"]
         ELSE IF Expired(window) /\ DefaultWindow(pool, mode) # None
              THEN [DefaultWindow(pool, mode) EXCEPT !.left = Span]
              ELSE None

\* rateLimitedWindowPatch
RateLimitedWindow(window) ==
    Window(0, window.total,
           IF window.left \notin {NoReset, 0} THEN window.left ELSE Span, "estimated")

\* localUseWindowPatch: one use less; an expired window starts again; the reset
\* time of the console window is set once it is low.
LocalUseWindow(pool, mode, window) ==
    LET default == DefaultWindow(pool, mode)
        rem == Clamp(window.rem - 1, 0, window.total)
        due == window.left = NoReset /\ (mode = "console" => rem <= ConsoleMark)
    IN  IF Expired(window) /\ default # None
        THEN [default EXCEPT !.rem = Clamp(default.total - 1, 0, default.total), !.left = Span]
        ELSE Window(rem, window.total, IF due THEN Span ELSE window.left, "estimated")

\* quotaPatchSets: a mode the patch does not name keeps its stored window.
Patched(stored, patch) ==
    [mode \in DOMAIN stored |-> IF patch[mode] = None THEN stored[mode] ELSE patch[mode]]
Only(mode, window) == [m \in {"fast", "console"} |-> IF m = mode THEN window ELSE None]

\* patchLocalAccount: what a patch names is set in the row as it is now, also in a
\* deleted one, and its delta is added to the count of uses.
PatchAccount(pool, quota, uses) ==
    row' = [row EXCEPT !.pool = IF pool = None THEN @ ELSE pool, !.quota = Patched(@, quota),
                       !.use = @ + uses]

Start(c, kind) ==
    /\ calls[c].kind = "idle" /\ started < MaxCalls
    /\ started' = started + 1
    /\ calls' = [calls EXCEPT ![c] = [kind |-> kind, row |-> row, got |-> None]]
End(c) == calls' = [calls EXCEPT ![c] = NoCall]

-----------------------------------------------------------------------------
(* Refreshes of the whole row *)

\* RefreshScheduled and RefreshOnImport fall back when nothing was fetched,
\* RefreshTokens does not; import and tokens are bootstraps and fetch the modes
\* 0 to 4.  Only manageable rows are refreshed.
RefreshRead(c, kind) ==
    /\ kind \in {"scheduled", "import", "tokens"}
    /\ ~row.deleted
    /\ Start(c, kind)
    /\ UNCHANGED <<row, resetting, onDemand, used, again>>

\* RefreshOnDemand: one at a time in a process, then a scheduled refresh.
RefreshOnDemand(c) ==
    /\ onDemand = None /\ ~row.deleted
    /\ Start(c, "scheduled")
    /\ onDemand' = c
    /\ UNCHANGED <<row, resetting, used, again>>

\* fetchAllQuotas: a mode whose request fails is left out.  A refresh that is no
\* bootstrap asks for the console mode too and gets the usage of "auto" for it.
\* The modes 0, 2 and 4, which a bootstrap and every refresh of a paying account
\* ask for, tell the pool, also when the request for the fast window failed.
FetchAll(c, fast, console, pool) ==
    LET bootstrap == calls[c].kind \in {"import", "tokens"} IN
    /\ calls[c].kind \in {"scheduled", "import", "tokens"} /\ calls[c].got = None
    /\ bootstrap => console = None
    /\ pool # None => bootstrap \/ calls[c].row.pool = "super"
    /\ calls' = [calls EXCEPT ![c].got = [fast |-> fast, console |-> console, pool |-> pool]]
    /\ UNCHANGED <<row, resetting, onDemand, used, again, started>>

\* applyFetchedWindows and patchFetchedResult, or applyFallback when nothing was
\* fetched: one patch, computed from the row as it was read; a patch without a
\* window is not sent, and the pool does not change then.  `others` says that it
\* has a window of the modes 0, 2, 3 and 4: it does when one of them told a paying
\* pool, and cannot when the pool is basic and there is no fallback.
RefreshApply(c, others) ==
    LET read == calls[c].row
        got == calls[c].got
        fallback == calls[c].kind # "tokens"
        pool == IF got.pool = None THEN read.pool ELSE got.pool
        patch == [mode \in {"fast", "console"} |->
                     IF got[mode] # None THEN Normalized(pool, mode, got[mode])
                     ELSE IF fallback THEN FallbackWindow(pool, mode, read.quota[mode]) ELSE None]
        sent == others \/ patch["fast"] # None \/ patch["console"] # None
    IN  /\ calls[c].kind \in {"scheduled", "import", "tokens"} /\ got # None
        /\ got.pool = "super" => others
        /\ others => fallback \/ pool # "basic"
        /\ PatchAccount(IF sent /\ got.pool # read.pool THEN got.pool ELSE None, patch, 0)
        /\ onDemand' = IF onDemand = c THEN None ELSE onDemand
        /\ End(c)
        /\ UNCHANGED <<resetting, used, again, started>>

-----------------------------------------------------------------------------
(* One use, one failure, the operator's edit *)

\* RefreshCallAsync reads the row after a successful request.
UseRead(c, mode) ==
    /\ ~row.deleted
    /\ Start(c, IF mode = "fast" THEN "use_fast" ELSE "use_console")
    /\ UNCHANGED <<row, resetting, onDemand, used, again>>

\* fetchModeQuota: answered, or not.  Console uses are not fetched.
FetchMode(c, fast) ==
    /\ calls[c].kind = "use_fast" /\ calls[c].got = None /\ fast # None
    /\ calls' = [calls EXCEPT ![c].got = [fast |-> fast, console |-> None, pool |-> None]]
    /\ UNCHANGED <<row, resetting, onDemand, used, again, started>>

\* applySingleMode: the fetched window, or one use less than the row that was
\* read; the use is counted by increment.
UseApply(c) ==
    LET read == calls[c].row
        mode == IF calls[c].kind = "use_fast" THEN "fast" ELSE "console"
        local == IF read.quota[mode] = None THEN None
                 ELSE LocalUseWindow(read.pool, mode, read.quota[mode])
        window == IF calls[c].got = None THEN local
                  ELSE Normalized(read.pool, mode, calls[c].got[mode])
    IN  /\ calls[c].kind \in {"use_fast", "use_console"}
        /\ PatchAccount(None, Only(mode, window), 1)
        /\ used' = used + 1
        /\ End(c)
        /\ UNCHANGED <<resetting, onDemand, again, started>>

\* RecordFailureAsync, for an answer 429: the mode's window is emptied.
FailureRead(c, mode) ==
    /\ Start(c, IF mode = "fast" THEN "limited_fast" ELSE "limited_console")
    /\ UNCHANGED <<row, resetting, onDemand, used, again>>

FailureApply(c) ==
    LET mode == IF calls[c].kind = "limited_fast" THEN "fast" ELSE "console"
        window == calls[c].row.quota[mode]
    IN  /\ calls[c].kind \in {"limited_fast", "limited_console"}
        /\ PatchAccount(None, Only(mode, IF window = None THEN None ELSE RateLimitedWindow(window)), 0)
        /\ End(c)
        /\ UNCHANGED <<resetting, onDemand, used, again, started>>

\* adminTokensEdit with the same token: the row that was read is written back,
\* normalised for the chosen pool, its counters added as increments: the uses it
\* had are counted a second time.
EditRead(c) ==
    /\ Start(c, "edit")
    /\ UNCHANGED <<row, resetting, onDemand, used, again>>

EditApply(c, pool) ==
    LET read == calls[c].row
        console == IF read.quota.console = None THEN DefaultWindow(pool, "console")
                   ELSE read.quota.console
        patch == [fast |-> Normalized(pool, "fast", read.quota.fast), console |-> console]
    IN  /\ calls[c].kind = "edit"
        /\ PatchAccount(pool, patch, read.use)
        /\ again' = again + read.use
        /\ End(c)
        /\ UNCHANGED <<resetting, onDemand, used, started>>

\* Faulty variant: the flag is not released when the call fails.
CallFailsHeld(c) ==
    /\ calls[c].kind # "idle"
    /\ End(c)
    /\ UNCHANGED <<row, resetting, onDemand, used, again, started>>

\* The request, the store or the process gives up between two steps of a call;
\* an on-demand refresh releases its flag.
CallFails(c) ==
    /\ calls[c].kind # "idle"
    /\ End(c)
    /\ onDemand' = IF onDemand = c THEN None ELSE onDemand
    /\ UNCHANGED <<row, resetting, used, again, started>>

\* DeleteAccounts and UpsertAccounts: an import resets the windows; the local
\* store keeps the counters of a row that exists, the others reset them.
Delete ==
    /\ ~row.deleted /\ started < MaxCalls
    /\ row' = [row EXCEPT !.deleted = TRUE]
    /\ started' = started + 1
    /\ UNCHANGED <<calls, resetting, onDemand, used, again>>

Import ==
    /\ row.deleted
    /\ \E keeps \in BOOLEAN :
          /\ row' = [row EXCEPT !.deleted = FALSE, !.pool = "basic",
                        !.quota = [mode \in {"fast", "console"} |-> DefaultWindow("basic", mode)],
                        !.use = IF keeps THEN @ ELSE 0]
          /\ used' = IF keeps THEN used ELSE 0
          /\ again' = IF keeps THEN again ELSE 0
    /\ UNCHANGED <<calls, resetting, onDemand, started>>

-----------------------------------------------------------------------------
(* ResetExpiredConsoleWindows, every 30 s in every process *)

NeedsReset(read) ==
    LET console == read.quota.console IN
    /\ ~read.deleted /\ console # None
    /\ Expired(console) \/ (console.rem <= 0 /\ console.left = NoReset)
    /\ console.rem < console.total
    /\ DefaultWindow(read.pool, "console") # None

ResetRead ==
    /\ resetting = None /\ NeedsReset(row)
    /\ resetting' = row
    /\ UNCHANGED <<row, calls, onDemand, used, again, started>>

ResetApply ==
    /\ resetting # None
    /\ PatchAccount(None, Only("console", DefaultWindow(resetting.pool, "console")), 0)
    /\ resetting' = None
    /\ UNCHANGED <<calls, onDemand, used, again, started>>

-----------------------------------------------------------------------------
Aged(window) == IF window = None \/ window.left = NoReset THEN window
                ELSE [window EXCEPT !.left = Clamp(@ - 1, 0, Span)]
AgedRow(r) == IF r = None THEN None
              ELSE [r EXCEPT !.quota = [mode \in {"fast", "console"} |-> Aged(r.quota[mode])]]

\* Time passes for the row and for the reset times held by the calls.
Tick ==
    /\ row' = AgedRow(row)
    /\ calls' = [c \in Call |-> [calls[c] EXCEPT !.row = AgedRow(@)]]
    /\ UNCHANGED <<resetting, onDemand, used, again, started>>

\* A row just imported, or one an older version left with an empty console
\* window and no reset time.
Init ==
    /\ \E console \in {Window(ConsoleLimit, ConsoleLimit, NoReset, "default"),
                       Window(0, ConsoleLimit, NoReset, "estimated")} :
          row = [pool |-> "basic", deleted |-> FALSE, use |-> 0,
                 quota |-> [fast |-> DefaultWindow("basic", "fast"), console |-> console]]
    /\ calls = [c \in Call |-> NoCall]
    /\ resetting = None /\ onDemand = None
    /\ used = 0 /\ again = 0 /\ started = 0

\* Upstream answers for the pool the account has there, which need not be the row's.
FetchedFast ==
    {None} \cup UNION {{RealWindow(n, FastLimit[pool]) : n \in {0, FastLimit[pool]}} :
                       pool \in {"basic", "super"}}
FetchedConsole == {None, RealWindow(AutoTotal, AutoTotal)}

Next ==
    \/ \E c \in Call : \/ \E kind \in {"scheduled", "import", "tokens"} : RefreshRead(c, kind)
                       \/ RefreshOnDemand(c)
                       \/ \E fast \in FetchedFast, console \in FetchedConsole,
                             pool \in {None, "basic", "super"} : FetchAll(c, fast, console, pool)
                       \/ \E fast \in FetchedFast : FetchMode(c, fast)
                       \/ \E others \in BOOLEAN : RefreshApply(c, others)
                       \/ UseApply(c) \/ FailureApply(c)
                       \/ \E mode \in {"fast", "console"} : UseRead(c, mode) \/ FailureRead(c, mode)
                       \/ EditRead(c) \/ CallFails(c)
                       \/ \E pool \in {"basic", "super"} : EditApply(c, pool)
    \/ Delete \/ Import \/ ResetRead \/ ResetApply \/ Tick

Spec == Init /\ [][Next]_vars

\* Every call goes on or fails, the reset loop runs and time passes.
CallStep(c) == \/ \E others \in BOOLEAN : RefreshApply(c, others)
               \/ UseApply(c) \/ FailureApply(c) \/ CallFails(c)
               \/ \E pool \in {"basic", "super"} : EditApply(c, pool)
ResetStep == ResetRead \/ ResetApply

-----------------------------------------------------------------------------
CallKinds == {"idle", "scheduled", "import", "tokens", "use_fast", "use_console",
          "limited_fast", "limited_console", "edit"}
Windows == [rem : Nat, total : Nat, left : {NoReset} \cup 0 .. Span,
            source : {"default", "real", "estimated"}]
Rows == [pool : {"basic", "super"}, deleted : BOOLEAN, use : Nat,
         quota : [fast : Windows, console : Windows \cup {None}]]
Answers == [fast : FetchedFast, console : FetchedConsole, pool : {None, "basic", "super"}]

TypeOK ==
    /\ row \in Rows /\ resetting \in Rows \cup {None}
    /\ calls \in [Call -> [kind : CallKinds, row : Rows \cup {None}, got : Answers \cup {None}]]
    /\ \A c \in Call : calls[c].kind # "idle" => calls[c].row \in Rows
    /\ onDemand \in Call \cup {None} /\ used \in Nat /\ again \in Nat
    /\ started \in 0 .. MaxCalls

\* No window promises more than its total, whatever order the reads and the
\* patches of overlapping calls take: a count read under one pool is not put under
\* the total of another.  Which total that is, the code does not keep: a refresh
\* that fetched the modes that tell the pool and not the fast one, and an edit to a
\* paying pool, leave the old pool's total (refresh_apply.go:49-61,
\* quota_defaults.go:75).
WithinTotal ==
    /\ row.quota.fast.rem \in 0 .. row.quota.fast.total
    /\ row.quota.console # None => row.quota.console.rem \in 0 .. row.quota.console.total

\* No use is lost and none counted twice: calls that overlap overwrite each other's
\* windows, never each other's count, also when the row is deleted and imported
\* between a call's read and its patch.  The one exception is in the code: an edit
\* adds the uses it read to those of the row.
UsesAreKept == row.use = used + again

\* Only one refresh is on demand, and its flag is held exactly as long as that
\* call is in progress: no way out of the call leaves it set.
OnDemandReleased ==
    onDemand # None => calls[onDemand].kind = "scheduled"

\* A call that was in progress when the account was deleted does not bring it
\* back: only an import does, with fresh windows.
OnlyImportRevives ==
    [][row.deleted /\ ~row'.deleted => row'.pool = "basic"
          /\ row'.quota = [mode \in {"fast", "console"} |-> DefaultWindow("basic", mode)]]_vars

\* The empty console window of a basic account comes back, whichever calls were
\* overwriting it meanwhile: with the reset loop, the passage of time and no
\* further calls.
ConsoleComesBack ==
    []<>(row.deleted \/ row.pool # "basic" \/ row.quota.console = None \/ row.quota.console.rem > 0)

\* What overlapping calls may do to the counts of an account.
CountsAreKept == TypeOK /\ WithinTotal /\ UsesAreKept /\ OnDemandReleased
=============================================================================
