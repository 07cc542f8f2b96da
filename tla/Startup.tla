------------------------------- MODULE Startup -------------------------------
(***************************************************************************)
(* Starting a process (main.go, main_lifecycle*.go, main_startup_          *)
(* migration.go) and its one-time migrations (platform/startup): the       *)
(* hooks run in their order, the first error ends the process.  The        *)
(* migrations bring the user's config.toml and accounts.db of a local      *)
(* installation into the shared stores.  A process may be killed at any    *)
(* time and is started again.                                              *)
(***************************************************************************)
EXTENDS Naturals, Sequences, FiniteSets

CONSTANTS
    Pages,         \* accounts.db: its accounts, page by page
    Uses,          \* account -> usage counter in accounts.db
    DeletedLocal,  \* accounts that are marked deleted in accounts.db
    Sources,       \* whether LocalSourceFactory is set: main_startup_migration.go
                   \* leaves it out, the tests set it
    MaxStarts,     \* bound: starts of the process
    MaxFaults      \* bound: failing calls and kills

MigrationAssumption ==
    /\ Len(Pages) \in Nat \ {0} /\ DOMAIN Pages = 1 .. Len(Pages)
    /\ \A i \in DOMAIN Pages : \A k \in DOMAIN Pages[i] : Uses[Pages[i][k]] \in Nat
    /\ Sources \subseteq BOOLEAN /\ MaxStarts \in Nat \ {0} /\ MaxFaults \in Nat

VARIABLES
    shared,        \* whether ACCOUNT_STORAGE names a shared store
    source,        \* whether LocalSourceFactory is set
    phase,         \* the hook or migration that runs next
    at,            \* page of copyAccounts and the call of that page: [page, call]
    envKey,        \* whether GROK_APP_APP_KEY is set
    confVersion,   \* version of the shared config store
    confKeys,      \* keys set in it
    userFile,      \* keys set in data/config.toml, {} without the file
    database,      \* whether accounts.db is in the data directory
    moved,         \* whether accounts.db.migrated is there
    target,        \* account -> [uses, deleted] in the account repository
    cleanups,      \* hooks that Shutdown will run, last first
    starts, faults

vars == <<shared, source, phase, at, envKey, confVersion, confKeys, userFile,
          database, moved, target, cleanups, starts, faults>>

Locals == UNION {{Pages[i][k] : k \in DOMAIN Pages[i]} : i \in DOMAIN Pages}
OnPage(i) == {Pages[i][k] : k \in DOMAIN Pages[i]}
Put(fn, accounts, val(_)) ==
    [a \in DOMAIN fn \cup accounts |-> IF a \in accounts THEN val(a) ELSE fn[a]]
NoAccounts == [a \in {} |-> "none"]

\* defaultLifecycleHooks, the migrations of RunStartupMigrations in their place.
Order == <<"config", "adminKey", "logging", "runtime", "tasks", "repository", "build",
           "migrateConfig", "interval", "migrateAccounts", "reload", "media",
           "directory", "refresh", "proxy", "serve">>
Follows(p) == Order[1 + CHOOSE i \in DOMAIN Order : Order[i] = p]
Goes(p) == phase = p /\ phase' = Follows(p)

\* The configuration's backend is the shared store or the user's file.
Stored == IF shared THEN confKeys ELSE userFile
Store(keys) ==
    IF shared
    THEN confKeys' = keys /\ confVersion' = confVersion + 1 /\ UNCHANGED userFile
    ELSE userFile' = keys /\ UNCHANGED <<confKeys, confVersion>>
ConfigKept == UNCHANGED <<confVersion, confKeys, userFile>>
Kept == UNCHANGED <<shared, source, envKey, target, starts, faults>>
DataKept == UNCHANGED <<database, moved>>

-----------------------------------------------------------------------------
(* Hooks.                                                                  *)

EnsureConfig ==
    /\ Goes("config")
    /\ Kept /\ DataKept /\ ConfigKept /\ UNCHANGED <<at, cleanups>>

\* appMainEnsureInitialAdminKey: an empty app_key is stored at once.
EnsureInitialAdminKey ==
    /\ Goes("adminKey")
    /\ IF envKey \/ "app_key" \in Stored THEN ConfigKept ELSE Store(Stored \cup {"app_key"})
    /\ Kept /\ DataKept /\ UNCHANGED <<at, cleanups>>

\* The steps that set something up.
Passes(p, done) ==
    /\ Goes(p)
    /\ cleanups' = cleanups \o done
    /\ Kept /\ ConfigKept /\ UNCHANGED <<at, moved>>

SetupLogging == Passes("logging", <<>>) /\ UNCHANGED database

\* Without RUNTIME_REDIS_URL there is no runtime store and no task snapshot store.
StartRuntimeStore ==
    \E done \in {<<>>, <<"runtime">>} : Passes("runtime", done) /\ UNCHANGED database
ConfigureTaskSnapshots ==
    Passes("tasks", IF cleanups = <<>> THEN <<>> ELSE <<"tasks">>) /\ UNCHANGED database

\* The local repository creates its database.
InitializeRepository ==
    /\ Passes("repository", <<"repository">>)
    /\ database' = (database \/ ~shared)

\* With features.build_provider off, a database that cannot be opened is skipped.
InitializeBuildAccounts ==
    \E done \in {<<>>, <<"build">>} : Passes("build", done) /\ UNCHANGED database

\* The migrations are done: the configuration is loaded again.
ReloadConfig == Passes("reload", <<>>) /\ UNCHANGED database
ReconcileMediaCache == Passes("media", <<>>) /\ UNCHANGED database
StartDirectory == Passes("directory", <<"directory">>) /\ UNCHANGED database
StartRefreshRuntime == Passes("refresh", <<"refresh">>) /\ UNCHANGED database

\* Only the leader schedules the refresh of clearances.
StartProxyScheduler ==
    \E done \in {<<>>, <<"proxy">>} : Passes("proxy", done) /\ UNCHANGED database

\* migrateConfig: a shared store without a version gets the user's file; a local
\* installation without a file gets a copy of the defaults.
MigrateConfig ==
    /\ Goes("migrateConfig")
    /\ CASE shared /\ confVersion = 0 /\ userFile # {} -> Store(Stored \cup userFile)
         [] ~shared /\ userFile = {} -> Store({"defaults"})
         [] OTHER -> ConfigKept
    /\ Kept /\ DataKept /\ UNCHANGED <<at, cleanups>>

\* migrateBasicRefreshInterval replaces the old default.
MigrateInterval ==
    /\ Goes("interval")
    /\ IF "interval_36000" \in Stored
       THEN Store((Stored \ {"interval_36000"}) \cup {"interval_86400"})
       ELSE ConfigKept
    /\ Kept /\ DataKept /\ UNCHANGED <<at, cleanups>>

-----------------------------------------------------------------------------
(* migrateAccounts and copyAccounts.                                       *)

Wanted == shared /\ database /\ "accounts_imported" \notin confKeys /\ DOMAIN target = {}

SkipAccounts ==
    /\ phase = "migrateAccounts" /\ at.page = 0 /\ ~Wanted
    /\ phase' = Follows(phase)
    /\ Kept /\ DataKept /\ ConfigKept /\ UNCHANGED <<at, cleanups>>

CopyBegins ==
    /\ phase = "migrateAccounts" /\ at.page = 0 /\ Wanted /\ source
    /\ at' = [page |-> 1, call |-> "upsert"]
    /\ Kept /\ DataKept /\ ConfigKept /\ UNCHANGED <<phase, cleanups>>

\* Without a source copyAccounts returns an error.
CopyRefused ==
    /\ phase = "migrateAccounts" /\ at.page = 0 /\ Wanted /\ ~source
    /\ phase' = "failed" /\ cleanups' = <<>>
    /\ Kept /\ DataKept /\ ConfigKept /\ UNCHANGED at

\* A page: UpsertAccounts creates the records, PatchAccounts adds the counters as
\* deltas, DeleteAccounts marks what was deleted.
PageCall(call, next) ==
    /\ phase = "migrateAccounts" /\ at.call = call /\ at' = next
    /\ DataKept /\ ConfigKept /\ UNCHANGED <<shared, source, envKey, phase, cleanups, starts, faults>>

\* The shared stores write a new record over one that exists, counters included.
UpsertPage ==
    /\ PageCall("upsert", [at EXCEPT !.call = "patch"])
    /\ target' = Put(target, OnPage(at.page), LAMBDA a : [uses |-> 0, deleted |-> FALSE])

PatchPage ==
    /\ PageCall("patch", [at EXCEPT !.call = "delete"])
    /\ target' = Put(target, OnPage(at.page), LAMBDA a : [target[a] EXCEPT !.uses = @ + Uses[a]])

\* Faulty variant: the last page is taken for copied when it is begun.
DeletePageEarly ==
    /\ PageCall("delete", IF at.page >= Len(Pages) - 1 THEN [at EXCEPT !.call = "rename"]
                          ELSE [page |-> at.page + 1, call |-> "upsert"])
    /\ target' = Put(target, OnPage(at.page) \cap DeletedLocal,
                     LAMBDA a : [target[a] EXCEPT !.deleted = TRUE])

DeletePage ==
    /\ PageCall("delete", IF at.page >= Len(Pages) THEN [at EXCEPT !.call = "rename"]
                          ELSE [page |-> at.page + 1, call |-> "upsert"])
    /\ target' = Put(target, OnPage(at.page) \cap DeletedLocal,
                     LAMBDA a : [target[a] EXCEPT !.deleted = TRUE])

RenameDatabase ==
    /\ phase = "migrateAccounts" /\ at.call = "rename"
    /\ database' = FALSE /\ moved' = TRUE
    /\ at' = [at EXCEPT !.call = "mark"]
    /\ Kept /\ ConfigKept /\ UNCHANGED <<phase, cleanups>>

\* markStartupMigration
MarkImported ==
    /\ phase = "migrateAccounts" /\ at.call = "mark"
    /\ Store(Stored \cup {"accounts_imported"})
    /\ phase' = Follows(phase) /\ at' = [page |-> 0, call |-> "none"]
    /\ Kept /\ DataKept /\ UNCHANGED cleanups

-----------------------------------------------------------------------------
(* The end of a process.                                                   *)

\* A hook returns an error, or the process is killed: no cleanup runs.
Fails ==
    /\ phase \notin {"failed", "stopped"} /\ faults < MaxFaults
    /\ faults' = faults + 1
    /\ phase' = "failed" /\ cleanups' = <<>> /\ at' = [page |-> 0, call |-> "none"]
    /\ DataKept /\ ConfigKept /\ UNCHANGED <<shared, source, envKey, target, starts>>

\* shutdownHook runs the cleanups from the last to the first.
Shutdown ==
    /\ phase = "serve"
    /\ cleanups' = SubSeq(cleanups, 1, Len(cleanups) - 1)
    /\ phase' = IF cleanups' = <<>> THEN "stopped" ELSE "serve"
    /\ Kept /\ DataKept /\ ConfigKept /\ UNCHANGED at

\* The operator starts it again, perhaps with a shared store.
Restart(sharing) ==
    /\ phase \in {"failed", "stopped"} /\ starts < MaxStarts
    /\ starts' = starts + 1
    /\ phase' = "config" /\ shared' = (shared \/ sharing)
    /\ DataKept /\ ConfigKept /\ UNCHANGED <<at, source, envKey, target, cleanups, faults>>

Init ==
    /\ shared \in BOOLEAN /\ envKey \in BOOLEAN /\ source \in Sources
    /\ phase = "config" /\ at = [page |-> 0, call |-> "none"]
    /\ confVersion = 0 /\ confKeys = {}
    /\ userFile \in {{}, {"user_key", "interval_36000"}}
    /\ database \in BOOLEAN /\ moved = FALSE
    /\ target = NoAccounts /\ cleanups = <<>>
    /\ starts = 1 /\ faults = 0

Hook ==
    \/ EnsureConfig \/ EnsureInitialAdminKey \/ SetupLogging \/ StartRuntimeStore
    \/ ConfigureTaskSnapshots \/ InitializeRepository \/ InitializeBuildAccounts \/ ReloadConfig
    \/ ReconcileMediaCache \/ StartDirectory \/ StartRefreshRuntime \/ StartProxyScheduler
    \/ MigrateConfig \/ MigrateInterval \/ SkipAccounts \/ CopyBegins \/ CopyRefused
    \/ UpsertPage \/ PatchPage \/ DeletePage \/ RenameDatabase \/ MarkImported

Next == Hook \/ Fails \/ Shutdown \/ \E sharing \in BOOLEAN : Restart(sharing)

Spec == Init /\ [][Next]_vars

-----------------------------------------------------------------------------
Migrated(a) == [uses |-> Uses[a], deleted |-> a \in DeletedLocal]

TypeOK ==
    /\ phase \in {Order[i] : i \in DOMAIN Order} \cup {"failed", "stopped"}
    /\ at.page \in 0 .. Len(Pages) /\ DOMAIN target \subseteq Locals
    /\ starts \in 1 .. MaxStarts /\ faults \in 0 .. MaxFaults

\* accounts.db leaves its place only when all it holds is in the repository with
\* its counters and deletions, and the import is marked only after that: a process
\* that is killed between two calls never leaves accounts in the renamed file only.
DatabaseKeptUntilCopied ==
    /\ moved => \A a \in Locals : a \in DOMAIN target /\ target[a] = Migrated(a)
    /\ "accounts_imported" \in confKeys => moved

\* Counters are added as deltas; however often the process is killed and started
\* again, no account gets its local counter twice.
CountedOnce == \A a \in DOMAIN target : target[a].uses \in {0, Uses[a]}

\* A process that serves from a shared store and met no fault has brought the
\* accounts along.
AccountsArrive ==
    (phase = "serve" /\ shared /\ faults = 0)
        => ~database /\ (moved => DOMAIN target = Locals)

\* The same for the settings of the user's file.
SettingsArrive ==
    (phase = "serve" /\ shared /\ faults = 0)
        => (userFile \ {"interval_36000"}) \subseteq confKeys

\* No interruption of a migration loses or doubles anything of the accounts.
MigrationIsSafe == TypeOK /\ DatabaseKeptUntilCopied /\ CountedOnce /\ AccountsArrive
=============================================================================
