# A formal model of Gork

Gork is a gateway that serves OpenAI- and Anthropic-compatible requests from a
pool of upstream accounts. This directory holds TLA+ specifications of the
parts of it where state is shared between requests, goroutines, processes and
stores, of the stream transformations whose state is hard to follow, the TLC
configurations that check them on small instances, and proofs, checked by
TLAPS, of what holds for every instance. `PROJECT.json` relates every
definition to the lines it models, lists the hazards the properties are for,
and the disagreements between code and documentation that the runs show.

## The system and its parts

| Part | State | Operations | What makes it hard | Module |
|---|---|---|---|---|
| Account directory, `dataplane/account` | slots, availability index, in-flight counters, cursor | bootstrap, sync, reserve, release, feedback | requests interleave with syncs of the same accounts | `AccountDirectory` |
| SQL and SQLite repositories, `control/account/backends/{sql,local}_*.go`, with the sync loop | rows with revisions, counter, cursor | upsert, patch, delete, replace pool, snapshot, scan | snapshots and scans are several statements outside a transaction | `SqlAccountSync` |
| Redis repository, `backends/redis_*.go` | hashes, index sets, revision log | the same | no transaction at all, backups and undo by hand | `RedisAccountSync` |
| Scheduler leadership, `main_lifecycle_scheduler.go`, `control/account/runtime.go` | Redis key or file lock, leader flag, goroutines | acquire, renew, reconcile, stop, shut down | lease expiry, fallback, reconciliation from every request | `SchedulerLeader` |
| Account health, `control/account/{invalid_credentials,sso_validation,auto_clean}*.go`, `cmd/gork/account_sso_sweep.go` | status, failure counts, deletion | count, validate, clean, operator, sweep | each activity reads one row and writes it later | `AccountHealth` |
| Account quota, `control/account/refresh_*.go` | quota windows, use counts | refresh, use, limit, edit, reset loop | read, fetch for seconds, write back | `AccountQuota` |
| Request dispatch, `products/dispatch.go`, `products/openai`, `products/anthropic` | leases, exclusions, refresh queue | every endpoint | an early return, retry or lost client on each path | `RequestDispatch` |
| Console rate limit | turn per model | wait, delay | sleepers that cancel | `ConsolePacer` |
| Model catalogue | cache, expiry, flag | list, refresh | fetches that end in any order | `DynamicModels` |
| Proxies and clearance, `control/proxy` | nodes, bundles, events, backoff | acquire, feedback, load, refresh | single flight under changes of configuration | `ProxyClearance` |
| Video jobs | jobs, snapshots, files | create, generate, poll, restart | several workers see one job | `VideoJobs` |
| Batch tasks, `platform/runtime`, `web/admin/batch_*.go` | tasks, streams, Redis copies | run, record, cancel, attach | copies overtake each other | `BatchTasks` |
| Media cache, `platform/storage` | files, SQLite index, limit | save, delete, clear, reconcile | files and rows change apart | `MediaCache` |
| Configuration, `platform/config` | snapshot per process, shared store | load, patch, reset | version and data are read apart | `ConfigStore` |
| Startup, `main_lifecycle*.go`, `platform/startup` | phase, stores, local files | hooks, migrations | killed half way, order of hooks | `Startup` |
| Build accounts, `control/buildaccount`, `products/openai/build_*.go` | tokens, status, cooldown | exchange, request, batch, login | rotating tokens and copies of rows | `BuildAccounts` |
| Build stream, `dataplane/build/{cache_route*,stream_*}.go` | dropped items, collected text and calls | filter, collect | interleaved output items | `BuildStream` |
| Reasoning replay, `dataplane/build/reasoningreplay` | items of the last turn of each session | capture, inject, recover | overlapping turns | `ReasoningReplay` |
| Chat stream, `reverse/protocol/xai_chat*.go`, `tool_sieve.go`, formatters | adapter, sieve, open blocks | feed, flush, format | cuts anywhere in a tag | `ChatStream` |
| Reasoning summary, `xai_chat_reasoning*.go` | pending events, budgets | thoughts, cards, reports | decided late, limits per track | `ReasoningSummary` |
| Image generation, `transport/imagine_ws*.go` | connection, round, slots | round, retry, timeout | moderation and partial results | `ImagineRounds` |
| Image sessions, `web/webui/imagine*.go`, `websocket.go` | tickets, places, runs | connect, start, stop, close | a run that outlives its stop | `ImagineSessions` |
| Parsing, formatting, transport, pages | none of their own | | not state machines | none |

How they meet. A request handler loads the configuration, which reconciles the
schedulers; it reserves an account from the directory, talks to the upstream
through a proxy with its clearance, releases the account and reports the
outcome; the report starts refresh jobs that patch the account in the
repository; the sync loop carries patches, imports and deletions from the
repository back into the directory of every process. Schedulers of the leader
refresh quotas, validate sessions and clean accounts; every process resets
console windows and refreshes clearances. Streams pass an adapter, the
sieve or the filter, and a formatter before the client sees them.

## How the modules are built

One module per component; parameters and bounds are CONSTANTS, each named with
the setting or the bound it stands for. Where a module meets something outside
the repository (an upstream, the OAuth server, the solver, a browser), the
header calls it external and its answers are any the code is prepared for.

`ChangeFeed` is an abstract specification: what `control/account/repository.go`
promises of snapshots and scans. `SqlAccountSync` is shown to implement it
(`Feed == INSTANCE ChangeFeed WITH ...`, property `ImplementsFeed`), by TLC and
by proof. `RedisAccountSync` is measured against the same specification and,
when mutations and scans overlap, breaks it.

`Stores`, `Shared`, `Services`, `Jobs` and `Streams` each compose several
components that share no variable, as instances over one set of constants and
variables: `focus` is chosen initially and only the component in focus moves,
the others stay as they began, so a behaviour is one of its component's and a
run is the sum of their state spaces and not the product. A property of a
composition holds in every focus; where it speaks of one component, it is that
component's property by the instance's name. Each property bundles what belongs
to one hazard; its conjuncts are named definitions of the component's module,
and every conjunct has been seen to fail for a slip in the definitions it is
about. What a component requires of its constants is a named operator of its
module (`LeaderAssumption`, `MigrationAssumption`, ...), assumed by the
composition. The proofs extend the compositions and are about the properties
the runs check, for every value of the constants.

An `MC` module extends its composition with the sizes, the symmetry and the
fairness of a run. Where several settings are needed, they are a set that the
initial state chooses from (`MCDeployments`, `MCSettings`), not runs of their
own.

Definitions introduced as a faulty variant are not part of a specification.
Each is a plausible slip in the definition that follows it; putting it in that
definition's place makes TLC refute a property of the run named in
`PROJECT.json`: evidence that the property can fail.

### The account directory and its feed

`AccountDirectory`: the columns of `AccountRuntimeTable` keyed by token (slots
are never removed), the index `ModeAvailable` (`avail`), `Size`, strategy,
clock, and the lease of each request. Every operation runs under one mutex and
is one action: `Bootstrap` and `ApplyChanges`, `Reserve` and `ReserveFails`
(with `maybeResetWindows`, both selectors and `classifyReserveFailure`),
`Release`, `Feedback`, `SetStrategy`. The selectors filter alike and then rank
or draw; any candidate may win, so results hold for every score. A sync group
may have any content, which covers every backend and a pass that ends half way.

`SqlAccountSync`: a mutation is one action, because its transaction starts with
the update of the revision row; a snapshot and a scan are one action per
statement, any of which may fail, and the process may restart anywhere.
`RedisAccountSync` takes the same operations command by command (`Incr`, `Look`,
`Write`, `Index`, `Log`; `Fail`, `Restore`, `Abandon`; `SnapshotKeys`,
`ReadRecord`, `ScanLog`, `ScanApply`); the undo of one token is one action.

### Processes, configuration, start

`SchedulerLeader`: per process the position of the main goroutine, leader flag,
lease, renewal goroutine and per scheduler the running flag and WaitGroup; per
thread the call of `ReconcileRefreshRuntime` or `Stop` it is in. An owner id is
fresh on every acquisition, so the key of a process that is gone belongs to
`Orphan`; without a runtime store the key is `NoStore` and the file lock decides.

`ConfigStore`: the request-time load is `BeginLoad`, `ReadVersion`, `ReadData`
under the process's mutex, with other processes' writes in between; a TOML
store reads and rewrites the whole file. `Startup`: the hooks in their order,
the three migrations, the account copy page by page and call by call, a kill at
any point and the next start.

### Accounts

`AccountHealth` has four activities on the rows of the SQL store; each reads in
one transaction and writes in a later one (`MarkRead`/`MarkPatch`/`MarkDelete`,
the SSO batch with its probes, `AutoCleanList`/`AutoCleanDelete`, the operator
and the command-line sweep `SweepList`/`SweepProbe`/`SweepDelete`). Accounts are
numbered in the order of their tokens and a page is found by an account's place
among the rows listed, so a deletion shifts the pages behind it. `deployment`
says, once and for all, which accounts, calls, options and sweeps a behaviour
has. Times are ages; counts saturate at their thresholds. `AccountQuota` has one
row, calls that read it and patch what they computed (`PatchAccount` with the
windows of `Only` one mode, as the code's partial quota sets), and the reset
loop; "fast" stands for modes 0 to 4. `BuildAccounts`: a store call is one
statement under one mutex and one action; flows (chat, responses, models,
billing, renewal, login, cleanup) work on copies of the rows they listed, in the
store's order.

### Work

`RequestDispatch`: each endpoint is a frame with its program counter;
`RunAccountDispatch`, the image and video paths and the event stream have their
own guards and early returns; streams run in a goroutine whose client may
leave. `VideoJobs`, `BatchTasks`, `MediaCache`, `ImagineSessions`,
`ImagineRounds`, `ConsolePacer`, `DynamicModels` and `ProxyClearance` have one
action per critical section or blocking call of the code.

### Streams

`ChatStream`: the text is a sequence of pieces (plain text, a prefix of the tag
in either case and its rest, the tag, calls, the closing tag, a call in another
syntax) that the upstream cuts into lines anywhere; `ParseToolCalls` is the
parser of an answer that is not streamed, with its fallbacks; the uncut answer is kept as history and is the reference for
what the client got. `BuildStream`: output items open, stream and close in any
interleaving and pass the filter and then the collector. `ReasoningReplay`:
items are told apart by the turn they come from; its store outlives the answers
and is shared by the sessions, so it is composed with the services. `ReasoningSummary`: a text is
the event it is read as, with its track, key and vote; a report is any row of
events that `selectReportEvents` may return.

## What is checked

| Run | Question | Instance |
|---|---|---|
| `directory` | Is the index exact (`IndexConsistent`), every lease on an account that can serve (`ReserveSound`), no failure reported while an account could have served (`FailureIsReal`), are listed pools reservable (`AvailablePoolsReservable`)? Do in-flight counters count the leases through deletion and import (`InflightMatchesLeases`)? Can a request make an account selectable (`RequestsNeverWiden`)? | 2 accounts, 2 pools, 2 modes, 1 request, clock to 2; or 1 account, 3 requests, limit 2 |
| `sql_sync` | Is anything behind the cursor missing (`SyncComplete`), is the chosen group the next (`GroupIsNext`), does a pass catch up (`PassCatchesUp`), is `ChangeFeed` implemented (`ImplementsFeed`), does the table converge (`Converges`)? | 2 accounts, 2 pools, 4 revisions |
| `stores` | Is an undo complete (`UndoComplete`); does Redis keep the feed's promise when operations take turns, and its pool sets cover the pools (`SyncIsSound`); is there one leader per data directory, quiet followers, and no foreign key deleted (`OneLeader`); does a killed migration lose or double anything (`MigrationIsSafe`); is a rotating token ever lost, or an account expired by a race while tokens do not rotate (`GrantsAreKept`); do cooled accounts rest (`CooledIsNotListed`)? | 2 accounts, 3 revisions; 2 processes; 3 local accounts on 2 pages, 3 starts; 1 Build user, 2 flows |
| `shared` | Is an account deleted only for a cause and revived only by an import (`StatusForCause`); are windows and counts right (`CountsAreKept`); are configuration patches kept and seen (`ConfigIsKept`); do the loops repair (`LoopsRepair`)? | 1 account with 1 call and all loops, the same with a sweep, 2 accounts on 2 pages; 2 overlapping calls; 2 processes, 3 kinds of store |
| `services` | Do schedulers follow their switch (`SchedulersFollow`); is a clearance built by one and awaited rightly (`ClearanceIsShared`); is the catalogue kept (`CatalogueIsKept`); does the pace hold (`PaceHolds`); does replay fit its conversation (`ReplayIsSound`); does everyone go on (`ServicesGoOn`)? | 2 handlers; 1 request with the scheduler; 2 listers; 2 callers; 2 turns of 2 sessions on 1 entry, 3 turns of 1 session |
| `jobs` | Is every lease given back once on every path of every endpoint (`LeasesBalanced`); are places, tickets and runs counted and late runs bounded (`SessionsAreCounted`), is what is told of a video true (`VideosAreTrue`), files and rows in step (`CacheIsTrue`); does all work end (`WorkEnds`)? | 1 request on 11 endpoints with 7 outcomes, 2 requests on 2 endpoints, 2 accounts; 1 job whose file may be removed; 11 batches; 2 connections of an address, or 4 of 3 addresses for 2 places; 2 workers, 3 files |
| `streams` | Are hidden calls hidden and shown ones whole up to where the collector stops (`StreamIsFiltered`); is the summary ordered and bounded (`SummaryIsOrderly`); does its end reach a stream and is no other end told (`FinalIsKnown`); is the stream the answer, up to the two differences named below (`StreamIsTheAnswer`); are rounds true (`RoundsAreTrue`); are batch tallies exact (`TallyIsExact`)? | 2 items, 4 pieces of one of 3 dialects in lines of up to 2, 3 events with reports of up to 2, 2 images, batches of 2 with a subscriber, Redis up or down |

Five runs show disagreements between the code and what the repository says of
it; `PROJECT.json` quotes the lines.

| Run | What TLC shows |
|---|---|
| `redis_scan_group` | a scan between two writes of one mutation takes half of its group and skips the rest |
| `leader_lost` | the schedulers keep running after the lease is lost; another process starts its own |
| `startup_settings` | a first start writes the admin key before the migration looks at the version, so the user's settings never reach the shared store |
| `build_refusal` | after 401 and a renewal the second answer's status is not looked at: a 402 is served as the answer |
| `sso_soft_failures` | the validation loop deletes an account after failures of which only one proved its session dead, the others being blocks or rate limits, which README.md:342 of the repository excludes |

Bounds. Two accounts are what it takes for a group to be split, an order of
tokens to matter and one account to hide another; two pools for an account to
move; four revisions for a ReplacePool (two) between two other mutations; three
for a mutation, its undo and a successor. Two processes, because a third adds no
new relation to a key: free, mine, someone else's. Two pages, because a deletion
on the first shifts the second; thresholds of two, so that counting and reaching
differ. Two overlapping calls on one window are every order of two reads and two
patches. One proxy and two retries of the solver let waiters, cooldown and a
reload meet. The third cached file exceeds the limit alone, two fit. Four pieces
give a tag cut in two, a call and its end, and exceed the sieve's bound of three.
The dialects keep pieces that do not meet in one answer apart: tags cut in lower
case, tags cut in either case, and the other syntaxes of a call. The events of
the summary are counted one by one; three are what it takes to exceed a topic's
two findings, or to follow what was flushed after waiting for two. Crowds let the
limit of connections bind in one behaviour and that of an address in another.
A store of one entry makes two sessions evict each other; a third turn is what
it takes to send again what a second was refused. Bounds on revisions, starts,
turns and operations make behaviours end; `CHECK_DEADLOCK FALSE` stands where
they do, or where a component finishes and the run stops.

Fairness. Goroutines that can go on do, timers fire, time passes: weak fairness
of the steps of the code, never of failures, crashes, clients or operators.
Requests keep arriving at a serving process where the code is driven by them
(reconciliation, configuration loads, acquires). Strong fairness stands for
"asked again and again, not always refused": the statements of a snapshot or
scan (`sql_sync`), a probe of a session that has ended (`shared`), the solver and
the console's model list (`services`). `Converges` supposes that restarts end.
In the sum runs a fairness conjunct joins the steps of one goroutine of every
component; since one component moves, it is fairness of that goroutine. The
liveness properties are of the form "again and again not waiting" (`[]<>`) and
"in the end always" (`<>[]`), which says for these goroutines what leads-to
would say.

Kept but unchecked: `size` in `AccountDirectory` (see below), `vchat` in
`VideoJobs` and the marks of `client` in `ChatStream` are translated because the
code has them; the observations below rest on them.

## What is proved

Every theorem holds for any number of accounts, requests, processes and so on,
and for any value of the constants its assumptions allow. "Checked as" is the
property of a run that the theorem states.

| Theorem | Checked as | What it says |
|---|---|---|
| **`AccountDirectoryProofs`** | | |
| `TypeCorrect`, `IndexCorrect` | `TypeOK`, `IndexConsistent` | columns keep their types and the index is exact |
| `ReservationsAreSound`, `FailuresAreReal`, `PoolsAreReservable` | `ReserveSound`, `FailureIsReal`, `AvailablePoolsReservable` | a lease is on an account that can serve, a refusal means that none could, a listed pool has one |
| `InflightCorrect`, `RequestsOnlyNarrow` | `InflightMatchesLeases`, `RequestsNeverWiden` | counters count leases; no request makes an account selectable |
| **`SqlAccountSyncProofs`** | | |
| `FeedComplete` | | the contract `ChangeFeed` implies that nothing behind the cursor is missing |
| `TypeCorrect`, `GroupCorrect` | `TypeOK`, `GroupIsNext` | the group a scan chose stays the next one until its rows are read |
| `SqlImplementsFeed`, `SqlSyncComplete`, `PassesCatchUp` | `ImplementsFeed`, `SyncComplete`, `PassCatchesUp` | the SQL backends implement the contract; passes catch up |
| **`RedisAccountSyncProofs`**, **`StoresProofs`** | | |
| `UndoIsComplete`, `UndoRestoresRows` | `UndoComplete` | a finished undo leaves every row as it was, whatever failed |
| `TypeCorrect`, `SyncHolds`, `RedisIsSound` | `SyncIsSound` | nothing behind the cursor is stale and the pool sets cover the pools |
| `FollowersRunNothing`, `AtMostOneLeader` | `OneLeader` | without a lock no scheduler runs; one leader per data directory |
| `AccountsSurviveMigration` | `MigrationIsSafe` | killed and repeated starts lose nothing and count nothing twice |
| `GrantsSurvive`, `CoolingIsRespected` | `GrantsAreKept`, `CooledIsNotListed` | no refresh token is lost, also when they rotate; while they do not, no race expires an account; cooled accounts rest |
| **`SharedProofs`** | | |
| `ConfigurationKept` | `ConfigIsKept` | the version vouches for the data, patches are kept, administrators see their writes |
| `CountsKept` | `CountsAreKept` | windows stay within their totals, no use is lost or counted twice but by an edit |
| `StatusHasCause` | `StatusForCause` | deletion has a cause, only an import revives |
| **`ServicesProofs`** | | |
| `Pace`, `Catalogue` | `PaceHolds`, `CatalogueIsKept` | calls keep their distance; models that were listed stay resolvable |
| `ClearanceStaysShared` | `ClearanceIsShared` | one process builds the clearance of a key at a time, a waiter waits for a process that will wake it, and a challenged clearance is not handed out before it was replaced, but for the cooldown |
| `ReplayStaysSound` | `ReplayIsSound` | the store is bounded, a body with replayed items is a conversation that fits its history, and a refused ciphertext is in no later request |
| **`JobsProofs`** | | |
| `LoadIsBalanced` | `LeasesBalanced` | a reserved account is released exactly once on every path |
| `VideosStayTrue`, `SessionsCount` | `VideosAreTrue`, `SessionsAreCounted` | a job told as completed yields its file unless the cache removed it, and snapshots only advance; the limiter counts the connections with a place, only a connection's latest run goes on, a cancelled one sends one image more at most |
| `CacheStaysTrue` | `CacheIsTrue` | while nobody holds the lock no row is without its file unless a crash or a failed call left it, a save that succeeds has its file, and whoever trimmed leaves the cache within the limit he read, or with one file |
| **`StreamsProofs`** | | |
| `StreamStaysFiltered` | `StreamIsFiltered` | no search the service added reaches the client, indexes have no gaps and never change, a call is handed over once with the arguments that came before the collector finished, and that it finishes early only at the end of a message's text |
| `FinalStaysKnown`, `TallyStaysExact` | `FinalIsKnown`, `TallyIsExact` | the end is the last event of a channel that had room for it, and no stream, channel or copy tells an end that is not the task's; a task never counts more than its total and, when done, every token once |
| `SummaryStaysOrderly` | `SummaryIsOrderly` | sections come in order, each under one title in the language settled, and no topic exceeds its share |
| `RoundsStayTrue` | `RoundsAreTrue` | every lease is reported on once, no image is final twice in a round, nothing follows an error |

### Arguments

Every component has an inductive invariant of named parts, one lemma per action
(or per group of actions that do the same to the parts), and a last lemma by
which the invariant implies the property. In a composition the components not in
focus stutter, so their invariants are kept by that alone.

- *Directory.* `TypeOK` is inductive. `IndexConsistent` is inductive with it:
  a write leaves the old buckets under the old pool before it enters the new
  ones. `FailureIsReal`, `ReserveSound` and `AvailablePoolsReservable` follow
  without induction, because the selectors read the index and the
  classification reads the columns. `InflightMatchesLeases`: a step changes the
  leases of one request and the counter by the same one.
- *SQL.* `TypeOK` with `GroupIsNext`: between the choice of a group and the
  reading of its rows mutations only move rows above the counter. With it each
  statement is a step of `ChangeFeed` or a stutter.
- *Redis.* `UndoInv`: one mutation or the sync goroutine runs at a time, what
  was not backed up was not written, and a backup is the row as the mutation
  found it. `SerialInv`: a writer's revision is ahead of the cursor, the log
  follows the rows but for the token in work, and what the goroutine has read is
  what is there. `StoresProofs` reaches both through instances, one with
  failing commands and one without.
- *Leader.* `LeaderInv`: whoever leads, is in the middle of a reconciliation or
  runs a loop is entitled to, that is, has taken a lock and not shut down; what
  is held is what was acquired.
- *Migration.* `MigrationInv`: the pages before the current one are copied (but
  for accounts the current page writes again), the current page is where its
  last call left it, and the rename and the mark come after all pages.
  `CountedOnce` alone is not inductive: it needs to know that a page's counters
  are added to records just written.
- *Build accounts.* `BuildInv`: token numbers are issued once; the token of an
  exchange is accepted until its flow has written it, and under rotation only
  that flow knows it; without rotation every copy is as good as the row. An
  account whose grant the provider revoked, or whose write failed, is `damaged`
  and exempt.
- *Configuration.* `ConfigInv`: what a thread has read is not newer than the
  store and its data are at least as new as its version; the version was read
  first. An administrator's load reads no version older than its own write.
- *Quota.* `QuotaInv`: every row held anywhere, by the store, a call or the reset
  loop, is sound (`SoundRows`), so patching one with what was computed from
  another stays sound; uses counted are uses made and those that edits added. *Health.* `HealthInv`: every copy of a row, wherever it is
  held, claims no more than what was really seen of its account (`icSeen`,
  `ssoSeen`, `dead`, `disabledBy`); a stale write may lose a failure and never
  invents one.
- *Pace, catalogue.* The time since the last turn and the time to the next add up to
  an interval at least, and a cooldown ends before the next turn; a
  cache holds what some catalogue offered, and the flag counts the refresh that
  runs.
- *Replay.* `ReplayInv`: the entry of a session is the output of one of its turns
  that is over and has not been refused, and has one to three items. Every
  ciphertext in a body is of a turn of its session that is over; so a refusal
  concerns no entry but the one that is cleared with it, and no later `Close`
  stores what was refused. Bodies stay conversations through the three edits they
  know: a client's history (`InputIsConversation`), an insertion, at the place
  `replayInsertIndex` chooses, of items the body lacks (`InsertIsConversation`),
  and the removal of some (`PartIsConversation`, with the recursion of `Kept` by
  induction).
- *Requests.* `DispatchInv`: a request has an account from reservation to
  settlement, what is left of a settlement contains at most one release, and the
  in-flight number is the number of requests that still owe one.
- *Videos.* `VideoInv`: the step a worker is at tells the state of its job and
  whether its file has been saved, and a snapshot is never ahead of its job.
  *Sessions.* `SessionsInv`: the limiter's numbers are the cardinalities of the
  connections with a place, a ticket that can still be used has admitted nobody,
  and a run that was not cancelled is its connection's latest. One that was looks
  at its context before every event, so it has at most one in hand.
- *Clearances.* `ProxyInv`: a refresh that no `Load` has forgotten is the one its
  key names; whoever waits waits for a process that is refreshing; a valid
  clearance has not been challenged. After a `Load` two solvers may run for one key.
- *Media cache.* `CacheInv`: who holds the lock, what the holder relies on at each
  of his steps (`HolderOK`), and which names are `Leaving`, that is, have lost
  their file and not yet their row. While he evicts, the usage is the sum over
  the rows and his candidates are all rows but one, so what is left when they
  run out is one file. That a removed file lowers the sum by its size is an
  induction over the list (see *Batches*).
- *Build stream.* `BuildInv`: what the filter dropped is exactly the hidden items, so
  the index of a visible one is the number of visible ones before it and never
  changes; the collector keeps every visible call it has taken once, with as many
  arguments as had come. `FinishInv`: what it has taken is all that was sent until
  it finishes, and it finishes before the upstream does only at the end of a
  message's text.
- *Batches.* `BatchInv`: a stream that still reads an ended task has the end last in
  its channel unless that was full. `EndsInv`: whatever tells an end, in a channel,
  in a stream's hands, in a copy on its way or in Redis, tells the task's, with its
  final count; every action that makes or moves a copy keeps this. `TallyInv`: the
  tally is the sum of the recorded steps, the loop has started exactly the steps
  before `next`, and only a cancelled batch or a failed import leaves one out.
  Sums over sequences need induction. The library's induction theorems take an
  operator, which the provers cannot instantiate; the proofs use the set of
  numbers for which the claim holds, and the least number outside it
  (`InductionOverNat`).
- *Summary.* `SummaryInv`: the title of every section begun is above its lines, the
  counts and levels that `emit` keeps are those of the lines, and nothing is
  written before the language is settled. What waited for it is flushed in one
  step: an induction over the events flushed.
- *Image rounds.* `RoundsInv`: a lease is owed from the connection to its report,
  and an image that was final while receiving has its slot done.

### Assumptions

Constants are assumed to have their shapes: finite sets of what is counted
(accounts, requests, connections), natural limits, distinguished values outside
the sets they are added to. Each is a named `ASSUME`, which TLC evaluates on
every run. Three of them say a little more: `ModelsAssumption` that a failed
fetch is retried no later than a good one, `CacheAssumption` that no file is
named `"none"`, and `ProxyAssumption` that the doubled cooldowns are natural
numbers, which follows from the first being one and which no prover here can
compute. Three theorems have a hypothesis beyond that, and the runs show it
is needed and met:

- `AtMostOneLeader` supposes `~Faults` (Redis answers, files can be locked): when
  a lock cannot be taken the code falls back to leading without one, on purpose.
  `FollowersRunNothing` needs no such hypothesis, and `services` checks the
  schedulers with faults.
- `UndoIsComplete` (with `UndoRestoresRows`) and `SyncHolds` suppose `~Overlap`,
  that mutations and synchronisation take turns: with overlap `redis_scan_group`
  shows the second to be false, and an undo may restore a row over a newer one.
  `SyncHolds` supposes in addition that no command fails, since undone rows come
  back under revisions the cursor has passed.

### Only model-checked, and why

- Liveness under fairness (`Converges`, `LoopsRepair`, `ServicesGoOn`,
  `WorkEnds`, the settling half of `SchedulersFollow`) is outside what the prover
  handles.
- `StreamIsTheAnswer` compares a stream cut into lines anywhere with the uncut
  answer: an induction over sequences inside an invariant, left to TLC.

## What else was seen

Read in the code while it was modelled, and not made a run of its own (only the
five disagreements of the violation runs are listed as findings). Where a module
models the code concerned it has the behaviour described; the others were only
read.

- Account directory: after a deletion and a re-import in one page `size` is one
  too low (`sync.go:144`); `ReplacePool` of a pool whose accounts have moved
  deletes them from their new pool (`redis_mutations.go:71`).
- Schedulers: `Stop` waits for ever when a handler restarts the scheduler that
  runs it (`auto_clean_scheduler.go:67`). Leadership has no failover.
- Start: a failed start runs no cleanups and a failing cleanup skips the rest; a
  crash in the middle of the copy leaves a target that is not empty, so the
  remaining accounts are never imported; no local source factory is passed, so a
  process with a local `accounts.db` and an empty shared store does not start.
- Configuration: two patches of the TOML file at once lose one of them.
- Quotas: the scheduled refresh asks for mode 5 under the name of `auto`; an import
  over an existing account resets its counters in SQL and Redis and keeps them in
  the local SQLite store; after a change of pool a refresh or edit that sets only
  some windows keeps the old pool's total in the others (`refresh_apply.go:49-61`);
  an edit adds the uses it has read to those of the row, which counts them twice.
- Account health: a success does not reset the count of invalid credentials, which
  README.md:340 calls consecutive; an account imported again between the mark and
  the deletion is deleted. (That soft SSO failures add up to a deletion is the
  finding of `sso_soft_failures`; `StatusForCause` states what the code counts.)
- Streams of chat: a tag that is not in lower case and is cut passes as text, since
  `splitAtBoundary` compares case and the tag's regexp does not
  (`tool_sieve.go:11,68,105-116`); a call in a JSON envelope, an array,
  `<function_call>` or `<invoke>` is a call for a client that does not stream and
  text for one that does (`tool_parser.go:60-69`). Text that ends in a prefix of `<tool_calls` is lost at the end;
  an unclosed block ends as `tool_calls` with no calls; a block of more than
  64 KiB goes through as text. A retry may follow frames already delivered
  (`xai_chat.go:112-129`). The Anthropic adapter reuses the index of an open text
  block (`messages_stream_format.go:100-160`).
- Build: a cooling account is not returned by time alone; two flows may refresh one
  token; a 429 shortens the cooldown of a 402; new tokens re-activate a disabled
  account; an ignored error of `UpdateTokens` loses a rotated token; a stream cut
  without an error ends as `stop` (`stream_compat.go:14`). The collector finishes at
  the first `response.output_text.done` (`stream_compat.go:143`): a call that follows
  a message's text is lost, and one still open is handed over with the arguments it
  has, in an answer that ends as `tool_calls`. With rotating tokens two flows that
  exchange the same one expire the account the faster has just renewed
  (`build_chat.go:148-152`, `build_batch_workers.go:95-99`).
- Proxy: forgetting events on `Load`; a solve under an old configuration is stored
  under the new one; two failing leases rotate the pool twice; the client that
  leaves during the winner's solve arms the cooldown for all.
- Catalogue: a successful answer that is empty or cannot be parsed replaces the
  catalogue by none (`dynamic_models.go:390-398`); in the model it is a catalogue
  that offers nothing.
- Imagine: a run that is cancelled after its last event gets no end at all, neither
  "stopped" nor "completed" (`imagine.go:132-152`); one that outlives its stop may
  send the image it has in hand beside the next run's. A session without traffic for 60 s is closed; "stopped" may be sent
  twice; more finals than asked for may arrive.
- Video: the chat route shadows `prompt` and answers "Video prompt cannot be empty"
  to every request (`video_chat.go:131-145`). A job whose last publication failed
  goes back, for whoever polls, to the older snapshot when its worker forgets it.
  The media cache may remove the file of a completed job, whose clients are then
  told so (`video_jobs.go:176-188`).
- Batch tasks: a full subscriber channel drops the final event. Copies are written to
  Redis by goroutines of their own, so one that still says "running" may be the last,
  and a stream at another worker reads it (`task_redis.go:43-69`); the `final_event`
  written beside it is read by nothing.

## What is not modelled and why

- No production caller: `ReserveAny`, `PreferTags`, the account state machine.
- No state of their own, or only text: parsing and formatting of requests and
  responses, images and citations in chat streams, pricing tables, the parsing of
  quotas in a record, the command line, logging, browser assets.
- External transports and stores: HTTP and WebSocket clients, TLS of the SQL
  drivers, the FlareSolverr protocol. They appear as the choice of an answer.
- Authentication, the `Limiter` of `platform/ratelimit` and the web UI's chat and
  voice routes: a comparison or a pass-through, with nothing kept between calls
  that a property would be about.
- Secondary indexes of the Redis repository other than the pool sets: they serve
  the admin lists and no reader modelled here uses them.

`PROJECT.json` says the same of each component, with what is left out of the
ones that are modelled in part.

## What is left to prove

The safety properties of all passing runs but one are theorems. What remains, in the
order of what it would say about the code:

1. `StreamIsTheAnswer`. The invariant it needs is known: outside a call the sieve
   keeps back the longest end of what was sent that could begin a tag, inside one
   its buffer is what was sent since the tag. It asks for the parser's equations
   on a sequence and one more piece, by the induction the summary uses.
2. The settling half of `SchedulersFollow`, and liveness, should the prover learn
   to reason about fairness.
