---------------------------- MODULE DynamicModels ----------------------------
(***************************************************************************)
(* The catalogue of models: a static list and a cache of what the console  *)
(* offers (control/model/registry.go, products/openai/dynamic_models.go).  *)
(* A caller that finds the cache expired but filled gets it as it is and   *)
(* starts one refresh in the background; every caller that finds it empty  *)
(* fetches for itself.  Times are ticks until the expiry.                  *)
(***************************************************************************)
EXTENDS Naturals, FiniteSets

CONSTANTS
    Lister,       \* requests that list or resolve models
    Catalogues,   \* what the console may offer: sets of [name, aliases, chat]
    Static,       \* names in Models
    TTL,          \* lifetime of a fetched catalogue, in ticks
    FailureTTL,   \* pause after a failed fetch, in ticks
    MaxChanges,   \* bound: changes of the console's catalogue
    Failed        \* a fetch without an answer

VARIABLES
    offered,      \* the catalogue the console offers now
    modelCache,   \* names in cache
    expiresIn,    \* ticks until expiresAt
    refreshing,   \* the flag of startRefreshLocked
    background,   \* the goroutine: [pc, got]
    listers,      \* per request: [pc, since, got, listed]
    changes

vars == <<offered, modelCache, expiresIn, refreshing, background, listers, changes>>

NoRefresh == [pc |-> "none", got |-> Failed]

Minus(m, n) == IF m > n THEN m - n ELSE 0

\* collectDynamicConsoleNames and isDynamicConsoleChatModel: an entry with a name
\* brings its aliases along; image and video models are left out.
Names(catalogue) ==
    UNION {{entry.name} \cup entry.aliases : entry \in {e \in catalogue : e.chat}}

\* GetContext and allModels: a static model hides a dynamic one of the same name.
Resolvable == Static \cup modelCache

Lists(l, names) == listers' = [listers EXCEPT ![l].listed = Static \cup names]

\* ListContext while the cache is fresh.
ListFresh(l) ==
    /\ listers[l].pc = "idle" /\ expiresIn > 0
    /\ Lists(l, modelCache)
    /\ UNCHANGED <<offered, modelCache, expiresIn, refreshing, background, changes>>

\* Expired but filled: the old names, and one refresh in the background.
ListStale(l) ==
    /\ listers[l].pc = "idle" /\ expiresIn = 0 /\ modelCache # {}
    /\ Lists(l, modelCache)
    /\ refreshing' = TRUE
    /\ background' = IF refreshing THEN background ELSE [pc |-> "fetch", got |-> Failed]
    /\ UNCHANGED <<offered, modelCache, expiresIn, changes>>

\* Empty: the caller fetches, its clock read before the fetch.
ListEmpty(l) ==
    /\ listers[l].pc = "idle" /\ expiresIn = 0 /\ modelCache = {}
    /\ listers' = [listers EXCEPT ![l].pc = "fetch", ![l].since = 0]
    /\ UNCHANGED <<offered, modelCache, expiresIn, refreshing, background, changes>>

\* fetch: an account, the call, and the names parsed from the answer.  Without
\* an account, with a bad status or a body too large it fails.  An answer that is
\* empty, or whose messages cannot be parsed, is no failure and is stored: to the
\* cache it is a catalogue without names, one of Catalogues where that happens.
Answers == {Names(offered), Failed}

Fetch(l, got) ==
    /\ listers[l].pc = "fetch" /\ got \in Answers
    /\ listers' = [listers EXCEPT ![l].pc = "store", ![l].got = got]
    /\ UNCHANGED <<offered, modelCache, expiresIn, refreshing, background, changes>>

\* Faulty variant: a failure empties the cache.
StoreFailure(l) ==
    /\ listers[l].pc = "store"
    /\ modelCache' = IF listers[l].got = Failed THEN {} ELSE listers[l].got
    /\ expiresIn' = Minus(TTL, listers[l].since)
    /\ listers' = [listers EXCEPT ![l] = [pc |-> "idle", since |-> 0, got |-> Failed,
                                          listed |-> Static \cup modelCache']]
    /\ UNCHANGED <<offered, refreshing, background, changes>>

\* The second half of ListContext: the expiry counts from before the fetch; a
\* failure keeps what other callers stored meanwhile, and shortens its life.
Store(l) ==
    LET got == listers[l].got IN
    /\ listers[l].pc = "store"
    /\ modelCache' = IF got = Failed THEN modelCache ELSE got
    /\ expiresIn' = Minus(IF got = Failed THEN FailureTTL ELSE TTL, listers[l].since)
    /\ listers' = [listers EXCEPT ![l] = [pc |-> "idle", since |-> 0, got |-> Failed,
                                          listed |-> Static \cup modelCache']]
    /\ UNCHANGED <<offered, refreshing, background, changes>>

BackgroundFetch(got) ==
    /\ background.pc = "fetch" /\ got \in Answers
    /\ background' = [pc |-> "store", got |-> got]
    /\ UNCHANGED <<offered, modelCache, expiresIn, refreshing, listers, changes>>

\* The end of the goroutine of startRefreshLocked, under the lock.
BackgroundStore ==
    /\ background.pc = "store"
    /\ background' = NoRefresh /\ refreshing' = FALSE
    /\ IF background.got = Failed
       THEN expiresIn' = FailureTTL /\ UNCHANGED modelCache
       ELSE expiresIn' = TTL /\ modelCache' = background.got
    /\ UNCHANGED <<offered, listers, changes>>

Tick ==
    /\ expiresIn' = Minus(expiresIn, 1)
    /\ listers' = [l \in Lister |->
          IF listers[l].pc = "idle" \/ listers[l].since = TTL THEN listers[l]
          ELSE [listers[l] EXCEPT !.since = @ + 1]]
    /\ UNCHANGED <<offered, modelCache, refreshing, background, changes>>

ConsoleChanges(catalogue) ==
    /\ changes < MaxChanges /\ catalogue # offered
    /\ offered' = catalogue /\ changes' = changes + 1
    /\ UNCHANGED <<modelCache, expiresIn, refreshing, background, listers>>

Init ==
    /\ offered \in Catalogues /\ modelCache = {} /\ expiresIn = 0
    /\ refreshing = FALSE /\ background = NoRefresh /\ changes = 0
    /\ listers = [l \in Lister |-> [pc |-> "idle", since |-> 0, got |-> Failed, listed |-> {}]]

\* Clients go on listing; a call in progress ends.
ListStep(l) == \/ ListFresh(l) \/ ListStale(l) \/ ListEmpty(l) \/ Store(l)
               \/ \E got \in Answers : Fetch(l, got)
Succeeds(l) == Fetch(l, Names(offered))
BackgroundStep == BackgroundStore \/ \E got \in Answers : BackgroundFetch(got)
BackgroundSucceeds == BackgroundFetch(Names(offered))

Next ==
    \/ \E l \in Lister : ListStep(l)
    \/ BackgroundStep
    \/ Tick
    \/ \E catalogue \in Catalogues : ConsoleChanges(catalogue)

Spec == Init /\ [][Next]_vars

-----------------------------------------------------------------------------
AllNames == UNION {Names(catalogue) : catalogue \in Catalogues}

TypeOK ==
    /\ offered \in Catalogues /\ modelCache \subseteq AllNames
    /\ expiresIn \in 0 .. TTL /\ changes \in 0 .. MaxChanges
    /\ \A l \in Lister : /\ listers[l].pc \in {"idle", "fetch", "store"}
                         /\ listers[l].since \in 0 .. TTL
                         /\ listers[l].listed \subseteq Static \cup AllNames

\* The flag that keeps a second refresh away is set exactly while one is in
\* progress: no way out of the goroutine leaves it behind.
OneRefresh == refreshing <=> background.pc # "none"

\* A model that every catalogue offers and a client has been shown can be
\* resolved from then on: neither failed fetches nor late answers of other
\* callers take it away.  (An empty answer does: it is a catalogue without it.)
ListedStays ==
    LET always == {n \in AllNames : \A c \in Catalogues : n \in Names(c)}
    IN  \A l \in Lister : listers[l].listed \cap always \subseteq Resolvable

\* When the console stops changing, the cache ends up with what it offers, also
\* after an answer that was overtaken has been stored last.
CatchesUp == <>[](modelCache = Names(offered))

\* No refresh, failed or late, takes away what clients rely on.
CatalogueIsKept == TypeOK /\ OneRefresh /\ ListedStays
=============================================================================
