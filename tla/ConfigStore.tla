----------------------------- MODULE ConfigStore -----------------------------
(***************************************************************************)
(* Configuration (platform/config, products/web/admin/config_patch.go,     *)
(* main.go).  Every process keeps a snapshot of the merged configuration   *)
(* behind a mutex; each request first compares the version of the shared   *)
(* store with the one it loaded.  The admin API patches or clears the      *)
(* store and loads again.  The store is a Redis hash, an SQL table or a    *)
(* TOML file, the last one rewritten as a whole.                           *)
(***************************************************************************)
EXTENDS Naturals, FiniteSets

CONSTANTS
    Process,       \* worker processes that share the store
    Defaults,      \* config.defaults.toml: key -> value
    Environment,   \* process -> the keys set by GROK_ variables, with their values
    Patches,       \* bodies of POST /admin/api/config: functions from some keys
    StartupOnly,   \* keys under startupOnlyConfigPrefixes
    Accepts,       \* key -> values that pass validateConfigValue
    Cleaned,       \* value -> what sanitizeText makes of it
    Kinds,         \* backends of this run
    MaxWrites,     \* bound: patches and resets
    MaxStoreFaults \* bound: failing store calls

VARIABLES
    kind,          \* "toml", "redis" or "sql"
    overrides,     \* the store: a function from the keys that are set
    version,       \* its version
    asked,         \* what all acknowledged writes amount to
    snaps,         \* per process: [data, loaded, version]
    mutex,         \* per process: the thread that holds its mu
    threads,       \* per process and thread: [pc, patch, ver, read, wrote]
    writes, storeFaults

vars == <<kind, overrides, version, asked, snaps, mutex, threads, writes, storeFaults>>

Thread == {"admin", "request"}
NoVersion == 0
Nothing == [k \in {} |-> "none"]

\* DeepMergeConfig, deepMergeTOML and the flattened upserts of Redis and SQL:
\* the second wins where it has the key.
Merge(base, over) ==
    [k \in DOMAIN base \cup DOMAIN over |-> IF k \in DOMAIN over THEN over[k] ELSE base[k]]

\* What Load makes of the store: defaults, then overrides, then the environment.
Effective(p, stored) == Merge(Merge(Defaults, stored), Environment[p])

\* sanitizeProxyConfig
Sanitize(patch) == [k \in DOMAIN patch |-> Cleaned[patch[k]]]

\* validateConfigValue: kind, bounds, address or format of the key's value.
ValidValue(k, v) == v \in Accepts[k]

\* ValidateConfigData: the schema is made of the defaults and knows their keys.
ValidateConfigData(patch) == \A k \in DOMAIN patch : k \in DOMAIN Defaults /\ ValidValue(k, patch[k])

\* ensureRuntimePatchAllowed and ensureConfigPatchValid
Allowed(patch) == DOMAIN patch \cap StartupOnly = {} /\ ValidateConfigData(patch)

Idle == [pc |-> "idle", patch |-> Nothing, ver |-> NoVersion, read |-> Nothing, wrote |-> 0]

Locks(p, t) == mutex[p] = "free" /\ mutex' = [mutex EXCEPT ![p] = t]
Unlocks(p) == mutex' = [mutex EXCEPT ![p] = "free"]
Holds(p, t, pc) == mutex[p] = t /\ threads[p][t].pc = pc

-----------------------------------------------------------------------------
(* ConfigSnapshot.Load: the version first, the data when it has changed.   *)

\* withAppMiddleware loads for every request, the admin handler after a write.
BeginLoad(p, t) ==
    /\ threads[p][t].pc = (IF t = "admin" THEN "reload" ELSE "idle")
    /\ Locks(p, t)
    /\ threads' = [threads EXCEPT ![p][t].pc = "version"]
    /\ UNCHANGED <<kind, overrides, version, asked, snaps, writes, storeFaults>>

LoadUnchanged(p, t) ==
    /\ Holds(p, t, "version") /\ snaps[p].loaded /\ snaps[p].version = version
    /\ Unlocks(p)
    /\ threads' = [threads EXCEPT ![p][t] = Idle]
    /\ UNCHANGED <<kind, overrides, version, asked, snaps, writes, storeFaults>>

ReadVersion(p, t) ==
    /\ Holds(p, t, "version") /\ ~(snaps[p].loaded /\ snaps[p].version = version)
    /\ threads' = [threads EXCEPT ![p][t] = [@ EXCEPT !.pc = "data", !.ver = version]]
    /\ UNCHANGED <<kind, overrides, version, asked, snaps, mutex, writes, storeFaults>>

ReadData(p, t) ==
    /\ Holds(p, t, "data")
    /\ snaps' = [snaps EXCEPT ![p] = [data |-> Effective(p, overrides), loaded |-> TRUE,
                                      version |-> threads[p][t].ver]]
    /\ Unlocks(p)
    /\ threads' = [threads EXCEPT ![p][t] = Idle]
    /\ UNCHANGED <<kind, overrides, version, asked, writes, storeFaults>>

\* The store does not answer: the request fails, the snapshot stays as it is.
LoadFails(p, t) ==
    /\ Holds(p, t, "version") \/ Holds(p, t, "data")
    /\ storeFaults < MaxStoreFaults /\ storeFaults' = storeFaults + 1
    /\ Unlocks(p)
    /\ threads' = [threads EXCEPT ![p][t] = Idle]
    /\ UNCHANGED <<kind, overrides, version, asked, snaps, writes>>

-----------------------------------------------------------------------------
(* updateAdminConfig and ConfigSnapshot.UpdateWithSource.                  *)

BeginUpdate(p, patch) ==
    LET clean == Sanitize(patch) IN
    /\ threads[p]["admin"].pc = "idle" /\ Allowed(clean) /\ writes < MaxWrites
    /\ writes' = writes + 1
    /\ Locks(p, "admin")
    /\ threads' = 
           [threads EXCEPT ![p]["admin"] =
               [@ EXCEPT !.pc = IF kind = "toml" THEN "merge" ELSE "apply", !.patch = clean]]
    /\ UNCHANGED <<kind, overrides, version, asked, snaps, storeFaults>>

\* Faulty variant: the version stays.
WrittenUnversioned(p) ==
    /\ UNCHANGED version
    /\ threads' = [threads EXCEPT ![p]["admin"] = [@ EXCEPT !.pc = "reload", !.wrote = version]]
    /\ Unlocks(p)

\* The write has been acknowledged.  The snapshot forgets its version.
Written(p) ==
    /\ version' = version + 1
    /\ threads' = [threads EXCEPT ![p]["admin"] = [@ EXCEPT !.pc = "reload", !.wrote = version + 1]]
    /\ Unlocks(p)

Patched(p, stored) ==
    /\ overrides' = stored
    /\ asked' = Merge(asked, threads[p]["admin"].patch)
    /\ snaps' = [snaps EXCEPT ![p].version = NoVersion]
    /\ Written(p)

\* RedisConfigBackend.ApplyPatch: one MULTI of HSET and INCR.
ApplyRedis(p) ==
    /\ kind = "redis" /\ Holds(p, "admin", "apply")
    /\ Patched(p, Merge(overrides, threads[p]["admin"].patch))
    /\ UNCHANGED <<kind, writes, storeFaults>>

\* SQLConfigBackend.ApplyPatch: one transaction of upserts and the increment.
ApplySql(p) ==
    /\ kind = "sql" /\ Holds(p, "admin", "apply")
    /\ Patched(p, Merge(overrides, threads[p]["admin"].patch))
    /\ UNCHANGED <<kind, writes, storeFaults>>

\* TomlConfigBackend.ApplyPatchWithSource reads the file ...
ReadToml(p) ==
    /\ Holds(p, "admin", "merge")
    /\ threads' = [threads EXCEPT ![p]["admin"] = [@ EXCEPT !.pc = "rewrite", !.read = overrides]]
    /\ UNCHANGED <<kind, overrides, version, asked, snaps, mutex, writes, storeFaults>>

\* ... and writeAtomic replaces it by what was read and the patch.
WriteToml(p) ==
    /\ Holds(p, "admin", "rewrite")
    /\ Patched(p, Merge(threads[p]["admin"].read, threads[p]["admin"].patch))
    /\ UNCHANGED <<kind, writes, storeFaults>>

\* ApplyPatch returns an error: nothing is stored.
UpdateFails(p) ==
    /\ mutex[p] = "admin" /\ threads[p]["admin"].pc \in {"apply", "merge", "rewrite"}
    /\ storeFaults < MaxStoreFaults /\ storeFaults' = storeFaults + 1
    /\ Unlocks(p)
    /\ threads' = [threads EXCEPT ![p]["admin"] = Idle]
    /\ UNCHANGED <<kind, overrides, version, asked, snaps, writes>>

\* resetAdminConfig and ConfigSnapshot.Reset: after Clear the process has no
\* configuration at all until the load that follows.
Reset(p) ==
    /\ threads[p]["admin"].pc = "idle" /\ mutex[p] = "free" /\ writes < MaxWrites
    /\ writes' = writes + 1
    /\ overrides' = Nothing /\ asked' = Nothing
    /\ snaps' = [snaps EXCEPT ![p] = [data |-> Nothing, loaded |-> FALSE, version |-> NoVersion]]
    /\ Written(p)
    /\ UNCHANGED <<kind, storeFaults>>

-----------------------------------------------------------------------------
Init ==
    /\ kind \in Kinds
    /\ overrides = Nothing /\ version = 1 /\ asked = Nothing
    /\ snaps = [p \in Process |-> [data |-> Nothing, loaded |-> FALSE, version |-> NoVersion]]
    /\ mutex = [p \in Process |-> "free"]
    /\ threads = [p \in Process |-> [t \in Thread |-> Idle]]
    /\ writes = 0 /\ storeFaults = 0

LoadStep(p, t) == BeginLoad(p, t) \/ LoadUnchanged(p, t) \/ ReadVersion(p, t) \/ ReadData(p, t)
WriteStep(p) == ApplyRedis(p) \/ ApplySql(p) \/ ReadToml(p) \/ WriteToml(p)

Next ==
    \E p \in Process :
        \/ \E t \in Thread : LoadStep(p, t) \/ LoadFails(p, t)
        \/ \E patch \in Patches : BeginUpdate(p, patch)
        \/ WriteStep(p) \/ UpdateFails(p) \/ Reset(p)

Spec == Init /\ [][Next]_vars

-----------------------------------------------------------------------------
TypeOK ==
    /\ kind \in Kinds /\ version \in Nat \ {0}
    /\ \A k \in DOMAIN overrides : overrides[k] \in Accepts[k] /\ k \notin StartupOnly
    /\ \A p \in Process : /\ snaps[p].version \in 0 .. version
                          /\ mutex[p] \in Thread \cup {"free"}
    /\ writes \in 0 .. MaxWrites /\ storeFaults \in 0 .. MaxStoreFaults

\* The check that spares a request the reload never hides a change: a snapshot
\* that carries the store's version holds what the store holds, although version
\* and data are read by two calls with other processes' writes in between.
VersionVouchesForData ==
    \A p \in Process : (snaps[p].loaded /\ snaps[p].version = version)
                          => snaps[p].data = Effective(p, overrides)

\* When the admin's reload ends well, its process works with a store at least as
\* new as the admin's own write, whoever loaded it.
AdminSeesOwnWrite ==
    [][\A p \in Process :
        (threads[p]["admin"].pc \in {"version", "data"} /\ threads'[p]["admin"].pc = "idle"
         /\ storeFaults' = storeFaults)
        => snaps'[p].loaded /\ snaps'[p].version >= threads[p]["admin"].wrote]_vars

\* With a shared store no acknowledged patch is undone by one of another process.
PatchesAreKept == kind # "toml" => overrides = asked

\* A process that serves requests ends up with the store's configuration, also
\* after failing loads and after a reset that left it without any.
ProcessesCatchUp == <>[](\A p \in Process : snaps[p].data = Effective(p, overrides))

\* No write is lost or hidden from those who must see it.
ConfigIsKept == [](TypeOK /\ VersionVouchesForData /\ PatchesAreKept) /\ AdminSeesOwnWrite
=============================================================================
