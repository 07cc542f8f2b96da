---------------------------- MODULE SharedProofs ----------------------------
(***************************************************************************)
(* What is proved of the records that several activities share: the        *)
(* configuration, an account's quota and how an account leaves the pool,   *)
(* for any number of processes, calls and accounts, any patches, limits    *)
(* and thresholds.                                                         *)
(***************************************************************************)
EXTENDS Shared, TLAPS, FiniteSetTheorems

-----------------------------------------------------------------------------
(* The configuration.  Snapshots, patches and what a writer has read are     *)
(* functions from keys: only the shape of the records around them is fixed.  *)
Known(stored) == \A k \in DOMAIN stored : stored[k] \in Accepts[k] /\ k \notin StartupOnly

ThreadShape(w) == w = [pc |-> w.pc, patch |-> w.patch, ver |-> w.ver, read |-> w.read, wrote |-> w.wrote]
SnapShape(s) == s = [data |-> s.data, loaded |-> s.loaded, version |-> s.version]
ConfigShape ==
    /\ snaps = [p \in Process |-> snaps[p]] /\ \A p \in Process : SnapShape(snaps[p])
    /\ mutex = [p \in Process |-> mutex[p]]
    /\ threads = [p \in Process |-> threads[p]]
    /\ \A p \in Process : threads[p] = [t \in Config!Thread |-> threads[p][t]]
    /\ \A p \in Process, t \in Config!Thread : ThreadShape(threads[p][t])

(* A thread has read a version the store had, and the data it reads next     *)
(* are at least as new; an administrator's load reads no version older than  *)
(* what was written.                                                         *)
ThreadSound(p, t) ==
    /\ threads[p][t].ver \in 0 .. version /\ threads[p][t].wrote \in 0 .. version
    /\ Known(threads[p][t].patch) /\ Known(threads[p][t].read)
    /\ threads[p][t].pc = "data" => threads[p][t].ver >= threads[p][t].wrote
    /\ threads[p][t].pc \in {"merge", "rewrite"} => kind = "toml"

ConfigInv ==
    /\ ConfigShape /\ Config!TypeOK /\ Config!VersionVouchesForData /\ Config!PatchesAreKept
    /\ \A p \in Process, t \in Config!Thread : ThreadSound(p, t)

(* The configuration depends on nothing but what is merged.                  *)
LEMMA MergeKnown == ASSUME NEW f, NEW g, Known(f), Known(g) PROVE Known(Config!Merge(f, g))
  BY DEF Known, Config!Merge

LEMMA AllowedKnown == ASSUME NEW f, Config!Allowed(f) PROVE Known(f)
  BY DEF Known, Config!Allowed, Config!ValidateConfigData, Config!ValidValue

LEMMA NothingKnown == Known(Config!Nothing)
  BY DEF Known, Config!Nothing

LEMMA ConfigInit == Config!Init => ConfigInv
  <1> SUFFICES ASSUME Config!Init PROVE ConfigInv
    OBVIOUS
  <1>1. ConfigShape
    BY DEF Config!Init, ConfigShape, ThreadShape, SnapShape, Config!Idle
  <1>2. Config!TypeOK
    BY SharedAssumption, NothingKnown DEF Config!Init, Config!TypeOK, Known, Config!Thread, Config!NoVersion
  <1>3. Config!VersionVouchesForData /\ Config!PatchesAreKept
    BY DEF Config!Init, Config!VersionVouchesForData, Config!PatchesAreKept
  <1>4. ASSUME NEW p \in Process, NEW t \in Config!Thread PROVE ThreadSound(p, t)
    BY NothingKnown DEF Config!Init, ThreadSound, Config!Idle, Config!NoVersion
  <1> QED
    BY <1>1, <1>2, <1>3, <1>4 DEF ConfigInv

(* What a step that moves one thread leaves of the invariant: the store is   *)
(* as it was.                                                                *)
StoreStays == UNCHANGED <<kind, overrides, version, asked>>
Bounded == writes' \in 0 .. MaxWrites /\ storeFaults' \in 0 .. MaxStoreFaults
Moves(p, t, w) ==
    /\ threads' = [threads EXCEPT ![p][t] = w] /\ ThreadShape(w)
    /\ mutex' = mutex \/ \E h \in Config!Thread \cup {"free"} : mutex' = [mutex EXCEPT ![p] = h]
WorkSound(w) ==
    /\ w.ver \in 0 .. version /\ w.wrote \in 0 .. version
    /\ Known(w.patch) /\ Known(w.read)
    /\ w.pc = "data" => w.ver >= w.wrote
    /\ w.pc \in {"merge", "rewrite"} => kind = "toml"
SnapSound(p, s) ==
    /\ SnapShape(s) /\ s.version \in 0 .. version
    /\ s.loaded /\ s.version = version => s.data = Config!Effective(p, overrides)

LEMMA ThreadMoves ==
    ASSUME ConfigInv, NEW p \in Process, NEW t \in Config!Thread, NEW w, Moves(p, t, w), WorkSound(w),
           StoreStays, Bounded,
           snaps' = snaps \/ \E s : SnapSound(p, s) /\ snaps' = [snaps EXCEPT ![p] = s]
    PROVE  ConfigInv'
  <1>1. \A q \in Process, u \in Config!Thread :
           threads'[q][u] = IF q = p /\ u = t THEN w ELSE threads[q][u]
    BY DEF Moves, ConfigInv, ConfigShape
  <1>2. /\ threads' = [q \in Process |-> threads'[q]]
        /\ \A q \in Process : threads'[q] = [u \in Config!Thread |-> threads'[q][u]]
        /\ mutex' = [q \in Process |-> mutex'[q]]
    BY DEF Moves, ConfigInv, ConfigShape
  <1>3. \A q \in Process : mutex'[q] \in Config!Thread \cup {"free"}
    BY DEF Moves, ConfigInv, ConfigShape, Config!TypeOK
  <1>4. \A q \in Process : SnapSound(q, snaps[q])
    BY DEF ConfigInv, ConfigShape, SnapSound, Config!TypeOK, Config!VersionVouchesForData
  <1>5. snaps' = [q \in Process |-> snaps'[q]] /\ \A q \in Process : SnapSound(q, snaps'[q])
    BY <1>4 DEF ConfigInv, ConfigShape
  <1>6. \A q \in Process, u \in Config!Thread : ThreadShape(threads'[q][u])
    BY <1>1 DEF Moves, ConfigInv, ConfigShape
  <1>7. ConfigShape'
    BY <1>2, <1>5, <1>6 DEF ConfigShape, SnapSound
  <1>8. ASSUME NEW q \in Process, NEW u \in Config!Thread PROVE ThreadSound(q, u)'
    <2>1. ThreadSound(q, u)
      BY DEF ConfigInv
    <2>2. CASE q = p /\ u = t
      BY <1>1, <2>2 DEF WorkSound, ThreadSound, StoreStays
    <2>3. CASE ~(q = p /\ u = t)
      <3>1. threads'[q][u] = threads[q][u]
        BY <1>1, <2>3
      <3> QED
        BY <2>1, <3>1 DEF ThreadSound, StoreStays
    <2> QED
      BY <2>2, <2>3
  <1>9. Config!TypeOK'
    BY <1>3, <1>5 DEF ConfigInv, Config!TypeOK, StoreStays, Bounded, SnapSound
  <1>10. Config!VersionVouchesForData' /\ Config!PatchesAreKept'
    BY <1>5 DEF ConfigInv, SnapSound, StoreStays, Config!VersionVouchesForData, Config!PatchesAreKept,
                Config!Effective
  <1> QED
    BY <1>7, <1>8, <1>9, <1>10 DEF ConfigInv

(* A thread that loads, or that the store fails, moves only itself.          *)
LEMMA LoadMoves ==
    ASSUME ConfigInv, NEW p \in Process, NEW t \in Config!Thread,
           Config!LoadStep(p, t) \/ Config!LoadFails(p, t)
    PROVE  ConfigInv'
  <1>o. PICK old : old = threads[p][t]
    OBVIOUS
  <1>1. ThreadShape(old) /\ WorkSound(old) /\ version \in Nat \ {0}
    BY <1>o DEF ConfigInv, ConfigShape, ThreadSound, WorkSound, Config!TypeOK
  <1>2. ASSUME NEW w, threads' = [threads EXCEPT ![p][t] = w], ThreadShape(w),
               mutex' = mutex \/ mutex' = [mutex EXCEPT ![p] = t] \/ mutex' = [mutex EXCEPT ![p] = "free"]
        PROVE Moves(p, t, w)
    BY <1>2 DEF Moves
  <1>3. Bounded
    BY SharedAssumption DEF ConfigInv, Config!TypeOK, Bounded, Config!LoadStep, Config!BeginLoad, Config!LoadUnchanged,
           Config!ReadVersion, Config!ReadData, Config!LoadFails
  <1>4. StoreStays
    BY DEF StoreStays, Config!LoadStep, Config!BeginLoad, Config!LoadUnchanged,
           Config!ReadVersion, Config!ReadData, Config!LoadFails
  <1>5. ThreadShape(Config!Idle) /\ WorkSound(Config!Idle)
    BY <1>1, NothingKnown DEF ThreadShape, WorkSound, Config!Idle, Config!NoVersion
  <1>6. CASE Config!BeginLoad(p, t)
    <2>0. PICK w : w = [old EXCEPT !.pc = "version"]
      OBVIOUS
    <2>1. ThreadShape(w) /\ WorkSound(w)
      BY <1>1, <2>0 DEF ThreadShape, WorkSound
    <2>2. threads' = [threads EXCEPT ![p][t] = w] /\ mutex' = [mutex EXCEPT ![p] = t] /\ snaps' = snaps
      BY <1>o, <1>6, <2>0 DEF Config!BeginLoad, Config!Locks
    <2> QED
      BY <1>2, <1>3, <1>4, <2>1, <2>2, ThreadMoves
  <1>7. CASE Config!LoadUnchanged(p, t)
    <2>1. /\ threads' = [threads EXCEPT ![p][t] = Config!Idle]
          /\ mutex' = [mutex EXCEPT ![p] = "free"] /\ snaps' = snaps
      BY <1>7 DEF Config!LoadUnchanged, Config!Unlocks
    <2> QED
      BY <1>2, <1>3, <1>4, <1>5, <2>1, ThreadMoves
  <1>8. CASE Config!ReadVersion(p, t)
    <2>0. PICK w : w = [old EXCEPT !.pc = "data", !.ver = version]
      OBVIOUS
    <2>3. /\ ThreadShape(w) /\ w.pc = "data" /\ w.ver = version /\ w.patch = old.patch
          /\ w.read = old.read /\ w.wrote = old.wrote
      BY <1>1, <2>0 DEF ThreadShape
    <2>2. threads' = [threads EXCEPT ![p][t] = w] /\ mutex' = mutex /\ snaps' = snaps
      BY <1>o, <1>8, <2>0 DEF Config!ReadVersion
    <2>1. ThreadShape(w) /\ WorkSound(w)
      BY <1>1, <2>3 DEF WorkSound
    <2> QED
      BY <1>2, <1>3, <1>4, <2>1, <2>2, ThreadMoves
  <1>9. CASE Config!ReadData(p, t)
    <2> DEFINE s == [data |-> Config!Effective(p, overrides), loaded |-> TRUE, version |-> old.ver]
    <2>1. SnapSound(p, s)
      BY <1>1 DEF SnapSound, SnapShape, WorkSound
    <2>2. /\ threads' = [threads EXCEPT ![p][t] = Config!Idle] /\ mutex' = [mutex EXCEPT ![p] = "free"]
          /\ snaps' = [snaps EXCEPT ![p] = s]
      BY <1>o, <1>9 DEF Config!ReadData, Config!Unlocks
    <2> HIDE DEF s
    <2>3. \E n : SnapSound(p, n) /\ snaps' = [snaps EXCEPT ![p] = n]
      BY <2>1, <2>2
    <2> QED
      BY <1>2, <1>3, <1>4, <1>5, <2>2, <2>3, ThreadMoves
  <1>10. CASE Config!LoadFails(p, t)
    <2>1. /\ threads' = [threads EXCEPT ![p][t] = Config!Idle]
          /\ mutex' = [mutex EXCEPT ![p] = "free"] /\ snaps' = snaps
      BY <1>10 DEF Config!LoadFails, Config!Unlocks
    <2> QED
      BY <1>2, <1>3, <1>4, <1>5, <2>1, ThreadMoves
  <1> QED
    BY <1>6, <1>7, <1>8, <1>9, <1>10 DEF Config!LoadStep

LEMMA UpdateMoves ==
    ASSUME ConfigInv, NEW p \in Process,
           (\E patch \in Patches : Config!BeginUpdate(p, patch)) \/ Config!ReadToml(p) \/ Config!UpdateFails(p)
    PROVE  ConfigInv'
  <1>o. PICK old : old = threads[p]["admin"]
    OBVIOUS
  <1>0. "admin" \in Config!Thread
    BY DEF Config!Thread
  <1>1. ThreadShape(old) /\ WorkSound(old) /\ version \in Nat \ {0} /\ Known(overrides)
    BY <1>o, <1>0 DEF ConfigInv, ConfigShape, ThreadSound, WorkSound, Config!TypeOK, Known
  <1>2. ASSUME NEW w, threads' = [threads EXCEPT ![p]["admin"] = w], ThreadShape(w),
               mutex' = mutex \/ mutex' = [mutex EXCEPT ![p] = "admin"] \/ mutex' = [mutex EXCEPT ![p] = "free"]
        PROVE Moves(p, "admin", w)
    BY <1>0, <1>2 DEF Moves
  <1>3. Bounded
    <2>0. writes \in 0 .. MaxWrites /\ storeFaults \in 0 .. MaxStoreFaults /\ MaxWrites \in Nat
          /\ MaxStoreFaults \in Nat
      BY SharedAssumption DEF ConfigInv, Config!TypeOK
    <2> USE <2>0 DEF Bounded
    <2>1. ASSUME NEW patch \in Patches, Config!BeginUpdate(p, patch) PROVE Bounded
      <3>1. writes < MaxWrites /\ writes' = writes + 1 /\ storeFaults' = storeFaults
        BY <2>1, Zenon DEF Config!BeginUpdate
      <3> QED
        BY <3>1
    <2>2. CASE Config!ReadToml(p) \/ Config!UpdateFails(p)
      BY <2>2 DEF Config!ReadToml, Config!UpdateFails
    <2> QED
      BY <2>1, <2>2
  <1>4. StoreStays /\ snaps' = snaps
    BY DEF StoreStays, Config!BeginUpdate, Config!ReadToml, Config!UpdateFails
  <1>5. ASSUME NEW patch \in Patches, Config!BeginUpdate(p, patch) PROVE ConfigInv'
    <2> DEFINE next == IF kind = "toml" THEN "merge" ELSE "apply"
    <2>0. PICK w : w = [old EXCEPT !.pc = next, !.patch = Config!Sanitize(patch)]
      OBVIOUS
    <2>4. /\ ThreadShape(w) /\ w.pc = next /\ w.patch = Config!Sanitize(patch) /\ w.ver = old.ver
          /\ w.read = old.read /\ w.wrote = old.wrote
      BY <1>1, <2>0 DEF ThreadShape
    <2>1. Known(Config!Sanitize(patch))
      BY <1>5, AllowedKnown DEF Config!BeginUpdate
    <2>3. threads' = [threads EXCEPT ![p]["admin"] = w] /\ mutex' = [mutex EXCEPT ![p] = "admin"]
      BY <1>o, <1>5, <2>0 DEF Config!BeginUpdate, Config!Locks
    <2>2. ThreadShape(w) /\ WorkSound(w)
      BY <1>1, <2>1, <2>4 DEF WorkSound
    <2> QED
      BY <1>0, <1>2, <1>3, <1>4, <2>2, <2>3, ThreadMoves
  <1>6. CASE Config!ReadToml(p)
    <2>0. PICK w : w = [old EXCEPT !.pc = "rewrite", !.read = overrides]
      OBVIOUS
    <2>4. old.pc = "merge"
      BY <1>o, <1>6 DEF Config!ReadToml, Config!Holds
    <2>3. /\ ThreadShape(w) /\ w.pc = "rewrite" /\ w.read = overrides /\ w.ver = old.ver
          /\ w.patch = old.patch /\ w.wrote = old.wrote
      BY <1>1, <2>0 DEF ThreadShape
    <2>2. threads' = [threads EXCEPT ![p]["admin"] = w] /\ mutex' = mutex
      BY <1>o, <1>6, <2>0 DEF Config!ReadToml
    <2>1. ThreadShape(w) /\ WorkSound(w)
      BY <1>1, <2>3, <2>4 DEF WorkSound
    <2> QED
      BY <1>0, <1>2, <1>3, <1>4, <2>1, <2>2, ThreadMoves
  <1>7. CASE Config!UpdateFails(p)
    <2>1. ThreadShape(Config!Idle) /\ WorkSound(Config!Idle)
      BY <1>1, NothingKnown DEF ThreadShape, WorkSound, Config!Idle, Config!NoVersion
    <2>2. threads' = [threads EXCEPT ![p]["admin"] = Config!Idle] /\ mutex' = [mutex EXCEPT ![p] = "free"]
      BY <1>7 DEF Config!UpdateFails, Config!Unlocks
    <2> QED
      BY <1>0, <1>2, <1>3, <1>4, <2>1, <2>2, ThreadMoves
  <1> QED
    BY <1>5, <1>6, <1>7

(* A write: no snapshot carries the new version, the writer's own is         *)
(* forgotten.                                                                *)
LEMMA WriteKeeps ==
    ASSUME ConfigInv, NEW p \in Process, NEW s, SnapShape(s), s.version = 0,
           snaps' = [snaps EXCEPT ![p] = s], Config!Written(p), Known(overrides'),
           kind' = kind, kind # "toml" => overrides' = asked', Bounded
    PROVE  ConfigInv'
  <1>o. PICK old : old = threads[p]["admin"]
    OBVIOUS
  <1>w. PICK w : w = [old EXCEPT !.pc = "reload", !.wrote = version + 1]
    OBVIOUS
  <1>0. "admin" \in Config!Thread /\ version \in Nat \ {0} /\ version' = version + 1
    BY DEF Config!Thread, ConfigInv, Config!TypeOK, Config!Written
  <1>1. threads' = [threads EXCEPT ![p]["admin"] = w] /\ mutex' = [mutex EXCEPT ![p] = "free"]
    BY <1>o, <1>w DEF Config!Written, Config!Unlocks
  <1>2. /\ ThreadShape(w) /\ w.pc = "reload" /\ w.wrote = version + 1
        /\ w.ver = threads[p]["admin"].ver /\ w.patch = threads[p]["admin"].patch
        /\ w.read = threads[p]["admin"].read
    <2>1. ThreadShape(old)
      BY <1>o, <1>0 DEF ConfigInv, ConfigShape
    <2> QED
      BY <1>o, <1>w, <2>1 DEF ThreadShape
  <1>3. \A q \in Process, u \in Config!Thread :
           threads'[q][u] = IF q = p /\ u = "admin" THEN w ELSE threads[q][u]
    BY <1>0, <1>1 DEF ConfigInv, ConfigShape
  <1>4. /\ threads' = [q \in Process |-> threads'[q]]
        /\ \A q \in Process : threads'[q] = [u \in Config!Thread |-> threads'[q][u]]
        /\ mutex' = [q \in Process |-> mutex'[q]]
        /\ \A q \in Process : mutex'[q] \in Config!Thread \cup {"free"}
    BY <1>0, <1>1 DEF ConfigInv, ConfigShape, Config!TypeOK
  <1>5. /\ snaps' = [q \in Process |-> snaps'[q]]
        /\ \A q \in Process : SnapShape(snaps'[q]) /\ snaps'[q].version \in 0 .. version
    BY <1>0 DEF ConfigInv, ConfigShape, Config!TypeOK
  <1>6. ConfigShape'
    BY <1>2, <1>3, <1>4, <1>5 DEF ConfigInv, ConfigShape
  <1>7. ASSUME NEW q \in Process, NEW u \in Config!Thread PROVE ThreadSound(q, u)'
    <2>1. ThreadSound(q, u)
      BY DEF ConfigInv
    <2>2. CASE q = p /\ u = "admin"
      <3>1. threads'[q][u] = w
        BY <1>3, <2>2
      <3> QED
        BY <1>0, <1>2, <2>1, <2>2, <3>1 DEF ThreadSound
    <2>3. CASE ~(q = p /\ u = "admin")
      <3>1. threads'[q][u] = threads[q][u]
        BY <1>3, <2>3
      <3> QED
        BY <1>0, <2>1, <3>1 DEF ThreadSound
    <2> QED
      BY <2>2, <2>3
  <1>8. Config!TypeOK'
    BY <1>0, <1>4, <1>5 DEF ConfigInv, Config!TypeOK, Bounded, Known
  <1>9. Config!VersionVouchesForData' /\ Config!PatchesAreKept'
    BY <1>0, <1>5 DEF Config!VersionVouchesForData, Config!PatchesAreKept
  <1> QED
    BY <1>6, <1>7, <1>8, <1>9 DEF ConfigInv

LEMMA WritesKeep ==
    ASSUME ConfigInv, NEW p \in Process,
           Config!ApplyRedis(p) \/ Config!ApplySql(p) \/ Config!WriteToml(p) \/ Config!Reset(p)
    PROVE  ConfigInv'
  <1> DEFINE work == threads[p]["admin"]
  <1>1. /\ Known(overrides) /\ Known(work.patch) /\ Known(work.read)
        /\ work.pc = "rewrite" => kind = "toml"
        /\ kind # "toml" => overrides = asked
        /\ SnapShape(snaps[p]) /\ snaps = [q \in Process |-> snaps[q]]
        /\ "admin" \in Config!Thread
    BY DEF Config!Thread, ConfigInv, ConfigShape, ThreadSound, Config!TypeOK, Known, Config!PatchesAreKept
  <1>2. Bounded
    BY SharedAssumption DEF ConfigInv, Config!TypeOK, Bounded, Config!ApplyRedis, Config!ApplySql, Config!WriteToml,
           Config!Reset
  <1>3. CASE Config!Reset(p)
    <2> DEFINE s == [data |-> Config!Nothing, loaded |-> FALSE, version |-> Config!NoVersion]
    <2>1. SnapShape(s) /\ s.version = 0 /\ snaps' = [snaps EXCEPT ![p] = s]
      BY <1>3 DEF Config!Reset, SnapShape, Config!NoVersion
    <2>2. Config!Written(p) /\ Known(overrides') /\ kind' = kind /\ overrides' = asked'
      BY <1>3, NothingKnown DEF Config!Reset
    <2> HIDE DEF s
    <2> QED
      BY <1>2, <2>1, <2>2, WriteKeeps
  <1>4. ASSUME NEW stored, Config!Patched(p, stored), Known(stored), kind' = kind,
               kind # "toml" => stored = Config!Merge(overrides, work.patch)
        PROVE  ConfigInv'
    <2> DEFINE s == [snaps[p] EXCEPT !.version = Config!NoVersion]
    <2>1. SnapShape(s) /\ s.version = 0
      BY <1>1 DEF SnapShape, Config!NoVersion
    <2>2. snaps' = [snaps EXCEPT ![p] = s] /\ Config!Written(p) /\ overrides' = stored
          /\ asked' = Config!Merge(asked, work.patch)
      BY <1>4 DEF Config!Patched
    <2> HIDE DEF s
    <2> QED
      BY <1>1, <1>2, <1>4, <2>1, <2>2, WriteKeeps
  <1>5. Known(Config!Merge(overrides, work.patch)) /\ Known(Config!Merge(work.read, work.patch))
    BY <1>1, MergeKnown
  <1>6. CASE Config!ApplyRedis(p) \/ Config!ApplySql(p)
    BY <1>4, <1>5, <1>6 DEF Config!ApplyRedis, Config!ApplySql
  <1>7. CASE Config!WriteToml(p)
    BY <1>1, <1>4, <1>5, <1>7 DEF Config!WriteToml, Config!Holds
  <1> QED
    BY <1>3, <1>6, <1>7
(* When an administrator's load ends well, it has found a version at least   *)
(* as new as the administrator's write.                                      *)
Fresh(p) ==
    threads[p]["admin"].pc \in {"version", "data"} /\ threads'[p]["admin"].pc = "idle"
        /\ storeFaults' = storeFaults
    => snaps'[p].loaded /\ snaps'[p].version >= threads[p]["admin"].wrote

LEMMA LoadIsFresh ==
    ASSUME ConfigInv, NEW p \in Process, NEW q \in Process, NEW t \in Config!Thread,
           Config!LoadStep(q, t) \/ Config!LoadFails(q, t)
    PROVE  Fresh(p)
  <1> SUFFICES ASSUME threads[p]["admin"].pc \in {"version", "data"}, threads'[p]["admin"].pc = "idle",
                      storeFaults' = storeFaults
               PROVE  snaps'[p].loaded /\ snaps'[p].version >= threads[p]["admin"].wrote
    BY DEF Fresh
  <1>0. "admin" \in Config!Thread /\ version \in Nat /\ storeFaults \in Nat
    BY SharedAssumption DEF Config!Thread, ConfigInv, Config!TypeOK
  <1>1. ThreadSound(p, "admin") /\ snaps = [r \in Process |-> snaps[r]]
    BY <1>0 DEF ConfigInv, ConfigShape
  <1>2. threads = [r \in Process |-> threads[r]]
        /\ \A r \in Process : threads[r] = [u \in Config!Thread |-> threads[r][u]]
        /\ ThreadShape(threads[q][t])
    BY DEF ConfigInv, ConfigShape
  <1>3. ASSUME NEW w, threads' = [threads EXCEPT ![q][t] = w]
        PROVE  q = p /\ t = "admin" /\ w.pc = "idle"
    BY <1>0, <1>2, <1>3
  <1>4. CASE Config!BeginLoad(q, t)
    <2>0. PICK w : w = [threads[q][t] EXCEPT !.pc = "version"]
      OBVIOUS
    <2>1. w.pc = "version"
      BY <1>2, <2>0 DEF ThreadShape
    <2>2. threads' = [threads EXCEPT ![q][t] = w]
      BY <1>4, <2>0 DEF Config!BeginLoad
    <2> QED
      BY <1>3, <2>1, <2>2
  <1>5. CASE Config!LoadUnchanged(q, t)
    <2>1. q = p /\ t = "admin"
      BY <1>3, <1>5 DEF Config!LoadUnchanged
    <2> QED
      BY <1>0, <1>1, <1>5, <2>1 DEF Config!LoadUnchanged, ThreadSound
  <1>6. CASE Config!ReadVersion(q, t)
    <2>0. PICK w : w = [threads[q][t] EXCEPT !.pc = "data", !.ver = version]
      OBVIOUS
    <2>1. w.pc = "data"
      BY <1>2, <2>0 DEF ThreadShape
    <2>2. threads' = [threads EXCEPT ![q][t] = w]
      BY <1>6, <2>0 DEF Config!ReadVersion
    <2> QED
      BY <1>3, <2>1, <2>2
  <1>7. CASE Config!ReadData(q, t)
    <2>1. q = p /\ t = "admin"
      BY <1>3, <1>7 DEF Config!ReadData
    <2>2. threads[p]["admin"].pc = "data"
      BY <1>7, <2>1 DEF Config!ReadData, Config!Holds
    <2>3. snaps'[p].loaded = TRUE /\ snaps'[p].version = threads[p]["admin"].ver
      BY <1>1, <1>7, <2>1 DEF Config!ReadData
    <2> QED
      BY <1>1, <2>2, <2>3 DEF ThreadSound
  <1>8. CASE Config!LoadFails(q, t)
    BY <1>0, <1>8 DEF Config!LoadFails
  <1> QED
    BY <1>4, <1>5, <1>6, <1>7, <1>8 DEF Config!LoadStep

LEMMA UpdateIsFresh ==
    ASSUME ConfigInv, NEW p \in Process, NEW q \in Process,
           \/ \E patch \in Patches : Config!BeginUpdate(q, patch)
           \/ Config!ReadToml(q) \/ Config!UpdateFails(q)
           \/ Config!ApplyRedis(q) \/ Config!ApplySql(q) \/ Config!WriteToml(q) \/ Config!Reset(q)
    PROVE  Fresh(p)
  <1> SUFFICES ASSUME threads[p]["admin"].pc \in {"version", "data"}, threads'[p]["admin"].pc = "idle",
                      storeFaults' = storeFaults
               PROVE  FALSE
    BY DEF Fresh
  <1>0. "admin" \in Config!Thread /\ storeFaults \in Nat
    BY SharedAssumption DEF Config!Thread, ConfigInv, Config!TypeOK
  <1>1. threads = [r \in Process |-> threads[r]]
        /\ \A r \in Process : threads[r] = [u \in Config!Thread |-> threads[r][u]]
        /\ ThreadShape(threads[q]["admin"])
    BY <1>0 DEF ConfigInv, ConfigShape
  <1>2. ~Config!UpdateFails(q)
    BY <1>0 DEF Config!UpdateFails
  <1>3. threads[q]["admin"].pc \in {"idle", "apply", "merge", "rewrite"}
    BY <1>2 DEF Config!BeginUpdate, Config!ReadToml, Config!ApplyRedis, Config!ApplySql, Config!WriteToml,
                Config!Reset, Config!Holds
  <1>4. \E w : threads' = [threads EXCEPT ![q]["admin"] = w]
    BY <1>2, Zenon DEF Config!BeginUpdate, Config!ReadToml, Config!ApplyRedis, Config!ApplySql,
                Config!WriteToml, Config!Reset, Config!Patched, Config!Written
  <1>5. q # p
    BY <1>3
  <1>6. threads'[p]["admin"] = threads[p]["admin"]
    BY <1>0, <1>1, <1>4, <1>5
  <1> QED
    BY <1>6

LEMMA ConfigStep == ASSUME ConfigInv, Config!Next PROVE ConfigInv' /\ \A p \in Process : Fresh(p)
  <1>1. PICK q \in Process :
           \/ \E t \in Config!Thread : Config!LoadStep(q, t) \/ Config!LoadFails(q, t)
           \/ \E patch \in Patches : Config!BeginUpdate(q, patch)
           \/ Config!WriteStep(q) \/ Config!UpdateFails(q) \/ Config!Reset(q)
    BY DEF Config!Next
  <1>2. CASE \E t \in Config!Thread : Config!LoadStep(q, t) \/ Config!LoadFails(q, t)
    BY <1>2, LoadMoves, LoadIsFresh
  <1>3. CASE \/ \E patch \in Patches : Config!BeginUpdate(q, patch)
             \/ Config!ReadToml(q) \/ Config!UpdateFails(q)
    BY <1>3, UpdateMoves, UpdateIsFresh
  <1>4. CASE Config!ApplyRedis(q) \/ Config!ApplySql(q) \/ Config!WriteToml(q) \/ Config!Reset(q)
    BY <1>4, WritesKeep, UpdateIsFresh
  <1> QED
    BY <1>1, <1>2, <1>3, <1>4 DEF Config!WriteStep

(* A process that carries the store's version has the store's data, no       *)
(* acknowledged patch of a shared store is undone, and an administrator      *)
(* reads back what was just written, for any processes, keys and patches     *)
(* (ConfigSnapshot.Load, UpdateWithSource).                                  *)
THEOREM ConfigurationKept == Spec => ConfigIsKept
  <1>1. Init => ConfigInv
    BY ConfigInit DEF Init
  <1> DEFINE Expected == \A p \in Process :
                (threads[p]["admin"].pc \in {"version", "data"} /\ threads'[p]["admin"].pc = "idle"
                 /\ storeFaults' = storeFaults)
                => snaps'[p].loaded /\ snaps'[p].version >= threads[p]["admin"].wrote
  <1>2. ConfigInv /\ [Next]_vars => ConfigInv' /\ [Expected]_(Config!vars)
    <2> SUFFICES ASSUME ConfigInv, [Next]_vars PROVE ConfigInv' /\ [Expected]_(Config!vars)
      OBVIOUS
    <2>1. CASE Config!Next
      <3>1. ConfigInv' /\ \A p \in Process : Fresh(p)
        BY <2>1, ConfigStep
      <3> QED
        BY <3>1 DEF Fresh
    <2>2. CASE UNCHANGED configVars
      <3>1. UNCHANGED Config!vars
        BY <2>2 DEF configVars, Config!vars
      <3>2. ConfigInv'
        BY <2>2 DEF configVars, ConfigInv, ConfigShape, ThreadSound, Config!TypeOK,
                    Config!VersionVouchesForData, Config!PatchesAreKept, Config!Effective
      <3> QED
        BY <3>1, <3>2
    <2> QED
      BY <2>1, <2>2 DEF Next, InHealth, InQuota, InConfig, vars
  <1>3. ConfigInv => Config!TypeOK /\ Config!VersionVouchesForData /\ Config!PatchesAreKept
    BY DEF ConfigInv
  <1>4. ConfigIsKept <=> /\ [](Config!TypeOK /\ Config!VersionVouchesForData /\ Config!PatchesAreKept)
                         /\ [][Expected]_(Config!vars)
    BY DEF ConfigIsKept, Config!ConfigIsKept, Config!AdminSeesOwnWrite
  <1> HIDE DEF Expected
  <1> QED
    BY <1>1, <1>2, <1>3, <1>4, PTL DEF Spec

-----------------------------------------------------------------------------
(* The quota.  Rows are read, aged and written back whole or in part: every  *)
(* window that is held anywhere promises no more than its total.             *)
SoundWindows == {w \in Quota!Windows : w.rem <= w.total}
SoundRows == [pool : {"basic", "super"}, deleted : BOOLEAN, use : Nat,
              quota : [fast : SoundWindows, console : SoundWindows \cup {None}]]

QuotaInv ==
    /\ row \in SoundRows /\ resetting \in SoundRows \cup {None}
    /\ calls \in [Call -> [kind : Quota!CallKinds, row : SoundRows \cup {None},
                           got : Quota!Answers \cup {None}]]
    /\ \A c \in Call :
          /\ calls[c].kind # "idle" => calls[c].row \in SoundRows
          /\ calls[c].kind = "use_fast" /\ calls[c].got # None => calls[c].got.fast # None
    /\ onDemand \in Call \cup {None} /\ used \in Nat /\ again \in Nat /\ started \in 0 .. MaxCalls
    /\ Quota!UsesAreKept /\ Quota!OnDemandReleased

Pools == {"basic", "super"}
Modes == {"fast", "console"}

LEMMA WindowMade ==
    ASSUME NEW rem \in Nat, NEW total \in Nat, NEW left \in {NoReset} \cup 0 .. Span,
           NEW source \in {"default", "real", "estimated"}, rem <= total
    PROVE  Quota!Window(rem, total, left, source) \in SoundWindows
  BY DEF Quota!Window, SoundWindows, Quota!Windows

LEMMA WindowFields ==
    ASSUME NEW w \in SoundWindows
    PROVE  /\ w \in Quota!Windows /\ w # None
           /\ w.rem \in Nat /\ w.total \in Nat /\ w.rem <= w.total /\ w.left \in {NoReset} \cup 0 .. Span
           /\ w.source \in {"default", "real", "estimated"}
  BY SharedAssumption DEF SoundWindows, Quota!Windows

LEMMA DefaultSound ==
    ASSUME NEW pool \in Pools, NEW mode \in Modes
    PROVE  /\ Quota!DefaultWindow(pool, mode) \in SoundWindows \cup {None}
           /\ mode = "fast" => Quota!DefaultWindow(pool, mode) \in SoundWindows
  <1>1. FastLimit[pool] \in Nat /\ ConsoleLimit \in Nat
    BY SharedAssumption DEF Pools
  <1>2. /\ Quota!Window(FastLimit[pool], FastLimit[pool], NoReset, "default") \in SoundWindows
        /\ Quota!Window(ConsoleLimit, ConsoleLimit, NoReset, "default") \in SoundWindows
    BY <1>1, WindowMade
  <1> QED
    BY <1>2 DEF Quota!DefaultWindow, Modes

LEMMA ClampBound ==
    ASSUME NEW n \in Int, NEW high \in Nat
    PROVE  Quota!Clamp(n, 0, high) \in 0 .. high
  BY DEF Quota!Clamp

(* A window whose count, total and reset time change, within the bounds.     *)
LEMMA WindowRewritten ==
    ASSUME NEW w \in SoundWindows, NEW rem \in 0 .. w.total, NEW left \in {NoReset} \cup 0 .. Span
    PROVE  /\ [w EXCEPT !.rem = rem, !.source = "estimated"] \in SoundWindows
           /\ [w EXCEPT !.rem = rem, !.left = left] \in SoundWindows
           /\ [w EXCEPT !.left = left] \in SoundWindows
  <1>1. w \in Quota!Windows /\ w.total \in Nat /\ rem \in Nat /\ rem <= w.total /\ w.rem <= w.total
    BY WindowFields
  <1> QED
    BY <1>1 DEF SoundWindows, Quota!Windows

LEMMA TotalRewritten ==
    ASSUME NEW w \in SoundWindows, NEW total \in Nat, NEW low \in 0 .. total
    PROVE  [w EXCEPT !.rem = low, !.total = total] \in SoundWindows
  <1>1. w \in Quota!Windows /\ low \in Nat /\ low <= total
    BY WindowFields
  <1> QED
    BY <1>1 DEF SoundWindows, Quota!Windows

LEMMA NormalizedSound ==
    ASSUME NEW pool, NEW mode \in Modes, NEW w \in SoundWindows
    PROVE  Quota!Normalized(pool, mode, w) \in SoundWindows
  <1>1. PICK total \in Nat : total = FastLimit["basic"]
    BY SharedAssumption
  <1>2. PICK low \in 0 .. total : low = Quota!Clamp(w.rem, 0, total)
    <2>1. w.rem \in Int
      BY WindowFields
    <2> QED
      BY <2>1, ClampBound
  <1>4. [w EXCEPT !.rem = low, !.total = total] \in SoundWindows
    BY TotalRewritten
  <1> QED
    BY <1>1, <1>2, <1>4 DEF Quota!Normalized

LEMMA FallbackSound ==
    ASSUME NEW pool \in Pools, NEW mode \in Modes, NEW w \in SoundWindows \cup {None}
    PROVE  Quota!FallbackWindow(pool, mode, w) \in SoundWindows \cup {None}
  <1>0. Span \in {NoReset} \cup 0 .. Span
    BY SharedAssumption
  <1>1. ASSUME w \in SoundWindows
        PROVE  [w EXCEPT !.rem = Quota!Clamp(@ - 1, 0, w.total), !.source = "estimated"] \in SoundWindows
    <2>1. w.rem - 1 \in Int /\ w.total \in Nat
      BY <1>1, WindowFields
    <2>2. Quota!Clamp(w.rem - 1, 0, w.total) \in 0 .. w.total
      BY <2>1, ClampBound
    <2> QED
      BY <1>0, <1>1, <2>2, WindowRewritten
  <1>2. ASSUME NEW d \in SoundWindows PROVE [d EXCEPT !.left = Span] \in SoundWindows
    <2>1. 0 \in 0 .. d.total
      BY <1>2, WindowFields
    <2> QED
      BY <1>0, <1>2, <2>1, WindowRewritten
  <1> QED
    BY <1>1, <1>2, DefaultSound DEF Quota!FallbackWindow

LEMMA LimitedSound ==
    ASSUME NEW w \in SoundWindows
    PROVE  Quota!RateLimitedWindow(w) \in SoundWindows
  <1>1. (IF w.left \notin {NoReset, 0} THEN w.left ELSE Span) \in {NoReset} \cup 0 .. Span
    BY WindowFields, SharedAssumption
  <1> QED
    BY <1>1, WindowFields, WindowMade DEF Quota!RateLimitedWindow

LEMMA LocalSound ==
    ASSUME NEW pool \in Pools, NEW mode \in Modes, NEW w \in SoundWindows
    PROVE  Quota!LocalUseWindow(pool, mode, w) \in SoundWindows
  <1> DEFINE default == Quota!DefaultWindow(pool, mode)
             rem == Quota!Clamp(w.rem - 1, 0, w.total)
             due == w.left = NoReset /\ (mode = "console" => rem <= ConsoleMark)
  <1>0. Span \in {NoReset} \cup 0 .. Span
    BY SharedAssumption
  <1>1. rem \in 0 .. w.total
    <2>1. w.rem - 1 \in Int /\ w.total \in Nat
      BY WindowFields
    <2> QED
      BY <2>1, ClampBound
  <1>2. CASE Quota!Expired(w) /\ default # None
    <2>1. PICK d \in SoundWindows : d = default
      BY <1>2, DefaultSound
    <2>2. d.total - 1 \in Int /\ d.total \in Nat
      BY <2>1, WindowFields
    <2>3. PICK n \in 0 .. d.total : n = Quota!Clamp(d.total - 1, 0, d.total)
      BY <2>2, ClampBound
    <2>4. Quota!LocalUseWindow(pool, mode, w) = [d EXCEPT !.rem = n, !.left = Span]
      BY <1>2, <2>1, <2>3 DEF Quota!LocalUseWindow
    <2>5. [d EXCEPT !.rem = n, !.left = Span] \in SoundWindows
      BY <1>0, <2>1, <2>3, WindowRewritten
    <2> QED
      BY <2>4, <2>5
  <1>3. CASE ~(Quota!Expired(w) /\ default # None)
    <2>1. Quota!LocalUseWindow(pool, mode, w)
             = Quota!Window(rem, w.total, IF due THEN Span ELSE w.left, "estimated")
      BY <1>3 DEF Quota!LocalUseWindow
    <2>2. (IF due THEN Span ELSE w.left) \in {NoReset} \cup 0 .. Span
      BY WindowFields, SharedAssumption
    <2> HIDE DEF rem, due
    <2> QED
      BY <1>1, <2>1, <2>2, WindowFields, WindowMade
  <1> QED
    BY <1>2, <1>3

LEMMA AgedSound ==
    ASSUME NEW w \in SoundWindows
    PROVE  Quota!Aged(w) \in SoundWindows
  <1>1. CASE w.left # NoReset
    <2>1. w.left - 1 \in Int
      BY <1>1, WindowFields, SharedAssumption
    <2>2. Quota!Clamp(w.left - 1, 0, Span) \in {NoReset} \cup 0 .. Span
      BY <2>1, ClampBound, SharedAssumption
    <2>3. 0 \in 0 .. w.total
      BY WindowFields
    <2>4. [w EXCEPT !.left = Quota!Clamp(@ - 1, 0, Span)] \in SoundWindows
      BY <2>2, <2>3, WindowRewritten
    <2> QED
      BY <2>4 DEF Quota!Aged
  <1> QED
    BY <1>1 DEF Quota!Aged

LEMMA AnswersSound ==
    /\ Quota!FetchedFast \subseteq SoundWindows \cup {None}
    /\ Quota!FetchedConsole \subseteq SoundWindows \cup {None}
  BY SharedAssumption, WindowMade DEF Quota!FetchedFast, Quota!FetchedConsole, Quota!RealWindow

(* Rows and the quotas in them.                                              *)
Quotas == [fast : SoundWindows, console : SoundWindows \cup {None}]

LEMMA RowFields ==
    ASSUME NEW r \in SoundRows
    PROVE  /\ r # None /\ r.pool \in Pools /\ r.deleted \in BOOLEAN /\ r.use \in Nat
           /\ r.quota \in Quotas /\ DOMAIN r.quota = Modes
           /\ r.quota.fast \in SoundWindows
           /\ r.quota.console \in SoundWindows \cup {None}
           /\ \A mode \in Modes : r.quota[mode] \in SoundWindows \cup {None}
           /\ r \in Quota!Rows
  <1>1. SoundWindows \subseteq Quota!Windows /\ SoundWindows \subseteq Quota!Windows
    BY DEF SoundWindows, SoundWindows
  <1>2. r \in Quota!Rows
    BY <1>1 DEF SoundRows, Quota!Rows
  <1>3. r.quota \in Quotas /\ DOMAIN r.quota = Modes
    BY DEF SoundRows, Quotas, Modes
  <1>4. r.quota.fast \in SoundWindows /\ r.quota.console \in SoundWindows \cup {None}
    BY DEF SoundRows
  <1> QED
    BY <1>2, <1>3, <1>4, SharedAssumption DEF SoundRows, Pools, Modes

LEMMA PatchedSound ==
    ASSUME NEW quota \in Quotas, NEW patch,
           patch["fast"] \in SoundWindows \cup {None}, patch["console"] \in SoundWindows \cup {None}
    PROVE  Quota!Patched(quota, patch) \in Quotas
  BY DEF Quota!Patched, Quotas

LEMMA AgedRowSound ==
    ASSUME NEW r \in SoundRows \cup {None}
    PROVE  /\ Quota!AgedRow(r) \in SoundRows \cup {None}
           /\ r # None => Quota!AgedRow(r) \in SoundRows /\ Quota!AgedRow(r).use = r.use
                          /\ Quota!AgedRow(r).deleted = r.deleted
  <1>1. CASE r = None
    BY <1>1 DEF Quota!AgedRow
  <1>2. CASE r \in SoundRows
    <2>1. Quota!Aged(r.quota.fast) \in SoundWindows
      BY <1>2, RowFields, AgedSound DEF Modes
    <2>2. Quota!Aged(r.quota.console) \in SoundWindows \cup {None}
      <3>1. CASE r.quota.console = None
        BY <3>1 DEF Quota!Aged
      <3>2. CASE r.quota.console \in SoundWindows
        BY <3>2, AgedSound DEF Modes
      <3> QED
        BY <1>2, <3>1, <3>2, RowFields
    <2>3. PICK q : q = [mode \in {"fast", "console"} |-> Quota!Aged(r.quota[mode])]
      OBVIOUS
    <2>4. q \in Quotas
      BY <2>1, <2>2, <2>3 DEF Quotas
    <2>5. Quota!AgedRow(r) = [r EXCEPT !.quota = q]
      BY <1>2, <2>3, RowFields DEF Quota!AgedRow
    <2> QED
      BY <1>2, <2>4, <2>5, RowFields DEF SoundRows, Quotas
  <1> QED
    BY <1>1, <1>2

(* A row whose parts are rewritten.                                          *)
LEMMA RowRewritten ==
    ASSUME NEW r \in SoundRows, NEW quota \in Quotas, NEW pool \in Pools, NEW use \in Nat
    PROVE  /\ [r EXCEPT !.pool = pool, !.quota = quota, !.use = use] \in SoundRows
           /\ [r EXCEPT !.quota = quota] \in SoundRows
  BY DEF SoundRows, Quotas, Pools

(* One call moves, the row, the snapshot of the reset and the flag with it.  *)
CallSound(w) ==
    /\ w \in [kind : Quota!CallKinds, row : SoundRows \cup {None}, got : Quota!Answers \cup {None}]
    /\ w.kind # "idle" => w.row \in SoundRows
    /\ w.kind = "use_fast" /\ w.got # None => w.got.fast # None

LEMMA CallFields ==
    ASSUME QuotaInv, NEW c \in Call
    PROVE  /\ CallSound(calls[c])
           /\ calls[c].kind # "idle" => calls[c].row \in SoundRows
           /\ calls[c].got # None => calls[c].got \in Quota!Answers
  BY DEF QuotaInv, CallSound

LEMMA CallMoves ==
    ASSUME QuotaInv, NEW c \in Call, NEW w, CallSound(w), calls' = [calls EXCEPT ![c] = w],
           row' \in SoundRows, resetting' = resetting, used' \in Nat, again' \in Nat, row'.use = used' + again',
           started' \in 0 .. MaxCalls,
           \/ onDemand' = None
           \/ onDemand' = onDemand /\ (onDemand = c => w.kind = "scheduled")
           \/ onDemand' = c /\ w.kind = "scheduled"
    PROVE  QuotaInv'
  <1>1. calls' \in [Call -> [kind : Quota!CallKinds, row : SoundRows \cup {None}, got : Quota!Answers \cup {None}]]
    BY DEF QuotaInv, CallSound
  <1>2. \A d \in Call : calls'[d] = IF d = c THEN w ELSE calls[d]
    BY DEF QuotaInv
  <1>3. \A d \in Call :
           /\ calls'[d].kind # "idle" => calls'[d].row \in SoundRows
           /\ calls'[d].kind = "use_fast" /\ calls'[d].got # None => calls'[d].got.fast # None
    BY <1>2 DEF QuotaInv, CallSound
  <1>4. onDemand' \in Call \cup {None}
    BY DEF QuotaInv
  <1>5. onDemand' # None => calls'[onDemand'].kind = "scheduled"
    BY <1>2, <1>4 DEF QuotaInv, Quota!OnDemandReleased
  <1> QED
    BY <1>1, <1>3, <1>4, <1>5 DEF QuotaInv, Quota!UsesAreKept, Quota!OnDemandReleased

LEMMA QuotaFacts ==
    ASSUME QuotaInv
    PROVE  /\ row \in SoundRows /\ used \in Nat /\ again \in Nat /\ row.use = used + again /\ started \in 0 .. MaxCalls
           /\ MaxCalls \in Nat
  BY SharedAssumption DEF QuotaInv, Quota!UsesAreKept

(* A call reads the row.                                                     *)
LEMMA StartKeeps ==
    ASSUME QuotaInv, NEW c \in Call, NEW k \in Quota!CallKinds, Quota!Start(c, k),
           UNCHANGED <<row, resetting, used, again>>,
           onDemand' = onDemand \/ (onDemand' = c /\ k = "scheduled")
    PROVE  QuotaInv'
  <1> DEFINE w == [kind |-> k, row |-> row, got |-> None]
  <1>1. CallSound(w)
    BY QuotaFacts DEF CallSound
  <1>2. calls[c].kind = "idle" /\ started < MaxCalls /\ started' = started + 1
        /\ calls' = [calls EXCEPT ![c] = w]
    BY DEF Quota!Start
  <1>3. onDemand # c
    BY <1>2, SharedAssumption DEF QuotaInv, Quota!OnDemandReleased
  <1>4. row' \in SoundRows /\ used' \in Nat /\ again' \in Nat /\ row'.use = used' + again' /\ started' \in 0 .. MaxCalls
    BY <1>2, QuotaFacts
  <1>5. w.kind = k
    OBVIOUS
  <1> HIDE DEF w
  <1> QED
    BY <1>1, <1>2, <1>3, <1>4, <1>5, CallMoves

LEMMA ReadsKeep ==
    ASSUME QuotaInv, NEW c \in Call,
           \/ \E k \in {"scheduled", "import", "tokens"} : Quota!RefreshRead(c, k)
           \/ Quota!RefreshOnDemand(c) \/ Quota!EditRead(c)
           \/ \E mode \in Modes : Quota!UseRead(c, mode) \/ Quota!FailureRead(c, mode)
    PROVE  QuotaInv'
  <1>0. {"scheduled", "import", "tokens", "use_fast", "use_console", "limited_fast", "limited_console", "edit"}
           \subseteq Quota!CallKinds
    BY DEF Quota!CallKinds
  <1>1. ASSUME NEW k \in {"scheduled", "import", "tokens"}, Quota!RefreshRead(c, k) PROVE QuotaInv'
    BY <1>0, <1>1, StartKeeps DEF Quota!RefreshRead
  <1>2. CASE Quota!RefreshOnDemand(c)
    BY <1>0, <1>2, StartKeeps DEF Quota!RefreshOnDemand
  <1>3. CASE Quota!EditRead(c)
    BY <1>0, <1>3, StartKeeps DEF Quota!EditRead
  <1>4. ASSUME NEW mode \in Modes, Quota!UseRead(c, mode) PROVE QuotaInv'
    BY <1>0, <1>4, StartKeeps DEF Quota!UseRead, Modes
  <1>5. ASSUME NEW mode \in Modes, Quota!FailureRead(c, mode) PROVE QuotaInv'
    BY <1>0, <1>5, StartKeeps DEF Quota!FailureRead, Modes
  <1> QED
    BY <1>1, <1>2, <1>3, <1>4, <1>5

(* The usage is answered.                                                    *)
LEMMA FetchKeeps ==
    ASSUME QuotaInv, NEW c \in Call, NEW answer \in Quota!Answers,
           calls[c].kind = "use_fast" => answer.fast # None,
           calls' = [calls EXCEPT ![c].got = answer],
           UNCHANGED <<row, resetting, onDemand, used, again, started>>
    PROVE  QuotaInv'
  <1>1. PICK w : w = [calls[c] EXCEPT !.got = answer]
    OBVIOUS
  <1>2. w.kind = calls[c].kind /\ CallSound(w)
    BY <1>1, CallFields DEF CallSound
  <1>3. calls' = [calls EXCEPT ![c] = w]
    BY <1>1
  <1>4. onDemand = c => w.kind = "scheduled"
    BY <1>2, SharedAssumption DEF QuotaInv, Quota!OnDemandReleased
  <1> QED
    BY <1>2, <1>3, <1>4, QuotaFacts, CallMoves

LEMMA FetchesKeep ==
    ASSUME QuotaInv, NEW c \in Call,
           \/ \E fast \in Quota!FetchedFast, console \in Quota!FetchedConsole,
                 pool \in {None, "basic", "super"} : Quota!FetchAll(c, fast, console, pool)
           \/ \E fast \in Quota!FetchedFast : Quota!FetchMode(c, fast)
    PROVE  QuotaInv'
  <1>1. ASSUME NEW fast \in Quota!FetchedFast, NEW console \in Quota!FetchedConsole,
               NEW pool \in {None, "basic", "super"}, Quota!FetchAll(c, fast, console, pool)
        PROVE  QuotaInv'
    <2>1. [fast |-> fast, console |-> console, pool |-> pool] \in Quota!Answers
      BY <1>1 DEF Quota!Answers
    <2> QED
      BY <1>1, <2>1, FetchKeeps DEF Quota!FetchAll
  <1>2. ASSUME NEW fast \in Quota!FetchedFast, Quota!FetchMode(c, fast) PROVE QuotaInv'
    <2>1. PICK answer \in Quota!Answers : answer = [fast |-> fast, console |-> None, pool |-> None]
      BY <1>2 DEF Quota!Answers, Quota!FetchedConsole
    <2>2. answer.fast # None
      BY <1>2, <2>1 DEF Quota!FetchMode
    <2> QED
      BY <1>2, <2>1, <2>2, FetchKeeps DEF Quota!FetchMode
  <1> QED
    BY <1>1, <1>2

(* A call ends, and has written the row.                                     *)
LEMMA EndKeeps ==
    ASSUME QuotaInv, NEW c \in Call, calls[c].kind # "idle", Quota!End(c),
           row' \in SoundRows, used' \in Nat, again' \in Nat, row'.use = used' + again',
           UNCHANGED <<resetting, started>>,
           \/ onDemand' = IF onDemand = c THEN None ELSE onDemand
           \/ onDemand' = onDemand /\ calls[c].kind # "scheduled"
    PROVE  QuotaInv'
  <1>1. CallSound(Quota!NoCall)
    BY DEF CallSound, Quota!NoCall, Quota!CallKinds
  <1>2. calls' = [calls EXCEPT ![c] = Quota!NoCall]
    BY DEF Quota!End
  <1>3. onDemand' = None \/ (onDemand' = onDemand /\ onDemand # c)
    BY SharedAssumption DEF QuotaInv, Quota!OnDemandReleased
  <1> QED
    BY <1>1, <1>2, <1>3, QuotaFacts, CallMoves

(* patchLocalAccount: sound windows leave a sound row, and no use is lost.   *)
LEMMA PatchKeeps ==
    ASSUME QuotaInv, NEW pool \in Pools \cup {None}, NEW patch,
           \A mode \in Modes : patch[mode] \in SoundWindows \cup {None},
           NEW uses \in Nat, Quota!PatchAccount(pool, patch, uses)
    PROVE  row' \in SoundRows /\ row'.use = row.use + uses /\ row'.deleted = row.deleted
  <1>1. row \in SoundRows /\ row.quota \in Quotas /\ row.use \in Nat /\ row.pool \in Pools
    BY QuotaFacts, RowFields
  <1>2. PICK quota : quota = Quota!Patched(row.quota, patch)
    OBVIOUS
  <1>3. quota \in Quotas
    <2>1. patch["fast"] \in SoundWindows \cup {None} /\ patch["console"] \in SoundWindows \cup {None}
      BY DEF Modes
    <2> QED
      BY <1>1, <1>2, <2>1, PatchedSound
  <1>4. PICK kept \in Pools : kept = IF pool = None THEN row.pool ELSE pool
    BY <1>1
  <1>5. PICK use \in Nat : use = row.use + uses
    BY <1>1
  <1>7. row' = [row EXCEPT !.pool = kept, !.quota = quota, !.use = use]
    BY <1>2, <1>4, <1>5 DEF Quota!PatchAccount
  <1>8. row' \in SoundRows /\ row'.use = use /\ row'.deleted = row.deleted
    BY <1>1, <1>3, <1>7 DEF SoundRows, Quotas, Pools
  <1> QED
    BY <1>5, <1>8

(* A patch of one window.                                                    *)
LEMMA OnlySound ==
    ASSUME NEW mode \in Modes, NEW window \in SoundWindows \cup {None}
    PROVE  \A m \in Modes : Quota!Only(mode, window)[m] \in SoundWindows \cup {None}
  BY DEF Quota!Only, Modes

(* applyFetchedWindows, applyFallback                                        *)
LEMMA RefreshPatches ==
    ASSUME QuotaInv, NEW c \in Call, NEW others, Quota!RefreshApply(c, others)
    PROVE  row' \in SoundRows /\ row'.use = row.use /\ row'.deleted = row.deleted
  <1>0. calls[c].kind \in {"scheduled", "import", "tokens"} /\ calls[c].got # None
    BY DEF Quota!RefreshApply
  <1>1. PICK read \in SoundRows : read = calls[c].row
    BY <1>0, CallFields
  <1>2. PICK got \in Quota!Answers : got = calls[c].got
    BY <1>0, CallFields
  <1>3. PICK pool : pool = IF got.pool = None THEN read.pool ELSE got.pool
    OBVIOUS
  <1>4. PICK patch : patch = [mode \in {"fast", "console"} |->
           IF got[mode] # None THEN Quota!Normalized(pool, mode, got[mode])
           ELSE IF calls[c].kind # "tokens" THEN Quota!FallbackWindow(pool, mode, read.quota[mode]) ELSE None]
    OBVIOUS
  <1>5. pool \in Pools
    BY <1>1, <1>2, <1>3, RowFields DEF Pools, Quota!Answers
  <1>6. PICK named \in Pools \cup {None} :
           named = IF (others \/ patch["fast"] # None \/ patch["console"] # None) /\ got.pool # read.pool
                   THEN got.pool ELSE None
    BY <1>2 DEF Pools, Quota!Answers
  <1>7. Quota!PatchAccount(named, patch, 0)
    BY <1>1, <1>2, <1>3, <1>4, <1>6 DEF Quota!RefreshApply
  <1>8. \A mode \in Modes : got[mode] \in SoundWindows \cup {None}
    BY <1>2, AnswersSound DEF Quota!Answers, Modes
  <1>9. \A mode \in Modes : patch[mode] \in SoundWindows \cup {None}
    <2> SUFFICES ASSUME NEW mode \in Modes PROVE patch[mode] \in SoundWindows \cup {None}
      OBVIOUS
    <2>1. patch[mode] = IF got[mode] # None THEN Quota!Normalized(pool, mode, got[mode])
              ELSE IF calls[c].kind # "tokens" THEN Quota!FallbackWindow(pool, mode, read.quota[mode]) ELSE None
      BY <1>4 DEF Modes
    <2>2. read.quota[mode] \in SoundWindows \cup {None}
      BY <1>1, RowFields
    <2> QED
      BY <1>5, <1>8, <2>1, <2>2, NormalizedSound, FallbackSound
  <1>10. row.use \in Nat
    BY QuotaFacts, RowFields
  <1> QED
    BY <1>7, <1>9, <1>10, PatchKeeps

LEMMA RefreshKeeps == ASSUME QuotaInv, NEW c \in Call, NEW others, Quota!RefreshApply(c, others) PROVE QuotaInv'
  <1>1. /\ Quota!End(c) /\ UNCHANGED <<resetting, used, again, started>>
        /\ onDemand' = IF onDemand = c THEN None ELSE onDemand
        /\ calls[c].kind \in {"scheduled", "import", "tokens"}
    BY DEF Quota!RefreshApply
  <1> QED
    BY <1>1, RefreshPatches, QuotaFacts, EndKeeps

(* applySingleMode                                                           *)
LEMMA UsePatches ==
    ASSUME QuotaInv, NEW c \in Call, Quota!UseApply(c)
    PROVE  row' \in SoundRows /\ row'.use = row.use + 1 /\ row'.deleted = row.deleted
  <1>0. calls[c].kind \in {"use_fast", "use_console"}
    BY DEF Quota!UseApply
  <1>1. PICK read \in SoundRows : read = calls[c].row
    BY <1>0, CallFields
  <1>2. PICK mode \in Modes : mode = IF calls[c].kind = "use_fast" THEN "fast" ELSE "console"
    BY DEF Modes
  <1>3. PICK local : local = IF read.quota[mode] = None THEN None
                             ELSE Quota!LocalUseWindow(read.pool, mode, read.quota[mode])
    OBVIOUS
  <1>4. PICK window : window = IF calls[c].got = None THEN local
                               ELSE Quota!Normalized(read.pool, mode, calls[c].got[mode])
    OBVIOUS
  <1>6. PICK patch : patch = Quota!Only(mode, window)
    OBVIOUS
  <1>7. Quota!PatchAccount(None, patch, 1)
    BY <1>1, <1>2, <1>3, <1>4, <1>6 DEF Quota!UseApply
  <1>8. local \in SoundWindows \cup {None}
    BY <1>1, <1>3, RowFields, LocalSound
  <1>9. window \in SoundWindows \cup {None}
    <2>1. CASE calls[c].got = None
      BY <1>4, <1>8, <2>1
    <2>2. CASE calls[c].got # None
      <3>1. PICK got \in Quota!Answers : got = calls[c].got
        BY <2>2, CallFields
      <3>2. CASE mode = "fast"
        <4>1. got["fast"] # None
          BY <1>0, <1>2, <2>2, <3>1, <3>2 DEF QuotaInv
        <4>2. got["fast"] \in SoundWindows
          BY <3>1, <4>1, AnswersSound DEF Quota!Answers
        <4> QED
          BY <1>4, <2>2, <3>1, <3>2, <4>2, NormalizedSound
      <3>3. CASE mode = "console"
        <4>1. window = got["console"]
          BY <1>4, <2>2, <3>1, <3>3 DEF Quota!Normalized
        <4> QED
          BY <3>1, <3>3, <4>1, AnswersSound DEF Quota!Answers
      <3> QED
        BY <1>2, <3>2, <3>3 DEF Modes
    <2> QED
      BY <2>1, <2>2
  <1>10. \A m \in Modes : patch[m] \in SoundWindows \cup {None}
    BY <1>2, <1>6, <1>9, OnlySound
  <1> QED
    BY <1>7, <1>10, PatchKeeps

LEMMA UseKeeps == ASSUME QuotaInv, NEW c \in Call, Quota!UseApply(c) PROVE QuotaInv'
  <1>1. /\ Quota!End(c) /\ used' = used + 1 /\ UNCHANGED <<resetting, onDemand, again, started>>
        /\ calls[c].kind \in {"use_fast", "use_console"}
    BY DEF Quota!UseApply
  <1>2. used' \in Nat /\ again' \in Nat /\ row'.use = used' + again'
    BY <1>1, UsePatches, QuotaFacts, RowFields
  <1> QED
    BY <1>1, <1>2, UsePatches, EndKeeps

(* patchRateLimitedFailure                                                   *)
LEMMA FailurePatches ==
    ASSUME QuotaInv, NEW c \in Call, Quota!FailureApply(c)
    PROVE  row' \in SoundRows /\ row'.use = row.use /\ row'.deleted = row.deleted
  <1>0. calls[c].kind \in {"limited_fast", "limited_console"}
    BY DEF Quota!FailureApply
  <1>1. PICK read \in SoundRows : read = calls[c].row
    BY <1>0, CallFields
  <1>2. PICK mode \in Modes : mode = IF calls[c].kind = "limited_fast" THEN "fast" ELSE "console"
    BY DEF Modes
  <1>3. PICK window : window = IF read.quota[mode] = None THEN None ELSE Quota!RateLimitedWindow(read.quota[mode])
    OBVIOUS
  <1>4. PICK patch : patch = Quota!Only(mode, window)
    OBVIOUS
  <1>5. Quota!PatchAccount(None, patch, 0)
    BY <1>1, <1>2, <1>3, <1>4 DEF Quota!FailureApply
  <1>6. window \in SoundWindows \cup {None}
    BY <1>1, <1>2, <1>3, RowFields, LimitedSound
  <1>7. \A m \in Modes : patch[m] \in SoundWindows \cup {None}
    BY <1>2, <1>4, <1>6, OnlySound
  <1>8. row.use \in Nat
    BY QuotaFacts, RowFields
  <1> QED
    BY <1>5, <1>7, <1>8, PatchKeeps

LEMMA FailureKeeps == ASSUME QuotaInv, NEW c \in Call, Quota!FailureApply(c) PROVE QuotaInv'
  <1>1. /\ Quota!End(c) /\ UNCHANGED <<resetting, onDemand, used, again, started>>
        /\ calls[c].kind \in {"limited_fast", "limited_console"}
    BY DEF Quota!FailureApply
  <1> QED
    BY <1>1, FailurePatches, QuotaFacts, EndKeeps

(* adminTokensEdit                                                           *)
LEMMA EditPatches ==
    ASSUME QuotaInv, NEW c \in Call, NEW pool \in Pools, Quota!EditApply(c, pool)
    PROVE  /\ row' \in SoundRows /\ row'.deleted = row.deleted /\ again' \in Nat
           /\ row.use \in Nat /\ again' - again = row'.use - row.use
  <1>0. calls[c].kind = "edit"
    BY DEF Quota!EditApply
  <1>1. PICK read \in SoundRows : read = calls[c].row
    BY <1>0, CallFields
  <1>2. PICK console : console = IF read.quota.console = None THEN Quota!DefaultWindow(pool, "console")
                                 ELSE read.quota.console
    OBVIOUS
  <1>3. PICK patch : patch = [fast |-> Quota!Normalized(pool, "fast", read.quota.fast), console |-> console]
    OBVIOUS
  <1>4. Quota!PatchAccount(pool, patch, read.use)
    BY <1>1, <1>2, <1>3 DEF Quota!EditApply
  <1>5. patch["fast"] \in SoundWindows
    BY <1>1, <1>3, RowFields, NormalizedSound DEF Modes
  <1>6. patch["console"] \in SoundWindows \cup {None}
    <2>1. read.quota.console \in SoundWindows \cup {None}
      BY <1>1, RowFields
    <2>2. Quota!DefaultWindow(pool, "console") \in SoundWindows \cup {None}
      BY DefaultSound DEF Modes
    <2> QED
      BY <1>2, <1>3, <2>1, <2>2
  <1>7. \A m \in Modes : patch[m] \in SoundWindows \cup {None}
    BY <1>5, <1>6 DEF Modes
  <1>8. read.use \in Nat /\ row.use \in Nat
    BY <1>1, QuotaFacts, RowFields
  <1>9. row' \in SoundRows /\ row'.use = row.use + read.use /\ row'.deleted = row.deleted
    BY <1>4, <1>7, <1>8, PatchKeeps
  <1>10. again' = again + read.use /\ again \in Nat
    BY <1>1 DEF Quota!EditApply, QuotaInv
  <1> QED
    BY <1>8, <1>9, <1>10

LEMMA EditKeeps ==
    ASSUME QuotaInv, NEW c \in Call, NEW pool \in Pools, Quota!EditApply(c, pool)
    PROVE  QuotaInv'
  <1>1. calls[c].kind = "edit" /\ Quota!End(c) /\ UNCHANGED <<resetting, onDemand, used, started>>
    BY DEF Quota!EditApply
  <1>2. row'.use = used' + again'
    <2>1. row'.use \in Nat /\ row.use \in Nat /\ used \in Nat /\ again \in Nat /\ row.use = used + again
      BY EditPatches, QuotaFacts, RowFields DEF SoundRows
    <2> QED
      BY <1>1, <2>1, EditPatches
  <1> QED
    BY <1>1, <1>2, EditPatches, QuotaFacts, EndKeeps

(* ResetExpiredSoundWindows                                                *)
LEMMA ResetPatches ==
    ASSUME QuotaInv, Quota!ResetApply
    PROVE  row' \in SoundRows /\ row'.use = row.use /\ row'.deleted = row.deleted
  <1>1. PICK patch : patch = Quota!Only("console", Quota!DefaultWindow(resetting.pool, "console"))
    OBVIOUS
  <1>2. \A m \in Modes : patch[m] \in SoundWindows \cup {None}
    <2>1. "console" \in Modes
      BY DEF Modes
    <2>2. resetting.pool \in Pools
      BY RowFields DEF Quota!ResetApply, QuotaInv
    <2>3. Quota!DefaultWindow(resetting.pool, "console") \in SoundWindows \cup {None}
      BY <2>1, <2>2, DefaultSound
    <2> QED
      BY <1>1, <2>1, <2>3, OnlySound
  <1>3. Quota!PatchAccount(None, patch, 0)
    BY <1>1 DEF Quota!ResetApply
  <1>4. row.use \in Nat
    BY QuotaFacts, RowFields
  <1> QED
    BY <1>2, <1>3, <1>4, PatchKeeps

(* CallFails; the operator's deletion and import; the reset of the console   *)
(* window; time.                                                             *)
LEMMA OthersKeep ==
    ASSUME QuotaInv, Quota!Delete \/ Quota!Import \/ Quota!ResetRead \/ Quota!ResetApply \/ Quota!Tick
    PROVE  QuotaInv'
  <1>0. row \in SoundRows /\ used \in Nat /\ again \in Nat /\ row.use = used + again /\ started \in 0 .. MaxCalls /\ MaxCalls \in Nat
    BY QuotaFacts
  <1>1. CASE Quota!Delete
    <2>1. /\ row' = [row EXCEPT !.deleted = TRUE] /\ started < MaxCalls /\ started' = started + 1
          /\ UNCHANGED <<calls, resetting, onDemand, used, again>>
      BY <1>1 DEF Quota!Delete
    <2>2. row' \in SoundRows /\ row'.use = row.use
      BY <1>0, <2>1 DEF SoundRows
    <2> QED
      BY <1>0, <2>1, <2>2 DEF QuotaInv, Quota!UsesAreKept, Quota!OnDemandReleased
  <1>2. CASE Quota!Import
    <2>1. PICK keeps \in BOOLEAN :
             /\ row' = [row EXCEPT !.deleted = FALSE, !.pool = "basic",
                           !.quota = [mode \in {"fast", "console"} |-> Quota!DefaultWindow("basic", mode)],
                           !.use = IF keeps THEN @ ELSE 0]
             /\ used' = IF keeps THEN used ELSE 0
             /\ again' = IF keeps THEN again ELSE 0
      BY <1>2 DEF Quota!Import
    <2>2. PICK quota : quota = [mode \in {"fast", "console"} |-> Quota!DefaultWindow("basic", mode)]
      OBVIOUS
    <2>3. quota \in Quotas
      BY <2>2, DefaultSound DEF Quotas, Modes, Pools
    <2>4. row' \in SoundRows /\ row'.use = IF keeps THEN row.use ELSE 0
      BY <1>0, <2>1, <2>2, <2>3 DEF SoundRows, Quotas
    <2>5. UNCHANGED <<calls, resetting, onDemand, started>>
      BY <1>2 DEF Quota!Import
    <2> QED
      BY <1>0, <2>1, <2>4, <2>5 DEF QuotaInv, Quota!UsesAreKept, Quota!OnDemandReleased
  <1>3. CASE Quota!ResetRead
    BY <1>0, <1>3 DEF Quota!ResetRead, QuotaInv, Quota!UsesAreKept, Quota!OnDemandReleased
  <1>4. CASE Quota!ResetApply
    <2>3. resetting' = None /\ UNCHANGED <<calls, onDemand, used, again, started>>
      BY <1>4 DEF Quota!ResetApply
    <2>4. row' \in SoundRows /\ row'.use = row.use
      BY <1>4, ResetPatches
    <2> QED
      BY <1>0, <2>3, <2>4 DEF QuotaInv, Quota!UsesAreKept, Quota!OnDemandReleased
  <1>5. CASE Quota!Tick
    <2>1. row' = Quota!AgedRow(row) /\ UNCHANGED <<resetting, onDemand, used, again, started>>
          /\ calls' = [c \in Call |-> [calls[c] EXCEPT !.row = Quota!AgedRow(@)]]
      BY <1>5 DEF Quota!Tick
    <2>2. row' \in SoundRows /\ row'.use = row.use
      BY <1>0, <2>1, RowFields, AgedRowSound
    <2>3. ASSUME NEW c \in Call
          PROVE  /\ [calls[c] EXCEPT !.row = Quota!AgedRow(@)].kind = calls[c].kind
                 /\ CallSound([calls[c] EXCEPT !.row = Quota!AgedRow(@)])
      <3>1. CallSound(calls[c])
        BY CallFields
      <3>2. PICK aged : aged = Quota!AgedRow(calls[c].row)
        OBVIOUS
      <3>3. aged \in SoundRows \cup {None} /\ (calls[c].row \in SoundRows => aged \in SoundRows)
        BY <3>1, <3>2, RowFields, AgedRowSound DEF CallSound
      <3>4. CallSound([calls[c] EXCEPT !.row = aged]) /\ [calls[c] EXCEPT !.row = aged].kind = calls[c].kind
        BY <3>1, <3>3 DEF CallSound
      <3> QED
        BY <3>2, <3>4
    <2>4. \A c \in Call : CallSound(calls'[c]) /\ calls'[c].kind = calls[c].kind
      BY <2>1, <2>3
    <2>5. calls' \in [Call -> [kind : Quota!CallKinds, row : SoundRows \cup {None}, got : Quota!Answers \cup {None}]]
      BY <2>1, <2>3 DEF CallSound
    <2> QED
      BY <1>0, <2>1, <2>2, <2>4, <2>5 DEF QuotaInv, CallSound, Quota!UsesAreKept, Quota!OnDemandReleased
  <1> QED
    BY <1>1, <1>2, <1>3, <1>4, <1>5

LEMMA FailsKeeps == ASSUME QuotaInv, NEW c \in Call, Quota!CallFails(c) PROVE QuotaInv'
  BY QuotaFacts, EndKeeps DEF Quota!CallFails

LEMMA QuotaInit == Quota!Init => QuotaInv
  <1> SUFFICES ASSUME Quota!Init PROVE QuotaInv
    OBVIOUS
  <1>1. PICK console \in {Quota!Window(ConsoleLimit, ConsoleLimit, NoReset, "default"),
                          Quota!Window(0, ConsoleLimit, NoReset, "estimated")} :
           row = [pool |-> "basic", deleted |-> FALSE, use |-> 0,
                  quota |-> [fast |-> Quota!DefaultWindow("basic", "fast"), console |-> console]]
    BY DEF Quota!Init
  <1>2. console \in SoundWindows
    BY SharedAssumption, WindowMade
  <1>3. Quota!DefaultWindow("basic", "fast") \in SoundWindows
    BY DefaultSound DEF Modes, Pools
  <1>4. row \in SoundRows /\ row.use = 0
    BY <1>1, <1>2, <1>3 DEF SoundRows
  <1>5. calls = [c \in Call |-> Quota!NoCall] /\ resetting = None /\ onDemand = None
        /\ used = 0 /\ again = 0 /\ started = 0
    BY DEF Quota!Init
  <1> QED
    BY <1>4, <1>5, SharedAssumption DEF QuotaInv, Quota!NoCall, Quota!CallKinds, Quota!UsesAreKept,
       Quota!OnDemandReleased

LEMMA QuotaStep == ASSUME QuotaInv, [Quota!Next]_quotaVars PROVE QuotaInv'
  <1>1. CASE UNCHANGED quotaVars
    BY <1>1 DEF quotaVars, QuotaInv, Quota!UsesAreKept, Quota!OnDemandReleased
  <1>2. ASSUME NEW c \in Call, Quota!CallFails(c) \/ (\E others \in BOOLEAN : Quota!RefreshApply(c, others)) \/ Quota!UseApply(c) \/ Quota!FailureApply(c)
        PROVE  QuotaInv'
    BY <1>2, FailsKeeps, RefreshKeeps, UseKeeps, FailureKeeps
  <1>3. ASSUME NEW c \in Call, \E pool \in {"basic", "super"} : Quota!EditApply(c, pool) PROVE QuotaInv'
    BY <1>3, EditKeeps DEF Pools
  <1> QED
    BY <1>1, <1>2, <1>3, ReadsKeep, FetchesKeep, OthersKeep DEF Quota!Next, Modes

LEMMA QuotaSound == QuotaInv => Quota!CountsAreKept
  <1> SUFFICES ASSUME QuotaInv PROVE Quota!CountsAreKept
    OBVIOUS
  <1>1. SoundRows \subseteq Quota!Rows
    BY RowFields
  <1>2. Quota!TypeOK
    BY <1>1 DEF QuotaInv, Quota!TypeOK
  <1>3. Quota!WithinTotal
    <2>1. row.quota.fast \in SoundWindows /\ row.quota.console \in SoundWindows \cup {None}
      BY QuotaFacts, RowFields
    <2>2. "fast" \in Modes /\ "console" \in Modes
      BY DEF Modes
    <2> QED
      BY <2>1, <2>2, WindowFields DEF Quota!WithinTotal
  <1> QED
    BY <1>2, <1>3 DEF QuotaInv, Quota!CountsAreKept

(* Only an import brings a deleted row back: whatever a call writes, it      *)
(* leaves the mark.                                                          *)
Revived == row'.pool = "basic" /\ row'.quota = [mode \in {"fast", "console"} |-> Quota!DefaultWindow("basic", mode)]

LEMMA RevivedByImport ==
    ASSUME QuotaInv, Quota!Next, row.deleted, ~row'.deleted
    PROVE  Revived
  <1>0. row \in SoundRows
    BY QuotaFacts
  <1>1. ASSUME NEW c \in Call, \/ (\E others \in BOOLEAN : Quota!RefreshApply(c, others)) \/ Quota!UseApply(c) \/ Quota!FailureApply(c)
                               \/ \E pool \in {"basic", "super"} : Quota!EditApply(c, pool)
        PROVE  row'.deleted = row.deleted
    BY <1>1, RefreshPatches, UsePatches, FailurePatches, EditPatches DEF Pools
  <1>2. CASE Quota!Tick
    <2>1. row' = Quota!AgedRow(row)
      BY <1>2 DEF Quota!Tick
    <2> QED
      BY <1>0, <2>1, RowFields, AgedRowSound
  <1>3. CASE Quota!ResetApply
    BY <1>3, ResetPatches
  <1>4. CASE Quota!Import
    BY <1>0, <1>4 DEF Quota!Import, Revived, SoundRows
  <1>5. CASE Quota!Delete \/ Quota!ResetRead
    BY <1>5 DEF Quota!Delete, Quota!ResetRead
  <1>6. ASSUME NEW c \in Call, \/ \E k \in {"scheduled", "import", "tokens"} : Quota!RefreshRead(c, k)
                               \/ Quota!RefreshOnDemand(c) \/ Quota!EditRead(c) \/ Quota!CallFails(c)
                               \/ \E mode \in Modes : Quota!UseRead(c, mode) \/ Quota!FailureRead(c, mode)
        PROVE  row' = row
    BY <1>6 DEF Quota!RefreshRead, Quota!RefreshOnDemand, Quota!EditRead, Quota!CallFails, Quota!UseRead,
                Quota!FailureRead
  <1>7. ASSUME NEW c \in Call,
               \/ \E fast \in Quota!FetchedFast, console \in Quota!FetchedConsole,
                     pool \in {None, "basic", "super"} : Quota!FetchAll(c, fast, console, pool)
               \/ \E fast \in Quota!FetchedFast : Quota!FetchMode(c, fast)
        PROVE  row' = row
    BY <1>7 DEF Quota!FetchAll, Quota!FetchMode
  <1> QED
    BY <1>1, <1>2, <1>3, <1>4, <1>5, <1>6, <1>7 DEF Quota!Next, Modes

-----------------------------------------------------------------------------
(* The health of accounts.  Stale copies of a row may lose what was counted  *)
(* and never invent it: every copy, wherever it is held, claims no more than *)
(* what has really been seen of its account.                                 *)
MarkKinds == {"idle", "mark", "delete", "disable", "restore", "sweep", "swept"}
ExtHonest(a, ext) ==
    /\ Health!Count(ext.ic) <= icSeen[a] /\ Health!Count(ext.sso) <= ssoSeen[a]
    /\ ext.expiredAt # Absent => icSeen[a] >= IcThreshold

RowHonest(a, r) ==
    /\ r \in [status : {"active", "expired", "disabled"}, deleted : BOOLEAN, ext : Health!Ext]
    /\ ExtHonest(a, r.ext)
    /\ r.status = "expired" => icSeen[a] >= IcThreshold
    /\ r.status = "disabled" => a \in disabledBy

MarkHonest(m) ==
    /\ m \in [kind : MarkKinds, a : Account \cup {Absent}, ext : Health!Ext]
    /\ m.kind # "idle" => m.a \in Account /\ ExtHonest(m.a, m.ext)
    /\ m.kind = "mark" => Health!Upto(Health!Count(m.ext.ic) + 1, IcThreshold) <= icSeen[m.a]
    /\ m.kind = "delete" => icSeen[m.a] >= IcThreshold
    /\ m.kind \in {"sweep", "swept"} => deployment.sweep
    /\ m.kind = "swept" => m.a \in dead

WorkHonest(a, w) ==
    /\ w \in [pc : {"probe", "ok", "soft", "terminal", "delete"}, sso : 0 .. SsoMaxFailures]
    /\ w.sso <= ssoSeen[a]
    /\ w.pc \in {"soft", "terminal"} => Health!Upto(w.sso + 1, SsoMaxFailures) <= ssoSeen[a]
    /\ w.pc \in {"terminal", "delete"} => a \in dead
    /\ w.pc = "delete" => ssoSeen[a] >= SsoMaxFailures

CleanHonest(k) ==
    /\ k \in [pc : {"idle", "expired", "disabled"}, tokens : SUBSET Account, deleted : 0 .. MaxDeletes]
    /\ k.deleted + Cardinality(k.tokens) <= MaxDeletes
    /\ \A a \in k.tokens : icSeen[a] >= IcThreshold \/ (deployment.includeDisabled /\ a \in disabledBy)

Evidence ==
    /\ deployment \in Deployments /\ dead \subseteq Account /\ disabledBy \subseteq Account
    /\ icSeen \in [Account -> 0 .. IcThreshold] /\ ssoSeen \in [Account -> 0 .. SsoMaxFailures]
    /\ healthOps \in 0 .. deployment.ops

RowsHonest == health = [a \in Account |-> health[a]] /\ \A a \in Account : RowHonest(a, health[a])
MarksHonest == marks = [j \in MarkJob |-> marks[j]] /\ \A j \in MarkJob : MarkHonest(marks[j])
BatchHonest ==
    /\ DOMAIN ssoBatch \subseteq Account /\ ssoBatch = [a \in DOMAIN ssoBatch |-> ssoBatch[a]]
    /\ \A a \in DOMAIN ssoBatch : WorkHonest(a, ssoBatch[a])
PagesBound ==
    ssoPage \in 1 .. Cardinality(Account) + 1 /\ ssoNext \in {Absent} \cup 0 .. Cardinality(Account) + 1

HealthInv == Evidence /\ RowsHonest /\ MarksHonest /\ BatchHonest /\ PagesBound /\ CleanHonest(cleaning)

(* What is seen only grows, and what was honest stays so.                    *)
Grows ==
    /\ deployment' = deployment /\ dead \subseteq dead' /\ disabledBy \subseteq disabledBy'
    /\ \A a \in Account : icSeen'[a] >= icSeen[a] /\ ssoSeen'[a] >= ssoSeen[a]

LEMMA HonestStays ==
    ASSUME Evidence, Evidence', Grows
    PROVE  /\ \A a \in Account : \A r : RowHonest(a, r) => RowHonest(a, r)'
           /\ \A m : MarkHonest(m) => MarkHonest(m)'
           /\ \A a \in Account : \A w : WorkHonest(a, w) => WorkHonest(a, w)'
           /\ \A k : CleanHonest(k) => CleanHonest(k)'
  <1>0. /\ IcThreshold \in Nat /\ SsoMaxFailures \in Nat
        /\ \A a \in Account : icSeen[a] \in Nat /\ icSeen'[a] \in Nat /\ ssoSeen[a] \in Nat /\ ssoSeen'[a] \in Nat
    BY SharedAssumption DEF Evidence
  <1>1. ASSUME NEW a \in Account, NEW ext \in Health!Ext, ExtHonest(a, ext) PROVE ExtHonest(a, ext)'
    <2>1. Health!Count(ext.ic) \in Int /\ Health!Count(ext.sso) \in Int
      BY SharedAssumption DEF Health!Ext, Health!Count
    <2> QED
      BY <1>0, <1>1, <2>1 DEF ExtHonest, Grows
  <1>2. ASSUME NEW a \in Account, NEW r, RowHonest(a, r) PROVE RowHonest(a, r)'
    <2>1. r.ext \in Health!Ext
      BY <1>2 DEF RowHonest
    <2> QED
      BY <1>0, <1>1, <1>2, <2>1 DEF RowHonest, Grows
  <1>3. ASSUME NEW m, MarkHonest(m) PROVE MarkHonest(m)'
    <2>1. m.ext \in Health!Ext
      BY <1>3 DEF MarkHonest
    <2>2. Health!Upto(Health!Count(m.ext.ic) + 1, IcThreshold) \in Int
      BY <1>0, <2>1, SharedAssumption DEF Health!Ext, Health!Count, Health!Upto
    <2> QED
      BY <1>0, <1>1, <1>3, <2>1, <2>2 DEF MarkHonest, Grows
  <1>4. ASSUME NEW a \in Account, NEW w, WorkHonest(a, w) PROVE WorkHonest(a, w)'
    <2>1. w.sso \in Nat
      BY <1>4 DEF WorkHonest
    <2>2. Health!Upto(w.sso + 1, SsoMaxFailures) \in Int
      BY <1>0, <2>1 DEF Health!Upto
    <2> QED
      BY <1>0, <1>4, <2>1, <2>2 DEF WorkHonest, Grows
  <1>5. ASSUME NEW k, CleanHonest(k) PROVE CleanHonest(k)'
    BY <1>0, <1>5 DEF CleanHonest, Grows
  <1> QED
    BY <1>2, <1>3, <1>4, <1>5

Caused(a) ==
    \/ icSeen[a] >= IcThreshold
    \/ a \in dead /\ ssoSeen[a] >= SsoMaxFailures
    \/ deployment.includeDisabled /\ a \in disabledBy
    \/ deployment.sweep /\ a \in dead
OnlyCaused == \A a \in Account : health'[a].deleted => health[a].deleted \/ Caused(a)

(* What a step has to show: each record is as it was or honest afterwards.   *)
LEMMA HealthMoves ==
    ASSUME HealthInv, Evidence', Grows,
           health' = health \/ RowsHonest', marks' = marks \/ MarksHonest',
           ssoBatch' = ssoBatch \/ BatchHonest', UNCHANGED <<ssoPage, ssoNext>> \/ PagesBound',
           cleaning' = cleaning \/ CleanHonest(cleaning)'
    PROVE  HealthInv'
  <1>1. Evidence
    BY DEF HealthInv
  <1>2. RowsHonest'
    BY <1>1, HonestStays DEF HealthInv, RowsHonest
  <1>3. MarksHonest'
    BY <1>1, HonestStays DEF HealthInv, MarksHonest
  <1>4. BatchHonest'
    BY <1>1, HonestStays DEF HealthInv, BatchHonest
  <1>5. CleanHonest(cleaning)'
    BY <1>1, HonestStays DEF HealthInv
  <1>6. PagesBound'
    BY DEF HealthInv, PagesBound
  <1> QED
    BY <1>2, <1>3, <1>4, <1>5, <1>6 DEF HealthInv

(* What the lemmas of the actions use of the constants and the invariant.    *)
LEMMA HealthFacts ==
    ASSUME HealthInv
    PROVE  /\ IcThreshold \in Nat /\ SsoMaxFailures \in Nat /\ MinAge \in Nat /\ MaxDeletes \in Nat
           /\ Absent \notin Int /\ IsFiniteSet(Account)
           /\ deployment.accounts \subseteq Account /\ deployment.jobs \subseteq MarkJob /\ deployment.ops \in Nat
           /\ Evidence /\ RowsHonest /\ MarksHonest /\ BatchHonest /\ CleanHonest(cleaning)
           /\ \A a \in Account : RowHonest(a, health[a])
           /\ \A j \in MarkJob : MarkHonest(marks[j])
           /\ \A a \in DOMAIN ssoBatch : WorkHonest(a, ssoBatch[a]) /\ a \in Account
  BY SharedAssumption DEF HealthInv, Evidence, RowsHonest, MarksHonest, BatchHonest

LEMMA NoExtHonest ==
    ASSUME HealthInv, NEW a \in Account
    PROVE  Health!NoExt \in Health!Ext /\ ExtHonest(a, Health!NoExt)
  BY HealthFacts DEF Health!NoExt, Health!Ext, ExtHonest, Health!Count, Evidence

(* Ages do not change what is claimed.                                       *)
LEMMA OlderHonest ==
    ASSUME HealthInv, NEW ext \in Health!Ext
    PROVE  /\ Health!OlderExt(ext) \in Health!Ext
           /\ Health!OlderExt(ext).ic = ext.ic
           /\ \A a \in Account : ExtHonest(a, ext) => ExtHonest(a, Health!OlderExt(ext))
  <1>1. ASSUME NEW age \in {Absent} \cup 0 .. MinAge
        PROVE  Health!Older(age) \in {Absent} \cup 0 .. MinAge /\ (age = Absent <=> Health!Older(age) = Absent)
    BY <1>1, HealthFacts DEF Health!Older, Health!Upto
  <1>2. PICK x \in {Absent} \cup 0 .. MinAge : x = Health!Older(ext.expiredAt)
    BY <1>1 DEF Health!Ext
  <1>3. PICK y \in {Absent} \cup 0 .. MinAge : y = Health!Older(ext.disabledAt)
    BY <1>1 DEF Health!Ext
  <1>4. ext.expiredAt = Absent <=> x = Absent
    BY <1>1, <1>2 DEF Health!Ext
  <1>5. PICK older : older = [ext EXCEPT !.expiredAt = x, !.disabledAt = y]
    OBVIOUS
  <1>6. older = Health!OlderExt(ext)
    BY <1>2, <1>3, <1>5 DEF Health!OlderExt, Health!Ext
  <1>7. /\ older \in Health!Ext /\ older.ic = ext.ic /\ older.sso = ext.sso /\ older.expiredAt = x
    BY <1>5 DEF Health!Ext
  <1> QED
    BY <1>4, <1>6, <1>7 DEF ExtHonest

(* A patch that claims no more than was seen.                                *)
LEMMA MergeHonest ==
    ASSUME HealthInv, NEW a \in Account, NEW stored \in Health!Ext, NEW patch \in Health!Ext,
           ExtHonest(a, stored), ExtHonest(a, patch)
    PROVE  Health!ExtMerge(stored, patch) \in Health!Ext /\ ExtHonest(a, Health!ExtMerge(stored, patch))
  <1>1. PICK merged : merged = Health!ExtMerge(stored, patch)
    OBVIOUS
  <1>2. /\ merged \in Health!Ext
        /\ merged.ic \in {stored.ic, patch.ic} /\ merged.sso \in {stored.sso, patch.sso}
        /\ merged.expiredAt \in {stored.expiredAt, patch.expiredAt}
    BY <1>1 DEF Health!ExtMerge, Health!Ext
  <1> QED
    BY <1>1, <1>2 DEF ExtHonest

(* One row changes.                                                          *)
LEMMA RowMoves ==
    ASSUME HealthInv, NEW a \in Account, NEW r, health' = [health EXCEPT ![a] = r],
           RowHonest(a, r)', Evidence', Grows
    PROVE  RowsHonest'
  <1>2. health' = [b \in Account |-> health'[b]]
    BY DEF HealthInv, RowsHonest
  <1>3. ASSUME NEW b \in Account PROVE RowHonest(b, health[b])'
    <2>1. CASE b = a
      BY <2>1, HealthFacts DEF RowsHonest
    <2>2. CASE b # a
      <3>1. PICK old : old = health[b]
        OBVIOUS
      <3>2. RowHonest(b, old)'
        BY <3>1, HealthFacts, HonestStays
      <3>3. health'[b] = old
        BY <2>2, <3>1, HealthFacts DEF RowsHonest
      <3> QED
        BY <3>2, <3>3
    <2> QED
      BY <2>1, <2>2
  <1> QED
    BY <1>2, <1>3 DEF RowsHonest

(* One call changes.                                                         *)
LEMMA MarkMoves ==
    ASSUME HealthInv, NEW j \in MarkJob, NEW m, marks' = [marks EXCEPT ![j] = m],
           MarkHonest(m)', Evidence', Grows
    PROVE  MarksHonest'
  <1>1. marks' = [i \in MarkJob |-> marks'[i]]
    BY DEF HealthInv, MarksHonest
  <1>2. ASSUME NEW i \in MarkJob PROVE MarkHonest(marks[i])'
    <2>1. CASE i = j
      BY <2>1, HealthFacts DEF MarksHonest
    <2>2. CASE i # j
      <3>1. PICK old : old = marks[i]
        OBVIOUS
      <3>2. MarkHonest(old)'
        BY <3>1, HealthFacts, HonestStays
      <3>3. marks'[i] = old
        BY <2>2, <3>1, HealthFacts DEF MarksHonest
      <3> QED
        BY <3>2, <3>3
    <2> QED
      BY <2>1, <2>2
  <1> QED
    BY <1>1, <1>2 DEF MarksHonest

(* The work on one account of the batch changes, or is done.                 *)
LEMMA WorkMoves ==
    ASSUME HealthInv, NEW a \in DOMAIN ssoBatch, Evidence', Grows,
           \/ Health!WorkDone(a)
           \/ \E w : WorkHonest(a, w)' /\ ssoBatch' = [ssoBatch EXCEPT ![a] = w]
    PROVE  BatchHonest'
  <1>0. BatchHonest /\ Evidence
    BY HealthFacts
  <1>1. \A b \in DOMAIN ssoBatch : \A w : WorkHonest(b, w) => WorkHonest(b, w)'
    BY <1>0, HonestStays DEF BatchHonest
  <1>2. CASE Health!WorkDone(a)
    BY <1>0, <1>1, <1>2 DEF BatchHonest, Health!WorkDone
  <1>3. ASSUME NEW w, WorkHonest(a, w)', ssoBatch' = [ssoBatch EXCEPT ![a] = w] PROVE BatchHonest'
    <2>1. DOMAIN ssoBatch' = DOMAIN ssoBatch /\ ssoBatch' = [b \in DOMAIN ssoBatch' |-> ssoBatch'[b]]
      BY <1>0, <1>3 DEF BatchHonest
    <2>2. ASSUME NEW b \in DOMAIN ssoBatch PROVE WorkHonest(b, ssoBatch[b])'
      <3>1. PICK now : now = ssoBatch'[b]
        OBVIOUS
      <3>2. WorkHonest(b, now)'
        BY <1>0, <1>1, <1>3, <3>1 DEF BatchHonest
      <3> QED
        BY <3>1, <3>2
    <2> QED
      BY <1>0, <2>1, <2>2 DEF BatchHonest
  <1> QED
    BY <1>2, <1>3

(* Steps that leave all that was seen as it is.                              *)
LEMMA SeenStays ==
    ASSUME HealthInv, UNCHANGED <<deployment, dead, icSeen, ssoSeen>>,
           \/ UNCHANGED <<disabledBy, healthOps>>
           \/ disabledBy' = disabledBy /\ healthOps < deployment.ops /\ healthOps' = healthOps + 1
           \/ healthOps' = healthOps /\ \E a \in Account : disabledBy' = disabledBy \cup {a}
    PROVE  Evidence' /\ Grows
  <1>1. \A a \in Account : icSeen[a] \in Int /\ ssoSeen[a] \in Int
    BY HealthFacts DEF Evidence
  <1>2. healthOps' \in 0 .. deployment.ops
    BY HealthFacts DEF Evidence
  <1> QED
    BY <1>1, <1>2, HealthFacts DEF Evidence, Grows

LEMMA RowsAlone == health' = health => OnlyCaused
  BY DEF OnlyCaused

(* MarkAccountInvalidCredentials reads: the answer has been seen.            *)
LEMMA MarkReadKeeps ==
    ASSUME HealthInv, NEW j \in MarkJob, NEW a \in Account, Health!MarkRead(j, a)
    PROVE  HealthInv' /\ OnlyCaused
  <1>1. PICK ext \in Health!Ext : ext = health[a].ext
    BY HealthFacts DEF RowHonest
  <1>2. PICK seen : seen = Health!Upto(icSeen[a] + 1, IcThreshold)
    OBVIOUS
  <1>3. seen \in 0 .. IcThreshold /\ seen >= icSeen[a]
    BY <1>2, HealthFacts DEF Evidence, Health!Upto
  <1>4. /\ marks' = [marks EXCEPT ![j] = [kind |-> "mark", a |-> a, ext |-> ext]]
        /\ icSeen' = [icSeen EXCEPT ![a] = seen]
        /\ UNCHANGED <<deployment, health, dead, ssoPage, ssoBatch, ssoNext, cleaning, ssoSeen,
                       disabledBy, healthOps>>
    BY <1>1, <1>2 DEF Health!MarkRead
  <1>5. icSeen' \in [Account -> 0 .. IcThreshold]
        /\ \A b \in Account : icSeen'[b] = IF b = a THEN seen ELSE icSeen[b]
    BY <1>3, <1>4, HealthFacts DEF Evidence
  <1>6. Evidence'
    BY <1>4, <1>5, HealthFacts DEF Evidence
  <1>7. Grows
    <2>1. \A b \in Account : icSeen[b] \in Int /\ ssoSeen[b] \in Int
      BY HealthFacts DEF Evidence
    <2> QED
      BY <1>3, <1>4, <1>5, <2>1 DEF Grows
  <1>8. ExtHonest(a, ext)
    BY <1>1, HealthFacts DEF RowHonest
  <1>9. Health!Count(ext.ic) \in 0 .. IcThreshold /\ Health!Count(ext.sso) \in 0 .. SsoMaxFailures
    BY HealthFacts DEF Health!Count, Health!Ext
  <1>10. Health!Upto(Health!Count(ext.ic) + 1, IcThreshold) <= seen
    BY <1>2, <1>8, <1>9, HealthFacts DEF ExtHonest, Evidence, Health!Upto
  <1>11. ASSUME NEW m, m = [kind |-> "mark", a |-> a, ext |-> ext] PROVE MarkHonest(m)'
    <2>1. ExtHonest(a, ext)'
      BY <1>3, <1>4, <1>5, <1>8, <1>9, HealthFacts DEF ExtHonest, Evidence
    <2>2. m.kind = "mark" /\ m.a = a /\ m.ext = ext
      BY <1>11
    <2>3. m \in [kind : MarkKinds, a : Account \cup {Absent},
                 ext : Health!Ext]
      BY <1>11 DEF MarkKinds
    <2> QED
      BY <1>5, <1>10, <2>1, <2>2, <2>3 DEF MarkHonest
  <1>12. MarksHonest'
    BY <1>4, <1>6, <1>7, <1>11, MarkMoves
  <1> QED
    BY <1>4, <1>6, <1>7, <1>12, HealthMoves, RowsAlone

(* It patches: what it writes has been seen.                                 *)
LEMMA MarkPatchKeeps ==
    ASSUME HealthInv, NEW j \in MarkJob, Health!MarkPatch(j)
    PROVE  HealthInv' /\ OnlyCaused
  <1>0. PICK m : m = marks[j]
    OBVIOUS
  <1>1. MarkHonest(m) /\ m.kind = "mark" /\ m.a \in Account /\ m.ext \in Health!Ext
        /\ ExtHonest(m.a, m.ext)
    BY <1>0, HealthFacts DEF Health!MarkPatch, MarkHonest
  <1>2. PICK a \in Account : a = m.a
    BY <1>1
  <1>3. PICK r : r = health[a]
    OBVIOUS
  <1>4. RowHonest(a, r)
    BY <1>3, HealthFacts
  <1>5. PICK failures : failures = Health!Upto(Health!Count(m.ext.ic) + 1, IcThreshold)
    OBVIOUS
  <1>6. failures \in 0 .. IcThreshold /\ failures <= icSeen[a] /\ icSeen[a] \in 0 .. IcThreshold
    <2>1. Health!Count(m.ext.ic) \in 0 .. IcThreshold
      BY <1>1, HealthFacts DEF Health!Count, Health!Ext
    <2>2. failures \in 0 .. IcThreshold
      BY <1>5, <2>1, HealthFacts DEF Health!Upto
    <2> QED
      BY <1>1, <1>2, <1>5, <2>2, HealthFacts DEF MarkHonest, Evidence
  <1>7. PICK at : at = IF failures >= IcThreshold THEN 0 ELSE m.ext.expiredAt
    OBVIOUS
  <1>8. PICK ext : ext = [m.ext EXCEPT !.ic = failures, !.expiredAt = at]
    OBVIOUS
  <1>9. ext \in Health!Ext /\ ExtHonest(a, ext)
    <2>1. at \in {Absent} \cup 0 .. MinAge
      BY <1>1, <1>7, HealthFacts DEF Health!Ext
    <2>2. ext \in Health!Ext /\ ext.ic = failures /\ ext.sso = m.ext.sso /\ ext.expiredAt = at
      BY <1>1, <1>6, <1>8, <2>1 DEF Health!Ext
    <2>3. Health!Count(failures) = failures
      BY <1>6, HealthFacts DEF Health!Count
    <2> QED
      BY <1>1, <1>2, <1>6, <1>7, <2>2, <2>3, HealthFacts DEF ExtHonest
  <1>10. PICK merged : merged = Health!ExtMerge(r.ext, ext)
    OBVIOUS
  <1>11. merged \in Health!Ext /\ ExtHonest(a, merged)
    BY <1>4, <1>9, <1>10, MergeHonest DEF RowHonest
  <1>12. PICK status : status = IF failures >= IcThreshold THEN "expired" ELSE r.status
    OBVIOUS
  <1>13. PICK new : new = [r EXCEPT !.ext = merged, !.status = status]
    OBVIOUS
  <1>14. RowHonest(a, new) /\ new.deleted = r.deleted
    <2>1. status \in {"active", "expired", "disabled"}
      BY <1>4, <1>12 DEF RowHonest
    <2>2. /\ new \in [status : {"active", "expired", "disabled"}, deleted : BOOLEAN, ext : Health!Ext]
          /\ new.ext = merged /\ new.status = status /\ new.deleted = r.deleted
      BY <1>4, <1>11, <1>13, <2>1 DEF RowHonest
    <2>3. status = "expired" => icSeen[a] >= IcThreshold
      BY <1>4, <1>6, <1>12, HealthFacts DEF RowHonest
    <2>4. status = "disabled" => a \in disabledBy
      BY <1>4, <1>12 DEF RowHonest
    <2> QED
      BY <1>11, <2>2, <2>3, <2>4 DEF RowHonest
  <1>15. health' = [health EXCEPT ![a] = new]
    <2>1. health' = [health EXCEPT ![a].ext = Health!ExtMerge(@, ext), ![a].status = status]
      BY <1>0, <1>2, <1>3, <1>5, <1>7, <1>8, <1>12 DEF Health!MarkPatch
    <2>2. health \in [Account -> [status : {"active", "expired", "disabled"}, deleted : BOOLEAN, ext : Health!Ext]]
      BY HealthFacts DEF RowsHonest, RowHonest
    <2> QED
      BY <1>3, <1>10, <1>13, <2>1, <2>2
  <1>16. UNCHANGED <<deployment, dead, ssoPage, ssoBatch, ssoNext, cleaning, icSeen, ssoSeen, disabledBy, healthOps>>
    BY DEF Health!MarkPatch
  <1>17. Evidence' /\ Grows
    BY <1>16, SeenStays
  <1>18. PICK then : then = IF failures >= IcThreshold THEN [kind |-> "delete", a |-> a, ext |-> Health!NoExt]
                            ELSE Health!Idle
    OBVIOUS
  <1>19. marks' = [marks EXCEPT ![j] = then]
    BY <1>0, <1>2, <1>5, <1>18 DEF Health!MarkPatch
  <1>20. MarkHonest(then)
    BY <1>6, <1>18, NoExtHonest, HealthFacts DEF MarkHonest, MarkKinds, Health!Idle
  <1>21. MarksHonest' /\ RowsHonest'
    BY <1>14, <1>15, <1>17, <1>19, <1>20, HealthFacts, HonestStays, MarkMoves, RowMoves
  <1>22. OnlyCaused
    BY <1>3, <1>14, <1>15, HealthFacts DEF OnlyCaused, RowsHonest
  <1> QED
    BY <1>16, <1>17, <1>21, <1>22, HealthMoves

(* Rows marked as deleted claim nothing else.                                *)
LEMMA DeletedHonest ==
    ASSUME HealthInv, Evidence', Grows, NEW tokens, Health!DeleteAccounts(tokens)
    PROVE  RowsHonest' /\ \A a \in Account : health'[a].deleted => health[a].deleted \/ a \in tokens
  <1>1. health' = [a \in Account |-> IF a \in tokens THEN [health[a] EXCEPT !.deleted = TRUE] ELSE health[a]]
    BY DEF Health!DeleteAccounts
  <1>2. ASSUME NEW a \in Account
        PROVE  RowHonest(a, health[a])' /\ (health'[a].deleted => health[a].deleted \/ a \in tokens)
    <2>1. PICK r : r = health[a]
      OBVIOUS
    <2>2. RowHonest(a, r)
      BY <2>1, HealthFacts
    <2>3. RowHonest(a, [r EXCEPT !.deleted = TRUE])
      BY <2>2 DEF RowHonest
    <2>4. RowHonest(a, r)' /\ RowHonest(a, [r EXCEPT !.deleted = TRUE])'
      BY <2>2, <2>3, HealthFacts, HonestStays
    <2>5. health'[a] = IF a \in tokens THEN [r EXCEPT !.deleted = TRUE] ELSE r
      BY <1>1, <2>1
    <2>6. health'[a].deleted => health[a].deleted \/ a \in tokens
      BY <2>1, <2>5
    <2> QED
      BY <2>4, <2>5, <2>6
  <1> QED
    BY <1>1, <1>2 DEF RowsHonest

LEMMA IdleHonest == ASSUME HealthInv PROVE MarkHonest(Health!Idle)
  BY HealthFacts DEF MarkHonest, MarkKinds, Health!Idle, Health!NoExt, Health!Ext

LEMMA MarkDeleteKeeps ==
    ASSUME HealthInv, NEW j \in MarkJob, Health!MarkDelete(j) \/ Health!MarkAbandoned(j)
    PROVE  HealthInv' /\ OnlyCaused
  <1>1. Evidence' /\ Grows
    BY SeenStays DEF Health!MarkDelete, Health!MarkAbandoned
  <1>2. MarkHonest(Health!Idle)'
    BY <1>1, IdleHonest, HealthFacts, HonestStays
  <1>3. marks' = [marks EXCEPT ![j] = Health!Idle]
    BY DEF Health!MarkDelete, Health!MarkAbandoned
  <1>4. MarksHonest'
    BY <1>1, <1>2, <1>3, MarkMoves
  <1>5. CASE Health!MarkDelete(j)
    <2>1. Health!DeleteAccounts({marks[j].a}) /\ UNCHANGED <<ssoPage, ssoBatch, ssoNext, cleaning>>
      BY <1>5 DEF Health!MarkDelete
    <2>2. RowsHonest' /\ \A a \in Account : health'[a].deleted => health[a].deleted \/ a = marks[j].a
      BY <1>1, <2>1, DeletedHonest
    <2>3. icSeen[marks[j].a] >= IcThreshold
      BY <1>5, HealthFacts DEF Health!MarkDelete, MarkHonest
    <2> QED
      BY <1>1, <1>4, <2>1, <2>2, <2>3, HealthMoves DEF OnlyCaused, Caused
  <1>6. CASE Health!MarkAbandoned(j)
    BY <1>1, <1>4, <1>6, HealthMoves, RowsAlone DEF Health!MarkAbandoned
  <1> QED
    BY <1>5, <1>6

(* account sso-sweep lists, probes and deletes one account.                  *)
LEMMA SweepKeeps ==
    ASSUME HealthInv, NEW j \in MarkJob, NEW a \in Account,
           Health!SweepList(j, a) \/ Health!RunAccountSSOSweep(j)
    PROVE  HealthInv' /\ OnlyCaused
  <1>0. Evidence' /\ Grows
    BY SeenStays DEF Health!SweepList, Health!RunAccountSSOSweep, Health!SweepProbe, Health!SweepDelete
  <1>1. MarkHonest(Health!Idle)'
    BY <1>0, IdleHonest, HealthFacts, HonestStays
  <1>2. CASE Health!SweepList(j, a)
    <2>1. PICK m : m = [kind |-> "sweep", a |-> a, ext |-> Health!NoExt]
      OBVIOUS
    <2>2. MarkHonest(m)
      BY <1>2, <2>1, NoExtHonest DEF MarkHonest, MarkKinds, Health!SweepList
    <2>3. MarkHonest(m)' /\ marks' = [marks EXCEPT ![j] = m]
      BY <1>0, <1>2, <2>1, <2>2, HealthFacts, HonestStays DEF Health!SweepList
    <2>4. MarksHonest'
      BY <1>0, <2>3, MarkMoves
    <2> QED
      BY <1>0, <1>2, <2>4, HealthMoves, RowsAlone DEF Health!SweepList
  <1>3. CASE Health!SweepProbe(j)
    <2>1. PICK m : m = marks[j]
      OBVIOUS
    <2>2. MarkHonest(m) /\ m.kind = "sweep"
      BY <1>3, <2>1, HealthFacts DEF Health!SweepProbe
    <2>3. CASE m.a \in dead /\ marks' = [marks EXCEPT ![j].kind = "swept"]
      <3>1. PICK n : n = [m EXCEPT !.kind = "swept"]
        OBVIOUS
      <3>2. n \in [kind : MarkKinds, a : Account \cup {Absent}, ext : Health!Ext]
            /\ n.kind = "swept" /\ n.a = m.a /\ n.ext = m.ext
        BY <2>2, <3>1 DEF MarkHonest, MarkKinds
      <3>3. deployment.sweep
        BY <2>2 DEF MarkHonest
      <3>4. MarkHonest(n)
        BY <2>2, <2>3, <3>2, <3>3 DEF MarkHonest
      <3>5. MarkHonest(n)' /\ marks' = [marks EXCEPT ![j] = n]
        BY <1>0, <2>1, <2>3, <3>1, <3>4, HealthFacts, HonestStays
      <3>6. MarksHonest'
        BY <1>0, <3>5, MarkMoves
      <3> QED
        BY <1>0, <1>3, <3>6, HealthMoves, RowsAlone DEF Health!SweepProbe
    <2>4. CASE marks' = [marks EXCEPT ![j] = Health!Idle]
      <3>1. MarksHonest'
        BY <1>0, <1>1, <2>4, MarkMoves
      <3> QED
        BY <1>0, <1>3, <3>1, HealthMoves, RowsAlone DEF Health!SweepProbe
    <2> QED
      BY <1>3, <2>1, <2>3, <2>4 DEF Health!SweepProbe
  <1>4. CASE Health!SweepDelete(j)
    <2>1. /\ Health!DeleteAccounts({marks[j].a}) /\ marks' = [marks EXCEPT ![j] = Health!Idle]
          /\ UNCHANGED <<ssoPage, ssoBatch, ssoNext, cleaning>>
      BY <1>4 DEF Health!SweepDelete
    <2>2. MarksHonest'
      BY <1>0, <1>1, <2>1, MarkMoves
    <2>3. RowsHonest' /\ \A b \in Account : health'[b].deleted => health[b].deleted \/ b = marks[j].a
      BY <1>0, <2>1, DeletedHonest
    <2>4. deployment.sweep /\ marks[j].a \in dead
      BY <1>4, HealthFacts DEF Health!SweepDelete, MarkHonest
    <2> QED
      BY <1>0, <2>1, <2>2, <2>3, <2>4, HealthMoves DEF OnlyCaused, Caused
  <1> QED
    BY <1>2, <1>3, <1>4 DEF Health!RunAccountSSOSweep

(* adminTokensToggle reads the row.                                          *)
LEMMA ToggleReadKeeps ==
    ASSUME HealthInv, NEW j \in MarkJob, NEW a \in Account, NEW kin \in {"disable", "restore"},
           Health!ToggleRead(j, a, kin)
    PROVE  HealthInv' /\ OnlyCaused
  <1>1. /\ UNCHANGED <<deployment, health, dead, ssoPage, ssoBatch, ssoNext, cleaning, icSeen, ssoSeen, disabledBy>>
        /\ healthOps < deployment.ops /\ healthOps' = healthOps + 1
    BY DEF Health!ToggleRead
  <1>2. Evidence' /\ Grows
    BY <1>1, SeenStays
  <1>3. PICK ext : ext = IF kin = "disable" THEN health[a].ext ELSE Health!NoExt
    OBVIOUS
  <1>4. ext \in Health!Ext /\ ExtHonest(a, ext)
    BY <1>3, NoExtHonest, HealthFacts DEF RowHonest
  <1>5. PICK m : m = [kind |-> kin, a |-> a, ext |-> ext]
    OBVIOUS
  <1>6. MarkHonest(m)
    BY <1>4, <1>5 DEF MarkHonest, MarkKinds
  <1>7. marks' = [marks EXCEPT ![j] = m]
    BY <1>3, <1>5 DEF Health!ToggleRead
  <1>8. MarkHonest(m)'
    BY <1>2, <1>6, HealthFacts, HonestStays
  <1>9. MarksHonest'
    BY <1>2, <1>7, <1>8, MarkMoves
  <1> QED
    BY <1>1, <1>2, <1>9, HealthMoves, RowsAlone

(* adminTokensTogglePatch: a disabled row has been disabled by the operator. *)
LEMMA TogglePatchKeeps ==
    ASSUME HealthInv, NEW j \in MarkJob, Health!TogglePatch(j)
    PROVE  HealthInv' /\ OnlyCaused
  <1>0. PICK m : m = marks[j]
    OBVIOUS
  <1>1. /\ MarkHonest(m) /\ m.kind \in {"disable", "restore"}
        /\ m.a \in Account /\ m.ext \in Health!Ext /\ ExtHonest(m.a, m.ext)
    BY <1>0, HealthFacts DEF Health!TogglePatch, MarkHonest
  <1>2. PICK a \in Account : a = m.a
    BY <1>1
  <1>3. PICK r : r = health[a]
    OBVIOUS
  <1>4. RowHonest(a, r)
    BY <1>3, HealthFacts
  <1>5. /\ marks' = [marks EXCEPT ![j] = Health!Idle]
        /\ UNCHANGED <<deployment, dead, ssoPage, ssoBatch, ssoNext, cleaning, icSeen, ssoSeen, healthOps>>
        /\ disabledBy' = disabledBy \cup {a} \/ disabledBy' = disabledBy
    BY <1>0, <1>2 DEF Health!TogglePatch
  <1>6. Evidence' /\ Grows
    BY <1>5, SeenStays
  <1>7. MarksHonest'
    BY <1>5, <1>6, IdleHonest, HealthFacts, HonestStays, MarkMoves
  <1>8. \E new : health' = [health EXCEPT ![a] = new] /\ RowHonest(a, new)' /\ new.deleted = r.deleted
    <2>0. health \in [Account -> [status : {"active", "expired", "disabled"}, deleted : BOOLEAN, ext : Health!Ext]]
      BY HealthFacts DEF RowsHonest, RowHonest
    <2>1. CASE m.kind = "disable"
      <3>1. PICK ext : ext = [m.ext EXCEPT !.disabledAt = 0]
        OBVIOUS
      <3>2. ext \in Health!Ext /\ ExtHonest(a, ext)
        BY <1>1, <1>2, <3>1, HealthFacts DEF ExtHonest, Health!Ext
      <3>3. PICK merged : merged = Health!ExtMerge(r.ext, ext)
        OBVIOUS
      <3>4. merged \in Health!Ext /\ ExtHonest(a, merged)
        BY <1>4, <3>2, <3>3, MergeHonest DEF RowHonest
      <3>5. PICK new : new = [r EXCEPT !.status = "disabled", !.ext = merged]
        OBVIOUS
      <3>6. /\ health' = [health EXCEPT ![a].status = "disabled", ![a].ext = Health!ExtMerge(@, ext)]
            /\ disabledBy' = disabledBy \cup {a}
        BY <1>0, <1>2, <2>1, <3>1 DEF Health!TogglePatch
      <3>7. health' = [health EXCEPT ![a] = new]
        BY <1>3, <2>0, <3>3, <3>5, <3>6
      <3>8. /\ new \in [status : {"active", "expired", "disabled"}, deleted : BOOLEAN, ext : Health!Ext]
            /\ new.status = "disabled" /\ new.ext = merged /\ new.deleted = r.deleted
        BY <1>4, <3>4, <3>5 DEF RowHonest
      <3>9. ExtHonest(a, merged)'
        BY <1>5, <3>4 DEF ExtHonest
      <3>10. RowHonest(a, new)'
        BY <3>6, <3>8, <3>9 DEF RowHonest
      <3> QED
        BY <3>7, <3>8, <3>10
    <2>2. CASE m.kind = "restore"
      <3>1. PICK ext : ext = Health!ClearFailureExt(r.ext)
        OBVIOUS
      <3>2. ext \in Health!Ext /\ ExtHonest(a, ext)
        BY <1>4, <3>1, HealthFacts DEF RowHonest, ExtHonest, Health!Ext, Health!ClearFailureExt
      <3>3. PICK new : new = [r EXCEPT !.status = "active", !.ext = ext]
        OBVIOUS
      <3>4. health' = [health EXCEPT ![a].status = "active", ![a].ext = Health!ClearFailureExt(@)]
        BY <1>0, <1>2, <2>2 DEF Health!TogglePatch
      <3>5. health' = [health EXCEPT ![a] = new]
        BY <1>3, <2>0, <3>1, <3>3, <3>4
      <3>6. RowHonest(a, new) /\ new.deleted = r.deleted
        BY <1>4, <3>2, <3>3 DEF RowHonest
      <3>7. RowHonest(a, new)'
        BY <1>6, <3>6, HealthFacts, HonestStays
      <3> QED
        BY <3>5, <3>6, <3>7
    <2> QED
      BY <1>1, <2>1, <2>2
  <1>9. RowsHonest'
    BY <1>6, <1>8, RowMoves
  <1>10. OnlyCaused
    BY <1>3, <1>8, HealthFacts DEF OnlyCaused, RowsHonest
  <1> QED
    BY <1>5, <1>6, <1>7, <1>9, <1>10, HealthMoves

(* adminTokensAdd: an imported row claims nothing.                           *)
LEMMA ImportKeeps ==
    ASSUME HealthInv, NEW a \in Account, Health!ImportAccount(a)
    PROVE  HealthInv' /\ OnlyCaused
  <1>1. /\ UNCHANGED <<deployment, marks, dead, ssoPage, ssoBatch, ssoNext, cleaning, icSeen, ssoSeen, disabledBy>>
        /\ healthOps < deployment.ops /\ healthOps' = healthOps + 1
        /\ health' = [health EXCEPT ![a] = Health!Upserted]
    BY DEF Health!ImportAccount
  <1>2. Evidence' /\ Grows
    BY <1>1, SeenStays
  <1>3. RowHonest(a, Health!Upserted)
    BY NoExtHonest DEF RowHonest, Health!Upserted
  <1>4. RowsHonest'
    BY <1>1, <1>2, <1>3, HealthFacts, HonestStays, RowMoves
  <1>5. OnlyCaused
    BY <1>1, HealthFacts DEF OnlyCaused, RowsHonest, Health!Upserted
  <1> QED
    BY <1>1, <1>2, <1>4, <1>5, HealthMoves

(* ValidateSSOBatch: each worker holds the row as listed; a page that is not *)
(* the last has fewer accounts before it than there are.                     *)
LEMMA BatchStarts ==
    ASSUME HealthInv, Health!ValidateSSOBatch
    PROVE  HealthInv' /\ OnlyCaused
  <1>1. /\ UNCHANGED <<deployment, health, dead, marks, ssoPage, cleaning, icSeen, ssoSeen, disabledBy, healthOps>>
        /\ ssoNext' = 1 \/ (~Health!IsLastPage(ssoPage) /\ ssoNext' = ssoPage + 1)
    BY DEF Health!ValidateSSOBatch
  <1>2. Evidence' /\ Grows
    BY <1>1, SeenStays
  <1>3. PICK records : /\ records \subseteq Account
                       /\ ssoBatch' = [a \in records |-> [pc |-> "probe", sso |-> Health!Count(health[a].ext.sso)]]
    BY HealthFacts DEF Health!ValidateSSOBatch, Health!PageItems, Health!Listed
  <1>4. BatchHonest'
    <2>1. ASSUME NEW a \in records PROVE WorkHonest(a, ssoBatch[a])'
      <3>1. PICK n : n = Health!Count(health[a].ext.sso)
        OBVIOUS
      <3>2. n \in 0 .. SsoMaxFailures /\ n <= ssoSeen[a]
        BY <1>3, <2>1, <3>1, HealthFacts DEF RowHonest, ExtHonest, Health!Count, Health!Ext
      <3>3. PICK w : w = [pc |-> "probe", sso |-> n]
        OBVIOUS
      <3>4. WorkHonest(a, w)
        BY <3>2, <3>3 DEF WorkHonest
      <3>5. WorkHonest(a, w)'
        BY <1>2, <1>3, <2>1, <3>4, HealthFacts, HonestStays
      <3>6. ssoBatch'[a] = w
        BY <1>3, <3>1, <3>3
      <3> QED
        BY <3>5, <3>6
    <2> QED
      BY <1>3, <2>1 DEF BatchHonest
  <1>5. PagesBound'
    <2>0. ssoPage \in 1 .. Cardinality(Account) + 1
      BY DEF HealthInv, PagesBound
    <2>1. Cardinality(Account) \in Nat
      BY HealthFacts, FS_CardinalityType
    <2>2. CASE ssoNext' = 1
      BY <1>1, <2>0, <2>1, <2>2 DEF PagesBound
    <2>3. CASE ~Health!IsLastPage(ssoPage) /\ ssoNext' = ssoPage + 1
      <3>1. \A S : Health!Cardinality(S) = Cardinality(S)
        BY DEF Health!Cardinality, Cardinality
      <3>2. Health!Listed \subseteq Account
        BY HealthFacts DEF Health!Listed
      <3>3. Cardinality(Health!Listed) \in Nat /\ Cardinality(Health!Listed) <= Cardinality(Account)
        BY <3>2, HealthFacts, FS_Subset, FS_CardinalityType
      <3>4. ~(Cardinality(Health!Listed) <= ssoPage * PageSize)
        BY <2>3, <3>1 DEF Health!IsLastPage
      <3>5. ssoPage * PageSize >= ssoPage
        BY <2>0, <2>1, SharedAssumption
      <3>5a. ssoPage * PageSize \in Int
        BY <2>0, <2>1, SharedAssumption
      <3>6. ssoPage < Cardinality(Account)
        BY <2>0, <2>1, <3>3, <3>4, <3>5, <3>5a
      <3> QED
        BY <1>1, <2>0, <2>1, <2>3, <3>6 DEF PagesBound
    <2> QED
      BY <1>1, <2>2, <2>3
  <1> QED
    BY <1>1, <1>2, <1>4, <1>5, HealthMoves, RowsAlone

(* runOnce stores the page the batch reported.                               *)
LEMMA BatchEnds ==
    ASSUME HealthInv, Health!FinishSSOBatch
    PROVE  HealthInv' /\ OnlyCaused
  <1>1. /\ UNCHANGED <<deployment, health, dead, marks, ssoBatch, cleaning, icSeen, ssoSeen, disabledBy, healthOps>>
        /\ ssoNext # Absent /\ ssoNext' = Absent /\ ssoPage' = IF ssoNext = 0 THEN ssoPage ELSE ssoNext
    BY DEF Health!FinishSSOBatch
  <1>2. Evidence' /\ Grows
    BY <1>1, SeenStays
  <1>3. Cardinality(Account) \in Nat
    BY HealthFacts, FS_CardinalityType
  <1>4. PagesBound'
    BY <1>1, <1>3 DEF HealthInv, PagesBound
  <1> QED
    BY <1>1, <1>2, <1>4, HealthMoves, RowsAlone

(* validateSSOAccount: a failure that is met has been seen.                  *)
LEMMA ProbeKeeps ==
    ASSUME HealthInv, NEW a \in Account, NEW answer \in {"ok", "terminal", "soft"}, Health!ProbeSSO(a, answer)
    PROVE  HealthInv' /\ OnlyCaused
  <1>1. /\ UNCHANGED <<deployment, health, dead, marks, ssoPage, ssoNext, cleaning, icSeen, disabledBy, healthOps>>
        /\ a \in DOMAIN ssoBatch /\ ssoBatch[a].pc = "probe"
        /\ answer = "terminal" => a \in dead
        /\ ssoBatch' = [ssoBatch EXCEPT ![a].pc = answer]
    BY DEF Health!ProbeSSO, Health!Busy, Health!Work
  <1>2. PICK seen : seen = Health!Upto(ssoSeen[a] + 1, SsoMaxFailures)
    OBVIOUS
  <1>3. seen \in 0 .. SsoMaxFailures /\ seen >= ssoSeen[a]
    BY <1>2, HealthFacts DEF Evidence, Health!Upto
  <1>4. ssoSeen' = IF answer = "ok" THEN ssoSeen ELSE [ssoSeen EXCEPT ![a] = seen]
    BY <1>2 DEF Health!ProbeSSO
  <1>5. ssoSeen' \in [Account -> 0 .. SsoMaxFailures]
        /\ \A b \in Account : ssoSeen'[b] = IF b = a /\ answer # "ok" THEN seen ELSE ssoSeen[b]
    BY <1>3, <1>4, HealthFacts DEF Evidence
  <1>6. Evidence'
    BY <1>1, <1>5, HealthFacts DEF Evidence
  <1>7. Grows
    <2>1. \A b \in Account : icSeen[b] \in Int /\ ssoSeen[b] \in Int
      BY HealthFacts DEF Evidence
    <2> QED
      BY <1>1, <1>3, <1>5, <2>1 DEF Grows
  <1>8. PICK w : w = ssoBatch[a]
    OBVIOUS
  <1>9. WorkHonest(a, w)
    BY <1>1, <1>8, HealthFacts
  <1>10. PICK now : now = [w EXCEPT !.pc = answer]
    OBVIOUS
  <1>11. /\ now \in [pc : {"probe", "ok", "soft", "terminal", "delete"}, sso : 0 .. SsoMaxFailures]
         /\ now.pc = answer /\ now.sso = w.sso /\ w.sso \in 0 .. SsoMaxFailures /\ w.sso <= ssoSeen[a]
    BY <1>9, <1>10 DEF WorkHonest
  <1>12. w.sso <= ssoSeen'[a]
    BY <1>3, <1>5, <1>11, HealthFacts DEF Evidence
  <1>13. answer # "ok" => Health!Upto(w.sso + 1, SsoMaxFailures) <= ssoSeen'[a]
    BY <1>2, <1>5, <1>11, HealthFacts DEF Evidence, Health!Upto
  <1>14. WorkHonest(a, now)'
    BY <1>1, <1>11, <1>12, <1>13 DEF WorkHonest
  <1>15. ssoBatch' = [ssoBatch EXCEPT ![a] = now]
    BY <1>1, <1>8, <1>10
  <1>16. BatchHonest'
    BY <1>1, <1>6, <1>7, <1>14, <1>15, WorkMoves
  <1> QED
    BY <1>1, <1>6, <1>7, <1>16, HealthMoves, RowsAlone

(* recordSSOValidationSuccess, recordSSOValidationFailure: the count of the  *)
(* row as listed, plus the failure that was met.                             *)
LEMMA RecordKeeps ==
    ASSUME HealthInv, NEW a \in Account, Health!RecordSSOSuccess(a) \/ Health!RecordSSOFailure(a)
    PROVE  HealthInv' /\ OnlyCaused
  <1>1. /\ UNCHANGED <<deployment, dead, marks, ssoPage, ssoNext, cleaning, icSeen, ssoSeen, disabledBy, healthOps>>
        /\ a \in DOMAIN ssoBatch
    BY DEF Health!RecordSSOSuccess, Health!RecordSSOFailure, Health!Busy
  <1>2. Evidence' /\ Grows
    BY <1>1, SeenStays
  <1>3. PICK w : w = ssoBatch[a]
    OBVIOUS
  <1>4. WorkHonest(a, w) /\ w.sso \in 0 .. SsoMaxFailures
    BY <1>1, <1>3, HealthFacts DEF WorkHonest
  <1>5. PICK r : r = health[a]
    OBVIOUS
  <1>6. RowHonest(a, r)
    BY <1>5, HealthFacts
  <1>7. PICK failures : failures = Health!Upto(w.sso + 1, SsoMaxFailures)
    OBVIOUS
  <1>8. failures \in 0 .. SsoMaxFailures
    BY <1>4, <1>7, HealthFacts DEF Health!Upto
  <1>9. PICK n : /\ n = 0 \/ (n = failures /\ w.pc \in {"soft", "terminal"})
                 /\ health' = [health EXCEPT ![a].ext.sso = n]
    BY <1>3, <1>7 DEF Health!RecordSSOSuccess, Health!RecordSSOFailure, Health!Busy
  <1>10. n \in 0 .. SsoMaxFailures /\ n <= ssoSeen[a]
    BY <1>4, <1>7, <1>8, <1>9, HealthFacts DEF WorkHonest, Evidence
  <1>11. PICK ext : ext = [r.ext EXCEPT !.sso = n]
    OBVIOUS
  <1>12. ext \in Health!Ext /\ ExtHonest(a, ext)
    <2>1. /\ ext \in Health!Ext /\ ext.ic = r.ext.ic /\ ext.sso = n /\ ext.expiredAt = r.ext.expiredAt
          /\ ExtHonest(a, r.ext)
      BY <1>6, <1>10, <1>11 DEF RowHonest, Health!Ext
    <2>2. Health!Count(n) = n
      BY <1>10, HealthFacts DEF Health!Count
    <2> QED
      BY <1>10, <2>1, <2>2 DEF ExtHonest
  <1>13. PICK new : new = [r EXCEPT !.ext = ext]
    OBVIOUS
  <1>14. RowHonest(a, new) /\ new.deleted = r.deleted
    BY <1>6, <1>12, <1>13 DEF RowHonest
  <1>15. health' = [health EXCEPT ![a] = new]
    <2>1. health \in [Account -> [status : {"active", "expired", "disabled"}, deleted : BOOLEAN, ext : Health!Ext]]
      BY HealthFacts DEF RowsHonest, RowHonest
    <2> QED
      BY <1>5, <1>9, <1>11, <1>13, <2>1
  <1>16. RowsHonest' /\ OnlyCaused
    <2>1. RowHonest(a, new)'
      BY <1>2, <1>14, HealthFacts, HonestStays
    <2>2. RowsHonest'
      BY <1>2, <1>15, <2>1, RowMoves
    <2> QED
      BY <1>5, <1>14, <1>15, <2>2, HealthFacts DEF OnlyCaused, RowsHonest
  <1>17. \/ Health!WorkDone(a)
         \/ /\ w.pc = "terminal" /\ failures >= SsoMaxFailures
            /\ ssoBatch' = [ssoBatch EXCEPT ![a].pc = "delete"]
    BY <1>3, <1>7 DEF Health!RecordSSOSuccess, Health!RecordSSOFailure, Health!Busy, Health!Work
  <1>18. BatchHonest'
    <2>1. CASE Health!WorkDone(a)
      BY <1>1, <1>2, <2>1, WorkMoves
    <2>2. CASE /\ w.pc = "terminal" /\ failures >= SsoMaxFailures
               /\ ssoBatch' = [ssoBatch EXCEPT ![a].pc = "delete"]
      <3>1. PICK now : now = [w EXCEPT !.pc = "delete"]
        OBVIOUS
      <3>2. WorkHonest(a, now)
        <4>1. failures <= ssoSeen[a] /\ a \in dead
          BY <1>4, <1>7, <2>2 DEF WorkHonest
        <4>2. /\ now \in [pc : {"probe", "ok", "soft", "terminal", "delete"}, sso : 0 .. SsoMaxFailures]
              /\ now.pc = "delete" /\ now.sso = w.sso
          BY <1>4, <3>1 DEF WorkHonest
        <4>3. ssoSeen[a] >= SsoMaxFailures
          BY <1>8, <2>2, <4>1, HealthFacts DEF Evidence
        <4> QED
          BY <1>4, <4>1, <4>2, <4>3 DEF WorkHonest
      <3>3. WorkHonest(a, now)'
        BY <1>2, <3>2, HealthFacts, HonestStays
      <3>4. ssoBatch' = [ssoBatch EXCEPT ![a] = now]
        BY <1>1, <1>3, <2>2, <3>1
      <3> QED
        BY <1>1, <1>2, <3>3, <3>4, WorkMoves
    <2> QED
      BY <1>17, <2>1, <2>2
  <1> QED
    BY <1>1, <1>2, <1>16, <1>18, HealthMoves

(* The worker deletes, or its statement fails.                               *)
LEMMA DeleteKeeps ==
    ASSUME HealthInv, NEW a \in Account, Health!DeleteSSO(a) \/ Health!SSOStoreFault(a)
    PROVE  HealthInv' /\ OnlyCaused
  <1>1. /\ UNCHANGED <<deployment, dead, marks, ssoPage, cleaning, icSeen, ssoSeen, disabledBy>>
        /\ healthOps' = healthOps \/ (healthOps < deployment.ops /\ healthOps' = healthOps + 1)
        /\ a \in DOMAIN ssoBatch /\ Health!WorkDone(a)
        /\ ssoNext' = ssoNext \/ ssoNext' = 0
    BY DEF Health!DeleteSSO, Health!SSOStoreFault, Health!Busy
  <1>2. Evidence' /\ Grows
    BY <1>1, SeenStays
  <1>3. BatchHonest'
    BY <1>1, <1>2, WorkMoves
  <1>4. PagesBound'
    <2>1. Cardinality(Account) \in Nat
      BY HealthFacts, FS_CardinalityType
    <2> QED
      BY <1>1, <2>1 DEF HealthInv, PagesBound
  <1>5. CASE Health!DeleteSSO(a)
    <2>1. Health!DeleteAccounts({a})
      BY <1>5 DEF Health!DeleteSSO
    <2>2. RowsHonest' /\ \A b \in Account : health'[b].deleted => health[b].deleted \/ b = a
      BY <1>2, <2>1, DeletedHonest
    <2>3. a \in dead /\ ssoSeen[a] >= SsoMaxFailures
      BY <1>5, HealthFacts DEF Health!DeleteSSO, Health!Busy, WorkHonest
    <2>4. OnlyCaused
      BY <2>2, <2>3 DEF OnlyCaused, Caused
    <2> QED
      BY <1>1, <1>2, <1>3, <1>4, <2>2, <2>4, HealthMoves
  <1>6. CASE Health!SSOStoreFault(a)
    BY <1>1, <1>2, <1>3, <1>4, <1>6, HealthMoves, RowsAlone DEF Health!SSOStoreFault
  <1> QED
    BY <1>5, <1>6

(* RunExpiredAccountAutoClean lists rows that say they expired, or that an   *)
(* operator disabled, and no more than there is room for.                    *)
LEMMA CleanListKeeps ==
    ASSUME HealthInv, NEW status, NEW pc, Health!AutoCleanList(status, pc),
           status = "expired" \/ (status = "disabled" /\ deployment.includeDisabled)
    PROVE  HealthInv' /\ OnlyCaused
  <1>1. UNCHANGED <<deployment, health, dead, marks, ssoPage, ssoBatch, ssoNext, icSeen, ssoSeen, disabledBy, healthOps>>
    BY DEF Health!AutoCleanList
  <1>2. Evidence' /\ Grows
    BY <1>1, SeenStays
  <1>3. PICK old, tokens :
           /\ old \subseteq {a \in Health!Listed : health[a].status = status}
           /\ MaxDeletes - cleaning.deleted > 0
           /\ tokens \subseteq old
           /\ Health!Cardinality(tokens) = Health!Upto(Health!Cardinality(old), MaxDeletes - cleaning.deleted)
           /\ cleaning' = [cleaning EXCEPT !.tokens = tokens, !.pc = status]
    BY DEF Health!AutoCleanList
  <1>4. \A S : Health!Cardinality(S) = Cardinality(S)
    BY DEF Health!Cardinality, Cardinality
  <1>5. PICK k : k = cleaning
    OBVIOUS
  <1>6. CleanHonest(k) /\ k.deleted \in 0 .. MaxDeletes
    BY <1>5, HealthFacts DEF CleanHonest
  <1>7. Health!Listed \subseteq Account
    BY HealthFacts DEF Health!Listed
  <1>8. tokens \subseteq Account /\ \A a \in tokens : health[a].status = status
    BY <1>3, <1>7
  <1>9. Cardinality(tokens) \in Nat /\ Cardinality(old) \in Nat
    BY <1>3, <1>7, HealthFacts, FS_Subset, FS_CardinalityType
  <1>10. k.deleted + Cardinality(tokens) <= MaxDeletes
    BY <1>3, <1>4, <1>5, <1>6, <1>9, HealthFacts DEF Health!Upto
  <1>11. \A a \in tokens : icSeen[a] >= IcThreshold \/ (deployment.includeDisabled /\ a \in disabledBy)
    BY <1>8, HealthFacts DEF RowHonest
  <1>12. PICK now : now = [k EXCEPT !.tokens = tokens, !.pc = status]
    OBVIOUS
  <1>13. /\ now \in [pc : {"idle", "expired", "disabled"}, tokens : SUBSET Account, deleted : 0 .. MaxDeletes]
         /\ now.tokens = tokens /\ now.deleted = k.deleted
    BY <1>6, <1>8, <1>12 DEF CleanHonest
  <1>14. CleanHonest(now)
    BY <1>10, <1>11, <1>13 DEF CleanHonest
  <1>15. CleanHonest(now)' /\ cleaning' = now
    BY <1>2, <1>3, <1>5, <1>12, <1>14, HealthFacts, HonestStays
  <1>16. CleanHonest(cleaning)'
    BY <1>15
  <1> QED
    BY <1>1, <1>2, <1>16, HealthMoves, RowsAlone

(* It deletes what it listed, and the run ends.                              *)
LEMMA CleanDeleteKeeps ==
    ASSUME HealthInv, Health!AutoCleanDelete \/ Health!AutoCleanEnd
    PROVE  HealthInv' /\ OnlyCaused
  <1>1. UNCHANGED <<deployment, dead, marks, ssoPage, ssoBatch, ssoNext, icSeen, ssoSeen, disabledBy, healthOps>>
    BY DEF Health!AutoCleanDelete, Health!AutoCleanEnd
  <1>2. Evidence' /\ Grows
    BY <1>1, SeenStays
  <1>3. PICK k : k = cleaning
    OBVIOUS
  <1>4. CleanHonest(k)
    BY <1>3, HealthFacts
  <1>5. Cardinality({}) = 0
    BY FS_EmptySet
  <1>6. CASE Health!AutoCleanDelete
    <2>1. /\ Health!DeleteAccounts(k.tokens)
          /\ cleaning' = [k EXCEPT !.tokens = {}, !.deleted = @ + Health!Cardinality(k.tokens)]
      BY <1>3, <1>6 DEF Health!AutoCleanDelete
    <2>2. Health!Cardinality(k.tokens) = Cardinality(k.tokens)
      BY DEF Health!Cardinality, Cardinality
    <2>3. Cardinality(k.tokens) \in Nat /\ k.deleted \in 0 .. MaxDeletes
          /\ k.deleted + Cardinality(k.tokens) <= MaxDeletes
      BY <1>4, HealthFacts, FS_Subset, FS_CardinalityType DEF CleanHonest
    <2>4. PICK n : n = k.deleted + Cardinality(k.tokens)
      OBVIOUS
    <2>5. n \in 0 .. MaxDeletes
      BY <2>3, <2>4, HealthFacts
    <2>6. PICK now : now = [k EXCEPT !.tokens = {}, !.deleted = n]
      OBVIOUS
    <2>7. /\ now \in [pc : {"idle", "expired", "disabled"}, tokens : SUBSET Account, deleted : 0 .. MaxDeletes]
          /\ now.tokens = {} /\ now.deleted = n
      BY <1>4, <2>5, <2>6 DEF CleanHonest
    <2>8. CleanHonest(now)
      BY <1>5, <2>5, <2>7, HealthFacts DEF CleanHonest
    <2>9. CleanHonest(now)' /\ cleaning' = now
      BY <1>2, <2>1, <2>2, <2>4, <2>6, <2>8, HealthFacts, HonestStays
    <2>10. CleanHonest(cleaning)'
      BY <2>9
    <2>11. RowsHonest' /\ \A a \in Account : health'[a].deleted => health[a].deleted \/ a \in k.tokens
      BY <1>2, <2>1, DeletedHonest
    <2>12. OnlyCaused
      BY <1>4, <2>11 DEF OnlyCaused, Caused, CleanHonest
    <2> QED
      BY <1>1, <1>2, <2>10, <2>11, <2>12, HealthMoves
  <1>7. CASE Health!AutoCleanEnd
    <2>1. PICK now : now = Health!NoClean
      OBVIOUS
    <2>2. CleanHonest(now)
      BY <1>5, <2>1, HealthFacts DEF CleanHonest, Health!NoClean
    <2>3. CleanHonest(now)' /\ cleaning' = now
      BY <1>2, <1>7, <2>1, <2>2, HealthFacts, HonestStays DEF Health!AutoCleanEnd
    <2>4. CleanHonest(cleaning)'
      BY <2>3
    <2> QED
      BY <1>1, <1>2, <1>7, <2>4, HealthMoves, RowsAlone DEF Health!AutoCleanEnd
  <1> QED
    BY <1>6, <1>7

(* Time and the sessions' ends.                                              *)
LEMMA TimePasses ==
    ASSUME HealthInv, Health!Tick \/ \E a \in Account : Health!SessionEnds(a)
    PROVE  HealthInv' /\ OnlyCaused
  <1>1. CASE \E a \in Account : Health!SessionEnds(a)
    <2>1. /\ UNCHANGED <<deployment, health, marks, ssoPage, ssoBatch, ssoNext, cleaning, icSeen, ssoSeen,
                         disabledBy, healthOps>>
          /\ dead \subseteq dead' /\ dead' \subseteq dead \cup Account
      BY <1>1 DEF Health!SessionEnds
    <2>2. \A b \in Account : icSeen[b] \in Int /\ ssoSeen[b] \in Int
      BY HealthFacts DEF Evidence
    <2>3. Evidence' /\ Grows
      BY <2>1, <2>2, HealthFacts DEF Evidence, Grows
    <2> QED
      BY <2>1, <2>3, HealthMoves, RowsAlone
  <1>2. CASE Health!Tick
    <2>1. /\ UNCHANGED <<deployment, dead, ssoPage, ssoBatch, ssoNext, cleaning, icSeen, ssoSeen, disabledBy,
                         healthOps>>
          /\ health' = [a \in Account |-> [health[a] EXCEPT !.ext = Health!OlderExt(@)]]
          /\ marks' = [j \in MarkJob |-> [marks[j] EXCEPT !.ext = Health!OlderExt(@)]]
      BY <1>2 DEF Health!Tick
    <2>2. Evidence' /\ Grows
      BY <2>1, SeenStays
    <2>3. ASSUME NEW a \in Account PROVE RowHonest(a, health[a])' /\ health'[a].deleted = health[a].deleted
      <3>1. PICK r : r = health[a]
        OBVIOUS
      <3>2. RowHonest(a, r) /\ r.ext \in Health!Ext /\ ExtHonest(a, r.ext)
        BY <3>1, HealthFacts DEF RowHonest
      <3>3. PICK ext : ext = Health!OlderExt(r.ext)
        OBVIOUS
      <3>4. ext \in Health!Ext /\ ExtHonest(a, ext)
        BY <3>2, <3>3, OlderHonest
      <3>5. PICK new : new = [r EXCEPT !.ext = ext]
        OBVIOUS
      <3>6. RowHonest(a, new) /\ new.deleted = r.deleted
        BY <3>2, <3>4, <3>5 DEF RowHonest
      <3>7. RowHonest(a, new)'
        BY <2>2, <3>6, HealthFacts, HonestStays
      <3>8. health'[a] = new
        BY <2>1, <3>1, <3>3, <3>5
      <3> QED
        BY <3>1, <3>6, <3>7, <3>8
    <2>4. ASSUME NEW j \in MarkJob PROVE MarkHonest(marks[j])'
      <3>1. PICK m : m = marks[j]
        OBVIOUS
      <3>2. MarkHonest(m) /\ m.ext \in Health!Ext
        BY <3>1, HealthFacts DEF MarkHonest
      <3>3. PICK ext : ext = Health!OlderExt(m.ext)
        OBVIOUS
      <3>4. ext \in Health!Ext /\ ext.ic = m.ext.ic
        BY <3>2, <3>3, OlderHonest
      <3>5. PICK new : new = [m EXCEPT !.ext = ext]
        OBVIOUS
      <3>6. new \in [kind : MarkKinds, a : Account \cup {Absent}, ext : Health!Ext]
            /\ new.kind = m.kind /\ new.a = m.a /\ new.ext = ext
        BY <3>2, <3>4, <3>5 DEF MarkHonest
      <3>7. m.kind # "idle" => m.a \in Account /\ ExtHonest(m.a, ext)
        BY <3>2, <3>3, OlderHonest DEF MarkHonest
      <3>8. MarkHonest(new)
        BY <3>2, <3>4, <3>6, <3>7 DEF MarkHonest
      <3>9. MarkHonest(new)'
        BY <2>2, <3>8, HealthFacts, HonestStays
      <3>10. marks'[j] = new
        BY <2>1, <3>1, <3>3, <3>5
      <3> QED
        BY <3>9, <3>10
    <2>5. RowsHonest' /\ MarksHonest'
      BY <2>1, <2>3, <2>4 DEF RowsHonest, MarksHonest
    <2> QED
      BY <2>1, <2>2, <2>3, <2>5, HealthMoves DEF OnlyCaused
  <1> QED
    BY <1>1, <1>2

LEMMA HealthInit == Health!Init => HealthInv
  <1> SUFFICES ASSUME Health!Init PROVE HealthInv
    OBVIOUS
  <1>0. /\ IcThreshold \in Nat /\ SsoMaxFailures \in Nat /\ MaxDeletes \in Nat /\ Absent \notin Int
        /\ IsFiniteSet(Account)
    BY SharedAssumption
  <1>1. /\ deployment \in Deployments /\ dead = {} /\ disabledBy = {} /\ healthOps = 0
        /\ icSeen = [a \in Account |-> 0] /\ ssoSeen = [a \in Account |-> 0]
        /\ health = [a \in Account |-> Health!Upserted]
        /\ marks = [j \in MarkJob |-> Health!Idle]
        /\ ssoPage = 1 /\ ssoBatch = <<>> /\ ssoNext = Absent /\ cleaning = Health!NoClean
    BY DEF Health!Init
  <1>2. Evidence
    BY <1>0, <1>1, SharedAssumption DEF Evidence
  <1>3. Health!NoExt \in Health!Ext /\ \A a \in Account : ExtHonest(a, Health!NoExt)
    BY <1>0, <1>1 DEF Health!NoExt, Health!Ext, ExtHonest, Health!Count
  <1>4. RowsHonest
    BY <1>1, <1>3 DEF RowsHonest, RowHonest, Health!Upserted
  <1>5. MarksHonest
    BY <1>1, <1>3 DEF MarksHonest, MarkHonest, MarkKinds, Health!Idle
  <1>6. BatchHonest
    BY <1>1 DEF BatchHonest
  <1>7. PagesBound
    <2>1. Cardinality(Account) \in Nat
      BY <1>0, FS_CardinalityType
    <2> QED
      BY <1>1, <2>1 DEF PagesBound
  <1>8. CleanHonest(cleaning)
    <2>1. Cardinality({}) = 0
      BY FS_EmptySet
    <2> QED
      BY <1>0, <1>1, <2>1 DEF CleanHonest, Health!NoClean
  <1> QED
    BY <1>2, <1>4, <1>5, <1>6, <1>7, <1>8 DEF HealthInv

LEMMA HealthStep == ASSUME HealthInv, Health!Next PROVE HealthInv' /\ OnlyCaused
  <1>0. deployment.jobs \subseteq MarkJob /\ deployment.accounts \subseteq Account
    BY HealthFacts
  <1>1. ASSUME NEW j \in deployment.jobs,
               \/ \E a \in deployment.accounts : Health!MarkRead(j, a)
               \/ Health!MarkPatch(j) \/ Health!MarkDelete(j) \/ Health!MarkAbandoned(j) \/ Health!TogglePatch(j)
               \/ \E a \in deployment.accounts, kin \in {"disable", "restore"} : Health!ToggleRead(j, a, kin)
        PROVE  HealthInv' /\ OnlyCaused
    <2>1. j \in MarkJob
      BY <1>0
    <2> QED
      BY <1>0, <1>1, <2>1, MarkReadKeeps, MarkPatchKeeps, MarkDeleteKeeps, TogglePatchKeeps, ToggleReadKeeps
  <1>8. ASSUME NEW j \in deployment.jobs, NEW a \in deployment.accounts, Health!SweepList(j, a)
        PROVE  HealthInv' /\ OnlyCaused
    BY <1>0, <1>8, SweepKeeps
  <1>9. ASSUME NEW j \in deployment.jobs, Health!RunAccountSSOSweep(j)
        PROVE  HealthInv' /\ OnlyCaused
    <2>1. marks[j].a \in Account /\ j \in MarkJob
      BY <1>0, <1>9, HealthFacts DEF Health!RunAccountSSOSweep, Health!SweepProbe, Health!SweepDelete, MarkHonest
    <2> QED
      BY <1>9, <2>1, SweepKeeps
  <1>2. ASSUME NEW a \in deployment.accounts, Health!ImportAccount(a) PROVE HealthInv' /\ OnlyCaused
    BY <1>0, <1>2, ImportKeeps
  <1>3. ASSUME NEW a \in Account,
               \/ \E answer \in {"ok", "terminal", "soft"} : Health!ProbeSSO(a, answer)
               \/ Health!RecordSSOSuccess(a) \/ Health!RecordSSOFailure(a)
               \/ Health!DeleteSSO(a) \/ Health!SSOStoreFault(a)
        PROVE  HealthInv' /\ OnlyCaused
    BY <1>3, ProbeKeeps, RecordKeeps, DeleteKeeps
  <1>4. CASE Health!ValidateSSOBatch \/ Health!FinishSSOBatch
    BY <1>4, BatchStarts, BatchEnds
  <1>5. CASE Health!AutoCleanExpired \/ Health!AutoCleanDisabled
    BY <1>5, CleanListKeeps DEF Health!AutoCleanExpired, Health!AutoCleanDisabled
  <1>6. CASE Health!AutoCleanDelete \/ Health!AutoCleanEnd
    BY <1>6, CleanDeleteKeeps
  <1>7. CASE Health!Tick \/ \E a \in Account : Health!SessionEnds(a)
    BY <1>7, TimePasses
  <1> QED
    BY <1>0, <1>1, <1>2, <1>3, <1>4, <1>5, <1>6, <1>7, <1>8, <1>9 DEF Health!Next

LEMMA HealthSound == HealthInv => Health!TypeOK
  <1> SUFFICES ASSUME HealthInv PROVE Health!TypeOK
    OBVIOUS
  <1>1. /\ health \in [Account -> [status : {"active", "expired", "disabled"}, deleted : BOOLEAN, ext : Health!Ext]]
        /\ marks \in [MarkJob -> [kind : MarkKinds,
                                  a : Account \cup {Absent}, ext : Health!Ext]]
        /\ \A j \in MarkJob : marks[j].kind # "idle" => marks[j].a \in Account
    BY HealthFacts DEF RowsHonest, RowHonest, MarksHonest, MarkHonest
  <1>2. /\ DOMAIN ssoBatch \subseteq Account
        /\ \A a \in DOMAIN ssoBatch :
              ssoBatch[a] \in [pc : {"probe", "ok", "soft", "terminal", "delete"}, sso : 0 .. SsoMaxFailures]
    BY HealthFacts DEF WorkHonest
  <1>3. /\ cleaning.tokens \subseteq Account /\ cleaning.deleted \in 0 .. MaxDeletes
        /\ cleaning.pc \in {"idle", "expired", "disabled"}
    BY HealthFacts DEF CleanHonest
  <1>4. Health!Cardinality(Account) = Cardinality(Account)
    BY DEF Health!Cardinality, Cardinality
  <1>5. /\ ssoPage \in 1 .. Health!Cardinality(Account) + 1
        /\ ssoNext \in {Absent} \cup 0 .. Health!Cardinality(Account) + 1
    BY <1>4 DEF HealthInv, PagesBound
  <1> QED
    BY <1>1, <1>2, <1>3, <1>5, HealthFacts DEF Health!TypeOK, Evidence, MarkKinds

-----------------------------------------------------------------------------
(* The account's invariants together, and what they say of each step.        *)
AccountInv == HealthInv /\ QuotaInv

LEMMA AccountInit == Init => AccountInv
  BY HealthInit, QuotaInit DEF Init, AccountInv

LEMMA AccountStep == AccountInv /\ [Next]_vars => AccountInv'
  <1> SUFFICES ASSUME AccountInv, [Next]_vars PROVE AccountInv'
    OBVIOUS
  <1>1. Health!Next \/ UNCHANGED healthVars
    BY DEF Next, InHealth, InQuota, InConfig, vars
  <1>2. [Quota!Next]_quotaVars
    BY DEF Next, InHealth, InQuota, InConfig, vars
  <1>3. UNCHANGED healthVars => HealthInv'
    BY DEF AccountInv, healthVars, HealthInv, Evidence, RowsHonest, RowHonest, ExtHonest, MarksHonest,
                MarkHonest, BatchHonest, WorkHonest, PagesBound, CleanHonest
  <1>4. HealthInv'
    BY <1>1, <1>3, HealthStep DEF AccountInv
  <1>5. QuotaInv'
    BY <1>2, QuotaStep DEF AccountInv
  <1> QED
    BY <1>4, <1>5 DEF AccountInv

(* No window promises more than its total, no use is lost, the flag of the   *)
(* on-demand refresh is held only as long as its call, and the records of    *)
(* validation and auto-clean keep to their bounds, for any number of calls   *)
(* and any order of their reads and patches (QuotaWindow, RefreshOnDemand,   *)
(* PatchAccounts).                                                           *)
THEOREM CountsKept == Spec => []CountsAreKept
  <1>1. AccountInv => CountsAreKept
    BY QuotaSound, HealthSound DEF AccountInv, CountsAreKept
  <1> QED
    BY <1>1, AccountInit, AccountStep, PTL DEF Spec

(* An account is deleted only for what upstream or the operator did to it,   *)
(* although every activity writes rows it read before, and only an import,   *)
(* with the windows of a basic account, brings it back (DeleteAccounts,      *)
(* UpsertAccounts).                                                          *)
THEOREM StatusHasCause == Spec => StatusForCause
  <1> DEFINE FromNothing == row.deleted /\ ~row'.deleted =>
                  row'.pool = "basic"
                  /\ row'.quota = [mode \in {"fast", "console"} |-> Quota!DefaultWindow("basic", mode)]
  <1>1. AccountInv /\ [Next]_vars => [Health!DeletionHasCause]_(Health!vars) /\ [FromNothing]_(Quota!vars)
    <2> SUFFICES ASSUME AccountInv, [Next]_vars
                 PROVE  [Health!DeletionHasCause]_(Health!vars) /\ [FromNothing]_(Quota!vars)
      OBVIOUS
    <2>1. Health!Next \/ UNCHANGED Health!vars
      BY DEF Next, InHealth, InQuota, InConfig, vars, healthVars, Health!vars
    <2>2. Quota!Next \/ UNCHANGED Quota!vars
      BY DEF Next, InHealth, InQuota, InConfig, vars, quotaVars, Quota!vars
    <2>3. Health!Next => Health!DeletionHasCause
      <3>1. Health!Next => OnlyCaused
        BY HealthStep DEF AccountInv
      <3> QED
        BY <3>1 DEF OnlyCaused, Caused, Health!DeletionHasCause
    <2>4. Quota!Next => FromNothing
      BY RevivedByImport DEF AccountInv, Revived
    <2> QED
      BY <2>1, <2>2, <2>3, <2>4
  <1>2. StatusForCause <=> [][Health!DeletionHasCause]_(Health!vars) /\ [][FromNothing]_(Quota!vars)
    BY DEF StatusForCause, Health!DeletedForCause, Quota!OnlyImportRevives
  <1> HIDE DEF FromNothing
  <1> QED
    BY <1>1, <1>2, AccountInit, AccountStep, PTL DEF Spec
=============================================================================
