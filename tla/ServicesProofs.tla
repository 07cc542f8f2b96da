--------------------------- MODULE ServicesProofs ---------------------------
(***************************************************************************)
(* What is proved of the services: the pace of the console calls, the      *)
(* catalogue of models, the clearances of the proxies and the replayed     *)
(* reasoning, for every number of callers, interval, cooldown, content of  *)
(* the catalogue, proxy, host, configuration, session and turn.            *)
(***************************************************************************)
EXTENDS Services, TLAPS, FiniteSetTheorems, WellFoundedInduction

-----------------------------------------------------------------------------
(* The pace.  The next turn is never nearer than what is missing of the      *)
(* interval since the last one, nor than the end of the cooldown.            *)
PacerInv ==
    /\ callers \in [Caller -> [pc : {"idle", "queue", "check", "sleep", "run", "delay"},
                               waited : 0 .. MaxWait, turns : 0 .. MaxTurns]]
    /\ holder \in Caller \cup {Nobody}
    /\ nextIn \in 0 .. Pacer!Higher(Interval, ConsoleCooldown)
    /\ sinceTurn \in 0 .. Interval /\ coolLeft \in 0 .. ConsoleCooldown
    /\ sinceTurn + nextIn >= Interval
    /\ coolLeft <= nextIn

LEMMA PacerInit == Pacer!Init => PacerInv
  BY PacerAssumption DEF Pacer!Init, PacerInv, Pacer!Higher

LEMMA PacerStep == ASSUME PacerInv, [Pacer!Next]_pacerVars PROVE PacerInv'
  <1> USE PacerAssumption DEF PacerInv, Pacer!Higher, Pacer!Lower, Pacer!Goto, Pacer!Free
  <1>1. CASE UNCHANGED pacerVars
    BY <1>1 DEF pacerVars
  <1>2. CASE Pacer!Tick
    BY <1>2 DEF Pacer!Tick
  <1>3. ASSUME NEW c \in Caller, Pacer!Wait(c) PROVE PacerInv'
    BY <1>3 DEF Pacer!Wait
  <1>4. ASSUME NEW c \in Caller, Pacer!Acquire(c) PROVE PacerInv'
    BY <1>4 DEF Pacer!Acquire
  <1>5. ASSUME NEW c \in Caller, Pacer!QueueTimeout(c) \/ Pacer!QueueBusy(c) \/ Pacer!Sleep(c) PROVE PacerInv'
    BY <1>5 DEF Pacer!QueueTimeout, Pacer!QueueBusy, Pacer!Sleep
  <1>6. ASSUME NEW c \in Caller, Pacer!Admit(c) PROVE PacerInv'
    BY <1>6 DEF Pacer!Admit, Pacer!Admitted
  <1>7. ASSUME NEW c \in Caller, Pacer!RunEnds(c) \/ Pacer!Delay(c) \/ Pacer!Cancel(c) PROVE PacerInv'
    BY <1>7 DEF Pacer!RunEnds, Pacer!Delay, Pacer!Cancel
  <1> QED
    BY <1>1, <1>2, <1>3, <1>4, <1>5, <1>6, <1>7 DEF Pacer!Next, Pacer!Progress

(* Only an admission is a turn, and it finds the next turn due.              *)
LEMMA TurnsAreDue ==
    ASSUME PacerInv, [Pacer!Next]_pacerVars, NEW c \in Caller, Pacer!Turn(c)
    PROVE  sinceTurn = Interval /\ coolLeft = 0
  <1> USE PacerAssumption DEF PacerInv, Pacer!Turn, Pacer!Goto
  <1>1. ASSUME NEW d \in Caller, Pacer!Admit(d) PROVE nextIn = 0
    BY <1>1 DEF Pacer!Admit
  <1>2. \E d \in Caller : Pacer!Admit(d)
    BY DEF pacerVars, Pacer!Next, Pacer!Progress, Pacer!Tick, Pacer!Wait, Pacer!Acquire,
           Pacer!QueueTimeout, Pacer!QueueBusy, Pacer!Sleep, Pacer!RunEnds, Pacer!Delay, Pacer!Cancel
  <1> QED
    BY <1>1, <1>2 DEF Pacer!Higher

(* Two admissions of a console model are an interval apart, and none falls    *)
(* into a cooldown, whatever the callers that wait, give up and are          *)
(* cancelled do in between (Wait, Delay).                                    *)
THEOREM Pace == Spec => PaceHolds
  <1>1. Init => PacerInv
    BY PacerInit DEF Init
  <1>2. [Next]_vars => [Pacer!Next]_pacerVars
    BY DEF Next, vars, InLeader, InProxy, InModels, InPacer, InReplay
  <1>3. PacerInv /\ [Next]_vars => PacerInv'
    BY <1>2, PacerStep
  <1>4. PacerInv => Pacer!TypeOK
    BY DEF PacerInv, Pacer!TypeOK
  <1>5. PacerInv /\ [Next]_vars => [(\E c \in Caller : Pacer!Turn(c)) => sinceTurn = Interval]_pacerVars
    BY <1>2, TurnsAreDue
  <1>6. PacerInv /\ [Next]_vars => [(\E c \in Caller : Pacer!Turn(c)) => coolLeft = 0]_pacerVars
    BY <1>2, TurnsAreDue
  <1> QED
    BY <1>1, <1>3, <1>4, <1>5, <1>6, PTL
    DEF Spec, PaceHolds, Pacer!PaceHolds, Pacer!TurnsAreSpaced, Pacer!CooldownHolds,
        Pacer!vars, pacerVars

-----------------------------------------------------------------------------
(* The catalogue.  An answer in hand is a failure or the names of a          *)
(* catalogue the console has offered, so a cache that was ever filled holds  *)
(* such names; until then clients have only seen the static models.          *)
Offered == {Models!Names(catalogue) : catalogue \in Catalogues}
Answer == Offered \cup {Failed}

ListerType == [pc : {"idle", "fetch", "store"}, since : 0 .. TTL, got : Answer,
               listed : SUBSET (Static \cup Models!AllNames)]

ModelsTypeOK ==
    /\ offered \in Catalogues /\ changes \in 0 .. MaxChanges
    /\ expiresIn \in 0 .. TTL /\ refreshing \in BOOLEAN
    /\ background \in [pc : {"none", "fetch", "store"}, got : Answer]
    /\ listers \in [Lister -> ListerType]

CacheIsOffered ==
    \/ modelCache \in Offered
    \/ modelCache = {} /\ \A l \in Lister : listers[l].listed \subseteq Static

ModelsInv == ModelsTypeOK /\ CacheIsOffered /\ Models!OneRefresh

(* What a cache filled from a catalogue contains.                            *)
LEMMA OfferedNames ==
    ASSUME NEW names \in Offered
    PROVE  /\ names \subseteq Models!AllNames
           /\ {n \in Models!AllNames : \A c \in Catalogues : n \in Models!Names(c)} \subseteq names
  <1>1. PICK c \in Catalogues : names = Models!Names(c)
    BY DEF Offered
  <1> QED
    BY <1>1 DEF Models!AllNames

LEMMA ModelsSafe == ModelsInv => CatalogueIsKept
  <1> SUFFICES ASSUME ModelsInv PROVE CatalogueIsKept
    OBVIOUS
  <1> DEFINE always == {n \in Models!AllNames : \A c \in Catalogues : n \in Models!Names(c)}
  <1>1. modelCache \subseteq Models!AllNames
    BY OfferedNames DEF ModelsInv, CacheIsOffered
  <1>2. Models!TypeOK
    BY <1>1 DEF ModelsInv, ModelsTypeOK, ListerType, Models!TypeOK
  <1>3. CASE modelCache \in Offered
    <2>1. always \subseteq modelCache
      BY <1>3, OfferedNames
    <2>2. Models!ListedStays
      BY <2>1 DEF Models!ListedStays, Models!Resolvable
    <2> QED
      BY <1>2, <2>2 DEF ModelsInv, CatalogueIsKept, Models!CatalogueIsKept
  <1>4. CASE \A l \in Lister : listers[l].listed \subseteq Static
    <2>1. Models!ListedStays
      BY <1>4 DEF Models!ListedStays, Models!Resolvable
    <2> QED
      BY <1>2, <2>1 DEF ModelsInv, CatalogueIsKept, Models!CatalogueIsKept
  <1> QED
    BY <1>3, <1>4 DEF ModelsInv, CacheIsOffered

LEMMA ModelsInit == Models!Init => ModelsInv
  <1> SUFFICES ASSUME Models!Init PROVE ModelsInv
    OBVIOUS
  <1> USE ModelsAssumption DEF Models!Init, Models!NoRefresh
  <1>1. background \in [pc : {"none", "fetch", "store"}, got : Answer]
    BY DEF Answer
  <1>2. listers \in [Lister -> ListerType]
    BY DEF Answer, ListerType
  <1>3. changes \in 0 .. MaxChanges /\ expiresIn \in 0 .. TTL
    <2>1. changes = 0 /\ expiresIn = 0
      OBVIOUS
    <2> QED
      BY <2>1, ModelsAssumption
  <1>4. ModelsTypeOK
    BY <1>1, <1>2, <1>3, Zenon DEF ModelsTypeOK
  <1> QED
    BY <1>4 DEF ModelsInv, CacheIsOffered, Models!OneRefresh

(* What ListContext shows a client.                                          *)
LEMMA ShownNames ==
    ASSUME ModelsInv, NEW l \in Lister, NEW names, names = {} \/ names \in Offered,
           Models!Lists(l, names)
    PROVE  /\ listers' \in [Lister -> ListerType]
           /\ \A k \in Lister : listers'[k].listed = IF k = l THEN Static \cup names
                                                     ELSE listers[k].listed
  <1>1. Static \cup names \in SUBSET (Static \cup Models!AllNames)
    BY OfferedNames
  <1> QED
    BY <1>1 DEF ModelsInv, ModelsTypeOK, ListerType, Models!Lists

LEMMA ModelsStep == ASSUME ModelsInv, [Models!Next]_modelVars PROVE ModelsInv'
  <1> USE ModelsAssumption DEF ModelsInv, Models!OneRefresh, Models!NoRefresh
  <1>1. CASE UNCHANGED modelVars
    BY <1>1 DEF modelVars, ModelsTypeOK, CacheIsOffered
  <1>2. ASSUME NEW l \in Lister, Models!ListFresh(l) \/ Models!ListStale(l) PROVE ModelsInv'
    <2>1. modelCache = {} \/ modelCache \in Offered
      BY DEF CacheIsOffered
    <2>2. Models!Lists(l, modelCache) /\ UNCHANGED <<offered, modelCache, expiresIn, changes>>
      BY <1>2 DEF Models!ListFresh, Models!ListStale
    <2>3. CacheIsOffered'
      BY <2>1, <2>2, ShownNames DEF CacheIsOffered
    <2>4. listers' \in [Lister -> ListerType]
      BY <2>1, <2>2, ShownNames
    <2>5. \/ UNCHANGED <<background, refreshing>>
          \/ background' = [pc |-> "fetch", got |-> Failed] /\ refreshing' = TRUE
          \/ background' = background /\ refreshing' = TRUE /\ refreshing
      BY <1>2 DEF Models!ListFresh, Models!ListStale, ModelsTypeOK
    <2>6. /\ background' \in [pc : {"none", "fetch", "store"}, got : Answer]
          /\ refreshing' \in BOOLEAN /\ (refreshing <=> background.pc # "none")'
      <3>1. [pc |-> "fetch", got |-> Failed] \in [pc : {"none", "fetch", "store"}, got : Answer]
        BY DEF Answer
      <3>2. background \in [pc : {"none", "fetch", "store"}, got : Answer] /\ refreshing \in BOOLEAN
        BY DEF ModelsTypeOK
      <3>3. CASE UNCHANGED <<background, refreshing>>
        BY <3>2, <3>3, Zenon
      <3>4. CASE background' = [pc |-> "fetch", got |-> Failed] /\ refreshing' = TRUE
        BY <3>1, <3>4
      <3>5. CASE background' = background /\ refreshing' = TRUE /\ refreshing
        BY <3>2, <3>5, Zenon
      <3> QED
        BY <2>5, <3>3, <3>4, <3>5
    <2> QED
      BY <2>2, <2>3, <2>4, <2>6 DEF ModelsTypeOK
  <1>3. ASSUME NEW l \in Lister, Models!ListEmpty(l) PROVE ModelsInv'
    BY <1>3 DEF Models!ListEmpty, ModelsTypeOK, ListerType, CacheIsOffered
  <1>4. ASSUME NEW l \in Lister, NEW got \in Models!Answers, Models!Fetch(l, got) PROVE ModelsInv'
    <2>1. got \in Answer
      BY DEF Models!Answers, Answer, Offered, ModelsTypeOK
    <2> QED
      BY <1>4, <2>1 DEF Models!Fetch, ModelsTypeOK, ListerType, CacheIsOffered
  <1>5. ASSUME NEW l \in Lister, Models!Store(l) PROVE ModelsInv'
    <2>1. listers[l].got \in Answer /\ listers[l].since \in 0 .. TTL
      BY DEF ModelsTypeOK, ListerType
    <2>2. modelCache' = {} \/ modelCache' \in Offered
      BY <1>5, <2>1 DEF Models!Store, Answer, CacheIsOffered
    <2>3. Static \cup modelCache' \in SUBSET (Static \cup Models!AllNames)
      BY <2>2, OfferedNames
    <2>4. expiresIn' \in 0 .. TTL
      BY <1>5, <2>1 DEF Models!Store, Models!Minus
    <2>5. listers' \in [Lister -> ListerType]
      BY <1>5, <2>3 DEF Models!Store, ModelsTypeOK, ListerType, Answer
    <2>6. ModelsTypeOK'
      BY <1>5, <2>4, <2>5 DEF Models!Store, ModelsTypeOK
    <2>7. CacheIsOffered'
      BY <1>5, <2>1 DEF Models!Store, ModelsTypeOK, Answer, CacheIsOffered
    <2> QED
      BY <1>5, <2>6, <2>7 DEF Models!Store
  <1>6. ASSUME NEW got \in Models!Answers, Models!BackgroundFetch(got) PROVE ModelsInv'
    <2>1. got \in Answer
      BY DEF Models!Answers, Answer, Offered, ModelsTypeOK
    <2> QED
      BY <1>6, <2>1 DEF Models!BackgroundFetch, ModelsTypeOK, CacheIsOffered
  <1>7. CASE Models!BackgroundStore
    <2>1. /\ background' = [pc |-> "none", got |-> Failed] /\ refreshing' = FALSE
          /\ UNCHANGED <<offered, listers, changes>>
      BY <1>7 DEF Models!BackgroundStore
    <2>2. expiresIn' \in 0 .. TTL
      BY <1>7 DEF Models!BackgroundStore
    <2>3. modelCache' = modelCache \/ modelCache' \in Offered
      BY <1>7 DEF Models!BackgroundStore, ModelsTypeOK, Answer
    <2>4. ModelsTypeOK'
      BY <2>1, <2>2 DEF ModelsTypeOK, Answer
    <2> QED
      BY <2>1, <2>3, <2>4 DEF CacheIsOffered
  <1>8. CASE Models!Tick
    <2>1. ASSUME NEW l \in Lister
          PROVE  listers'[l] \in ListerType /\ listers'[l].listed = listers[l].listed
      <3>1. listers[l] \in ListerType /\ TTL \in Nat
        BY DEF ModelsTypeOK
      <3>2. CASE listers[l].pc = "idle" \/ listers[l].since = TTL
        BY <1>8, <3>1, <3>2 DEF Models!Tick
      <3>3. CASE ~(listers[l].pc = "idle" \/ listers[l].since = TTL)
        <4>1. listers'[l] = [listers[l] EXCEPT !.since = listers[l].since + 1]
          BY <1>8, <3>3 DEF Models!Tick
        <4> QED
          BY <4>1, <3>1, <3>3 DEF ListerType
      <3> QED
        BY <3>2, <3>3
    <2>2. listers' \in [Lister -> ListerType]
      BY <1>8, <2>1 DEF Models!Tick
    <2>3. expiresIn' \in 0 .. TTL
      BY <1>8 DEF Models!Tick, Models!Minus, ModelsTypeOK
    <2> QED
      BY <1>8, <2>1, <2>2, <2>3 DEF Models!Tick, ModelsTypeOK, CacheIsOffered
  <1>9. ASSUME NEW catalogue \in Catalogues, Models!ConsoleChanges(catalogue) PROVE ModelsInv'
    BY <1>9 DEF Models!ConsoleChanges, ModelsTypeOK, CacheIsOffered
  <1> QED
    BY <1>1, <1>2, <1>3, <1>4, <1>5, <1>6, <1>7, <1>8, <1>9
    DEF Models!Next, Models!ListStep, Models!BackgroundStep

(* The refreshing flag is set exactly while a refresh runs, and a model that *)
(* every catalogue offers and a client was shown stays resolvable, whatever  *)
(* fetches fail or arrive late.                                              *)
THEOREM Catalogue == Spec => []CatalogueIsKept
  <1>1. Init => ModelsInv
    BY ModelsInit DEF Init
  <1>2. ModelsInv /\ [Next]_vars => ModelsInv'
    BY ModelsStep DEF Next, vars, InLeader, InProxy, InModels, InPacer, InReplay
  <1> QED
    BY <1>1, <1>2, ModelsSafe, PTL DEF Spec

-----------------------------------------------------------------------------
(* The clearances.  A refresh that no Load has forgotten is the one its key  *)
(* names, whoever waits waits for a process that is refreshing, a valid      *)
(* clearance was not challenged, and a client that has not asked the solver  *)
(* itself holds none that was.                                               *)
Egress == {"direct", "single_proxy", "proxy_pool"}
Clearance == {"none", "manual", "flaresolverr", "byparr"}
Bundle == [state : {"valid", "stale", "invalid"}, usable : BOOLEAN, reported : BOOLEAN]
ProcType == [pc : {"idle", "pick", "state", "wait", "solve", "finish", "failing", "leased", "warm", "sleep", "refresh"},
             mode : Clearance, key : Proxy!Key, event : Proxy!Proc \cup {NoEvent}, todo : SUBSET Proxy!Key,
             resource : BOOLEAN, report : BOOLEAN]
Flying == {"solve", "finish", "failing"}
NotYet == {"pick", "state", "wait"}

DirectoryType ==
    /\ setting \in Settings
    /\ directory \in [egress : Egress, clearance : Clearance, pool : Seq(STRING), resources : Seq(STRING),
                      cursor : Nat, loaded : Settings \cup {NoBundle}]
    /\ \A i \in DOMAIN directory.pool : directory.pool[i] \in Proxy!Affinity
    /\ \A i \in DOMAIN directory.resources : directory.resources[i] \in Proxy!Affinity
BackoffType ==
    /\ backoff \in [Proxy!Key -> 0 .. MaxCooldown \cup 0 .. HalfOpen]
    /\ failures \in [Proxy!Key -> 0 .. MaxFailures]
ValidIsUnreported ==
    /\ bundles \in [Proxy!Key -> {NoBundle} \cup Bundle]
    /\ \A k \in Proxy!Key : Proxy!Valid(k) => ~bundles[k].reported
FlightsAreKnown ==
    /\ events \in [Proxy!Key -> Proxy!Proc \cup {NoEvent}]
    /\ procs \in [Proxy!Proc -> ProcType]
    /\ \A k \in Proxy!Key : events[k] # NoEvent => procs[events[k]].pc \in Flying /\ procs[events[k]].key = k
    /\ \A p \in Proxy!Proc : procs[p].pc \in Flying /\ procs[p].key \notin gone => events[procs[p].key] = p
    /\ \A p \in Proxy!Proc : procs[p].pc = "wait" =>
          procs[p].event \in Proxy!Proc /\ procs[procs[p].event].pc \in Flying
    /\ \A c \in Client : procs[c].pc \in NotYet => ~procs[c].report
ProxyInv == DirectoryType /\ BackoffType /\ ValidIsUnreported /\ FlightsAreKnown

LEMMA KeyFacts ==
    /\ Scheduler \in Proxy!Proc /\ Client \subseteq Proxy!Proc /\ NoEvent \notin Proxy!Proc
    /\ "direct" \in Proxy!Affinity
    /\ \A a \in Proxy!Affinity, h \in Host : <<a, h>> \in Proxy!Key
    /\ DefaultHost \in Host
    /\ \A s \in Settings : /\ s.pool \in Seq(STRING) /\ s.resources \in Seq(STRING)
                           /\ s.egress \in Egress /\ s.clearance \in Clearance
                           /\ \A i \in DOMAIN s.pool : s.pool[i] \in Proxy!Affinity
                           /\ \A i \in DOMAIN s.resources : s.resources[i] \in Proxy!Affinity
  <1>1. /\ Scheduler \in Proxy!Proc /\ Client \subseteq Proxy!Proc /\ NoEvent \notin Proxy!Proc
        /\ DefaultHost \in Host
    BY ProxyAssumption DEF Proxy!Proc
  <1>2. "direct" \in Proxy!Affinity
    BY DEF Proxy!Affinity
  <1>3. \A a \in Proxy!Affinity, h \in Host : <<a, h>> \in Proxy!Key
    BY DEF Proxy!Key
  <1>4. ASSUME NEW s \in Settings
        PROVE  /\ s.pool \in Seq(STRING) /\ s.resources \in Seq(STRING)
               /\ s.egress \in Egress /\ s.clearance \in Clearance
    BY ProxyAssumption DEF Egress, Clearance
  <1>5. ASSUME NEW s \in Settings, NEW a \in Proxy!ToSet(s.pool) \cup Proxy!ToSet(s.resources)
        PROVE  a \in Proxy!Affinity
    BY <1>5 DEF Proxy!Affinity
  <1>6. ASSUME NEW s \in Settings
        PROVE  /\ \A i \in DOMAIN s.pool : s.pool[i] \in Proxy!Affinity
               /\ \A i \in DOMAIN s.resources : s.resources[i] \in Proxy!Affinity
    BY <1>5 DEF Proxy!ToSet
  <1> QED
    BY <1>1, <1>2, <1>3, <1>4, <1>6

LEMMA IdleIsTyped == Proxy!Idle \in ProcType
  <1>1. <<"direct", DefaultHost>> \in Proxy!Key
    BY KeyFacts
  <1> QED
    BY <1>1 DEF Proxy!Idle, ProcType, Clearance

LEMMA ProxyInit == Proxy!Init => ProxyInv
  <1> SUFFICES ASSUME Proxy!Init PROVE ProxyInv
    OBVIOUS
  <1>1. DirectoryType
    BY DEF Proxy!Init, DirectoryType, Egress, Clearance
  <1>2. BackoffType
    BY ProxyAssumption DEF Proxy!Init, BackoffType
  <1>3. ValidIsUnreported
    BY DEF Proxy!Init, ValidIsUnreported, Proxy!Valid, Proxy!Stored
  <1>4. FlightsAreKnown
    <2>1. procs \in [Proxy!Proc -> ProcType] /\ \A p \in Proxy!Proc : procs[p].pc = "idle"
      BY IdleIsTyped DEF Proxy!Init, Proxy!Idle
    <2> QED
      BY <2>1, KeyFacts DEF Proxy!Init, FlightsAreKnown, Flying, NotYet
  <1> QED
    BY <1>1, <1>2, <1>3, <1>4 DEF ProxyInv

-----------------------------------------------------------------------------
(* What the steps share. *)

(* The step of one process.                                                  *)
Moves(p) == procs' \in [Proxy!Proc -> ProcType] /\ \A q \in Proxy!Proc \ {p} : procs'[q] = procs[q]
(* A Load at most forgets refreshes, and remembers which.                    *)
Forgets ==
    /\ events' \in [Proxy!Key -> Proxy!Proc \cup {NoEvent}] /\ gone \subseteq gone'
    /\ \A k \in Proxy!Key : events'[k] = events[k] \/ (events'[k] = NoEvent /\ k \in gone')

LEMMA NothingForgotten == ASSUME FlightsAreKnown, UNCHANGED <<events, gone>> PROVE Forgets
  BY DEF FlightsAreKnown, Forgets

LEMMA KeepsFlights ==
    ASSUME FlightsAreKnown, Forgets, NEW p \in Proxy!Proc, Moves(p),
           procs[p].pc \notin Flying, procs'[p].pc \notin Flying,
           procs'[p].pc = "wait" => procs'[p].event \in Proxy!Proc /\ procs[procs'[p].event].pc \in Flying,
           p \in Client /\ procs'[p].pc \in NotYet => ~procs'[p].report
    PROVE  FlightsAreKnown'
  <1>1. events' \in [Proxy!Key -> Proxy!Proc \cup {NoEvent}] /\ procs' \in [Proxy!Proc -> ProcType]
    BY DEF Forgets, Moves
  <1>2. \A q \in Proxy!Proc : procs[q].pc \in Flying => procs'[q] = procs[q]
    BY DEF Moves
  <1>3. ASSUME NEW k \in Proxy!Key, events'[k] # NoEvent
        PROVE  procs'[events'[k]].pc \in Flying /\ procs'[events'[k]].key = k
    BY <1>2, <1>3 DEF FlightsAreKnown, Forgets
  <1>4. ASSUME NEW q \in Proxy!Proc, procs'[q].pc \in Flying, procs'[q].key \notin gone'
        PROVE  events'[procs'[q].key] = q
    <2>1. q # p /\ procs'[q] = procs[q]
      BY <1>4 DEF Moves
    <2>2. procs[q].key \in Proxy!Key
      BY DEF FlightsAreKnown, ProcType
    <2> QED
      BY <1>4, <2>1, <2>2 DEF FlightsAreKnown, Forgets
  <1>5. ASSUME NEW q \in Proxy!Proc, procs'[q].pc = "wait"
        PROVE  procs'[q].event \in Proxy!Proc /\ procs'[procs'[q].event].pc \in Flying
    BY <1>2, <1>5 DEF FlightsAreKnown, Moves
  <1>6. ASSUME NEW c \in Client, procs'[c].pc \in NotYet PROVE ~procs'[c].report
    BY <1>6, KeyFacts DEF FlightsAreKnown, Moves
  <1> QED
    BY <1>1, <1>3, <1>4, <1>5, <1>6 DEF FlightsAreKnown

(* Load.                                                                     *)
LEMMA NodesAreTyped ==
    ASSUME NEW s \in Settings
    PROVE  /\ Proxy!BuildEgressNodes(s) \in [pool : Seq(STRING), resources : Seq(STRING)]
           /\ \A i \in DOMAIN Proxy!BuildEgressNodes(s).pool : Proxy!BuildEgressNodes(s).pool[i] \in Proxy!Affinity
           /\ \A i \in DOMAIN Proxy!BuildEgressNodes(s).resources :
                 Proxy!BuildEgressNodes(s).resources[i] \in Proxy!Affinity
  <1>1. ASSUME NEW t \in Seq(STRING), \A i \in DOMAIN t : t[i] \in Proxy!Affinity
        PROVE  /\ Proxy!First(t) \in Seq(STRING)
               /\ \A i \in DOMAIN Proxy!First(t) : Proxy!First(t)[i] \in Proxy!Affinity
    <2>1. CASE t = <<>>
      BY <2>1 DEF Proxy!First
    <2>2. CASE t # <<>>
      <3>1. t[1] \in STRING /\ 1 \in DOMAIN t
        BY <2>2
      <3> QED
        BY <1>1, <2>2, <3>1 DEF Proxy!First
    <2> QED
      BY <2>1, <2>2
  <1>2. <<>> \in Seq(STRING) /\ DOMAIN <<>> = {}
    OBVIOUS
  <1>3. CASE s.egress = "single_proxy"
    BY <1>1, <1>3, KeyFacts DEF Proxy!BuildEgressNodes
  <1>4. CASE s.egress = "proxy_pool"
    BY <1>4, KeyFacts DEF Proxy!BuildEgressNodes
  <1>5. CASE s.egress \notin {"single_proxy", "proxy_pool"}
    BY <1>2, <1>5 DEF Proxy!BuildEgressNodes
  <1> QED
    BY <1>3, <1>4, <1>5

LEMMA LoadStep ==
    ASSUME ProxyInv, Proxy!Load, setting' = setting
    PROVE  DirectoryType' /\ BackoffType' /\ ValidIsUnreported' /\ Forgets
  <1>1. CASE UNCHANGED <<directory, bundles, events, backoff, failures, gone>>
    <2>1. Forgets
      BY <1>1, NothingForgotten DEF ProxyInv
    <2>2. DirectoryType' /\ BackoffType'
      BY <1>1 DEF ProxyInv, DirectoryType, BackoffType
    <2>3. ValidIsUnreported'
      BY <1>1 DEF ProxyInv, ValidIsUnreported, Proxy!Valid, Proxy!Stored
    <2> QED
      BY <2>1, <2>2, <2>3
  <1>2. CASE directory.loaded # setting
    <2> DEFINE keep == Proxy!ValidAffinities(setting) \X Host
               nodes == Proxy!BuildEgressNodes(setting)
    <2>a. directory' = [egress |-> setting.egress, clearance |-> setting.clearance, pool |-> nodes.pool,
                        resources |-> nodes.resources, cursor |-> 0, loaded |-> setting]
      BY <1>2 DEF Proxy!Load
    <2>b. bundles' = [k \in Proxy!Key |-> IF k \in keep /\ Proxy!Stored(k)
                                          THEN [bundles[k] EXCEPT !.state = "invalid"] ELSE NoBundle]
      BY <1>2 DEF Proxy!Load
    <2>c. /\ events' = [k \in Proxy!Key |-> IF k \in keep THEN events[k] ELSE NoEvent]
          /\ backoff' = [k \in Proxy!Key |-> IF k \in keep THEN backoff[k] ELSE 0]
          /\ failures' = [k \in Proxy!Key |-> IF k \in keep THEN failures[k] ELSE 0]
          /\ gone' = gone \cup {k \in Proxy!Key \ keep : events[k] # NoEvent}
      BY <1>2 DEF Proxy!Load
    <2> HIDE DEF keep
    <2>1. DirectoryType'
      <3>1. setting \in Settings
        BY DEF ProxyInv, DirectoryType
      <3> QED
        BY <2>a, <3>1, NodesAreTyped, KeyFacts DEF DirectoryType
    <2>2. BackoffType'
      BY <2>c, ProxyAssumption DEF ProxyInv, BackoffType
    <2>3. ValidIsUnreported'
      <3>1. ASSUME NEW k \in Proxy!Key
            PROVE  bundles'[k] \in {NoBundle} \cup Bundle /\ (bundles'[k] = NoBundle \/ bundles'[k].state = "invalid")
        <4>1. CASE k \in keep /\ Proxy!Stored(k)
          <5>1. bundles[k] \in Bundle
            BY <4>1 DEF ProxyInv, ValidIsUnreported, Proxy!Stored
          <5> QED
            BY <2>b, <4>1, <5>1 DEF Bundle
        <4>2. CASE ~(k \in keep /\ Proxy!Stored(k))
          BY <2>b, <4>2
        <4> QED
          BY <4>1, <4>2
      <3>2. bundles' = [k \in Proxy!Key |-> bundles'[k]]
        BY <2>b
      <3> QED
        BY <3>1, <3>2 DEF ValidIsUnreported, Proxy!Valid, Proxy!Stored
    <2>4. Forgets
      BY <2>c DEF ProxyInv, FlightsAreKnown, Forgets
    <2> QED
      BY <2>1, <2>2, <2>3, <2>4
  <1> QED
    BY <1>1, <1>2 DEF Proxy!Load

(* A request or the scheduler moves on, and what it reads stays.             *)
LEMMA ProcTyped ==
    ASSUME FlightsAreKnown, NEW p \in Proxy!Proc
    PROVE  /\ procs[p] \in ProcType /\ procs[p].key \in Proxy!Key /\ procs[p].report \in BOOLEAN
           /\ DOMAIN procs = Proxy!Proc
  BY DEF FlightsAreKnown, ProcType

LEMMA OthersRemain ==
    ASSUME ProxyInv, UNCHANGED <<setting, directory, backoff, failures>>
    PROVE  DirectoryType' /\ BackoffType'
  BY DEF ProxyInv, DirectoryType, BackoffType

LEMMA BundlesRemain == ASSUME ProxyInv, UNCHANGED bundles PROVE ValidIsUnreported'
  BY DEF ProxyInv, ValidIsUnreported, Proxy!Valid, Proxy!Stored

(* The steps of a request.                                                   *)
LEMMA RequestStep ==
    ASSUME ProxyInv, NEW c \in Client, NEW resource \in BOOLEAN, Proxy!Request(c, resource) PROVE ProxyInv'
  <1>1. DirectoryType' /\ BackoffType' /\ ValidIsUnreported' /\ Forgets
    BY LoadStep DEF Proxy!Request
  <1>2. c \in Proxy!Proc
    BY KeyFacts
  <1>3. procs' = [procs EXCEPT ![c] = [Proxy!Idle EXCEPT !.pc = "pick", !.resource = resource]] /\ procs[c].pc = "idle"
    BY DEF Proxy!Request, Proxy!At
  <1>4. /\ [Proxy!Idle EXCEPT !.pc = "pick", !.resource = resource] \in ProcType
        /\ [Proxy!Idle EXCEPT !.pc = "pick", !.resource = resource].pc = "pick"
        /\ [Proxy!Idle EXCEPT !.pc = "pick", !.resource = resource].report = FALSE
    BY IdleIsTyped DEF Proxy!Idle, ProcType
  <1>5. Moves(c) /\ procs'[c].pc = "pick" /\ procs'[c].report = FALSE
    BY <1>2, <1>3, <1>4 DEF Moves, ProxyInv, FlightsAreKnown
  <1> QED
    BY <1>1, <1>2, <1>3, <1>5, KeepsFlights DEF ProxyInv, Flying

LEMMA PickedProxy ==
    ASSUME DirectoryType, NEW resource \in BOOLEAN PROVE Proxy!PickProxyURL(resource) \in Proxy!Affinity
  <1> DEFINE nodes == IF resource /\ directory.resources # <<>> THEN directory.resources ELSE directory.pool
  <1>1. nodes \in Seq(STRING) /\ \A i \in DOMAIN nodes : nodes[i] \in Proxy!Affinity
    BY DEF DirectoryType
  <1>2. "direct" \in Proxy!Affinity
    BY KeyFacts
  <1>3. ASSUME nodes # <<>> PROVE nodes[1] \in Proxy!Affinity /\ nodes[(directory.cursor % Len(nodes)) + 1] \in Proxy!Affinity
    <2> HIDE DEF nodes
    <2>1. Len(nodes) \in Nat /\ Len(nodes) > 0 /\ DOMAIN nodes = 1 .. Len(nodes)
      BY <1>1, <1>3
    <2>2. directory.cursor % Len(nodes) \in 0 .. (Len(nodes) - 1)
      BY <2>1 DEF DirectoryType
    <2> QED
      BY <1>1, <2>1, <2>2
  <1>4. Proxy!PickProxyURL(resource) \in {"direct", nodes[1], nodes[(directory.cursor % Len(nodes)) + 1]}
    BY DEF Proxy!PickProxyURL
  <1>5. nodes = <<>> => Proxy!PickProxyURL(resource) = "direct"
    BY DEF Proxy!PickProxyURL
  <1> QED
    BY <1>2, <1>3, <1>4, <1>5

LEMMA AcquireStep ==
    ASSUME ProxyInv, NEW c \in Client, NEW h \in Host, Proxy!Acquire(c, h) PROVE ProxyInv'
  <1>1. DirectoryType' /\ BackoffType' /\ ValidIsUnreported' /\ Forgets
    BY OthersRemain, BundlesRemain, NothingForgotten DEF Proxy!Acquire, ProxyInv
  <1>2. c \in Proxy!Proc
    BY KeyFacts
  <1>3. PICK k \in Proxy!Key : procs' = [procs EXCEPT ![c].pc = "state", ![c].key = k]
    <2>1. procs[c].resource \in BOOLEAN
      BY <1>2 DEF ProxyInv, FlightsAreKnown, ProcType
    <2>2. <<Proxy!PickProxyURL(procs[c].resource), h>> \in Proxy!Key
      BY <2>1, PickedProxy, KeyFacts DEF ProxyInv
    <2> QED
      BY <2>2 DEF Proxy!Acquire
  <1>4. procs[c].pc = "pick" /\ procs[c] \in ProcType /\ ~procs[c].report
    BY <1>2, ProcTyped DEF Proxy!Acquire, Proxy!At, ProxyInv, FlightsAreKnown, NotYet
  <1>5. procs'[c] = [procs[c] EXCEPT !.pc = "state", !.key = k]
    BY <1>2, <1>3, ProcTyped DEF ProxyInv
  <1>6. Moves(c) /\ procs'[c].pc = "state" /\ procs'[c].report = procs[c].report
    BY <1>2, <1>3, <1>4, <1>5 DEF Moves, ProxyInv, FlightsAreKnown, ProcType
  <1> QED
    BY <1>1, <1>2, <1>4, <1>6, KeepsFlights DEF ProxyInv, Flying

LEMMA NoClearanceStep ==
    ASSUME ProxyInv, NEW p \in Proxy!Proc, Proxy!NoClearance(p) PROVE ProxyInv'
  <1>1. DirectoryType' /\ BackoffType' /\ ValidIsUnreported' /\ Forgets
    BY OthersRemain, BundlesRemain, NothingForgotten DEF Proxy!NoClearance, ProxyInv
  <1>2. PICK pc \in {"warm", "leased"} : procs' = [procs EXCEPT ![p].pc = pc]
    BY DEF Proxy!NoClearance, Proxy!After
  <1>3. procs[p].pc = "state" /\ procs[p] \in ProcType
    BY ProcTyped DEF Proxy!NoClearance, Proxy!At, ProxyInv
  <1>4. procs'[p] = [procs[p] EXCEPT !.pc = pc]
    BY <1>2, ProcTyped DEF ProxyInv
  <1>5. Moves(p) /\ procs'[p].pc = pc
    BY <1>2, <1>3, <1>4 DEF Moves, ProxyInv, FlightsAreKnown, ProcType
  <1> QED
    BY <1>1, <1>2, <1>3, <1>5, KeepsFlights DEF ProxyInv, Flying, NotYet

LEMMA TakeBundleStep ==
    ASSUME ProxyInv, NEW p \in Proxy!Proc, Proxy!TakeBundle(p) PROVE ProxyInv'
  <1>0. PICK k \in Proxy!Key : k = procs[p].key
    BY ProcTyped DEF ProxyInv
  <1>1. DirectoryType' /\ BackoffType' /\ Forgets
    BY OthersRemain, NothingForgotten DEF Proxy!TakeBundle, ProxyInv
  <1>2. bundles[k] \in Bundle
    BY <1>0 DEF Proxy!TakeBundle, Proxy!Valid, Proxy!CooldownBundle, Proxy!Stored, ProxyInv, ValidIsUnreported
  <1>3. ValidIsUnreported'
    <2>1. bundles' = bundles \/ bundles' = [bundles EXCEPT ![k].state = "stale"]
      BY <1>0 DEF Proxy!TakeBundle
    <2>2. CASE bundles' = [bundles EXCEPT ![k].state = "stale"]
      <3>1. bundles'[k] \in Bundle /\ bundles'[k].state = "stale"
        BY <1>2, <2>2 DEF ProxyInv, ValidIsUnreported, Bundle
      <3> QED
        BY <3>1, <2>2 DEF ProxyInv, ValidIsUnreported, Proxy!Valid, Proxy!Stored
    <2> QED
      BY <2>1, <2>2, BundlesRemain
  <1>4. PICK pc \in {"warm", "leased"} : procs' = [procs EXCEPT ![p].pc = pc, ![p].report = bundles[k].reported]
    BY <1>0 DEF Proxy!TakeBundle, Proxy!After
  <1>5. procs[p].pc = "state" /\ procs[p] \in ProcType /\ bundles[k].reported \in BOOLEAN
    BY <1>2, ProcTyped DEF Proxy!TakeBundle, Proxy!At, ProxyInv, Bundle
  <1>6. procs'[p] = [procs[p] EXCEPT !.pc = pc, !.report = bundles[k].reported]
    BY <1>4, ProcTyped DEF ProxyInv
  <1>7. Moves(p) /\ procs'[p].pc = pc
    BY <1>4, <1>5, <1>6 DEF Moves, ProxyInv, FlightsAreKnown, ProcType
  <1> QED
    BY <1>1, <1>3, <1>4, <1>5, <1>7, KeepsFlights DEF ProxyInv, Flying, NotYet

LEMMA BecomeWinnerStep ==
    ASSUME ProxyInv, NEW p \in Proxy!Proc, Proxy!BecomeWinner(p) PROVE ProxyInv'
  <1>0. PICK k \in Proxy!Key : k = procs[p].key
    BY ProcTyped DEF ProxyInv
  <1>1. DirectoryType' /\ BackoffType' /\ ValidIsUnreported'
    BY OthersRemain, BundlesRemain DEF Proxy!BecomeWinner, ProxyInv
  <1>2. PICK mode \in Clearance : procs' = [procs EXCEPT ![p].pc = "solve", ![p].event = p, ![p].mode = mode]
    BY DEF Proxy!BecomeWinner, ProxyInv, DirectoryType
  <1>3. procs[p].pc = "state" /\ procs[p] \in ProcType /\ events[k] = NoEvent /\ gone' = gone
    BY <1>0, ProcTyped DEF Proxy!BecomeWinner, Proxy!At, ProxyInv
  <1>4. procs'[p] = [procs[p] EXCEPT !.pc = "solve", !.event = p, !.mode = mode]
    BY <1>2, ProcTyped DEF ProxyInv
  <1>5. Moves(p) /\ procs'[p].pc = "solve" /\ procs'[p].key = k
    BY <1>0, <1>2, <1>3, <1>4 DEF Moves, ProxyInv, FlightsAreKnown, ProcType
  <1>6. events' = [events EXCEPT ![k] = p] /\ events \in [Proxy!Key -> Proxy!Proc \cup {NoEvent}]
    BY <1>0 DEF Proxy!BecomeWinner, ProxyInv, FlightsAreKnown
  <1>7. p # NoEvent
    BY KeyFacts
  <1>8. FlightsAreKnown'
    <2>1. events' \in [Proxy!Key -> Proxy!Proc \cup {NoEvent}] /\ procs' \in [Proxy!Proc -> ProcType]
      BY <1>5, <1>6 DEF Moves
    <2>2. ASSUME NEW j \in Proxy!Key, events'[j] # NoEvent
          PROVE  procs'[events'[j]].pc \in Flying /\ procs'[events'[j]].key = j
      BY <1>3, <1>5, <1>6, <2>2 DEF ProxyInv, FlightsAreKnown, Moves, Flying
    <2>3. ASSUME NEW q \in Proxy!Proc, procs'[q].pc \in Flying, procs'[q].key \notin gone'
          PROVE  events'[procs'[q].key] = q
      <3>1. CASE q = p
        BY <1>5, <1>6, <3>1
      <3>2. CASE q # p
        <4>1. procs'[q] = procs[q] /\ procs[q].key \in Proxy!Key /\ events[procs[q].key] = q
          BY <1>3, <1>5, <2>3, <3>2, ProcTyped DEF ProxyInv, FlightsAreKnown, Moves
        <4>2. q # NoEvent
          BY KeyFacts
        <4> QED
          BY <1>3, <1>6, <4>1, <4>2
      <3> QED
        BY <3>1, <3>2
    <2>4. ASSUME NEW q \in Proxy!Proc, procs'[q].pc = "wait"
          PROVE  procs'[q].event \in Proxy!Proc /\ procs'[procs'[q].event].pc \in Flying
      BY <1>3, <1>5, <2>4 DEF ProxyInv, FlightsAreKnown, Moves, Flying
    <2>5. ASSUME NEW c \in Client, procs'[c].pc \in NotYet PROVE ~procs'[c].report
      BY <1>5, <2>5, KeyFacts DEF ProxyInv, FlightsAreKnown, Moves, NotYet
    <2> QED
      BY <2>1, <2>2, <2>3, <2>4, <2>5 DEF FlightsAreKnown
  <1> QED
    BY <1>1, <1>8 DEF ProxyInv

LEMMA WaitStep ==
    ASSUME ProxyInv, NEW p \in Proxy!Proc, Proxy!WaitForWinner(p) PROVE ProxyInv'
  <1>0. PICK k \in Proxy!Key : k = procs[p].key
    BY ProcTyped DEF ProxyInv
  <1>1. DirectoryType' /\ BackoffType' /\ ValidIsUnreported' /\ Forgets
    BY OthersRemain, BundlesRemain, NothingForgotten DEF Proxy!WaitForWinner, ProxyInv
  <1>2. events[k] \in Proxy!Proc /\ procs[events[k]].pc \in Flying
    BY <1>0 DEF Proxy!WaitForWinner, ProxyInv, FlightsAreKnown
  <1>3. procs[p].pc = "state" /\ procs[p] \in ProcType /\ (p \in Client => ~procs[p].report)
    BY ProcTyped DEF Proxy!WaitForWinner, Proxy!At, ProxyInv, FlightsAreKnown, NotYet
  <1>4. procs' = [procs EXCEPT ![p].pc = "wait", ![p].event = events[k]]
    BY <1>0 DEF Proxy!WaitForWinner
  <1>5. procs'[p] = [procs[p] EXCEPT !.pc = "wait", !.event = events[k]]
    BY <1>4, ProcTyped DEF ProxyInv
  <1>6. /\ Moves(p) /\ procs'[p].pc = "wait" /\ procs'[p].event = events[k]
        /\ procs'[p].report = procs[p].report
    BY <1>2, <1>3, <1>4, <1>5 DEF Moves, ProxyInv, FlightsAreKnown, ProcType
  <1> QED
    BY <1>1, <1>2, <1>3, <1>6, KeepsFlights DEF ProxyInv, Flying

(* The refresh of a clearance.                                               *)
LEMMA SolverAnswers ==
    ASSUME NEW mode
    PROVE  Proxy!RefreshBundle(mode) \subseteq {"ok", "empty", "none", "message", "error"}
  BY DEF Proxy!RefreshBundle, Proxy!Manual, Proxy!Byparr, Proxy!FlareSolverr, Proxy!RunClearanceSolve

LEMMA SuccessStep ==
    ASSUME ProxyInv, NEW k \in Proxy!Key, NEW outcome, Proxy!RecordRefreshSuccess(k, outcome)
    PROVE  BackoffType' /\ ValidIsUnreported'
  <1>1. BackoffType'
    BY ProxyAssumption DEF ProxyInv, BackoffType, Proxy!RecordRefreshSuccess
  <1>2. Proxy!Fresh(outcome) \in Bundle /\ Proxy!Fresh(outcome).reported = FALSE
    BY DEF Proxy!Fresh, Bundle
  <1>3. bundles' = [bundles EXCEPT ![k] = Proxy!Fresh(outcome)]
    BY DEF Proxy!RecordRefreshSuccess
  <1> QED
    BY <1>1, <1>2, <1>3 DEF ProxyInv, ValidIsUnreported, Proxy!Valid, Proxy!Stored

LEMMA CooldownIsTyped ==
    ASSUME NEW n \in 1 .. MaxFailures \cup {MaxFailures} PROVE Proxy!Cooldown(n) \in 0 .. MaxCooldown \cup 0 .. HalfOpen
  <1>1. CASE n >= MaxFailures
    BY <1>1, ProxyAssumption DEF Proxy!Cooldown
  <1>2. CASE n < MaxFailures
    <2>1. n - 1 \in 0 .. MaxFailures
      BY <1>2, ProxyAssumption
    <2>2. BaseCooldown * 2 ^ (n - 1) \in Nat
      BY <2>1, ProxyAssumption
    <2>3. PICK grown \in Nat : grown = BaseCooldown * 2 ^ (n - 1)
      BY <2>2
    <2>4. Proxy!Cooldown(n) = IF grown > MaxCooldown THEN MaxCooldown ELSE grown
      BY <1>2, <2>3, ProxyAssumption DEF Proxy!Cooldown
    <2> QED
      BY <2>4, ProxyAssumption
  <1> QED
    BY <1>1, <1>2, ProxyAssumption

LEMMA FailureStep ==
    ASSUME ProxyInv, NEW k \in Proxy!Key, NEW left \in [Proxy!Key -> {NoBundle} \cup Bundle],
           \A j \in Proxy!Key : left[j] # NoBundle /\ left[j].state = "valid" => ~left[j].reported,
           Proxy!RecordRefreshFailure(k, left)
    PROVE  BackoffType' /\ ValidIsUnreported'
  <1>1. PICK n \in 1 .. MaxFailures \cup {MaxFailures} :
            failures' = [failures EXCEPT ![k] = n] /\ backoff' = [backoff EXCEPT ![k] = Proxy!Cooldown(n)]
    <2> DEFINE n == IF failures[k] < MaxFailures THEN failures[k] + 1 ELSE MaxFailures
    <2>1. n \in 1 .. MaxFailures \cup {MaxFailures}
      BY ProxyAssumption DEF ProxyInv, BackoffType
    <2>2. failures' = [failures EXCEPT ![k] = n] /\ backoff' = [backoff EXCEPT ![k] = Proxy!Cooldown(n)]
      BY DEF Proxy!RecordRefreshFailure
    <2> HIDE DEF n
    <2> QED
      BY <2>1, <2>2
  <1>2. n \in 0 .. MaxFailures
    BY ProxyAssumption
  <1>3. BackoffType'
    BY <1>1, <1>2, CooldownIsTyped DEF ProxyInv, BackoffType
  <1>4. bundles' = left \/ (left[k] # NoBundle /\ bundles' = [left EXCEPT ![k].state = "stale"])
    BY DEF Proxy!RecordRefreshFailure
  <1>5. CASE left[k] # NoBundle /\ bundles' = [left EXCEPT ![k].state = "stale"]
    <2>1. left[k] \in Bundle
      BY <1>5
    <2>2. bundles'[k] \in Bundle /\ bundles'[k].state = "stale"
      BY <1>5, <2>1 DEF Bundle
    <2> QED
      BY <1>3, <1>5, <2>2 DEF ValidIsUnreported, Proxy!Valid, Proxy!Stored
  <1> QED
    BY <1>3, <1>4, <1>5 DEF ValidIsUnreported, Proxy!Valid, Proxy!Stored

LEMMA BundlesNow ==
    ASSUME ProxyInv
    PROVE  /\ bundles \in [Proxy!Key -> {NoBundle} \cup Bundle]
           /\ \A j \in Proxy!Key : bundles[j] # NoBundle /\ bundles[j].state = "valid" => ~bundles[j].reported
  BY DEF ProxyInv, ValidIsUnreported, Proxy!Valid, Proxy!Stored

LEMMA SolveStep ==
    ASSUME ProxyInv, NEW p \in Proxy!Proc, Proxy!BuildBundleAsWinner(p) PROVE ProxyInv'
  <1>0. PICK k \in Proxy!Key : k = procs[p].key
    BY ProcTyped DEF ProxyInv
  <1>1. PICK outcome \in {"ok", "empty", "none", "message", "error"} :
          /\ CASE outcome \in {"ok", "empty"} -> Proxy!RecordRefreshSuccess(k, outcome)
               [] outcome \in {"none", "message"} -> Proxy!RecordRefreshFailure(k, bundles)
               [] OTHER -> UNCHANGED <<bundles, failures, backoff>>
          /\ procs' = [procs EXCEPT ![p].pc = IF outcome = "error" THEN "failing" ELSE "finish",
                                    ![p].report = outcome \in {"none", "message"} /\ bundles'[k] # NoBundle
                                                  /\ bundles'[k].reported]
    BY <1>0, SolverAnswers DEF Proxy!BuildBundleAsWinner
  <1>2. BackoffType' /\ ValidIsUnreported'
    <2>1. CASE outcome \in {"ok", "empty"}
      BY <1>1, <2>1, SuccessStep
    <2>2. CASE outcome \in {"none", "message"}
      BY <1>1, <2>2, FailureStep, BundlesNow
    <2>3. CASE outcome = "error"
      <3>1. UNCHANGED <<bundles, failures, backoff>>
        BY <1>1, <2>3
      <3> QED
        BY <3>1, BundlesRemain DEF ProxyInv, BackoffType
    <2> QED
      BY <2>1, <2>2, <2>3
  <1>3. DirectoryType' /\ UNCHANGED <<events, gone>>
    BY DEF Proxy!BuildBundleAsWinner, ProxyInv, DirectoryType
  <1>4. procs[p].pc = "solve" /\ procs[p] \in ProcType
    BY ProcTyped DEF Proxy!BuildBundleAsWinner, Proxy!At, ProxyInv
  <1>5. PICK pc \in {"finish", "failing"}, report \in BOOLEAN : procs' = [procs EXCEPT ![p].pc = pc, ![p].report = report]
    <2>1. bundles'[k] # NoBundle => bundles'[k].reported \in BOOLEAN
      BY <1>2 DEF ValidIsUnreported, Bundle
    <2>2. (outcome \in {"none", "message"} /\ bundles'[k] # NoBundle /\ bundles'[k].reported) \in BOOLEAN
      BY <2>1
    <2> QED
      BY <1>1, <2>2
  <1>6. procs'[p] = [procs[p] EXCEPT !.pc = pc, !.report = report]
    BY <1>5, ProcTyped DEF ProxyInv
  <1>7. Moves(p) /\ procs'[p].pc = pc /\ procs'[p].key = k
    BY <1>0, <1>4, <1>5, <1>6 DEF Moves, ProxyInv, FlightsAreKnown, ProcType
  <1>8. \A q \in Proxy!Proc : /\ procs'[q].pc \in Flying <=> procs[q].pc \in Flying
                              /\ procs'[q].key = procs[q].key
                              /\ procs'[q].pc \notin Flying => procs'[q] = procs[q]
    BY <1>0, <1>4, <1>7 DEF Moves, Flying
  <1>9. FlightsAreKnown'
    <2>1. procs' \in [Proxy!Proc -> ProcType]
      BY <1>7 DEF Moves
    <2>2. ASSUME NEW j \in Proxy!Key, events'[j] # NoEvent
          PROVE  procs'[events'[j]].pc \in Flying /\ procs'[events'[j]].key = j
      BY <1>3, <1>8, <2>2 DEF ProxyInv, FlightsAreKnown
    <2>3. ASSUME NEW q \in Proxy!Proc, procs'[q].pc \in Flying, procs'[q].key \notin gone'
          PROVE  events'[procs'[q].key] = q
      BY <1>3, <1>8, <2>3 DEF ProxyInv, FlightsAreKnown
    <2>4. ASSUME NEW q \in Proxy!Proc, procs'[q].pc = "wait"
          PROVE  procs'[q].event \in Proxy!Proc /\ procs'[procs'[q].event].pc \in Flying
      BY <1>8, <2>4 DEF ProxyInv, FlightsAreKnown, Flying
    <2>5. ASSUME NEW c \in Client, procs'[c].pc \in NotYet PROVE ~procs'[c].report
      BY <1>8, <2>5, KeyFacts DEF ProxyInv, FlightsAreKnown, Flying, NotYet
    <2> QED
      BY <1>3, <2>1, <2>2, <2>3, <2>4, <2>5 DEF ProxyInv, FlightsAreKnown
  <1> QED
    BY <1>2, <1>3, <1>9 DEF ProxyInv

LEMMA FinishStep ==
    ASSUME ProxyInv, NEW p \in Proxy!Proc, Proxy!FinishRefresh(p) PROVE ProxyInv'
  <1>0. PICK k \in Proxy!Key : k = procs[p].key
    BY ProcTyped DEF ProxyInv
  <1>1. DirectoryType' /\ BackoffType' /\ ValidIsUnreported'
    BY OthersRemain, BundlesRemain DEF Proxy!FinishRefresh, ProxyInv
  <1>2. procs[p].pc \in {"finish", "failing"} /\ procs[p] \in ProcType
    BY ProcTyped DEF Proxy!FinishRefresh, ProxyInv
  <1>3. events' = [events EXCEPT ![k] = NoEvent]
    BY <1>0 DEF Proxy!FinishRefresh
  <1>4. gone' = IF \E q \in Proxy!Proc \ {p} : procs[q].pc \in Flying /\ procs[q].key = k THEN gone ELSE gone \ {k}
    BY <1>0 DEF Proxy!FinishRefresh, Flying
  <1>5. /\ procs'[p] \in ProcType /\ procs'[p].pc \in {"idle", "sleep", "warm", "leased"}
        /\ \A q \in Proxy!Proc \ {p} :
              procs'[q] = IF procs[q].pc = "wait" /\ procs[q].event = p
                          THEN [procs[q] EXCEPT !.pc = "state", !.event = NoEvent] ELSE procs[q]
        /\ DOMAIN procs' = Proxy!Proc /\ procs' = [q \in Proxy!Proc |-> procs'[q]]
    <2> DEFINE next == IF procs[p].pc = "failing"
                       THEN [Proxy!Idle EXCEPT !.pc = IF p = Scheduler THEN "sleep" ELSE "idle"]
                       ELSE [procs[p] EXCEPT !.pc = Proxy!After(p), !.event = NoEvent, !.mode = "none"]
    <2>1. procs' = [q \in Proxy!Proc |->
                      CASE q = p -> next
                        [] q # p /\ procs[q].pc = "wait" /\ procs[q].event = p ->
                             [procs[q] EXCEPT !.pc = "state", !.event = NoEvent]
                        [] OTHER -> procs[q]]
      BY DEF Proxy!FinishRefresh, Proxy!At
    <2>2. next \in ProcType /\ next.pc \in {"idle", "sleep", "warm", "leased"}
      BY <1>2, IdleIsTyped DEF ProcType, Proxy!After, Clearance
    <2> HIDE DEF next
    <2>3. \A q \in Proxy!Proc \ {p} :
              procs'[q] = IF procs[q].pc = "wait" /\ procs[q].event = p
                          THEN [procs[q] EXCEPT !.pc = "state", !.event = NoEvent] ELSE procs[q]
      BY <2>1
    <2>4. procs'[p] = next /\ DOMAIN procs' = Proxy!Proc /\ procs' = [q \in Proxy!Proc |-> procs'[q]]
      BY <2>1
    <2> QED
      BY <2>2, <2>3, <2>4
  <1>6. \A q \in Proxy!Proc \ {p} :
           /\ procs'[q] \in ProcType /\ procs'[q].key = procs[q].key /\ procs'[q].report = procs[q].report
           /\ procs'[q].pc \in Flying <=> procs[q].pc \in Flying
           /\ procs'[q].pc \in NotYet <=> procs[q].pc \in NotYet
           /\ procs'[q].pc = "wait" => procs[q].pc = "wait" /\ procs[q].event # p /\ procs'[q].event = procs[q].event
    <2> SUFFICES ASSUME NEW q \in Proxy!Proc \ {p}
                 PROVE  /\ procs'[q] \in ProcType /\ procs'[q].key = procs[q].key /\ procs'[q].report = procs[q].report
                        /\ procs'[q].pc \in Flying <=> procs[q].pc \in Flying
                        /\ procs'[q].pc \in NotYet <=> procs[q].pc \in NotYet
                        /\ procs'[q].pc = "wait" => procs[q].pc = "wait" /\ procs[q].event # p /\ procs'[q].event = procs[q].event
      OBVIOUS
    <2>1. procs[q] \in ProcType
      BY DEF ProxyInv, FlightsAreKnown
    <2>2. CASE procs[q].pc = "wait" /\ procs[q].event = p
      <3>1. procs'[q] = [procs[q] EXCEPT !.pc = "state", !.event = NoEvent]
        BY <1>5, <2>2
      <3> QED
        BY <2>1, <2>2, <3>1 DEF ProcType, Flying, NotYet
    <2>3. CASE ~(procs[q].pc = "wait" /\ procs[q].event = p)
      BY <1>5, <2>1, <2>3
    <2> QED
      BY <2>2, <2>3
  <1>7. procs'[p].pc \notin Flying /\ procs'[p].pc \notin NotYet
    BY <1>5 DEF Flying, NotYet
  <1>8. FlightsAreKnown'
    <2>1. events' \in [Proxy!Key -> Proxy!Proc \cup {NoEvent}] /\ procs' \in [Proxy!Proc -> ProcType]
      BY <1>3, <1>5, <1>6 DEF ProxyInv, FlightsAreKnown
    <2>2. ASSUME NEW j \in Proxy!Key, events'[j] # NoEvent
          PROVE  procs'[events'[j]].pc \in Flying /\ procs'[events'[j]].key = j
      <3>1. j # k /\ events'[j] = events[j] /\ events[j] \in Proxy!Proc
        BY <1>3, <2>2 DEF ProxyInv, FlightsAreKnown
      <3>2. procs[events[j]].pc \in Flying /\ procs[events[j]].key = j
        BY <2>2, <3>1 DEF ProxyInv, FlightsAreKnown
      <3>3. events[j] # p
        BY <1>0, <3>1, <3>2
      <3> QED
        BY <1>6, <3>1, <3>2, <3>3
    <2>3. ASSUME NEW q \in Proxy!Proc, procs'[q].pc \in Flying, procs'[q].key \notin gone'
          PROVE  events'[procs'[q].key] = q
      <3>1. q # p
        BY <1>7, <2>3
      <3>2. procs[q].pc \in Flying /\ procs[q].key = procs'[q].key /\ procs[q].key \in Proxy!Key
        BY <1>6, <2>3, <3>1, ProcTyped DEF ProxyInv
      <3>3. CASE procs[q].key = k
        <4>1. gone' = gone
          BY <1>4, <3>1, <3>2, <3>3
        <4>2. events[k] = q /\ events[k] = p
          BY <1>0, <1>2, <2>3, <3>2, <3>3, <4>1 DEF ProxyInv, FlightsAreKnown, Flying
        <4> QED
          BY <3>1, <4>2
      <3>4. CASE procs[q].key # k
        <4>1. procs[q].key \notin gone
          BY <1>4, <2>3, <3>2, <3>4
        <4>2. events[procs[q].key] = q
          BY <3>2, <4>1 DEF ProxyInv, FlightsAreKnown
        <4> QED
          BY <1>3, <3>2, <3>4, <4>2 DEF ProxyInv, FlightsAreKnown
      <3> QED
        BY <3>3, <3>4
    <2>4. ASSUME NEW q \in Proxy!Proc, procs'[q].pc = "wait"
          PROVE  procs'[q].event \in Proxy!Proc /\ procs'[procs'[q].event].pc \in Flying
      <3>1. q # p
        BY <1>5, <2>4
      <3>2. procs[q].pc = "wait" /\ procs[q].event # p /\ procs'[q].event = procs[q].event
        BY <1>6, <2>4, <3>1
      <3>3. procs[q].event \in Proxy!Proc \ {p} /\ procs[procs[q].event].pc \in Flying
        BY <3>2 DEF ProxyInv, FlightsAreKnown
      <3> QED
        BY <1>6, <3>2, <3>3
    <2>5. ASSUME NEW c \in Client, procs'[c].pc \in NotYet PROVE ~procs'[c].report
      BY <1>6, <1>7, <2>5, KeyFacts DEF ProxyInv, FlightsAreKnown
    <2> QED
      BY <2>1, <2>2, <2>3, <2>4, <2>5 DEF FlightsAreKnown
  <1> QED
    BY <1>1, <1>8 DEF ProxyInv

(* The answer to a request, and a request that is given up.                  *)
LEMMA AdvancesTyped ==
    ASSUME DirectoryType PROVE Proxy!Advance(directory).cursor \in Nat
  <1>1. PICK a \in Nat, b \in Nat : /\ a = Proxy!AtLeastOne(Len(directory.pool)) /\ a > 0
                                    /\ b = Proxy!AtLeastOne(Len(directory.resources)) /\ b > 0
    BY DEF DirectoryType, Proxy!AtLeastOne
  <1>2. a * b \in Nat /\ a * b > 0
    BY <1>1
  <1>3. PICK m \in Nat : m = a * b /\ m > 0
    BY <1>2
  <1>4. (directory.cursor + 1) % m \in Nat
    BY <1>3 DEF DirectoryType
  <1> QED
    BY <1>1, <1>3, <1>4 DEF Proxy!Advance, DirectoryType

LEMMA FeedbackStep ==
    ASSUME ProxyInv, NEW c \in Client, NEW status, Proxy!Feedback(c, status) PROVE ProxyInv'
  <1>0. c \in Proxy!Proc
    BY KeyFacts
  <1>1. PICK k \in Proxy!Key : k = procs[c].key
    BY <1>0, ProcTyped DEF ProxyInv
  <1>2. DirectoryType'
    <2>1. setting' = setting /\ (directory' = directory \/ directory' = Proxy!Advance(directory))
      BY DEF Proxy!Feedback
    <2>2. CASE directory' = Proxy!Advance(directory)
      <3>1. PICK n \in Nat : n = Proxy!Advance(directory).cursor
        BY AdvancesTyped DEF ProxyInv
      <3>2. directory' = [directory EXCEPT !.cursor = n]
        BY <2>2, <3>1 DEF Proxy!Advance, ProxyInv, DirectoryType
      <3> QED
        BY <2>1, <3>2 DEF ProxyInv, DirectoryType
    <2> QED
      BY <2>1, <2>2 DEF ProxyInv, DirectoryType
  <1>3. BackoffType' /\ Forgets
    BY NothingForgotten DEF Proxy!Feedback, ProxyInv, BackoffType
  <1>4. ValidIsUnreported'
    <2>1. bundles' = bundles \/ (Proxy!Stored(k) /\ bundles' = [bundles EXCEPT ![k].state = "invalid", ![k].reported = TRUE])
      BY <1>1 DEF Proxy!Feedback
    <2>2. CASE Proxy!Stored(k) /\ bundles' = [bundles EXCEPT ![k].state = "invalid", ![k].reported = TRUE]
      <3>1. bundles[k] \in Bundle
        BY <2>2 DEF ProxyInv, ValidIsUnreported, Proxy!Stored
      <3>2. bundles'[k] \in Bundle /\ bundles'[k].state = "invalid"
        BY <2>2, <3>1 DEF ProxyInv, ValidIsUnreported, Bundle
      <3> QED
        BY <2>2, <3>2 DEF ProxyInv, ValidIsUnreported, Proxy!Valid, Proxy!Stored
    <2> QED
      BY <2>1, <2>2, BundlesRemain
  <1>5. procs' = [procs EXCEPT ![c] = Proxy!Idle] /\ procs[c].pc = "leased"
    BY DEF Proxy!Feedback, Proxy!At
  <1>6. Moves(c) /\ procs'[c].pc = "idle"
    BY <1>0, <1>5, IdleIsTyped DEF Moves, ProxyInv, FlightsAreKnown, Proxy!Idle
  <1> QED
    BY <1>0, <1>2, <1>3, <1>4, <1>5, <1>6, KeepsFlights DEF ProxyInv, Flying, NotYet

LEMMA CancelStep == ASSUME ProxyInv, NEW c \in Client, Proxy!WaitCancelled(c) PROVE ProxyInv'
  <1>1. c \in Proxy!Proc
    BY KeyFacts
  <1>2. DirectoryType' /\ BackoffType' /\ ValidIsUnreported' /\ Forgets
    BY OthersRemain, BundlesRemain, NothingForgotten DEF Proxy!WaitCancelled, ProxyInv
  <1>3. procs' = [procs EXCEPT ![c] = Proxy!Idle] /\ procs[c].pc = "wait"
    BY DEF Proxy!WaitCancelled, Proxy!At
  <1>4. Moves(c) /\ procs'[c].pc = "idle"
    BY <1>1, <1>3, IdleIsTyped DEF Moves, ProxyInv, FlightsAreKnown, Proxy!Idle
  <1> QED
    BY <1>1, <1>2, <1>3, <1>4, KeepsFlights DEF ProxyInv, Flying, NotYet

(* The scheduler.                                                            *)
LEMMA NodeKeysTyped == ASSUME DirectoryType' PROVE Proxy!NodeKeys \subseteq Proxy!Key
  <1>1. \A a \in (IF directory'.pool = <<>> THEN {"direct"} ELSE Proxy!ToSet(directory'.pool)) : a \in Proxy!Affinity
    BY KeyFacts DEF DirectoryType, Proxy!ToSet
  <1> DEFINE names == IF directory'.pool = <<>> THEN {"direct"} ELSE Proxy!ToSet(directory'.pool)
  <1>2. names \subseteq Proxy!Affinity /\ Proxy!NodeKeys = names \X {DefaultHost}
    BY <1>1 DEF Proxy!NodeKeys
  <1> HIDE DEF names
  <1> QED
    BY <1>2, KeyFacts DEF Proxy!Key

LEMMA SchedulerMoves ==
    ASSUME ProxyInv, DirectoryType', BackoffType', ValidIsUnreported', Forgets,
           procs[Scheduler].pc \in {"idle", "warm", "sleep", "refresh"},
           NEW new \in ProcType, procs' = [procs EXCEPT ![Scheduler] = new],
           new.pc \in {"warm", "state", "sleep", "refresh"}
    PROVE  ProxyInv'
  <1>1. Scheduler \in Proxy!Proc /\ Scheduler \notin Client
    BY KeyFacts, ProxyAssumption
  <1>2. Moves(Scheduler) /\ procs'[Scheduler] = new
    BY <1>1 DEF Moves, ProxyInv, FlightsAreKnown
  <1> QED
    BY <1>1, <1>2, KeepsFlights DEF ProxyInv, Flying

LEMMA WarmUpStep == ASSUME ProxyInv, Proxy!WarmUp PROVE ProxyInv'
  <1>1. DirectoryType' /\ BackoffType' /\ ValidIsUnreported' /\ Forgets
    BY LoadStep DEF Proxy!WarmUp
  <1>2. PICK todo \in SUBSET Proxy!Key :
           procs' = [procs EXCEPT ![Scheduler].pc = "warm", ![Scheduler].todo = todo]
    BY <1>1, NodeKeysTyped DEF Proxy!WarmUp
  <1>3. procs[Scheduler] \in ProcType /\ procs[Scheduler].pc = "idle"
    BY ProcTyped, KeyFacts DEF Proxy!WarmUp, Proxy!At, ProxyInv
  <1>4. [procs[Scheduler] EXCEPT !.pc = "warm", !.todo = todo] \in ProcType
    BY <1>3 DEF ProcType
  <1>5. /\ procs' = [procs EXCEPT ![Scheduler] = [procs[Scheduler] EXCEPT !.pc = "warm", !.todo = todo]]
        /\ [procs[Scheduler] EXCEPT !.pc = "warm", !.todo = todo].pc = "warm"
    BY <1>2, <1>3 DEF ProcType
  <1> QED
    BY <1>1, <1>3, <1>4, <1>5, SchedulerMoves

LEMMA WarmUpNextStep == ASSUME ProxyInv, Proxy!WarmUpNext PROVE ProxyInv'
  <1>1. DirectoryType' /\ BackoffType' /\ ValidIsUnreported' /\ Forgets
    BY OthersRemain, BundlesRemain, NothingForgotten DEF Proxy!WarmUpNext, ProxyInv
  <1>2. procs[Scheduler] \in ProcType /\ procs[Scheduler].pc = "warm"
    BY ProcTyped, KeyFacts DEF Proxy!WarmUpNext, Proxy!At, ProxyInv
  <1>3. CASE \E k \in procs[Scheduler].todo :
                procs' = [procs EXCEPT ![Scheduler].pc = "state", ![Scheduler].key = k,
                                       ![Scheduler].todo = @ \ {k}, ![Scheduler].report = FALSE]
    <2>a. PICK k \in procs[Scheduler].todo :
                procs' = [procs EXCEPT ![Scheduler].pc = "state", ![Scheduler].key = k,
                                       ![Scheduler].todo = @ \ {k}, ![Scheduler].report = FALSE]
      BY <1>3
    <2>b. PICK todo \in SUBSET Proxy!Key : todo = procs[Scheduler].todo \ {k}
      BY <1>2 DEF ProcType
    <2>1. procs' = [procs EXCEPT ![Scheduler] = [procs[Scheduler] EXCEPT
                       !.pc = "state", !.key = k, !.todo = todo, !.report = FALSE]]
      BY <2>a, <2>b, <1>2 DEF ProcType
    <2>2. /\ [procs[Scheduler] EXCEPT !.pc = "state", !.key = k, !.todo = todo, !.report = FALSE] \in ProcType
          /\ [procs[Scheduler] EXCEPT !.pc = "state", !.key = k, !.todo = todo, !.report = FALSE].pc = "state"
      BY <1>2 DEF ProcType
    <2> QED
      BY <1>1, <1>2, <2>1, <2>2, SchedulerMoves
  <1>4. CASE procs' = [procs EXCEPT ![Scheduler] = [Proxy!Idle EXCEPT !.pc = "sleep"]]
    <2>1. [Proxy!Idle EXCEPT !.pc = "sleep"] \in ProcType /\ [Proxy!Idle EXCEPT !.pc = "sleep"].pc = "sleep"
      BY IdleIsTyped DEF ProcType
    <2> QED
      BY <1>1, <1>2, <1>4, <2>1, SchedulerMoves
  <1> QED
    BY <1>3, <1>4 DEF Proxy!WarmUpNext

LEMMA SchedulerRefreshStep == ASSUME ProxyInv, Proxy!SchedulerRefresh PROVE ProxyInv'
  <1>1. DirectoryType' /\ BackoffType' /\ ValidIsUnreported' /\ Forgets
    BY LoadStep DEF Proxy!SchedulerRefresh
  <1>2. PICK todo \in SUBSET Proxy!Key, mode \in Clearance :
           procs' = [procs EXCEPT ![Scheduler].pc = "refresh", ![Scheduler].mode = mode, ![Scheduler].todo = todo]
    <2>1. directory'.clearance \in Clearance
      BY <1>1 DEF DirectoryType
    <2>2. (Proxy!NodeKeys \cup {k \in Proxy!Key : bundles'[k] # NoBundle}) \subseteq Proxy!Key
      BY <1>1, NodeKeysTyped
    <2> QED
      BY <2>1, <2>2 DEF Proxy!SchedulerRefresh
  <1>3. procs[Scheduler] \in ProcType /\ procs[Scheduler].pc = "sleep"
    BY ProcTyped, KeyFacts DEF Proxy!SchedulerRefresh, Proxy!At, ProxyInv
  <1>4. /\ [procs[Scheduler] EXCEPT !.pc = "refresh", !.mode = mode, !.todo = todo] \in ProcType
        /\ [procs[Scheduler] EXCEPT !.pc = "refresh", !.mode = mode, !.todo = todo].pc = "refresh"
    BY <1>3 DEF ProcType
  <1>5. procs' = [procs EXCEPT ![Scheduler] = [procs[Scheduler] EXCEPT !.pc = "refresh", !.mode = mode, !.todo = todo]]
    BY <1>2, <1>3 DEF ProcType
  <1> QED
    BY <1>1, <1>3, <1>4, <1>5, SchedulerMoves

LEMMA RefreshStep == ASSUME ProxyInv, Proxy!RefreshClearance PROVE ProxyInv'
  <1>1. procs[Scheduler] \in ProcType /\ procs[Scheduler].pc = "refresh"
    BY ProcTyped, KeyFacts DEF Proxy!RefreshClearance, Proxy!At, ProxyInv
  <1>2. PICK k \in Proxy!Key, outcome \in {"ok", "empty", "none", "message", "error"} :
         /\ CASE outcome \in {"ok", "empty"} -> Proxy!RecordRefreshSuccess(k, outcome)
              [] outcome = "none" -> Proxy!RecordRefreshFailure(k, bundles)
              [] outcome = "message" ->
                   Proxy!RecordRefreshFailure(k, IF Proxy!Stored(k) THEN bundles
                       ELSE [bundles EXCEPT ![k] = [state |-> "invalid", usable |-> FALSE, reported |-> FALSE]])
              [] OTHER -> UNCHANGED <<bundles, failures, backoff>>
         /\ procs' = [procs EXCEPT ![Scheduler].todo = IF outcome = "error" THEN {} ELSE @ \ {k}]
    BY <1>1, SolverAnswers DEF Proxy!RefreshClearance, ProcType
  <1>3. BackoffType' /\ ValidIsUnreported'
    <2>1. CASE outcome \in {"ok", "empty"}
      BY <1>2, <2>1, SuccessStep
    <2>2. CASE outcome = "none"
      BY <1>2, <2>2, FailureStep, BundlesNow
    <2>3. CASE outcome = "message"
      <3> DEFINE left == IF Proxy!Stored(k) THEN bundles
                         ELSE [bundles EXCEPT ![k] = [state |-> "invalid", usable |-> FALSE, reported |-> FALSE]]
      <3>1. /\ left \in [Proxy!Key -> {NoBundle} \cup Bundle]
            /\ \A j \in Proxy!Key : left[j] # NoBundle /\ left[j].state = "valid" => ~left[j].reported
        BY BundlesNow DEF Bundle
      <3>2. Proxy!RecordRefreshFailure(k, left)
        BY <1>2, <2>3
      <3> HIDE DEF left
      <3> QED
        BY <3>1, <3>2, FailureStep
    <2>4. CASE outcome = "error"
      <3>1. UNCHANGED <<bundles, failures, backoff>>
        BY <1>2, <2>4
      <3> QED
        BY <3>1, BundlesRemain DEF ProxyInv, BackoffType
    <2> QED
      BY <2>1, <2>2, <2>3, <2>4
  <1>4. DirectoryType' /\ Forgets
    BY NothingForgotten DEF Proxy!RefreshClearance, ProxyInv, DirectoryType
  <1>5. PICK todo \in SUBSET Proxy!Key : procs' = [procs EXCEPT ![Scheduler] = [procs[Scheduler] EXCEPT !.todo = todo]]
    BY <1>1, <1>2 DEF ProcType
  <1>6. /\ [procs[Scheduler] EXCEPT !.todo = todo] \in ProcType
        /\ [procs[Scheduler] EXCEPT !.todo = todo].pc = "refresh"
    BY <1>1 DEF ProcType
  <1> QED
    BY <1>1, <1>3, <1>4, <1>5, <1>6, SchedulerMoves

LEMMA RefreshDoneStep == ASSUME ProxyInv, Proxy!RefreshDone PROVE ProxyInv'
  <1>1. DirectoryType' /\ BackoffType' /\ ValidIsUnreported' /\ Forgets
    BY OthersRemain, BundlesRemain, NothingForgotten DEF Proxy!RefreshDone, ProxyInv
  <1>2. procs[Scheduler].pc = "refresh" /\ procs' = [procs EXCEPT ![Scheduler] = [Proxy!Idle EXCEPT !.pc = "sleep"]]
    BY DEF Proxy!RefreshDone, Proxy!At
  <1>3. [Proxy!Idle EXCEPT !.pc = "sleep"] \in ProcType /\ [Proxy!Idle EXCEPT !.pc = "sleep"].pc = "sleep"
    BY IdleIsTyped DEF ProcType
  <1> QED
    BY <1>1, <1>2, <1>3, SchedulerMoves

LEMMA TimeStep == ASSUME ProxyInv, Proxy!Tick PROVE ProxyInv'
  <1>1. DirectoryType' /\ ValidIsUnreported'
    BY BundlesRemain DEF Proxy!Tick, ProxyInv, DirectoryType
  <1>2. BackoffType'
    <2>1. ASSUME NEW k \in Proxy!Key PROVE backoff'[k] \in 0 .. MaxCooldown \cup 0 .. HalfOpen
      <3>1. backoff[k] \in 0 .. MaxCooldown \cup 0 .. HalfOpen
        BY DEF ProxyInv, BackoffType
      <3>2. backoff'[k] = IF backoff[k] > 0 THEN backoff[k] - 1 ELSE 0
        BY DEF Proxy!Tick
      <3> QED
        BY <3>1, <3>2, ProxyAssumption
    <2>2. backoff' = [k \in Proxy!Key |-> backoff'[k]]
      BY DEF Proxy!Tick
    <2> QED
      BY <2>1, <2>2 DEF Proxy!Tick, ProxyInv, BackoffType
  <1>3. FlightsAreKnown'
    BY DEF Proxy!Tick, ProxyInv, FlightsAreKnown
  <1> QED
    BY <1>1, <1>2, <1>3 DEF ProxyInv

LEMMA ReconfigureStep == ASSUME ProxyInv, NEW s \in Settings, Proxy!Reconfigure(s) PROVE ProxyInv'
  <1>1. DirectoryType' /\ ValidIsUnreported'
    BY BundlesRemain DEF Proxy!Reconfigure, ProxyInv, DirectoryType
  <1>2. BackoffType' /\ FlightsAreKnown'
    BY DEF Proxy!Reconfigure, ProxyInv, BackoffType, FlightsAreKnown
  <1> QED
    BY <1>1, <1>2 DEF ProxyInv

LEMMA ProxyProcStep == ASSUME ProxyInv, NEW p \in Proxy!Proc, Proxy!ProcStep(p) PROVE ProxyInv'
  BY NoClearanceStep, TakeBundleStep, BecomeWinnerStep, WaitStep, SolveStep, FinishStep DEF Proxy!ProcStep

LEMMA ProxyStep == ASSUME ProxyInv, [Proxy!Next]_proxyVars PROVE ProxyInv'
  <1>1. CASE UNCHANGED proxyVars
    <2>1. DirectoryType' /\ BackoffType' /\ ValidIsUnreported'
      BY <1>1, OthersRemain, BundlesRemain DEF proxyVars
    <2>2. FlightsAreKnown'
      BY <1>1 DEF proxyVars, ProxyInv, FlightsAreKnown
    <2> QED
      BY <2>1, <2>2 DEF ProxyInv
  <1>2. ASSUME NEW c \in Client, NEW resource \in BOOLEAN, Proxy!Request(c, resource) PROVE ProxyInv'
    BY <1>2, RequestStep
  <1>3. ASSUME NEW c \in Client, Proxy!CallerStep(c) PROVE ProxyInv'
    <2>1. c \in Proxy!Proc
      BY KeyFacts
    <2> QED
      BY <1>3, <2>1, AcquireStep, FeedbackStep, ProxyProcStep DEF Proxy!CallerStep
  <1>4. ASSUME NEW c \in Client, Proxy!WaitCancelled(c) PROVE ProxyInv'
    BY <1>4, CancelStep
  <1>5. CASE Proxy!SchedulerStep
    <2>1. Scheduler \in Proxy!Proc
      BY KeyFacts
    <2> QED
      BY <1>5, <2>1, WarmUpStep, WarmUpNextStep, SchedulerRefreshStep, RefreshStep, RefreshDoneStep, ProxyProcStep
      DEF Proxy!SchedulerStep
  <1>6. ASSUME NEW s \in Settings, Proxy!Reconfigure(s) PROVE ProxyInv'
    BY <1>6, ReconfigureStep
  <1>7. CASE Proxy!Tick
    BY <1>7, TimeStep
  <1> QED
    BY <1>1, <1>2, <1>3, <1>4, <1>5, <1>6, <1>7 DEF Proxy!Next

(* Two refreshes of a key that no Load has forgotten are the same one.       *)
LEMMA FlightsAreSingle == ProxyInv => Proxy!TypeOK /\ Proxy!SingleFlight
  <1> SUFFICES ASSUME ProxyInv PROVE Proxy!TypeOK /\ Proxy!SingleFlight
    OBVIOUS
  <1>1. Proxy!TypeOK
    <2>1. \A k \in Proxy!Key : Proxy!Stored(k) => bundles[k].state \in {"valid", "stale", "invalid"}
      BY DEF ProxyInv, ValidIsUnreported, Proxy!Stored, Bundle
    <2>2. \A k \in Proxy!Key : backoff[k] \in 0 .. MaxCooldown \cup 0 .. HalfOpen /\ failures[k] \in 0 .. MaxFailures
      BY DEF ProxyInv, BackoffType
    <2>3. \A p \in Proxy!Proc : procs[p] \in ProcType
      BY DEF ProxyInv, FlightsAreKnown
    <2> QED
      BY <2>1, <2>2, <2>3 DEF Proxy!TypeOK, ProcType
  <1>2. ASSUME NEW k \in Proxy!Key \ gone PROVE Proxy!Cardinality(Proxy!Refreshing(k)) <= 1
    <2>1. \A p \in Proxy!Refreshing(k) : p = events[k]
      BY DEF Proxy!Refreshing, ProxyInv, FlightsAreKnown, Flying
    <2>2. Proxy!Refreshing(k) = {} \/ Proxy!Refreshing(k) = {events[k]}
      BY <2>1
    <2>3. Proxy!Cardinality(Proxy!Refreshing(k)) = Cardinality(Proxy!Refreshing(k))
      BY DEF Proxy!Cardinality, Cardinality
    <2>4. Cardinality({}) = 0 /\ Cardinality({events[k]}) = 1
      BY FS_EmptySet, FS_Singleton
    <2> QED
      BY <2>2, <2>3, <2>4
  <1>3. \A p \in Proxy!Proc : Proxy!At(p, "wait") => procs[procs[p].event].pc \in {"solve", "finish", "failing"}
    BY DEF ProxyInv, FlightsAreKnown, Flying, Proxy!At
  <1> QED
    BY <1>1, <1>2, <1>3 DEF Proxy!SingleFlight

(* A clearance reaches a request from its own refresh, or valid, or during a *)
(* cooldown.                                                                 *)
Replaced(c) ==
    procs'[c].pc = "leased" /\ ~Proxy!At(c, "leased") /\ procs'[c].report
        => Proxy!At(c, "finish") \/ backoff[procs[c].key] > 0

LEMMA ReplacedWhenChallenged ==
    ASSUME ProxyInv, [Proxy!Next]_proxyVars, NEW c \in Client PROVE Replaced(c)
  <1> SUFFICES ASSUME procs'[c].pc = "leased", procs[c].pc # "leased", procs'[c].report
               PROVE  procs[c].pc = "finish" \/ backoff[procs[c].key] > 0
    BY DEF Replaced, Proxy!At
  <1>0. /\ c \in Proxy!Proc /\ c # Scheduler /\ Scheduler \in Proxy!Proc /\ Client \subseteq Proxy!Proc
        /\ procs[c] \in ProcType /\ DOMAIN procs = Proxy!Proc
    BY KeyFacts, ProxyAssumption, ProcTyped DEF ProxyInv
  <1>1. procs[c].pc = "state" => ~procs[c].report
    BY DEF ProxyInv, FlightsAreKnown, NotYet
  <1>2. ASSUME UNCHANGED procs \/ UNCHANGED proxyVars PROVE FALSE
    BY <1>2 DEF proxyVars
  <1>3. ASSUME NEW d \in Client, NEW resource \in BOOLEAN, Proxy!Request(d, resource) PROVE FALSE
    <2>1. procs' = [procs EXCEPT ![d] = [Proxy!Idle EXCEPT !.pc = "pick", !.resource = resource]]
      BY <1>3 DEF Proxy!Request
    <2> QED
      BY <1>0, <2>1 DEF Proxy!Idle
  <1>4. ASSUME NEW d \in Client, NEW h \in Host, Proxy!Acquire(d, h) PROVE FALSE
    BY <1>0, <1>4 DEF Proxy!Acquire, ProcType
  <1>5. ASSUME NEW d \in Client, (\E status \in Statuses : Proxy!Feedback(d, status)) \/ Proxy!WaitCancelled(d) PROVE FALSE
    <2>1. procs' = [procs EXCEPT ![d] = Proxy!Idle]
      BY <1>5 DEF Proxy!Feedback, Proxy!WaitCancelled
    <2> QED
      BY <1>0, <2>1 DEF Proxy!Idle
  <1>6. ASSUME Proxy!SchedulerStep, \A p \in Proxy!Proc : ~Proxy!ProcStep(p) PROVE FALSE
    <2>1. procs'[c] = procs[c]
      BY <1>0, <1>6 DEF Proxy!SchedulerStep, Proxy!WarmUp, Proxy!WarmUpNext, Proxy!SchedulerRefresh,
                        Proxy!RefreshClearance, Proxy!RefreshDone
    <2> QED
      BY <2>1
  <1>7. ASSUME NEW p \in Proxy!Proc, Proxy!ProcStep(p)
        PROVE  procs[c].pc = "finish" \/ backoff[procs[c].key] > 0
    <2>0. procs[p] \in ProcType
      BY ProcTyped DEF ProxyInv
    <2>1. CASE Proxy!NoClearance(p)
      <3>1. procs[p].pc = "state" /\ \E pc \in {"warm", "leased"} : procs' = [procs EXCEPT ![p].pc = pc]
        BY <2>1 DEF Proxy!NoClearance, Proxy!At, Proxy!After
      <3> QED
        BY <1>0, <1>1, <2>0, <3>1 DEF ProcType
    <2>2. CASE Proxy!TakeBundle(p)
      <3>1. /\ \E pc \in {"warm", "leased"} : procs' = [procs EXCEPT ![p].pc = pc, ![p].report = bundles[procs[p].key].reported]
            /\ Proxy!Valid(procs[p].key) \/ backoff[procs[p].key] > 0
        BY <2>2 DEF Proxy!TakeBundle, Proxy!After, Proxy!CooldownBundle
      <3>2. p = c /\ bundles[procs[c].key].reported
        BY <1>0, <2>0, <3>1 DEF ProcType
      <3>3. ~Proxy!Valid(procs[c].key)
        BY <1>0, <3>2 DEF ProxyInv, ValidIsUnreported, ProcType
      <3> QED
        BY <3>1, <3>2, <3>3
    <2>3. CASE Proxy!BecomeWinner(p) \/ Proxy!WaitForWinner(p)
      <3>1. procs'[p].pc \in {"solve", "wait"} /\ \A q \in Proxy!Proc \ {p} : procs'[q] = procs[q]
        BY <1>0, <2>0, <2>3 DEF Proxy!BecomeWinner, Proxy!WaitForWinner, ProcType
      <3> QED
        BY <1>0, <3>1
    <2>4. CASE Proxy!BuildBundleAsWinner(p)
      <3>1. procs'[p].pc \in {"failing", "finish"} /\ \A q \in Proxy!Proc \ {p} : procs'[q] = procs[q]
        BY <1>0, <2>0, <2>4 DEF Proxy!BuildBundleAsWinner, ProcType
      <3> QED
        BY <1>0, <3>1
    <2>5. CASE Proxy!FinishRefresh(p)
      <3>1. c # p => procs'[c].pc = "state" \/ procs'[c] = procs[c]
        BY <1>0, <2>5 DEF Proxy!FinishRefresh, Proxy!At, ProcType
      <3>2. c = p
        BY <3>1
      <3>3. procs[c].pc = "failing" => procs'[c].pc = "idle"
        BY <1>0, <2>5, <3>2 DEF Proxy!FinishRefresh, Proxy!At, Proxy!Idle
      <3> QED
        BY <2>5, <3>2, <3>3 DEF Proxy!FinishRefresh
    <2> QED
      BY <1>7, <2>1, <2>2, <2>3, <2>4, <2>5 DEF Proxy!ProcStep
  <1>8. ASSUME UNCHANGED procs PROVE FALSE
    BY <1>8
  <1> QED
    <2>1. CASE UNCHANGED proxyVars
      BY <2>1, <1>2
    <2>2. CASE Proxy!Tick \/ \E s \in Settings : Proxy!Reconfigure(s)
      BY <2>2, <1>8 DEF Proxy!Tick, Proxy!Reconfigure
    <2>3. CASE \E d \in Client : (\E resource \in BOOLEAN : Proxy!Request(d, resource)) \/ Proxy!CallerStep(d)
                                 \/ Proxy!WaitCancelled(d)
      BY <2>3, <1>0, <1>3, <1>4, <1>5, <1>7 DEF Proxy!CallerStep
    <2>4. CASE Proxy!SchedulerStep
      BY <2>4, <1>6, <1>7
    <2> QED
      BY <2>1, <2>2, <2>3, <2>4 DEF Proxy!Next

(* Of the requests and the warm-up that miss a clearance at most one asks    *)
(* the solver, whoever waits waits for one that will wake it, and a          *)
(* clearance a site has challenged is not handed out again before it has     *)
(* been replaced, unless its key is on the cooldown of failed refreshes      *)
(* (refreshEvents, bundleRefreshState): for any clients, proxies, hosts and  *)
(* configurations.                                                           *)
THEOREM ClearanceStaysShared == Spec => ClearanceIsShared
  <1>1. Init => ProxyInv
    BY ProxyInit DEF Init
  <1>2. ProxyInv /\ [Next]_vars => ProxyInv'
    BY ProxyStep DEF Next, vars, InLeader, InProxy, InModels, InPacer, InReplay
  <1>3. ProxyInv /\ [Next]_vars =>
           [\A c \in Client : (procs'[c].pc = "leased" /\ ~Proxy!At(c, "leased") /\ procs'[c].report)
                => Proxy!At(c, "finish") \/ backoff[procs[c].key] > 0]_proxyVars
    <2> SUFFICES ASSUME ProxyInv, [Next]_vars
                 PROVE  \A c \in Client : Replaced(c)
      BY DEF Replaced
    <2>1. [Proxy!Next]_proxyVars
      BY DEF Next, vars, InLeader, InProxy, InModels, InPacer, InReplay
    <2> QED
      BY <2>1, ReplacedWhenChallenged
  <1> QED
    BY <1>1, <1>2, <1>3, FlightsAreSingle, PTL
    DEF Spec, ClearanceIsShared, Proxy!ClearanceIsShared, Proxy!ChallengedIsReplaced, proxyVars, Proxy!vars

-----------------------------------------------------------------------------
(* Induction over the natural numbers, with a set in the place of the        *)
(* library's operator: a set of numbers that is not empty has a least one.   *)
LEMMA MinimalElement ==
    ASSUME NEW R, IsWellFoundedOn(R, Nat)
    PROVE  \A T : T \subseteq Nat /\ T # {} => \E m \in T : \A n \in T : ~(<<n, m>> \in R)
  <1> SUFFICES ASSUME NEW T, T \subseteq Nat, T # {} PROVE \E m \in T : \A n \in T : ~(<<n, m>> \in R)
    OBVIOUS
  <1> QED
    BY WFMin

LEMMA LeastOfRelation ==
    ASSUME NEW R, IsWellFoundedOn(R, Nat), \A x, y \in Nat : x < y => <<x, y>> \in R
    PROVE  \A T : T \subseteq Nat /\ T # {} => \E m \in T : \A n \in T : m <= n
  <1>1. \A T : T \subseteq Nat /\ T # {} => \E m \in T : \A n \in T : ~(<<n, m>> \in R)
    BY MinimalElement
  <1> SUFFICES ASSUME NEW T, T \subseteq Nat, T # {} PROVE \E m \in T : \A n \in T : m <= n
    OBVIOUS
  <1>2. PICK m \in T : \A n \in T : ~(<<n, m>> \in R)
    BY <1>1
  <1>3. ASSUME NEW n \in T, n < m PROVE FALSE
    <2>1. m \in Nat /\ n \in Nat
      OBVIOUS
    <2>2. <<n, m>> \in R
      BY <1>3, <2>1
    <2> QED
      BY <1>2, <2>2
  <1> QED
    BY <1>3

LEMMA LeastNumber == \A T : T \subseteq Nat /\ T # {} => \E m \in T : \A n \in T : m <= n
  <1>1. IsWellFoundedOn(OpToRel(<, Nat), Nat)
    BY NatLessThanWellFounded
  <1>2. \A x, y \in Nat : x < y => <<x, y>> \in OpToRel(<, Nat)
    BY DEF OpToRel
  <1>3. \E R : IsWellFoundedOn(R, Nat) /\ \A x, y \in Nat : x < y => <<x, y>> \in R
    BY <1>1, <1>2, Zenon
  <1> QED
    BY <1>3, LeastOfRelation

LEMMA InductionOverNat ==
    \A S : 0 \in S /\ (\A n \in Nat : n \in S => n + 1 \in S) => Nat \subseteq S
  <1> SUFFICES ASSUME NEW S, 0 \in S, \A n \in Nat : n \in S => n + 1 \in S, ~(Nat \subseteq S) PROVE FALSE
    OBVIOUS
  <1>1. Nat \ S \subseteq Nat /\ Nat \ S # {}
    OBVIOUS
  <1>2. PICK m \in Nat \ S : \A n \in Nat \ S : m <= n
    BY <1>1, LeastNumber
  <1>3. m \in Nat /\ m # 0
    BY <1>2
  <1>4. m - 1 \in Nat /\ ~(m <= m - 1) /\ (m - 1) + 1 = m
    BY <1>3
  <1>5. m - 1 \in S
    BY <1>2, <1>4
  <1> QED
    BY <1>2, <1>4, <1>5
-----------------------------------------------------------------------------
(* The reasoning replay.  What Kept keeps, step by step.                     *)
KeptSteps(seq, T, after, n) ==
    after = [i \in 0 .. n |-> IF i = 0 THEN <<>> ELSE IF seq[i] \in T THEN Append(after[i - 1], seq[i]) ELSE after[i - 1]]

LEMMA KeptStepsExist ==
    ASSUME NEW seq, NEW T
    PROVE  \A n \in Nat : \E after : KeptSteps(seq, T, after, n)
  <1> DEFINE S == {n \in Nat : \E after : KeptSteps(seq, T, after, n)}
  <1>1. 0 \in S
    <2> DEFINE after == [i \in 0 .. 0 |-> <<>>]
    <2>1. KeptSteps(seq, T, after, 0)
      BY DEF KeptSteps
    <2> HIDE DEF after
    <2> QED
      BY <2>1
  <1>2. ASSUME NEW n \in Nat, n \in S PROVE n + 1 \in S
    <2>1. PICK old : KeptSteps(seq, T, old, n)
      BY <1>2
    <2> DEFINE next == IF seq[n + 1] \in T THEN Append(old[n], seq[n + 1]) ELSE old[n]
    <2> DEFINE after == [i \in 0 .. n + 1 |-> IF i = n + 1 THEN next ELSE old[i]]
    <2>2. \A i \in 0 .. n : after[i] = old[i]
      OBVIOUS
    <2>3. \A i \in 0 .. n + 1 : after[i] = IF i = 0 THEN <<>> ELSE IF seq[i] \in T THEN Append(after[i - 1], seq[i]) ELSE after[i - 1]
      <3> SUFFICES ASSUME NEW i \in 0 .. n + 1
                   PROVE  after[i] = IF i = 0 THEN <<>> ELSE IF seq[i] \in T THEN Append(after[i - 1], seq[i]) ELSE after[i - 1]
        OBVIOUS
      <3>1. CASE i = n + 1
        <4>1. after[i] = next /\ i - 1 = n /\ i # 0
          BY <3>1
        <4>2. after[i - 1] = old[n]
          BY <2>2, <4>1
        <4> QED
          BY <3>1, <4>1, <4>2
      <3>2. CASE i = 0
        <4>1. i \in 0 .. n
          BY <3>2
        <4>2. old[i] = <<>>
          BY <2>1, <3>2, <4>1 DEF KeptSteps
        <4> QED
          BY <2>2, <3>2, <4>1, <4>2
      <3>3. CASE i # n + 1 /\ i # 0
        <4>1. i \in 0 .. n /\ i - 1 \in 0 .. n
          BY <3>3
        <4>2. old[i] = IF seq[i] \in T THEN Append(old[i - 1], seq[i]) ELSE old[i - 1]
          BY <2>1, <3>3, <4>1 DEF KeptSteps
        <4>3. after[i] = old[i] /\ after[i - 1] = old[i - 1]
          BY <2>2, <4>1
        <4> QED
          BY <3>3, <4>2, <4>3
      <3> QED
        BY <3>1, <3>2, <3>3
    <2>4. after = [i \in 0 .. n + 1 |-> after[i]]
      OBVIOUS
    <2> HIDE DEF after
    <2>5. KeptSteps(seq, T, after, n + 1)
      BY <2>3, <2>4 DEF KeptSteps
    <2> QED
      BY <2>5
  <1> HIDE DEF S
  <1>3. Nat \subseteq S
    BY <1>1, <1>2, InductionOverNat
  <1> QED
    BY <1>3 DEF S

StepsHold(seq, T, after, n) ==
    /\ after[0] = <<>>
    /\ \A i \in 0 .. n : i # 0 => after[i] = IF seq[i] \in T THEN Append(after[i - 1], seq[i]) ELSE after[i - 1]

LEMMA KeptStepsAre ==
    ASSUME NEW seq, NEW T, NEW n \in Nat, NEW after, KeptSteps(seq, T, after, n)
    PROVE  StepsHold(seq, T, after, n)
  <1>1. after[0] = <<>>
    BY DEF KeptSteps
  <1>2. ASSUME NEW i \in 0 .. n, i # 0
        PROVE  after[i] = IF seq[i] \in T THEN Append(after[i - 1], seq[i]) ELSE after[i - 1]
    BY <1>2 DEF KeptSteps
  <1> QED
    BY <1>1, <1>2 DEF StepsHold

LEMMA KeptBySteps ==
    ASSUME NEW seq, NEW T, Len(seq) \in Nat
    PROVE  \E after : Replay!Kept(seq, T) = after[Len(seq)] /\ KeptSteps(seq, T, after, Len(seq))
  <1> DEFINE Steps == CHOOSE after : KeptSteps(seq, T, after, Len(seq))
  <1>1. \E after : KeptSteps(seq, T, after, Len(seq))
    BY KeptStepsExist
  <1>2. KeptSteps(seq, T, Steps, Len(seq))
    BY <1>1
  <1>3. Replay!Kept(seq, T) = Steps[Len(seq)]
    BY DEF Replay!Kept, KeptSteps
  <1> HIDE DEF Steps
  <1> QED
    BY <1>2, <1>3

-----------------------------------------------------------------------------
(* The items of a body.                                                      *)
ItemTypes == {"system", "user", "reasoning", "assistant", "call", "output"}
ReplayItem == [type : ItemTypes, turn : Nat]

(* part consists of items of seq in their order, all of them wanted.         *)
PartOf(part, seq, wanted) ==
    \E place \in [1 .. Len(part) -> 1 .. Len(seq)] :
        /\ \A i \in 1 .. Len(part) : part[i] = seq[place[i]] /\ part[i] \in wanted
        /\ \A i, j \in 1 .. Len(part) : i < j => place[i] < place[j]

LEMMA ItemFields ==
    /\ \A x \in ReplayItem : x.type \in ItemTypes /\ x.turn \in Nat /\ x = Replay!Item(x.type, x.turn)
    /\ \A type, t : Replay!Item(type, t).type = type /\ Replay!Item(type, t).turn = t
    /\ \A type \in ItemTypes, t \in Nat : Replay!Item(type, t) \in ReplayItem
  BY DEF ReplayItem, Replay!Item

TakenFrom(b, seq, wanted, n) ==
    /\ b \in Seq(ReplayItem)
    /\ \E place \in [1 .. Len(b) -> 1 .. n] :
          /\ \A i \in 1 .. Len(b) : b[i] = seq[place[i]] /\ b[i] \in wanted
          /\ \A i, j \in 1 .. Len(b) : i < j => place[i] < place[j]

LEMMA OneTaken ==
    ASSUME NEW seq, NEW wanted, NEW n \in Nat, NEW b, TakenFrom(b, seq, wanted, n),
           seq[n + 1] \in wanted, seq[n + 1] \in ReplayItem
    PROVE  TakenFrom(Append(b, seq[n + 1]), seq, wanted, n + 1)
  <1>1. PICK place \in [1 .. Len(b) -> 1 .. n] :
            /\ \A i \in 1 .. Len(b) : b[i] = seq[place[i]] /\ b[i] \in wanted
            /\ \A i, j \in 1 .. Len(b) : i < j => place[i] < place[j]
    BY DEF TakenFrom
  <1>2. PICK k : k = Len(b)
    OBVIOUS
  <1>3. b \in Seq(ReplayItem) /\ k \in Nat
    BY <1>2 DEF TakenFrom
  <1>4. PICK c : c = Append(b, seq[n + 1])
    OBVIOUS
  <1>5. /\ c \in Seq(ReplayItem) /\ Len(c) = k + 1 /\ c[k + 1] = seq[n + 1]
        /\ \A i \in 1 .. k : c[i] = b[i]
    BY <1>2, <1>3, <1>4
  <1>6. PICK more : more = [i \in 1 .. k + 1 |-> IF i = k + 1 THEN n + 1 ELSE place[i]]
    OBVIOUS
  <1>7. \A i \in 1 .. k : more[i] = place[i] /\ place[i] \in 1 .. n
    <2>1. \A i \in 1 .. k : i \in 1 .. k + 1 /\ i # k + 1
      BY <1>3
    <2>2. \A i \in 1 .. k : more[i] = place[i]
      BY <1>6, <2>1
    <2>3. \A i \in 1 .. k : place[i] \in 1 .. n
      BY <1>1, <1>2
    <2> QED
      BY <2>2, <2>3
  <1>8. more[k + 1] = n + 1
    BY <1>3, <1>6
  <1>9. \A i \in 1 .. k + 1 : i \in 1 .. k \/ i = k + 1
    BY <1>3
  <1>10. more \in [1 .. k + 1 -> 1 .. n + 1]
    <2>1. \A i \in 1 .. k + 1 : more[i] \in 1 .. n + 1
      BY <1>7, <1>8, <1>9
    <2> QED
      BY <1>6, <2>1
  <1>11. \A i \in 1 .. k + 1 : c[i] = seq[more[i]] /\ c[i] \in wanted
    BY <1>1, <1>2, <1>5, <1>7, <1>8, <1>9
  <1>12. ASSUME NEW i \in 1 .. k + 1, NEW j \in 1 .. k + 1, i < j PROVE more[i] < more[j]
    <2>1. i \in 1 .. k
      BY <1>3, <1>12
    <2>2. CASE j = k + 1
      BY <1>7, <1>8, <2>1, <2>2
    <2>3. CASE j \in 1 .. k
      BY <1>1, <1>2, <1>7, <1>12, <2>1, <2>3
    <2> QED
      BY <1>9, <2>2, <2>3
  <1>13. TakenFrom(c, seq, wanted, n + 1)
    BY <1>5, <1>10, <1>11, <1>12 DEF TakenFrom
  <1> QED
    BY <1>4, <1>13

LEMMA NoneTaken ==
    ASSUME NEW seq, NEW wanted, NEW n \in Nat, NEW b, TakenFrom(b, seq, wanted, n)
    PROVE  TakenFrom(b, seq, wanted, n + 1)
  <1>1. PICK place \in [1 .. Len(b) -> 1 .. n] :
            /\ \A i \in 1 .. Len(b) : b[i] = seq[place[i]] /\ b[i] \in wanted
            /\ \A i, j \in 1 .. Len(b) : i < j => place[i] < place[j]
    BY DEF TakenFrom
  <1>2. place \in [1 .. Len(b) -> 1 .. n + 1]
    BY <1>1
  <1> QED
    BY <1>1, <1>2 DEF TakenFrom

LEMMA KeptIsPart ==
    ASSUME NEW seq, seq \in Seq(ReplayItem), NEW wanted
    PROVE  Replay!Kept(seq, wanted) \in Seq(ReplayItem) /\ PartOf(Replay!Kept(seq, wanted), seq, wanted)
  <1>0. PICK size : size = Len(seq)
    OBVIOUS
  <1>1. size \in Nat /\ \A i \in 1 .. size : seq[i] \in ReplayItem
    BY <1>0
  <1>2. PICK after : Replay!Kept(seq, wanted) = after[size] /\ KeptSteps(seq, wanted, after, size)
    BY <1>0, <1>1, KeptBySteps
  <1>3. /\ after[0] = <<>>
        /\ \A i \in 0 .. size : i # 0 => after[i] = IF seq[i] \in wanted THEN Append(after[i - 1], seq[i]) ELSE after[i - 1]
    <2>1. StepsHold(seq, wanted, after, size)
      BY <1>1, <1>2, KeptStepsAre
    <2> QED
      BY <2>1 DEF StepsHold
  <1> DEFINE S == {n \in Nat : n <= size => TakenFrom(after[n], seq, wanted, n)}
  <1>4. 0 \in S
    <2>1. PICK b : b = after[0]
      OBVIOUS
    <2>2. b \in Seq(ReplayItem) /\ Len(b) = 0
      BY <1>3, <2>1
    <2>3. PICK place : place = [i \in 1 .. Len(b) |-> 0]
      OBVIOUS
    <2>4. 1 .. Len(b) = {}
      BY <2>2
    <2>5. place \in [1 .. Len(b) -> 1 .. 0]
      BY <2>3, <2>4
    <2>6. TakenFrom(b, seq, wanted, 0)
      BY <2>2, <2>4, <2>5 DEF TakenFrom
    <2> QED
      BY <2>1, <2>6
  <1>5. ASSUME NEW n \in Nat, n \in S PROVE n + 1 \in S
    <2> SUFFICES ASSUME n + 1 <= size PROVE TakenFrom(after[n + 1], seq, wanted, n + 1)
      OBVIOUS
    <2>1. n <= size /\ n + 1 \in 1 .. size /\ n + 1 \in 0 .. size /\ n + 1 # 0 /\ (n + 1) - 1 = n
      BY <1>1
    <2>2. TakenFrom(after[n], seq, wanted, n)
      BY <1>5, <2>1
    <2>3. CASE seq[n + 1] \notin wanted
      <3>1. after[n + 1] = after[n]
        BY <1>3, <2>1, <2>3
      <3>2. TakenFrom(after[n], seq, wanted, n + 1)
        BY <2>2, NoneTaken
      <3> QED
        BY <3>1, <3>2
    <2>4. CASE seq[n + 1] \in wanted
      <3>1. after[n + 1] = Append(after[n], seq[n + 1])
        BY <1>3, <2>1, <2>4
      <3>2. seq[n + 1] \in ReplayItem
        BY <1>1, <2>1
      <3>3. TakenFrom(Append(after[n], seq[n + 1]), seq, wanted, n + 1)
        BY <2>2, <2>4, <3>2, OneTaken
      <3> QED
        BY <3>1, <3>3
    <2> QED
      BY <2>3, <2>4
  <1> HIDE DEF S
  <1>6. Nat \subseteq S
    BY <1>4, <1>5, InductionOverNat
  <1>7. size \in S
    BY <1>1, <1>6
  <1> QED
    <2>1. TakenFrom(after[size], seq, wanted, size)
      BY <1>1, <1>7 DEF S
    <2> QED
      BY <1>0, <1>2, <2>1 DEF TakenFrom, PartOf

(* A part of a conversation is one.                                          *)
LEMMA PartIsConversation ==
    ASSUME NEW seq, Replay!Conversation(seq), seq \in Seq(ReplayItem),
           NEW part, part \in Seq(ReplayItem), NEW wanted, PartOf(part, seq, wanted)
    PROVE  Replay!Conversation(part)
  <1>1. PICK place \in [1 .. Len(part) -> 1 .. Len(seq)] :
            /\ \A i \in 1 .. Len(part) : part[i] = seq[place[i]] /\ part[i] \in wanted
            /\ \A i, j \in 1 .. Len(part) : i < j => place[i] < place[j]
    BY DEF PartOf
  <1>2. DOMAIN part = 1 .. Len(part) /\ DOMAIN seq = 1 .. Len(seq) /\ Len(part) \in Nat /\ Len(seq) \in Nat
    OBVIOUS
  <1>3. \A i \in 1 .. Len(part) : place[i] \in 1 .. Len(seq)
    BY <1>1
  <1>4. \A i, j \in 1 .. Len(part) : i < j \/ j < i \/ i = j
    BY <1>2
  <1>5. \A i, j \in 1 .. Len(part) : place[i] < place[j] => i < j
    BY <1>1, <1>2, <1>3, <1>4
  <1>6. ASSUME NEW m \in DOMAIN part, NEW n \in DOMAIN part, m # n, part[m].type \notin {"system", "user"}
        PROVE  part[m] # part[n]
    <2>1. place[m] # place[n]
      BY <1>1, <1>2, <1>3, <1>4, <1>6
    <2> QED
      BY <1>1, <1>2, <1>3, <1>6, <2>1 DEF Replay!Conversation
  <1>7. ASSUME NEW m \in DOMAIN part, NEW n \in DOMAIN part,
               part[m].type = "output", part[n] = Replay!Item("call", part[m].turn)
        PROVE  n < m
    <2>1. place[n] < place[m]
      BY <1>1, <1>2, <1>3, <1>7 DEF Replay!Conversation
    <2> QED
      BY <1>2, <1>5, <2>1
  <1> QED
    BY <1>6, <1>7 DEF Replay!Conversation

-----------------------------------------------------------------------------
LEMMA TypesOf ==
    \A seq, type, t : t \in Replay!Types(seq, type) <=>
                      \E i \in DOMAIN seq : seq[i].type = type /\ seq[i].turn = t
  BY DEF Replay!Types, Replay!Places

LEMMA TypeAt ==
    ASSUME NEW seq, NEW i \in DOMAIN seq, NEW type, NEW t, seq[i].type = type, seq[i].turn = t
    PROVE  t \in Replay!Types(seq, type)
  BY DEF Replay!Types, Replay!Places

LEMMA TypeFrom ==
    ASSUME NEW seq, NEW type, NEW t \in Replay!Types(seq, type)
    PROVE  \E i \in DOMAIN seq : seq[i].type = type /\ seq[i].turn = t
  BY DEF Replay!Types, Replay!Places

(* An item put at the end.                                                   *)
Ends(b, c, k, x) ==
    /\ k \in Nat /\ DOMAIN b = 1 .. k /\ DOMAIN c = 1 .. k + 1
    /\ c[k + 1] = x /\ \A i \in 1 .. k : c[i] = b[i]
Joined(c, b, extra) == c = b \o extra
Extra(extra, x) == extra = <<>> \/ extra = <<x>>
Fits(b, x) ==
    /\ x.type \in {"system", "user"} \/ Replay!Types(b, x.type) = {}
    /\ x.type = "call" => Replay!Types(b, "output") = {}
HasMore(c, b, x) == \A s : Replay!Types(c, s) = Replay!Types(b, s) \cup (IF s = x.type THEN {x.turn} ELSE {})

LEMMA ItemAppended ==
    ASSUME NEW b, Replay!Conversation(b), NEW x, Fits(b, x), NEW k, NEW c, Ends(b, c, k, x)
    PROVE  Replay!Conversation(c) /\ HasMore(c, b, x)
  <1>1. PICK type : type = x.type
    OBVIOUS
  <1>2. PICK p : p = x.turn
    OBVIOUS
  <1>3. c[k + 1].type = type /\ c[k + 1].turn = p
    BY <1>1, <1>2 DEF Ends
  <1>4. DOMAIN b = 1 .. k /\ k \in Nat
    BY DEF Ends
  <1>5. /\ type \in {"system", "user"} \/ Replay!Types(b, type) = {}
        /\ type = "call" => Replay!Types(b, "output") = {}
    BY <1>1 DEF Fits
  <1>6. DOMAIN c = 1 .. k + 1 /\ \A i \in 1 .. k : c[i] = b[i]
    BY DEF Ends
  <1>7. \A i \in 1 .. k + 1 : i \in 1 .. k \/ i = k + 1
    BY <1>4
  <1>8. \A i \in 1 .. k : i \in 1 .. k + 1 /\ i < k + 1 /\ i # k + 1
    BY <1>4
  <1>9. k + 1 \in 1 .. k + 1
    BY <1>4
  <1>10. ASSUME NEW s
         PROVE  Replay!Types(c, s) = Replay!Types(b, s) \cup (IF s = type THEN {p} ELSE {})
    <2>1. ASSUME NEW t, t \in Replay!Types(c, s)
          PROVE  t \in Replay!Types(b, s) \cup (IF s = type THEN {p} ELSE {})
      <3>0. PICK i \in DOMAIN c : c[i].type = s /\ c[i].turn = t
        BY <2>1, TypeFrom
      <3>1. i \in 1 .. k + 1 /\ c[i].type = s /\ c[i].turn = t
        BY <1>6, <3>0
      <3>2. CASE i = k + 1
        BY <1>3, <1>6, <3>1, <3>2
      <3>3. CASE i \in 1 .. k
        BY <1>4, <1>6, <3>1, <3>3, TypesOf
      <3> QED
        BY <1>7, <3>1, <3>2, <3>3
    <2>2. ASSUME NEW t, t \in Replay!Types(b, s) PROVE t \in Replay!Types(c, s)
      <3>1. PICK i \in 1 .. k : b[i].type = s /\ b[i].turn = t
        BY <1>4, <2>2, TypesOf
      <3> QED
        BY <1>6, <1>8, <3>1, TypeAt
    <2>3. s = type => p \in Replay!Types(c, s)
      BY <1>3, <1>6, <1>9, TypeAt
    <2> QED
      BY <2>1, <2>2, <2>3
  <1>11. ASSUME NEW m \in DOMAIN c, NEW n \in DOMAIN c, m # n, c[m].type \notin {"system", "user"}
         PROVE  c[m] # c[n]
    <2>1. CASE m \in 1 .. k /\ n \in 1 .. k
      BY <1>4, <1>6, <1>11, <2>1 DEF Replay!Conversation
    <2>2. CASE m = k + 1 /\ n \in 1 .. k
      <3>1. type \notin {"system", "user"} /\ c[m].type = type /\ c[n] = b[n]
        BY <1>3, <1>6, <1>11, <2>2
      <3>2. c[n].type # type
        BY <1>4, <1>5, <2>2, <3>1, TypeAt
      <3> QED
        BY <3>1, <3>2
    <2>3. CASE m \in 1 .. k /\ n = k + 1
      <3>1. c[n].type = type /\ c[m] = b[m]
        BY <1>3, <1>6, <2>3
      <3>2. type \notin {"system", "user"} => c[m].type # type
        BY <1>4, <1>5, <2>3, <3>1, TypeAt
      <3> QED
        BY <1>11, <3>1, <3>2
    <2> QED
      BY <1>6, <1>7, <1>11, <2>1, <2>2, <2>3
  <1>12. ASSUME NEW m \in DOMAIN c, NEW n \in DOMAIN c,
                c[m].type = "output", c[n] = Replay!Item("call", c[m].turn)
         PROVE  n < m
    <2>1. CASE m \in 1 .. k /\ n \in 1 .. k
      BY <1>4, <1>6, <1>12, <2>1 DEF Replay!Conversation
    <2>2. CASE m = k + 1 /\ n \in 1 .. k
      BY <1>8, <2>2
    <2>3. CASE n = k + 1
      <3>1. type = "call"
        BY <1>3, <1>6, <1>12, <2>3, ItemFields
      <3>2. m # k + 1
        BY <1>3, <1>6, <1>12, <3>1
      <3>3. m \in 1 .. k /\ b[m].type = "output"
        BY <1>6, <1>7, <1>12, <3>2
      <3> QED
        BY <1>4, <1>5, <3>1, <3>3, TypeAt
    <2> QED
      BY <1>6, <1>7, <2>1, <2>2, <2>3
  <1> QED
    BY <1>1, <1>2, <1>10, <1>11, <1>12 DEF Replay!Conversation, HasMore

LEMMA PartAdded ==
    ASSUME NEW b, b \in Seq(ReplayItem), Replay!Conversation(b), NEW x, x \in ReplayItem, Fits(b, x),
           NEW extra, Extra(extra, x), NEW c, Joined(c, b, extra)
    PROVE  /\ c \in Seq(ReplayItem) /\ Replay!Conversation(c)
           /\ IF extra = <<>> THEN c = b ELSE HasMore(c, b, x)
  <1>1. CASE extra = <<>>
    <2>1. c = b
      BY <1>1 DEF Joined
    <2> QED
      BY <1>1, <2>1
  <1>2. CASE extra # <<>>
    <2>1. PICK k : k = Len(b)
      OBVIOUS
    <2>2. k \in Nat /\ DOMAIN b = 1 .. k
      BY <2>1
    <2>3. c = b \o <<x>>
      BY <1>2 DEF Joined, Extra
    <2>4. c \in Seq(ReplayItem) /\ DOMAIN c = 1 .. k + 1 /\ c[k + 1] = x /\ \A i \in 1 .. k : c[i] = b[i]
      BY <2>1, <2>3
    <2>5. Ends(b, c, k, x)
      BY <2>2, <2>4 DEF Ends
    <2>6. Replay!Conversation(c) /\ HasMore(c, b, x)
      BY <2>5, ItemAppended
    <2> QED
      BY <1>2, <2>4, <2>6
  <1> QED
    BY <1>1, <1>2

(* What a client sends is a conversation, about the turn it continues.       *)
LEMMA Beginning ==
    LET b == <<Replay!Item("system", 0), Replay!Item("user", 0)>>
    IN  /\ b \in Seq(ReplayItem) /\ Replay!Conversation(b)
        /\ \A s : s \notin {"system", "user"} => Replay!Types(b, s) = {}
  <1>1. PICK x : x = Replay!Item("system", 0)
    OBVIOUS
  <1>2. PICK y : y = Replay!Item("user", 0)
    OBVIOUS
  <1>3. x \in ReplayItem /\ y \in ReplayItem /\ x.type = "system" /\ y.type = "user"
    BY <1>1, <1>2, ItemFields DEF ItemTypes
  <1>4. PICK b : b = <<x, y>>
    OBVIOUS
  <1>5. b \in Seq(ReplayItem) /\ DOMAIN b = 1 .. 2 /\ b[1] = x /\ b[2] = y
    BY <1>3, <1>4
  <1>6. \A i \in 1 .. 2 : i = 1 \/ i = 2
    OBVIOUS
  <1>7. \A i \in DOMAIN b : b[i].type \in {"system", "user"}
    BY <1>3, <1>5, <1>6
  <1>8. Replay!Conversation(b)
    BY <1>7 DEF Replay!Conversation
  <1>9. \A s : s \notin {"system", "user"} => Replay!Types(b, s) = {}
    BY <1>7 DEF Replay!Types, Replay!Places
  <1> QED
    BY <1>1, <1>2, <1>4, <1>5, <1>8, <1>9

LEMMA InputIsConversation ==
    ASSUME NEW p \in Nat, NEW form,
           p # 0 => turns[p].shape \in [reasoning : BOOLEAN, message : BOOLEAN, call : BOOLEAN]
    PROVE  /\ Replay!Input(p, form) \in Seq(ReplayItem) /\ Replay!Conversation(Replay!Input(p, form))
           /\ Replay!Types(Replay!Input(p, form), "reasoning") \subseteq {p} \ {0}
           /\ Replay!Types(Replay!Input(p, form), "assistant") = IF p # 0 /\ turns[p].shape.message THEN {p} ELSE {}
  <1>1. PICK b0 : b0 = <<Replay!Item("system", 0), Replay!Item("user", 0)>>
    OBVIOUS
  <1>2. /\ b0 \in Seq(ReplayItem) /\ Replay!Conversation(b0)
        /\ \A s : s \notin {"system", "user"} => Replay!Types(b0, s) = {}
    BY <1>1, Beginning
  <1>3. CASE p = 0
    BY <1>1, <1>2, <1>3 DEF Replay!Input
  <1>4. CASE p # 0
    <2>1. PICK u : u = turns[p].shape
      OBVIOUS
    <2>2. u.reasoning \in BOOLEAN /\ u.message \in BOOLEAN /\ u.call \in BOOLEAN
      BY <1>4, <2>1
    <2>6. PICK answer : answer = IF u.call THEN "output" ELSE "user"
      OBVIOUS
    <2>7. answer \in ItemTypes /\ answer \in {"output", "user"}
      BY <2>6 DEF ItemTypes
    <2>8. PICK x1 : x1 = Replay!Item("reasoning", p)
      OBVIOUS
    <2>9. PICK x2 : x2 = Replay!Item("assistant", p)
      OBVIOUS
    <2>10. PICK x3 : x3 = Replay!Item("call", p)
      OBVIOUS
    <2>11. PICK x4 : x4 = Replay!Item(answer, p)
      OBVIOUS
    <2>12. /\ x1 \in ReplayItem /\ x1.type = "reasoning" /\ x1.turn = p
           /\ x2 \in ReplayItem /\ x2.type = "assistant" /\ x2.turn = p
           /\ x3 \in ReplayItem /\ x3.type = "call" /\ x3.turn = p
           /\ x4 \in ReplayItem /\ x4.type = answer /\ x4.turn = p
      BY <2>7, <2>8, <2>9, <2>10, <2>11, ItemFields DEF ItemTypes
    <2>13. PICK e1 : e1 = IF form = "echo" /\ u.reasoning THEN <<x1>> ELSE <<>>
      OBVIOUS
    <2>14. PICK e2 : e2 = IF u.message THEN <<x2>> ELSE <<>>
      OBVIOUS
    <2>15. PICK e3 : e3 = IF u.call /\ form # "outputs" THEN <<x3>> ELSE <<>>
      OBVIOUS
    <2>16. PICK e4 : e4 = <<x4>>
      OBVIOUS
    <2>17. Extra(e1, x1) /\ Extra(e2, x2) /\ Extra(e3, x3) /\ Extra(e4, x4) /\ e4 # <<>> /\ (e2 # <<>> <=> u.message)
      BY <2>13, <2>14, <2>15, <2>16 DEF Extra
    <2>18. PICK b1 : Joined(b1, b0, e1)
      BY DEF Joined
    <2>19. PICK b2 : Joined(b2, b1, e2)
      BY DEF Joined
    <2>20. PICK b3 : Joined(b3, b2, e3)
      BY DEF Joined
    <2>21. PICK b4 : Joined(b4, b3, e4)
      BY DEF Joined
    <2>22. Replay!Input(p, form) = b4
      <3>1. Replay!Input(p, form) =
               b0 \o (IF form = "echo" /\ u.reasoning THEN <<x1>> ELSE <<>>)
                  \o (IF u.message THEN <<x2>> ELSE <<>>)
                  \o (IF u.call /\ form # "outputs" THEN <<x3>> ELSE <<>>)
                  \o <<x4>>
        BY <1>1, <1>4, <2>1, <2>6, <2>8, <2>9, <2>10, <2>11 DEF Replay!Input
      <3> QED
        BY <2>13, <2>14, <2>15, <2>16, <2>18, <2>19, <2>20, <2>21, <3>1 DEF Joined
    <2>23. Fits(b0, x1)
      BY <1>2, <2>12 DEF Fits
    <2>24. b1 \in Seq(ReplayItem) /\ Replay!Conversation(b1) /\ (IF e1 = <<>> THEN b1 = b0 ELSE HasMore(b1, b0, x1))
      BY <1>2, <2>12, <2>17, <2>18, <2>23, PartAdded
    <2>25. /\ Replay!Types(b1, "assistant") = {} /\ Replay!Types(b1, "call") = {} /\ Replay!Types(b1, "output") = {}
           /\ Replay!Types(b1, "reasoning") \subseteq {p}
      BY <1>2, <2>12, <2>24 DEF HasMore
    <2>26. Fits(b1, x2)
      BY <2>12, <2>25 DEF Fits
    <2>27. b2 \in Seq(ReplayItem) /\ Replay!Conversation(b2) /\ (IF e2 = <<>> THEN b2 = b1 ELSE HasMore(b2, b1, x2))
      BY <2>12, <2>17, <2>19, <2>24, <2>26, PartAdded
    <2>28. /\ Replay!Types(b2, "assistant") = IF u.message THEN {p} ELSE {}
           /\ Replay!Types(b2, "call") = {} /\ Replay!Types(b2, "output") = {}
           /\ Replay!Types(b2, "reasoning") \subseteq {p}
      BY <2>12, <2>17, <2>25, <2>27 DEF HasMore
    <2>29. Fits(b2, x3)
      BY <2>12, <2>28 DEF Fits
    <2>30. b3 \in Seq(ReplayItem) /\ Replay!Conversation(b3) /\ (IF e3 = <<>> THEN b3 = b2 ELSE HasMore(b3, b2, x3))
      BY <2>12, <2>17, <2>20, <2>27, <2>29, PartAdded
    <2>31. /\ Replay!Types(b3, "assistant") = IF u.message THEN {p} ELSE {}
           /\ Replay!Types(b3, "output") = {}
           /\ Replay!Types(b3, "reasoning") \subseteq {p}
      BY <2>12, <2>28, <2>30 DEF HasMore
    <2>32. Fits(b3, x4)
      BY <2>7, <2>12, <2>31 DEF Fits
    <2>33. b4 \in Seq(ReplayItem) /\ Replay!Conversation(b4) /\ (IF e4 = <<>> THEN b4 = b3 ELSE HasMore(b4, b3, x4))
      BY <2>12, <2>17, <2>21, <2>30, <2>32, PartAdded
    <2>34. /\ Replay!Types(b4, "assistant") = IF u.message THEN {p} ELSE {}
           /\ Replay!Types(b4, "reasoning") \subseteq {p}
      BY <2>7, <2>12, <2>17, <2>31, <2>33 DEF HasMore
    <2> QED
      BY <1>4, <2>1, <2>22, <2>33, <2>34
  <1> QED
    BY <1>3, <1>4

-----------------------------------------------------------------------------
(* Where the items of an entry go.                                           *)
LEMMA LeastPlace ==
    \A T : T \subseteq Nat /\ T # {} => Replay!Min(T) \in T /\ \A n \in T : Replay!Min(T) <= n
  BY LeastNumber DEF Replay!Min

LEMMA GreatestPlace ==
    \A T, k : k \in Nat /\ T \subseteq 1 .. k /\ T # {} => Replay!Max(T) \in T /\ \A n \in T : Replay!Max(T) >= n
  <1> SUFFICES ASSUME NEW T, NEW k \in Nat, T \subseteq 1 .. k, T # {}
               PROVE  Replay!Max(T) \in T /\ \A n \in T : Replay!Max(T) >= n
    OBVIOUS
  <1> DEFINE U == {k - n : n \in T}
  <1>1. U \subseteq Nat /\ U # {}
    <2>1. \A n \in T : k - n \in Nat
      OBVIOUS
    <2>2. PICK n \in T : TRUE
      OBVIOUS
    <2>3. k - n \in U
      OBVIOUS
    <2> QED
      BY <2>1, <2>3
  <1>2. PICK u \in U : \A v \in U : u <= v
    <2> HIDE DEF U
    <2> QED
      BY <1>1, LeastNumber
  <1>3. PICK m \in T : u = k - m
    BY <1>2
  <1>4. \A n \in T : k - n \in U
    OBVIOUS
  <1>5. ASSUME NEW n \in T PROVE m >= n
    <2>1. k - m <= k - n
      BY <1>2, <1>3, <1>4
    <2>2. n \in Nat /\ m \in Nat
      OBVIOUS
    <2> QED
      BY <2>1, <2>2
  <1> QED
    BY <1>3, <1>5 DEF Replay!Max

LEMMA InsertPlace ==
    ASSUME NEW b, b \in Seq(ReplayItem), NEW found
    PROVE  /\ Replay!ReplayInsertIndex(b, found) \in 1 .. Len(b) + 1
           /\ \A m \in DOMAIN b : b[m].type = "output" /\ b[m].turn \in Replay!Types(found, "call")
                                  => Replay!ReplayInsertIndex(b, found) <= m
  <1> DEFINE outputs == {n \in Replay!Places(b, "output") : b[n].turn \in Replay!Types(found, "call")}
             assistants == Replay!Places(b, "assistant")
             others == DOMAIN b \ Replay!Places(b, "system")
  <1>1. PICK k : k = Len(b)
    OBVIOUS
  <1>2. k \in Nat /\ DOMAIN b = 1 .. k
    BY <1>1
  <1>3. outputs \subseteq 1 .. k /\ assistants \subseteq 1 .. k /\ others \subseteq 1 .. k
    BY <1>2 DEF Replay!Places
  <1>4. Replay!ReplayInsertIndex(b, found) =
           CASE outputs # {} -> Replay!Min(outputs)
             [] outputs = {} /\ assistants # {} -> Replay!Max(assistants)
             [] outputs = {} /\ assistants = {} /\ others # {} -> Replay!Min(others)
             [] OTHER -> Len(b) + 1
    BY DEF Replay!ReplayInsertIndex
  <1>5. \A m \in DOMAIN b : b[m].type = "output" /\ b[m].turn \in Replay!Types(found, "call") => m \in outputs
    BY DEF Replay!Places
  <1> HIDE DEF outputs, assistants, others
  <1>6. CASE outputs # {}
    <2>1. outputs \subseteq Nat
      BY <1>3
    <2>2. Replay!Min(outputs) \in outputs /\ \A n \in outputs : Replay!Min(outputs) <= n
      BY <1>6, <2>1, LeastPlace
    <2>3. Replay!ReplayInsertIndex(b, found) = Replay!Min(outputs)
      BY <1>4, <1>6
    <2>4. Replay!Min(outputs) \in 1 .. k + 1
      <3>1. Replay!Min(outputs) \in 1 .. k
        BY <1>3, <2>2
      <3> QED
        BY <1>2, <3>1
    <2> QED
      BY <1>1, <1>5, <2>2, <2>3, <2>4
  <1>7. CASE outputs = {}
    <2>1. others \subseteq Nat
      BY <1>3
    <2>2. assistants # {} => Replay!Max(assistants) \in 1 .. k
      BY <1>2, <1>3, GreatestPlace
    <2>3. others # {} => Replay!Min(others) \in 1 .. k
      BY <1>3, <2>1, LeastPlace
    <2>4. Replay!ReplayInsertIndex(b, found) \in 1 .. k + 1
      <3>1. k + 1 \in 1 .. k + 1 /\ 1 .. k \subseteq 1 .. k + 1
        BY <1>2
      <3> QED
        BY <1>1, <1>4, <1>7, <2>2, <2>3, <3>1
    <2> QED
      BY <1>1, <1>5, <1>7, <2>4
  <1> QED
    BY <1>6, <1>7

(* c is a, of length k, and b, of length f.                                  *)
Composed(c, a, k, b, f) ==
    /\ c \in Seq(ReplayItem) /\ k \in Nat /\ f \in Nat /\ Len(c) = k + f /\ DOMAIN c = 1 .. k + f
    /\ \A i \in 1 .. k : c[i] = a[i]
    /\ \A i \in 1 .. f : c[k + i] = b[i]

LEMMA ComposedItems ==
    ASSUME NEW a, a \in Seq(ReplayItem), NEW b, b \in Seq(ReplayItem), NEW c, Joined(c, a, b)
    PROVE  Composed(c, a, Len(a), b, Len(b))
  <1>1. c = a \o b
    BY DEF Joined
  <1>2. Len(a) \in Nat /\ Len(b) \in Nat
    OBVIOUS
  <1>3. c \in Seq(ReplayItem) /\ Len(c) = Len(a) + Len(b) /\ DOMAIN c = 1 .. Len(a) + Len(b)
    BY <1>1
  <1>4. \A i \in 1 .. Len(a) : c[i] = a[i]
    BY <1>1
  <1>5. \A i \in 1 .. Len(b) : c[Len(a) + i] = b[i]
    BY <1>1
  <1> QED
    BY <1>2, <1>3, <1>4, <1>5 DEF Composed

(* new is b with found put before its place n.                               *)
Inserted(new, b, k, found, f, n) ==
    /\ new \in Seq(ReplayItem) /\ DOMAIN new = 1 .. k + f
    /\ \A i \in 1 .. n - 1 : new[i] = b[i]
    /\ \A i \in n .. n - 1 + f : new[i] = found[i - (n - 1)]
    /\ \A i \in n + f .. k + f : new[i] = b[i - f]

LEMMA InsertedItems ==
    ASSUME NEW b, b \in Seq(ReplayItem), NEW found, found \in Seq(ReplayItem), NEW n \in 1 .. Len(b) + 1,
           NEW first, first = SubSeq(b, 1, n - 1), NEW last, last = SubSeq(b, n, Len(b)),
           NEW begun, Joined(begun, first, found), NEW new, Joined(new, begun, last)
    PROVE  Inserted(new, b, Len(b), found, Len(found), n)
  <1>1. PICK k : k = Len(b)
    OBVIOUS
  <1>2. PICK f : f = Len(found)
    OBVIOUS
  <1>3. k \in Nat /\ f \in Nat /\ n \in Nat /\ n \in 1 .. k + 1 /\ n - 1 \in Nat /\ k - (n - 1) \in Nat
    BY <1>1, <1>2
  <1>4. /\ first \in Seq(ReplayItem) /\ Len(first) = n - 1 /\ \A i \in 1 .. n - 1 : first[i] = b[i]
        /\ last \in Seq(ReplayItem) /\ Len(last) = k - (n - 1) /\ \A i \in 1 .. k - (n - 1) : last[i] = b[i + (n - 1)]
    <2>1. first \in Seq(ReplayItem) /\ Len(first) = n - 1 /\ \A i \in 1 .. n - 1 : first[i] = b[i]
      BY <1>1, <1>3
    <2>2. last = SubSeq(b, n, k)
      BY <1>1
    <2>3. last \in Seq(ReplayItem) /\ Len(last) = k - (n - 1) /\ \A i \in 1 .. k - (n - 1) : last[i] = b[i + (n - 1)]
      BY <1>1, <1>3, <2>2
    <2> QED
      BY <2>1, <2>3
  <1>5. Composed(begun, first, n - 1, found, f)
    BY <1>2, <1>4, ComposedItems
  <1>6. begun \in Seq(ReplayItem) /\ Len(begun) = n - 1 + f
    BY <1>5 DEF Composed
  <1>7. Composed(new, begun, n - 1 + f, last, k - (n - 1))
    BY <1>4, <1>6, ComposedItems
  <1> HIDE DEF Joined
  <1>8. new \in Seq(ReplayItem) /\ DOMAIN new = 1 .. k + f
    <2>1. n - 1 + f + (k - (n - 1)) = k + f
      BY <1>3
    <2> QED
      BY <1>7, <2>1 DEF Composed
  <1>9. ASSUME NEW i \in 1 .. n - 1 PROVE new[i] = b[i]
    <2>1. i \in 1 .. n - 1 + f
      BY <1>3
    <2> QED
      BY <1>4, <1>5, <1>7, <2>1 DEF Composed
  <1>10. ASSUME NEW i \in n .. n - 1 + f PROVE new[i] = found[i - (n - 1)]
    <2>1. i \in 1 .. n - 1 + f /\ i - (n - 1) \in 1 .. f /\ (n - 1) + (i - (n - 1)) = i
      BY <1>3
    <2>2. new[i] = begun[i]
      BY <1>7, <2>1 DEF Composed
    <2>3. begun[(n - 1) + (i - (n - 1))] = found[i - (n - 1)]
      BY <1>5, <2>1 DEF Composed
    <2> QED
      BY <2>1, <2>2, <2>3
  <1>11. ASSUME NEW i \in n + f .. k + f PROVE new[i] = b[i - f]
    <2>1. PICK j : j = i - (n - 1 + f)
      OBVIOUS
    <2>2. j \in 1 .. k - (n - 1) /\ (n - 1 + f) + j = i /\ j + (n - 1) = i - f
      BY <1>3, <2>1
    <2>3. new[(n - 1 + f) + j] = last[j]
      BY <1>7, <2>2 DEF Composed
    <2>4. last[j] = b[j + (n - 1)]
      BY <1>4, <2>2
    <2> QED
      BY <2>2, <2>3, <2>4
  <1> QED
    BY <1>1, <1>2, <1>8, <1>9, <1>10, <1>11 DEF Inserted

(* Items a body lacks, put before the outputs of their calls, leave it a     *)
(* conversation.                                                             *)
LEMMA InsertIsConversation ==
    ASSUME NEW b, b \in Seq(ReplayItem), Replay!Conversation(b),
           NEW found, found \in Seq(ReplayItem),
           \A i \in DOMAIN found : found[i].type # "output" /\ found[i].turn \notin Replay!Types(b, found[i].type),
           \A i, j \in DOMAIN found : i # j => found[i] # found[j],
           NEW new, new = Replay!InsertReplayItems(b, found)
    PROVE  /\ new \in Seq(ReplayItem) /\ Replay!Conversation(new)
           /\ \A s : Replay!Types(new, s) \subseteq Replay!Types(b, s) \cup Replay!Types(found, s)
  <1>1. PICK n : n = Replay!ReplayInsertIndex(b, found)
    OBVIOUS
  <1>2. PICK k : k = Len(b)
    OBVIOUS
  <1>3. PICK f : f = Len(found)
    OBVIOUS
  <1>4. /\ n \in 1 .. k + 1 /\ k \in Nat /\ f \in Nat /\ n \in Nat /\ DOMAIN b = 1 .. k /\ DOMAIN found = 1 .. f
        /\ \A m \in 1 .. k : b[m].type = "output" /\ b[m].turn \in Replay!Types(found, "call") => n <= m
    BY <1>1, <1>2, <1>3, InsertPlace
  <1>5. /\ new \in Seq(ReplayItem) /\ DOMAIN new = 1 .. k + f
        /\ \A i \in 1 .. n - 1 : new[i] = b[i]
        /\ \A i \in n .. n - 1 + f : new[i] = found[i - (n - 1)]
        /\ \A i \in n + f .. k + f : new[i] = b[i - f]
    <2>1. PICK first : first = SubSeq(b, 1, n - 1)
      OBVIOUS
    <2>2. PICK last : last = SubSeq(b, n, Len(b))
      OBVIOUS
    <2>3. PICK begun : Joined(begun, first, found)
      BY DEF Joined
    <2>4. new = first \o found \o last
      BY <1>1, <2>1, <2>2 DEF Replay!InsertReplayItems
    <2>5. Joined(new, begun, last)
      BY <2>3, <2>4 DEF Joined
    <2>6. n \in 1 .. Len(b) + 1
      BY <1>2, <1>4
    <2>7. Inserted(new, b, Len(b), found, Len(found), n)
      BY <2>1, <2>2, <2>3, <2>5, <2>6, InsertedItems
    <2> QED
      BY <1>2, <1>3, <2>7 DEF Inserted
  <1> DEFINE Old(i, j) == i \in 1 .. k + f /\ j \in 1 .. k /\ new[i] = b[j] /\ i = IF j < n THEN j ELSE j + f
             Put(i, j) == i \in 1 .. k + f /\ j \in 1 .. f /\ new[i] = found[j] /\ i = n - 1 + j
  <1>6. \A i \in 1 .. k + f : (\E j : Old(i, j)) \/ (\E j : Put(i, j))
    <2> SUFFICES ASSUME NEW i \in 1 .. k + f PROVE (\E j : Old(i, j)) \/ (\E j : Put(i, j))
      OBVIOUS
    <2>1. i \in 1 .. n - 1 \/ i \in n .. n - 1 + f \/ i \in n + f .. k + f
      BY <1>4
    <2>2. CASE i \in 1 .. n - 1
      <3>1. i \in 1 .. k /\ i < n
        BY <1>4, <2>2
      <3> QED
        BY <1>5, <2>2, <3>1
    <2>3. CASE i \in n .. n - 1 + f
      <3>1. i - (n - 1) \in 1 .. f /\ i = n - 1 + (i - (n - 1))
        BY <1>4, <2>3
      <3> QED
        BY <1>5, <2>3, <3>1
    <2>4. CASE i \in n + f .. k + f
      <3>1. i - f \in 1 .. k /\ ~(i - f < n) /\ i = (i - f) + f
        BY <1>4, <2>4
      <3> QED
        BY <1>5, <2>4, <3>1
    <2> QED
      BY <2>1, <2>2, <2>3, <2>4
  <1>7. \A i, j, m, l : Old(i, j) /\ Old(m, l) => (j < l <=> i < m) /\ (j = l => i = m)
    BY <1>4
  <1>8. \A i, j, m : Old(i, j) /\ n <= j /\ (\E l : Put(m, l)) => m < i
    BY <1>4
  <1>9. \A i, j : Old(i, j) => i \in 1 .. k + f /\ j \in 1 .. k /\ new[i] = b[j]
    OBVIOUS
  <1>10. \A i, j : Put(i, j) => i \in 1 .. k + f /\ j \in 1 .. f /\ new[i] = found[j]
    OBVIOUS
  <1>11. \A i, j, m, l : Put(i, j) /\ Put(m, l) /\ i # m => j # l
    OBVIOUS
  <1> HIDE DEF Old, Put
  <1>12. \A i, j, m, l : Old(i, j) /\ Put(m, l) => new[i] # new[m]
    <2> SUFFICES ASSUME NEW i, NEW j, NEW m, NEW l, Old(i, j), Put(m, l), new[i] = new[m] PROVE FALSE
      OBVIOUS
    <2>1. j \in DOMAIN b /\ l \in DOMAIN found /\ b[j] = found[l]
      BY <1>4, <1>9, <1>10
    <2>2. found[l].turn \in Replay!Types(b, found[l].type)
      BY <2>1, TypesOf
    <2> QED
      BY <2>1, <2>2
  <1>13. ASSUME NEW i \in DOMAIN new, NEW m \in DOMAIN new, i # m, new[i].type \notin {"system", "user"}
         PROVE  new[i] # new[m]
    <2>1. CASE \E j : Old(i, j)
      <3>1. PICK j : Old(i, j)
        BY <2>1
      <3>2. CASE \E l : Old(m, l)
        <4>1. PICK l : Old(m, l)
          BY <3>2
        <4>2. j \in DOMAIN b /\ l \in DOMAIN b /\ j # l /\ new[i] = b[j] /\ new[m] = b[l]
          BY <1>4, <1>7, <1>9, <1>13, <3>1, <4>1
        <4> QED
          BY <1>13, <4>2 DEF Replay!Conversation
      <3> QED
        BY <1>5, <1>6, <1>12, <3>1, <3>2
    <2>2. CASE \E j : Put(i, j)
      <3>1. PICK j : Put(i, j)
        BY <2>2
      <3>2. CASE \E l : Put(m, l)
        <4>1. PICK l : Put(m, l)
          BY <3>2
        <4>2. j \in DOMAIN found /\ l \in DOMAIN found /\ j # l /\ new[i] = found[j] /\ new[m] = found[l]
          BY <1>4, <1>10, <1>11, <1>13, <3>1, <4>1
        <4> QED
          BY <4>2
      <3> QED
        BY <1>5, <1>6, <1>12, <3>1, <3>2
    <2> QED
      BY <1>5, <1>6, <2>1, <2>2
  <1>14. ASSUME NEW m \in DOMAIN new, NEW i \in DOMAIN new,
                new[m].type = "output", new[i] = Replay!Item("call", new[m].turn)
         PROVE  i < m
    <2>0. ~\E l : Put(m, l)
      <3>1. ASSUME NEW l, Put(m, l) PROVE FALSE
        <4>1. l \in DOMAIN found /\ new[m] = found[l]
          BY <1>4, <1>10, <3>1
        <4> QED
          BY <1>14, <4>1
      <3> QED
        BY <3>1
    <2>1. PICK l : Old(m, l)
      BY <1>5, <1>6, <2>0
    <2>2. l \in DOMAIN b /\ new[m] = b[l]
      BY <1>4, <1>9, <2>1
    <2>3. CASE \E j : Old(i, j)
      <3>1. PICK j : Old(i, j)
        BY <2>3
      <3>2. j \in DOMAIN b /\ new[i] = b[j]
        BY <1>4, <1>9, <3>1
      <3>3. j < l
        BY <1>14, <2>2, <3>2 DEF Replay!Conversation
      <3> QED
        BY <1>7, <2>1, <3>1, <3>3
    <2>4. CASE \E j : Put(i, j)
      <3>1. PICK j : Put(i, j)
        BY <2>4
      <3>2. j \in DOMAIN found /\ new[i] = found[j]
        BY <1>4, <1>10, <3>1
      <3>3. found[j].type = "call" /\ found[j].turn = b[l].turn
        BY <1>14, <2>2, <3>2, ItemFields
      <3>4. b[l].turn \in Replay!Types(found, "call")
        BY <3>2, <3>3, TypesOf
      <3>5. n <= l
        BY <1>4, <1>14, <2>2, <3>4
      <3> QED
        BY <1>8, <2>1, <3>1, <3>5
    <2> QED
      BY <1>5, <1>6, <2>3, <2>4
  <1>15. ASSUME NEW s, NEW t, t \in Replay!Types(new, s)
         PROVE  t \in Replay!Types(b, s) \cup Replay!Types(found, s)
    <2>1. PICK i \in DOMAIN new : new[i].type = s /\ new[i].turn = t
      BY <1>15, TypesOf
    <2>2. CASE \E j : Old(i, j)
      BY <1>4, <1>9, <2>1, <2>2, TypesOf
    <2>3. CASE \E j : Put(i, j)
      BY <1>4, <1>10, <2>1, <2>3, TypesOf
    <2> QED
      BY <1>5, <1>6, <2>1, <2>2, <2>3
  <1> QED
    BY <1>5, <1>13, <1>14, <1>15 DEF Replay!Conversation

-----------------------------------------------------------------------------
(* The stored an answer is stored as, and those of them a body lacks.         *)
ReplayShape == [reasoning : BOOLEAN, message : BOOLEAN, call : BOOLEAN]

LEMMA OutputItems ==
    ASSUME NEW q \in Nat, NEW shape \in ReplayShape, NEW stored, stored = Replay!Output(q, shape)
    PROVE  /\ stored \in Seq(ReplayItem)
           /\ \A i \in DOMAIN stored : stored[i].type \in {"reasoning", "assistant", "call"} /\ stored[i].turn = q
           /\ \A i, j \in DOMAIN stored : i # j => stored[i] # stored[j]
           /\ shape.reasoning \/ shape.call => Len(stored) \in 1 .. 3
           /\ Replay!Types(stored, "assistant") = IF shape.message THEN {q} ELSE {}
  <1>1. shape.reasoning \in BOOLEAN /\ shape.message \in BOOLEAN /\ shape.call \in BOOLEAN
    BY DEF ReplayShape
  <1>2. PICK x1 : x1 = Replay!Item("reasoning", q)
    OBVIOUS
  <1>3. PICK x2 : x2 = Replay!Item("assistant", q)
    OBVIOUS
  <1>4. PICK x3 : x3 = Replay!Item("call", q)
    OBVIOUS
  <1>5. /\ x1 \in ReplayItem /\ x1.type = "reasoning" /\ x1.turn = q
        /\ x2 \in ReplayItem /\ x2.type = "assistant" /\ x2.turn = q
        /\ x3 \in ReplayItem /\ x3.type = "call" /\ x3.turn = q
    BY <1>2, <1>3, <1>4, ItemFields DEF ItemTypes
  <1>6. PICK b1 : b1 = IF shape.reasoning THEN <<x1>> ELSE <<>>
    OBVIOUS
  <1>7. PICK e2 : e2 = IF shape.message THEN <<x2>> ELSE <<>>
    OBVIOUS
  <1>8. PICK e3 : e3 = IF shape.call THEN <<x3>> ELSE <<>>
    OBVIOUS
  <1>9. /\ Extra(b1, x1) /\ Extra(e2, x2) /\ Extra(e3, x3)
        /\ b1 \in Seq(ReplayItem) /\ e2 \in Seq(ReplayItem) /\ e3 \in Seq(ReplayItem)
        /\ (b1 # <<>> <=> shape.reasoning) /\ (e2 # <<>> <=> shape.message) /\ (e3 # <<>> <=> shape.call)
        /\ Len(b1) = (IF shape.reasoning THEN 1 ELSE 0)
        /\ Len(e2) = (IF shape.message THEN 1 ELSE 0) /\ Len(e3) = (IF shape.call THEN 1 ELSE 0)
    BY <1>1, <1>5, <1>6, <1>7, <1>8 DEF Extra
  <1>10. PICK b2 : Joined(b2, b1, e2)
    BY DEF Joined
  <1>11. PICK b3 : Joined(b3, b2, e3)
    BY DEF Joined
  <1>12. stored = b3
    <2>1. Replay!Output(q, shape) = (IF shape.reasoning THEN <<x1>> ELSE <<>>)
                \o (IF shape.message THEN <<x2>> ELSE <<>>) \o (IF shape.call THEN <<x3>> ELSE <<>>)
      BY <1>2, <1>3, <1>4 DEF Replay!Output
    <2> QED
      BY <1>6, <1>7, <1>8, <1>10, <1>11, <2>1 DEF Joined
  <1>13. PICK none : none = <<>>
    OBVIOUS
  <1>14. none \in Seq(ReplayItem) /\ DOMAIN none = {} /\ Joined(b1, none, b1)
    BY <1>9, <1>13 DEF Joined
  <1>15. Replay!Conversation(none) /\ \A s : Replay!Types(none, s) = {}
    BY <1>14 DEF Replay!Conversation, Replay!Types, Replay!Places
  <1>16. Fits(none, x1)
    BY <1>15 DEF Fits
  <1>17. Replay!Conversation(b1) /\ (IF b1 = <<>> THEN b1 = none ELSE HasMore(b1, none, x1))
    BY <1>5, <1>9, <1>14, <1>15, <1>16, PartAdded
  <1>18. \A s, t : t \in Replay!Types(b1, s) => s = "reasoning" /\ t = q
    BY <1>5, <1>15, <1>17 DEF HasMore
  <1>19. Fits(b1, x2)
    BY <1>5, <1>18 DEF Fits
  <1>20. /\ b2 \in Seq(ReplayItem) /\ Replay!Conversation(b2)
         /\ IF e2 = <<>> THEN b2 = b1 ELSE HasMore(b2, b1, x2)
    BY <1>5, <1>9, <1>10, <1>17, <1>19, PartAdded
  <1>21. /\ \A s, t : t \in Replay!Types(b2, s) => s \in {"reasoning", "assistant"} /\ t = q
         /\ Replay!Types(b2, "assistant") = IF shape.message THEN {q} ELSE {}
    BY <1>5, <1>9, <1>18, <1>20 DEF HasMore
  <1>22. Fits(b2, x3)
    BY <1>5, <1>21 DEF Fits
  <1>23. /\ b3 \in Seq(ReplayItem) /\ Replay!Conversation(b3)
         /\ IF e3 = <<>> THEN b3 = b2 ELSE HasMore(b3, b2, x3)
    BY <1>5, <1>9, <1>11, <1>20, <1>22, PartAdded
  <1>24. /\ \A s, t : t \in Replay!Types(b3, s) => s \in {"reasoning", "assistant", "call"} /\ t = q
         /\ Replay!Types(b3, "assistant") = IF shape.message THEN {q} ELSE {}
    BY <1>5, <1>9, <1>21, <1>23 DEF HasMore
  <1>25. ASSUME NEW i \in DOMAIN b3
         PROVE  b3[i].type \in {"reasoning", "assistant", "call"} /\ b3[i].turn = q
    <2>1. b3[i].turn \in Replay!Types(b3, b3[i].type)
      BY TypeAt
    <2> QED
      BY <1>24, <2>1
  <1>26. \A i, j \in DOMAIN b3 : i # j => b3[i] # b3[j]
    BY <1>23, <1>25 DEF Replay!Conversation
  <1>27. shape.reasoning \/ shape.call => Len(b3) \in 1 .. 3
    <2>1. Composed(b2, b1, Len(b1), e2, Len(e2)) /\ Composed(b3, b2, Len(b2), e3, Len(e3))
      BY <1>9, <1>10, <1>11, <1>20, ComposedItems
    <2>2. Len(b2) = Len(b1) + Len(e2) /\ Len(b3) = Len(b2) + Len(e3)
      BY <2>1 DEF Composed
    <2> QED
      BY <1>1, <1>9, <2>2
  <1> QED
    BY <1>12, <1>23, <1>24, <1>25, <1>26, <1>27

LEMMA LastOfAssistants ==
    ASSUME NEW input, input \in Seq(ReplayItem), 0 \notin Replay!Types(input, "assistant")
    PROVE  IF Replay!LastAssistant(input) = 0 THEN Replay!Types(input, "assistant") = {}
           ELSE Replay!LastAssistant(input) \in Replay!Types(input, "assistant")
  <1>1. CASE Replay!Places(input, "assistant") = {}
    BY <1>1 DEF Replay!LastAssistant, Replay!Types
  <1>2. CASE Replay!Places(input, "assistant") # {}
    <2>1. PICK places : places = Replay!Places(input, "assistant")
      OBVIOUS
    <2>2. places \subseteq 1 .. Len(input) /\ Len(input) \in Nat /\ places # {}
      BY <1>2, <2>1 DEF Replay!Places
    <2>3. Replay!Max(places) \in places
      BY <2>2, GreatestPlace
    <2>4. Replay!LastAssistant(input) = input[Replay!Max(places)].turn
      BY <1>2, <2>1 DEF Replay!LastAssistant
    <2>5. Replay!LastAssistant(input) \in Replay!Types(input, "assistant")
      BY <2>1, <2>3, <2>4 DEF Replay!Types
    <2> QED
      BY <2>5
  <1> QED
    BY <1>1, <1>2

LEMMA FoundItems ==
    ASSUME NEW input, input \in Seq(ReplayItem), 0 \notin Replay!Types(input, "assistant"),
           NEW q \in Nat, NEW shape \in ReplayShape, NEW stored, stored = Replay!Output(q, shape),
           NEW found, found = Replay!FilterReplayItems(input, stored)
    PROVE  /\ found \in Seq(ReplayItem)
           /\ \A i \in DOMAIN found : /\ found[i].type \in {"reasoning", "assistant", "call"} /\ found[i].turn = q
                                      /\ found[i].turn \notin Replay!Types(input, found[i].type)
           /\ \A i, j \in DOMAIN found : i # j => found[i] # found[j]
           /\ found # <<>> /\ shape.message /\ Replay!Types(input, "assistant") # {} =>
                 q \in Replay!Types(input, "assistant")
  <1> DEFINE last == Replay!LastAssistant(input)
             cached == Replay!Types(stored, "assistant")
             Lacking(x) ==
                CASE x.type = "reasoning" -> x.turn \notin Replay!Types(input, "reasoning")
                  [] x.type = "assistant" -> last = 0
                  [] OTHER -> x.turn \notin Replay!Types(input, "call") /\ x.turn \in Replay!Types(input, "output")
             wanted == {x \in Replay!ToSet(stored) : Lacking(x)}
  <1>1. found = IF last # 0 /\ cached # {} /\ last \notin cached THEN <<>> ELSE Replay!Kept(stored, wanted)
    BY DEF Replay!FilterReplayItems
  <1>2. /\ stored \in Seq(ReplayItem)
        /\ \A i \in DOMAIN stored : stored[i].type \in {"reasoning", "assistant", "call"} /\ stored[i].turn = q
        /\ \A i, j \in DOMAIN stored : i # j => stored[i] # stored[j]
        /\ cached = IF shape.message THEN {q} ELSE {}
    BY OutputItems
  <1>3. IF last = 0 THEN Replay!Types(input, "assistant") = {} ELSE last \in Replay!Types(input, "assistant")
    BY LastOfAssistants
  <1>4. \A x : x \in wanted => Lacking(x)
    OBVIOUS
  <1>5. ASSUME NEW x, Lacking(x), x.type \in {"reasoning", "assistant", "call"}
        PROVE  x.turn \notin Replay!Types(input, x.type)
    BY <1>3, <1>5
  <1> HIDE DEF last, cached, Lacking
  <1>6. PICK part : part = Replay!Kept(stored, wanted)
    OBVIOUS
  <1>7. part \in Seq(ReplayItem) /\ PartOf(part, stored, wanted)
    BY <1>2, <1>6, KeptIsPart
  <1> HIDE DEF wanted
  <1>8. PICK place \in [1 .. Len(part) -> 1 .. Len(stored)] :
            /\ \A i \in 1 .. Len(part) : part[i] = stored[place[i]] /\ part[i] \in wanted
            /\ \A i, j \in 1 .. Len(part) : i < j => place[i] < place[j]
    BY <1>7 DEF PartOf
  <1>9. DOMAIN part = 1 .. Len(part) /\ DOMAIN stored = 1 .. Len(stored) /\ Len(part) \in Nat /\ Len(stored) \in Nat
    BY <1>2, <1>7
  <1>10. \A i \in 1 .. Len(part) : place[i] \in 1 .. Len(stored)
    BY <1>8
  <1>11. \A i \in DOMAIN part : /\ part[i].type \in {"reasoning", "assistant", "call"} /\ part[i].turn = q
                                /\ part[i].turn \notin Replay!Types(input, part[i].type)
    BY <1>2, <1>4, <1>5, <1>8, <1>9, <1>10
  <1>12. ASSUME NEW i \in DOMAIN part, NEW j \in DOMAIN part, i # j PROVE part[i] # part[j]
    <2>1. i < j \/ j < i
      BY <1>9, <1>12
    <2>2. place[i] # place[j]
      BY <1>8, <1>9, <1>10, <2>1
    <2> QED
      BY <1>2, <1>8, <1>9, <1>10, <2>2
  <1>13. CASE last # 0 /\ cached # {} /\ last \notin cached
    <2>1. found = <<>>
      BY <1>1, <1>13
    <2>2. found \in Seq(ReplayItem) /\ DOMAIN found = {}
      BY <2>1
    <2> QED
      BY <2>1, <2>2
  <1>14. CASE ~(last # 0 /\ cached # {} /\ last \notin cached)
    <2>1. found = part
      BY <1>1, <1>6, <1>14
    <2>2. shape.message /\ Replay!Types(input, "assistant") # {} => q \in Replay!Types(input, "assistant")
      BY <1>2, <1>3, <1>14
    <2> QED
      BY <1>7, <1>11, <1>12, <2>1, <2>2
  <1> QED
    BY <1>13, <1>14

-----------------------------------------------------------------------------
(* What is stored for a session is the output of one of its turns that is    *)
(* over and was not refused; a request replays items of turns of its session *)
(* that are over; a client's history names the turn it continues.            *)
TurnFields == {"pc", "session", "last", "previousId", "body", "injected", "shape"}
Waiting == {"new", "asked"}
Over(all, q) == q \in DOMAIN all /\ all[q].pc = "done"
TurnType(u, sessions) ==
    /\ DOMAIN u = TurnFields
    /\ u.pc \in {"new", "asked", "call", "stripped", "reset", "answered", "done", "failed"}
    /\ u.body \in Seq(ReplayItem) /\ Replay!Conversation(u.body)
    /\ u.pc \in {"answered", "done"} => u.shape \in ReplayShape
    /\ u.pc # "new" => u.session \in sessions
    /\ u.pc \in Waiting => u.injected = {}
TurnPast(u, all) ==
    /\ u.last # 0 => Over(all, u.last)
    /\ \A q \in Replay!Types(u.body, "reasoning") : Over(all, q) /\ all[q].session = u.session
    /\ u.pc = "asked" => Replay!Types(u.body, "assistant") =
                             IF u.last # 0 /\ all[u.last].shape.message THEN {u.last} ELSE {}
    /\ \A x \in u.injected :
          /\ Over(all, x.turn)
          /\ \/ x.turn = u.last \/ u.last = 0
             \/ ~all[u.last].shape.message \/ ~all[x.turn].shape.message
StoredFor(entry, s, all, banned, now) ==
    /\ DOMAIN entry = {"items", "expiresAt", "storedAt"} /\ entry.storedAt \in 0 .. now
    /\ \E q \in DOMAIN all :
        /\ all[q].pc = "done" /\ all[q].session = s /\ q \notin banned
        /\ all[q].shape.reasoning \/ all[q].shape.call
        /\ entry.items = Replay!Output(q, all[q].shape)

TrafficOK == traffic \in Traffics /\ clock \in 0 .. traffic.ticks
StoreOK ==
    /\ cache = [s \in Replay!Session |-> cache[s]]
    /\ \A s \in Replay!Keys : StoredFor(cache[s], s, turns, refused, clock)
    /\ Cardinality(Replay!Keys) <= MaxSize
TurnsOK ==
    /\ turns = [t \in Replay!Turn |-> turns[t]]
    /\ \A t \in Replay!Turn : TurnType(turns[t], Replay!Session) /\ TurnPast(turns[t], turns)
RefusedOK == \A q \in refused : Over(turns, q)
ReplayInv == TrafficOK /\ StoreOK /\ TurnsOK /\ RefusedOK

LEMMA TrafficFacts ==
    ASSUME TrafficOK
    PROVE  /\ IsFiniteSet(Replay!Session) /\ traffic.turns \in Nat /\ traffic.ticks \in Nat
           /\ Replay!Turn \subseteq Nat \ {0} /\ traffic.shapes \subseteq ReplayShape
           /\ clock \in Nat /\ MaxSize \in Nat
  <1>1. IsFiniteSet(traffic.sessions) <=> Replay!IsFiniteSet(traffic.sessions)
    BY DEF IsFiniteSet, Replay!IsFiniteSet
  <1>2. /\ Replay!IsFiniteSet(traffic.sessions) /\ traffic.turns \in Nat /\ traffic.ticks \in Nat
        /\ traffic.shapes \subseteq ReplayShape /\ MaxSize \in Nat
    BY ReplayIsCounted DEF Replay!ReplayAssumption, TrafficOK, ReplayShape
  <1>3. Replay!Turn \subseteq Nat \ {0}
    BY <1>2 DEF Replay!Turn
  <1> QED
    BY <1>1, <1>2, <1>3 DEF Replay!Session, TrafficOK

LEMMA KeyCount == \A S : Replay!Cardinality(S) = Cardinality(S)
  BY DEF Replay!Cardinality, Cardinality

LEMMA KeysAreFinite == ASSUME TrafficOK PROVE \A S : S \subseteq Replay!Session => IsFiniteSet(S) /\ Cardinality(S) \in Nat
  BY TrafficFacts, FS_Subset, FS_CardinalityType

LEMMA ReplayInit == ASSUME Replay!Init PROVE ReplayInv
  <1>1. traffic \in Traffics /\ clock = 0 /\ refused = {}
    BY DEF Replay!Init
  <1>2. TrafficOK
    BY <1>1, ReplayIsCounted DEF TrafficOK, Replay!ReplayAssumption
  <1>3. cache = [s \in Replay!Session |-> cache[s]] /\ Replay!Keys = {}
    BY DEF Replay!Init, Replay!Keys
  <1>4. Cardinality(Replay!Keys) <= MaxSize
    BY <1>2, <1>3, FS_EmptySet, TrafficFacts
  <1>5. PICK u : u = Replay!Unused
    OBVIOUS
  <1>6. /\ DOMAIN u = TurnFields /\ u.pc = "new" /\ u.last = 0 /\ u.body = <<>> /\ u.injected = {}
    BY <1>5 DEF Replay!Unused, TurnFields
  <1>7. Replay!Conversation(u.body) /\ Replay!Types(u.body, "reasoning") = {} /\ u.body \in Seq(ReplayItem)
    BY <1>6 DEF Replay!Conversation, Replay!Types, Replay!Places
  <1>8. TurnType(u, Replay!Session) /\ TurnPast(u, turns)
    BY <1>6, <1>7 DEF TurnType, TurnPast, Waiting
  <1>9. turns = [t \in Replay!Turn |-> u]
    BY <1>5 DEF Replay!Init
  <1>10. TurnsOK
    BY <1>8, <1>9 DEF TurnsOK
  <1> QED
    BY <1>1, <1>2, <1>3, <1>4, <1>10 DEF ReplayInv, StoreOK, RefusedOK

-----------------------------------------------------------------------------
(* A step of a turn that is not over leaves the ones that are as they were.  *)
LEMMA PastRemains ==
    ASSUME NEW all, NEW new, DOMAIN new = DOMAIN all, NEW v, TurnPast(v, all),
           \A q : Over(all, q) => Over(new, q) /\ new[q] = all[q]
    PROVE  TurnPast(v, new)
  <1>1. v.last # 0 => Over(all, v.last) /\ Over(new, v.last) /\ new[v.last] = all[v.last]
    BY DEF TurnPast
  <1>2. \A q \in Replay!Types(v.body, "reasoning") : Over(new, q) /\ new[q].session = v.session
    BY DEF TurnPast
  <1>3. \A x \in v.injected : Over(all, x.turn) /\ Over(new, x.turn) /\ new[x.turn] = all[x.turn]
    BY DEF TurnPast
  <1> HIDE DEF Over
  <1> QED
    BY <1>1, <1>2, <1>3 DEF TurnPast

LEMMA TurnMoves ==
    ASSUME TurnsOK, traffic' = traffic, NEW t \in Replay!Turn, turns[t].pc # "done",
           NEW u, turns' = [turns EXCEPT ![t] = u], TurnType(u, Replay!Session), TurnPast(u, turns)
    PROVE  /\ TurnsOK'
           /\ \A q : Over(turns, q) => q # t /\ Over(turns', q) /\ turns'[q] = turns[q]
           /\ turns'[t] = u /\ \A q \in Replay!Turn : q # t => turns'[q] = turns[q]
           /\ DOMAIN turns' = DOMAIN turns /\ DOMAIN turns = Replay!Turn
  <1>1. Replay!Turn' = Replay!Turn /\ Replay!Session' = Replay!Session
    BY DEF Replay!Turn, Replay!Session
  <1>2. /\ turns' = [q \in Replay!Turn |-> turns'[q]] /\ turns'[t] = u
        /\ \A q \in Replay!Turn : q # t => turns'[q] = turns[q]
        /\ DOMAIN turns' = Replay!Turn /\ DOMAIN turns = Replay!Turn
    BY DEF TurnsOK
  <1>3. \A q : Over(turns, q) => q # t /\ Over(turns', q) /\ turns'[q] = turns[q]
    BY <1>2 DEF Over
  <1>4. ASSUME NEW q \in Replay!Turn
        PROVE  TurnType(turns'[q], Replay!Session) /\ TurnPast(turns'[q], turns')
    <2>1. TurnType(turns'[q], Replay!Session) /\ TurnPast(turns'[q], turns)
      BY <1>2 DEF TurnsOK
    <2> QED
      BY <1>2, <1>3, <2>1, PastRemains
  <1> QED
    BY <1>1, <1>2, <1>3, <1>4 DEF TurnsOK

-----------------------------------------------------------------------------
LEMMA PartTypes ==
    ASSUME NEW seq, seq \in Seq(ReplayItem), NEW part, part \in Seq(ReplayItem), NEW wanted, PartOf(part, seq, wanted)
    PROVE  \A s : Replay!Types(part, s) \subseteq Replay!Types(seq, s)
  <1>1. PICK place \in [1 .. Len(part) -> 1 .. Len(seq)] :
            /\ \A i \in 1 .. Len(part) : part[i] = seq[place[i]] /\ part[i] \in wanted
            /\ \A i, j \in 1 .. Len(part) : i < j => place[i] < place[j]
    BY DEF PartOf
  <1>2. DOMAIN part = 1 .. Len(part) /\ DOMAIN seq = 1 .. Len(seq)
    OBVIOUS
  <1>3. ASSUME NEW s, NEW t, t \in Replay!Types(part, s) PROVE t \in Replay!Types(seq, s)
    <2>1. PICK i \in DOMAIN part : part[i].type = s /\ part[i].turn = t
      BY <1>3, TypesOf
    <2>2. place[i] \in DOMAIN seq /\ seq[place[i]] = part[i]
      BY <1>1, <1>2, <2>1
    <2> QED
      BY <2>1, <2>2, TypesOf
  <1> QED
    BY <1>3

(* The store, when no turn that is over changes.                             *)
LEMMA StoredStays ==
    ASSUME NEW all, NEW new, \A q : Over(all, q) => Over(new, q) /\ new[q] = all[q],
           NEW banned, NEW now, NEW later, NEW s, NEW entry, StoredFor(entry, s, all, banned, now),
           NEW after, DOMAIN after = DOMAIN entry, after.items = entry.items, after.storedAt \in 0 .. later
    PROVE  StoredFor(after, s, new, banned, later)
  <1>1. PICK q \in DOMAIN all :
           /\ all[q].pc = "done" /\ all[q].session = s /\ q \notin banned
           /\ all[q].shape.reasoning \/ all[q].shape.call
           /\ entry.items = Replay!Output(q, all[q].shape)
    BY DEF StoredFor
  <1>2. Over(all, q)
    BY <1>1 DEF Over
  <1>3. Over(new, q) /\ new[q] = all[q]
    BY <1>2
  <1>4. q \in DOMAIN new
    BY <1>3 DEF Over
  <1> QED
    BY <1>1, <1>3, <1>4 DEF StoredFor

LEMMA FewerKeys ==
    ASSUME TrafficOK, StoreOK, NEW S, S \subseteq Replay!Keys
    PROVE  Cardinality(S) <= MaxSize
  <1>1. Replay!Keys \subseteq Replay!Session
    BY DEF Replay!Keys
  <1>2. IsFiniteSet(Replay!Keys) /\ Cardinality(Replay!Keys) \in Nat /\ Cardinality(S) \in Nat
    BY <1>1, KeysAreFinite
  <1>3. Cardinality(S) <= Cardinality(Replay!Keys)
    BY <1>2, FS_Subset
  <1> QED
    BY <1>2, <1>3, TrafficFacts DEF StoreOK

LEMMA StoreShrinks ==
    ASSUME TrafficOK, StoreOK, traffic' = traffic, clock' \in Nat, clock <= clock', refused' = refused,
           \A q : Over(turns, q) => Over(turns', q) /\ turns'[q] = turns[q],
           cache' = [s \in Replay!Session |-> cache'[s]],
           \A s \in Replay!Session : cache'[s] # NoEntry =>
              /\ cache[s] # NoEntry /\ DOMAIN cache'[s] = DOMAIN cache[s] /\ cache'[s].items = cache[s].items
              /\ cache'[s].storedAt = cache[s].storedAt \/ cache'[s].storedAt = clock
    PROVE  StoreOK'
  <1>1. Replay!Session' = Replay!Session /\ Replay!Keys' \subseteq Replay!Keys /\ clock \in Nat
    BY TrafficFacts DEF Replay!Session, Replay!Keys
  <1>2. Cardinality(Replay!Keys') <= MaxSize
    BY <1>1, FewerKeys
  <1>3. ASSUME NEW s \in Replay!Keys' PROVE StoredFor(cache'[s], s, turns', refused', clock')
    <2>1. s \in Replay!Session /\ cache'[s] # NoEntry
      BY <1>1, <1>3 DEF Replay!Keys
    <2>2. s \in Replay!Keys
      BY <1>1, <1>3
    <2>3. StoredFor(cache[s], s, turns, refused, clock)
      BY <2>2 DEF StoreOK
    <2>4. cache[s].storedAt \in 0 .. clock
      BY <2>3 DEF StoredFor
    <2>5. cache'[s].storedAt \in 0 .. clock'
      BY <1>1, <2>1, <2>4
    <2>6. PICK entry : entry = cache[s]
      OBVIOUS
    <2>7. PICK after : after = cache'[s]
      OBVIOUS
    <2>8. /\ StoredFor(entry, s, turns, refused, clock)
          /\ DOMAIN after = DOMAIN entry /\ after.items = entry.items /\ after.storedAt \in 0 .. clock'
      BY <2>1, <2>3, <2>5, <2>6, <2>7
    <2>9. StoredFor(after, s, turns', refused, clock')
      BY <2>8, StoredStays
    <2> QED
      BY <2>7, <2>9
  <1> QED
    BY <1>1, <1>2, <1>3 DEF StoreOK

(* What a step of a turn keeps when it leaves the store alone.               *)
LEMMA RefusedStays ==
    ASSUME RefusedOK, NEW more, refused' = refused \cup more, \A q \in more : Over(turns, q),
           \A q : Over(turns, q) => Over(turns', q) /\ turns'[q] = turns[q]
    PROVE  RefusedOK'
  BY DEF RefusedOK

LEMMA OnlyTurn ==
    ASSUME ReplayInv, UNCHANGED <<traffic, cache, clock, refused>>,
           NEW t \in Replay!Turn, turns[t].pc # "done",
           NEW u, turns' = [turns EXCEPT ![t] = u], TurnType(u, Replay!Session), TurnPast(u, turns)
    PROVE  ReplayInv'
  <1>1. /\ TurnsOK'
        /\ \A q : Over(turns, q) => q # t /\ Over(turns', q) /\ turns'[q] = turns[q]
    BY TurnMoves DEF ReplayInv
  <1>2. TrafficOK' /\ clock \in Nat /\ clock' = clock /\ traffic' = traffic /\ refused' = refused /\ cache' = cache
    BY TrafficFacts DEF ReplayInv, TrafficOK
  <1>3. clock' \in Nat /\ clock <= clock'
    BY <1>2
  <1>4. /\ cache' = [s \in Replay!Session |-> cache'[s]]
        /\ \A s \in Replay!Session : cache'[s] # NoEntry =>
              /\ cache[s] # NoEntry /\ DOMAIN cache'[s] = DOMAIN cache[s] /\ cache'[s].items = cache[s].items
              /\ cache'[s].storedAt = cache[s].storedAt \/ cache'[s].storedAt = clock
    BY <1>2 DEF ReplayInv, StoreOK
  <1>5. StoreOK'
    BY <1>1, <1>2, <1>3, <1>4, StoreShrinks DEF ReplayInv
  <1>6. RefusedOK'
    BY <1>1, <1>2 DEF ReplayInv, RefusedOK
  <1> QED
    BY <1>1, <1>2, <1>5, <1>6 DEF ReplayInv

(* A turn whose body stays.                                                  *)
LEMMA TurnGoesOn ==
    ASSUME NEW old, NEW sessions, NEW all, TurnType(old, sessions), TurnPast(old, all), old.pc # "new",
           NEW u, DOMAIN u = TurnFields, u.pc \in {"call", "stripped", "reset", "answered", "done", "failed"},
           u.last = old.last, u.session = old.session, u.body = old.body, u.injected = old.injected,
           u.pc \in {"answered", "done"} => u.shape \in ReplayShape
    PROVE  TurnType(u, sessions) /\ TurnPast(u, all)
  <1>1. TurnType(u, sessions)
    BY DEF TurnType, Waiting
  <1>2. TurnPast(u, all)
    BY DEF TurnPast
  <1> QED
    BY <1>1, <1>2

-----------------------------------------------------------------------------
(* The request of a turn: what its client sends, and the items put into it.  *)
LEMMA AskKeeps ==
    ASSUME ReplayInv, NEW t \in Replay!Turn, NEW s \in Replay!Session, NEW p \in {0} \cup Replay!Turn, NEW form,
           Replay!Ask(t, s, p, form)
    PROVE  ReplayInv'
  <1>1. Replay!Turn \subseteq Nat \ {0}
    BY TrafficFacts DEF ReplayInv
  <1>2. /\ turns[t].pc = "new" /\ UNCHANGED <<traffic, cache, clock, refused>>
        /\ p # 0 => turns[p].pc = "done" /\ turns[p].session = s
    BY DEF Replay!Ask, Replay!At
  <1>3. PICK b : b = Replay!Input(p, form)
    OBVIOUS
  <1>4. PICK previous : previous = (form = "previous")
    OBVIOUS
  <1>5. PICK u : u = [turns[t] EXCEPT !.pc = "asked", !.session = s, !.last = p, !.previousId = previous, !.body = b]
    OBVIOUS
  <1>6. turns' = [turns EXCEPT ![t] = u]
    BY <1>3, <1>4, <1>5 DEF Replay!Ask
  <1>7. /\ \A q \in Replay!Turn : TurnType(turns[q], Replay!Session)
        /\ DOMAIN turns = Replay!Turn
    BY DEF ReplayInv, TurnsOK
  <1>8. /\ DOMAIN u = TurnFields /\ u.pc = "asked" /\ u.session = s /\ u.last = p /\ u.body = b
        /\ u.injected = {}
    <2>1. DOMAIN turns[t] = TurnFields /\ turns[t].injected = {}
      BY <1>2, <1>7 DEF TurnType, Waiting
    <2> QED
      BY <1>5, <2>1 DEF TurnFields
  <1>9. p # 0 => Over(turns, p) /\ turns[p].shape \in ReplayShape /\ turns[p].session = s
    BY <1>2, <1>7 DEF Over, TurnType
  <1>10. p \in Nat
    BY <1>1
  <1>11. /\ b \in Seq(ReplayItem) /\ Replay!Conversation(b)
         /\ Replay!Types(b, "reasoning") \subseteq {p} \ {0}
         /\ Replay!Types(b, "assistant") = IF p # 0 /\ turns[p].shape.message THEN {p} ELSE {}
    BY <1>3, <1>9, <1>10, InputIsConversation DEF ReplayShape
  <1>12. TurnType(u, Replay!Session)
    BY <1>8, <1>11 DEF TurnType, Waiting
  <1>13. TurnPast(u, turns)
    BY <1>8, <1>9, <1>11 DEF TurnPast
  <1> QED
    BY <1>2, <1>6, <1>12, <1>13, OnlyTurn

(* The items found for a request are of a turn of its session that is over.  *)
Finding(found, t, s) ==
    /\ s = turns[t].session /\ Replay!Live(s)
    /\ found = Replay!FilterReplayItems(turns[t].body, cache[s].items)
FoundOf(found, q, t, s) ==
    /\ Over(turns, q) /\ turns[q].session = s /\ q \notin refused
    /\ \A i \in DOMAIN found :
          /\ found[i].type \in {"reasoning", "assistant", "call"} /\ found[i].turn = q
          /\ found[i].turn \notin Replay!Types(turns[t].body, found[i].type)
    /\ found # <<>> => \/ q = turns[t].last \/ turns[t].last = 0
                       \/ ~turns[turns[t].last].shape.message \/ ~turns[q].shape.message

LEMMA FoundFor ==
    ASSUME ReplayInv, NEW t \in Replay!Turn, turns[t].pc = "asked", NEW s, NEW found, Finding(found, t, s)
    PROVE  /\ found \in Seq(ReplayItem)
           /\ \A i, j \in DOMAIN found : i # j => found[i] # found[j]
           /\ \E q : FoundOf(found, q, t, s)
  <1>1. TurnType(turns[t], Replay!Session) /\ TurnPast(turns[t], turns)
    BY DEF ReplayInv, TurnsOK
  <1>2. PICK input : input = turns[t].body
    OBVIOUS
  <1>3. PICK last : last = turns[t].last
    OBVIOUS
  <1>4. /\ input \in Seq(ReplayItem) /\ s \in Replay!Session
        /\ Replay!Types(input, "assistant") = IF last # 0 /\ turns[last].shape.message THEN {last} ELSE {}
    <2>1. turns[t].body \in Seq(ReplayItem) /\ turns[t].session \in Replay!Session
      BY <1>1 DEF TurnType
    <2>2. Replay!Types(turns[t].body, "assistant") =
              IF turns[t].last # 0 /\ turns[turns[t].last].shape.message THEN {turns[t].last} ELSE {}
      BY <1>1 DEF TurnPast
    <2> QED
      BY <1>2, <1>3, <2>1, <2>2 DEF Finding
  <1>5. s \in Replay!Keys
    BY <1>4 DEF Replay!Keys, Replay!Live, Finding
  <1>6. StoredFor(cache[s], s, turns, refused, clock)
    BY <1>5 DEF ReplayInv, StoreOK
  <1>7. PICK q \in DOMAIN turns :
            /\ turns[q].pc = "done" /\ turns[q].session = s /\ q \notin refused
            /\ cache[s].items = Replay!Output(q, turns[q].shape)
    BY <1>6 DEF StoredFor
  <1>8. q \in Replay!Turn /\ q \in Nat /\ Over(turns, q)
    BY <1>7, TrafficFacts DEF ReplayInv, TurnsOK, Over
  <1>9. turns[q].shape \in ReplayShape
    BY <1>7, <1>8 DEF ReplayInv, TurnsOK, TurnType
  <1>10. PICK shape \in ReplayShape : shape = turns[q].shape
    BY <1>9
  <1>11. PICK stored : stored = Replay!Output(q, shape)
    OBVIOUS
  <1>12. found = Replay!FilterReplayItems(input, stored)
    BY <1>2, <1>7, <1>10, <1>11 DEF Finding
  <1>13. 0 \notin Replay!Types(input, "assistant")
    BY <1>4
  <1>14. /\ found \in Seq(ReplayItem)
         /\ \A i \in DOMAIN found : /\ found[i].type \in {"reasoning", "assistant", "call"} /\ found[i].turn = q
                                    /\ found[i].turn \notin Replay!Types(input, found[i].type)
         /\ \A i, j \in DOMAIN found : i # j => found[i] # found[j]
         /\ found # <<>> /\ shape.message /\ Replay!Types(input, "assistant") # {} =>
               q \in Replay!Types(input, "assistant")
    BY <1>4, <1>8, <1>11, <1>12, <1>13, FoundItems
  <1>15. found # <<>> => q = last \/ last = 0 \/ ~turns[last].shape.message \/ ~turns[q].shape.message
    BY <1>4, <1>10, <1>14
  <1>16. FoundOf(found, q, t, s)
    BY <1>2, <1>3, <1>7, <1>8, <1>14, <1>15 DEF FoundOf
  <1> QED
    BY <1>14, <1>16

LEMMA AppliedTurn ==
    ASSUME ReplayInv, NEW t \in Replay!Turn, turns[t].pc = "asked", NEW s, NEW found, Finding(found, t, s),
           NEW body, body = (IF found = <<>> THEN turns[t].body ELSE Replay!InsertReplayItems(turns[t].body, found)),
           NEW u, DOMAIN u = TurnFields, u.pc = "call", u.session = s, u.last = turns[t].last, u.body = body,
           u.injected = Replay!ToSet(found)
    PROVE  TurnType(u, Replay!Session) /\ TurnPast(u, turns)
  <1>1. TurnType(turns[t], Replay!Session) /\ TurnPast(turns[t], turns)
    BY DEF ReplayInv, TurnsOK
  <1>2. PICK input : input = turns[t].body
    OBVIOUS
  <1>3. PICK last : last = turns[t].last
    OBVIOUS
  <1>4. /\ input \in Seq(ReplayItem) /\ Replay!Conversation(input) /\ s \in Replay!Session
        /\ last # 0 => Over(turns, last)
        /\ \A q \in Replay!Types(input, "reasoning") : Over(turns, q) /\ turns[q].session = s
    <2>1. turns[t].body \in Seq(ReplayItem) /\ Replay!Conversation(turns[t].body) /\ turns[t].session \in Replay!Session
      BY <1>1 DEF TurnType
    <2>2. /\ turns[t].last # 0 => Over(turns, turns[t].last)
          /\ \A q \in Replay!Types(turns[t].body, "reasoning") : Over(turns, q) /\ turns[q].session = turns[t].session
      BY <1>1 DEF TurnPast
    <2> QED
      BY <1>2, <1>3, <2>1, <2>2 DEF Finding
  <1>5. PICK q : FoundOf(found, q, t, s)
    BY FoundFor
  <1>6. found \in Seq(ReplayItem) /\ \A i, j \in DOMAIN found : i # j => found[i] # found[j]
    BY FoundFor
  <1>7. /\ body \in Seq(ReplayItem) /\ Replay!Conversation(body)
        /\ \A k \in Replay!Types(body, "reasoning") : Over(turns, k) /\ turns[k].session = s
    <2>1. CASE found = <<>>
      BY <1>2, <1>4, <2>1
    <2>2. CASE found # <<>>
      <3>1. PICK new : new = Replay!InsertReplayItems(input, found)
        OBVIOUS
      <3>2. \A i \in DOMAIN found : found[i].type # "output" /\ found[i].turn \notin Replay!Types(input, found[i].type)
        BY <1>2, <1>5 DEF FoundOf
      <3>3. /\ new \in Seq(ReplayItem) /\ Replay!Conversation(new)
            /\ \A k : Replay!Types(new, k) \subseteq Replay!Types(input, k) \cup Replay!Types(found, k)
        BY <1>4, <1>6, <3>1, <3>2, InsertIsConversation
      <3>4. \A k \in Replay!Types(found, "reasoning") : k = q
        BY <1>5, TypesOf DEF FoundOf
      <3>5. \A k \in Replay!Types(new, "reasoning") : Over(turns, k) /\ turns[k].session = s
        BY <1>4, <1>5, <3>3, <3>4 DEF FoundOf
      <3>6. body = new
        BY <1>2, <2>2, <3>1
      <3> QED
        BY <3>3, <3>5, <3>6
    <2> QED
      BY <2>1, <2>2
  <1>8. \A x \in Replay!ToSet(found) : found # <<>> /\ x.turn = q
    <2>1. ASSUME NEW x \in Replay!ToSet(found) PROVE found # <<>> /\ x.turn = q
      <3>1. PICK i \in DOMAIN found : x = found[i]
        BY DEF Replay!ToSet
      <3>2. found # <<>>
        BY <1>6, <3>1
      <3> QED
        BY <1>5, <3>1, <3>2 DEF FoundOf
    <2> QED
      BY <2>1
  <1>9. TurnType(u, Replay!Session)
    BY <1>4, <1>7 DEF TurnType, Waiting
  <1>10. \A x \in u.injected :
            /\ Over(turns, x.turn)
            /\ x.turn = last \/ last = 0 \/ ~turns[last].shape.message \/ ~turns[x.turn].shape.message
    BY <1>3, <1>5, <1>8 DEF FoundOf
  <1>11. /\ u.last # 0 => Over(turns, u.last)
         /\ \A k \in Replay!Types(u.body, "reasoning") : Over(turns, k) /\ turns[k].session = u.session
         /\ u.pc # "asked"
    BY <1>3, <1>4, <1>7
  <1>12. u.last = last
    BY <1>3
  <1>13. TurnPast(u, turns)
    BY <1>10, <1>11, <1>12 DEF TurnPast
  <1> QED
    BY <1>9, <1>13

-----------------------------------------------------------------------------
(* Get, Delete and a request that goes past the store give no session        *)
(* another answer.                                                           *)
LEMMA ReadStays ==
    ASSUME TrafficOK, StoreOK, UNCHANGED <<traffic, clock, refused>>, NEW s \in Replay!Session,
           \A q : Over(turns, q) => Over(turns', q) /\ turns'[q] = turns[q],
           cache' = cache \/ cache' = Replay!Delete(s) \/ cache' = Replay!Got(s)
    PROVE  StoreOK'
  <1>1. clock' \in Nat /\ clock <= clock' /\ clock \in Nat /\ clock' = clock
    BY TrafficFacts
  <1>2. /\ cache' = [k \in Replay!Session |-> cache'[k]]
        /\ \A k \in Replay!Session : cache'[k] # NoEntry =>
              /\ cache[k] # NoEntry /\ DOMAIN cache'[k] = DOMAIN cache[k] /\ cache'[k].items = cache[k].items
              /\ cache'[k].storedAt = cache[k].storedAt \/ cache'[k].storedAt = clock
    <2>1. cache = [k \in Replay!Session |-> cache[k]]
      BY DEF StoreOK
    <2>2. CASE cache' = cache
      BY <2>1, <2>2
    <2>3. CASE cache' = Replay!Delete(s)
      BY <2>1, <2>3 DEF Replay!Delete
    <2>4. CASE cache' = Replay!Got(s) /\ ~Replay!Live(s)
      BY <2>1, <2>4 DEF Replay!Delete, Replay!Got
    <2>5. CASE cache' = Replay!Got(s) /\ Replay!Live(s)
      <3>1. DOMAIN cache[s] = {"items", "expiresAt", "storedAt"} /\ cache[s] # NoEntry
        BY <2>5 DEF StoreOK, StoredFor, Replay!Live, Replay!Keys
      <3>2. PICK until : until = clock + EntryTTL
        OBVIOUS
      <3>3. PICK entry : entry = [cache[s] EXCEPT !.expiresAt = until, !.storedAt = clock]
        OBVIOUS
      <3>4. DOMAIN entry = DOMAIN cache[s] /\ entry.items = cache[s].items /\ entry.storedAt = clock
        BY <3>1, <3>3
      <3>5. cache' = [cache EXCEPT ![s] = entry]
        BY <2>5, <3>2, <3>3 DEF Replay!Got
      <3> QED
        BY <2>1, <3>1, <3>4, <3>5
    <2> QED
      BY <2>2, <2>3, <2>4, <2>5
  <1> QED
    BY <1>1, <1>2, StoreShrinks

LEMMA ApplyKeeps ==
    ASSUME ReplayInv, NEW t \in Replay!Turn, Replay!Apply(t)
    PROVE  ReplayInv'
  <1>1. PICK s : s = turns[t].session
    OBVIOUS
  <1>2. PICK found : found = IF ~turns[t].previousId /\ Replay!Live(s)
                             THEN Replay!FilterReplayItems(turns[t].body, cache[s].items) ELSE <<>>
    OBVIOUS
  <1>3. PICK body : body = IF found = <<>> THEN turns[t].body ELSE Replay!InsertReplayItems(turns[t].body, found)
    OBVIOUS
  <1>4. PICK put : put = Replay!ToSet(found)
    OBVIOUS
  <1>5. PICK u : u = [turns[t] EXCEPT !.pc = "call", !.injected = put, !.body = body]
    OBVIOUS
  <1>6. TurnType(turns[t], Replay!Session) /\ TurnPast(turns[t], turns) /\ DOMAIN turns = Replay!Turn
    BY DEF ReplayInv, TurnsOK
  <1>7. /\ turns[t].pc = "asked" /\ UNCHANGED <<traffic, clock, refused>>
        /\ cache' = cache \/ cache' = Replay!Got(s)
    BY <1>1 DEF Replay!Apply, Replay!At
  <1>8. /\ DOMAIN u = TurnFields /\ u.pc = "call" /\ u.session = s /\ u.last = turns[t].last /\ u.body = body
        /\ u.injected = put /\ s \in Replay!Session
    <2>1. DOMAIN turns[t] = TurnFields /\ turns[t].session \in Replay!Session
      BY <1>6, <1>7 DEF TurnType
    <2> QED
      BY <1>1, <1>5, <2>1 DEF TurnFields
  <1>9. turns' = [turns EXCEPT ![t] = u]
    BY <1>1, <1>2, <1>3, <1>4, <1>5 DEF Replay!Apply
  <1>10. TurnType(u, Replay!Session) /\ TurnPast(u, turns)
    <2>1. CASE ~turns[t].previousId /\ Replay!Live(s)
      <3>1. Finding(found, t, s)
        BY <1>1, <1>2, <2>1 DEF Finding
      <3> QED
        BY <1>3, <1>4, <1>7, <1>8, <3>1, AppliedTurn
    <2>2. CASE ~(~turns[t].previousId /\ Replay!Live(s))
      <3>1. found = <<>>
        BY <1>2, <2>2
      <3>2. body = turns[t].body /\ put = {} /\ turns[t].injected = {}
        BY <1>3, <1>4, <1>6, <1>7, <3>1 DEF TurnType, Waiting, Replay!ToSet
      <3>3. /\ u.session = turns[t].session /\ u.body = turns[t].body /\ u.injected = turns[t].injected
            /\ u.last = turns[t].last /\ DOMAIN u = TurnFields /\ u.pc = "call" /\ turns[t].pc # "new"
        BY <1>1, <1>7, <1>8, <3>2
      <3> QED
        BY <1>6, <3>3, TurnGoesOn
    <2> QED
      BY <2>1, <2>2
  <1>11. turns[t].pc # "done" /\ traffic' = traffic
    BY <1>7
  <1>12. TurnsOK' /\ \A q : Over(turns, q) => Over(turns', q) /\ turns'[q] = turns[q]
    BY <1>9, <1>10, <1>11, TurnMoves DEF ReplayInv
  <1>13. TrafficOK' /\ RefusedOK'
    BY <1>7, <1>12 DEF ReplayInv, TrafficOK, RefusedOK
  <1>14. StoreOK'
    BY <1>7, <1>8, <1>12, ReadStays DEF ReplayInv
  <1> QED
    BY <1>12, <1>13, <1>14 DEF ReplayInv

(* A call that goes on, ends or fails.                                       *)
LEMMA TurnOnly ==
    ASSUME ReplayInv, UNCHANGED <<traffic, cache, clock, refused>>,
           NEW t \in Replay!Turn, turns[t].pc \notin {"new", "done"},
           NEW u, turns' = [turns EXCEPT ![t] = u], DOMAIN u = DOMAIN turns[t],
           u.pc \in {"call", "stripped", "reset", "answered", "done", "failed"},
           u.last = turns[t].last, u.session = turns[t].session, u.body = turns[t].body,
           u.injected = turns[t].injected, u.pc \in {"answered", "done"} => u.shape \in ReplayShape
    PROVE  ReplayInv'
  <1>1. TurnType(turns[t], Replay!Session) /\ TurnPast(turns[t], turns)
    BY DEF ReplayInv, TurnsOK
  <1>2. DOMAIN u = TurnFields
    BY <1>1 DEF TurnType
  <1>3. TurnType(u, Replay!Session) /\ TurnPast(u, turns)
    BY <1>1, <1>2, TurnGoesOn
  <1> QED
    BY <1>3, OnlyTurn

LEMMA AnswersKeeps ==
    ASSUME ReplayInv, NEW t \in Replay!Turn, turns[t].pc \in {"call", "stripped", "reset"},
           NEW shape \in traffic.shapes, Replay!Answers(t, shape)
    PROVE  ReplayInv'
  <1>1. PICK u : u = [turns[t] EXCEPT !.pc = "answered", !.shape = shape]
    OBVIOUS
  <1>2. DOMAIN turns[t] = TurnFields
    BY DEF ReplayInv, TurnsOK, TurnType
  <1>3. /\ DOMAIN u = DOMAIN turns[t] /\ u.pc = "answered" /\ u.last = turns[t].last /\ u.session = turns[t].session
        /\ u.body = turns[t].body /\ u.injected = turns[t].injected /\ u.shape = shape
    BY <1>1, <1>2 DEF TurnFields
  <1>4. turns' = [turns EXCEPT ![t] = u] /\ UNCHANGED <<traffic, cache, clock, refused>>
    BY <1>1 DEF Replay!Answers
  <1>5. shape \in ReplayShape
    BY TrafficFacts DEF ReplayInv
  <1> QED
    BY <1>3, <1>4, <1>5, TurnOnly

(* A step of a turn that changes its pc alone.                               *)
LEMMA PcKeeps ==
    ASSUME ReplayInv, NEW t \in Replay!Turn, UNCHANGED <<traffic, cache, clock, refused>>,
           NEW pc, turns' = [turns EXCEPT ![t].pc = pc],
           \/ turns[t].pc = "answered" /\ pc = "done"
           \/ turns[t].pc \in {"call", "stripped", "reset"} /\ pc = "failed"
    PROVE  ReplayInv'
  <1>1. PICK u : u = [turns[t] EXCEPT !.pc = pc]
    OBVIOUS
  <1>2. TurnType(turns[t], Replay!Session)
    BY DEF ReplayInv, TurnsOK
  <1>3. /\ DOMAIN u = DOMAIN turns[t] /\ u.pc = pc /\ u.last = turns[t].last /\ u.session = turns[t].session
        /\ u.body = turns[t].body /\ u.injected = turns[t].injected /\ u.shape = turns[t].shape
    <2>1. DOMAIN turns[t] = TurnFields
      BY <1>2 DEF TurnType
    <2> QED
      BY <1>1, <2>1 DEF TurnFields
  <1>4. turns' = [turns EXCEPT ![t] = u] /\ turns[t].pc \notin {"new", "done"}
    BY <1>1
  <1>5. u.pc \in {"done", "failed"} /\ u.pc = "done" => u.shape \in ReplayShape
    BY <1>2, <1>3 DEF TurnType
  <1> QED
    BY <1>3, <1>4, <1>5, TurnOnly

-----------------------------------------------------------------------------
(* The entry of a session goes before its ciphertexts count as refused.      *)
LEMMA RefusedClears ==
    ASSUME TrafficOK, StoreOK, UNCHANGED <<traffic, clock>>, NEW s \in Replay!Session, cache' = Replay!Delete(s),
           NEW more, refused' = refused \cup more, \A q \in more : turns[q].session = s,
           \A q : Over(turns, q) => Over(turns', q) /\ turns'[q] = turns[q]
    PROVE  StoreOK'
  <1>1. /\ cache' = [k \in Replay!Session |-> cache'[k]] /\ cache'[s] = NoEntry
        /\ \A k \in Replay!Session : k # s => cache'[k] = cache[k]
    BY DEF StoreOK, Replay!Delete
  <1>2. Replay!Session' = Replay!Session /\ Replay!Keys' \subseteq Replay!Keys \ {s}
    BY <1>1 DEF Replay!Session, Replay!Keys
  <1>3. Cardinality(Replay!Keys') <= MaxSize
    BY <1>2, FewerKeys
  <1>4. ASSUME NEW k \in Replay!Keys' PROVE StoredFor(cache'[k], k, turns', refused', clock')
    <2>1. k \in Replay!Keys /\ k # s /\ cache'[k] = cache[k]
      BY <1>1, <1>2, <1>4 DEF Replay!Keys
    <2>2. StoredFor(cache[k], k, turns, refused, clock)
      BY <2>1 DEF StoreOK
    <2>3. PICK q \in DOMAIN turns :
             /\ turns[q].pc = "done" /\ turns[q].session = k /\ q \notin refused
             /\ turns[q].shape.reasoning \/ turns[q].shape.call
             /\ cache[k].items = Replay!Output(q, turns[q].shape)
      BY <2>2 DEF StoredFor
    <2>4. q \notin refused' /\ Over(turns, q)
      BY <2>1, <2>3 DEF Over
    <2>5. Over(turns', q) /\ turns'[q] = turns[q] /\ q \in DOMAIN turns'
      BY <2>4 DEF Over
    <2> QED
      BY <2>1, <2>2, <2>3, <2>4, <2>5 DEF StoredFor
  <1> QED
    BY <1>1, <1>2, <1>3, <1>4 DEF StoreOK

LEMMA DecodeFailureKeeps ==
    ASSUME ReplayInv, NEW t \in Replay!Turn, Replay!DecodeFailure(t)
    PROVE  ReplayInv'
  <1>1. PICK u : u = [turns[t] EXCEPT !.pc = "stripped"]
    OBVIOUS
  <1>2. PICK s : s = turns[t].session
    OBVIOUS
  <1>3. PICK more : more = Replay!Types(turns[t].body, "reasoning")
    OBVIOUS
  <1>4. /\ turns[t].pc = "call" /\ UNCHANGED <<traffic, clock>> /\ turns' = [turns EXCEPT ![t] = u]
        /\ cache' = Replay!Delete(s) /\ refused' = refused \cup more
    BY <1>1, <1>2, <1>3 DEF Replay!DecodeFailure, Replay!At
  <1>5. TurnType(turns[t], Replay!Session) /\ TurnPast(turns[t], turns)
    BY DEF ReplayInv, TurnsOK
  <1>6. /\ DOMAIN u = TurnFields /\ u.pc = "stripped" /\ u.last = turns[t].last /\ u.session = turns[t].session
        /\ u.body = turns[t].body /\ u.injected = turns[t].injected /\ s \in Replay!Session
    <2>1. DOMAIN turns[t] = TurnFields /\ turns[t].session \in Replay!Session
      BY <1>4, <1>5 DEF TurnType
    <2> QED
      BY <1>1, <1>2, <2>1 DEF TurnFields
  <1>7. TurnType(u, Replay!Session) /\ TurnPast(u, turns)
    BY <1>4, <1>5, <1>6, TurnGoesOn
  <1>8. turns[t].pc # "done" /\ traffic' = traffic
    BY <1>4
  <1>9. TurnsOK' /\ \A q : Over(turns, q) => Over(turns', q) /\ turns'[q] = turns[q]
    BY <1>4, <1>7, <1>8, TurnMoves DEF ReplayInv
  <1>10. \A q \in more : Over(turns, q) /\ turns[q].session = s
    BY <1>2, <1>3, <1>5 DEF TurnPast
  <1>11. StoreOK'
    BY <1>4, <1>6, <1>9, <1>10, RefusedClears DEF ReplayInv
  <1>12. RefusedOK'
    BY <1>4, <1>9, <1>10, RefusedStays DEF ReplayInv
  <1> QED
    BY <1>4, <1>9, <1>11, <1>12 DEF ReplayInv, TrafficOK

LEMMA RetryStrippedKeeps ==
    ASSUME ReplayInv, NEW t \in Replay!Turn, Replay!RetryStripped(t)
    PROVE  ReplayInv'
  <1>1. turns[t].pc = "stripped"
    BY DEF Replay!RetryStripped, Replay!At
  <1>2. CASE \E shape \in traffic.shapes : Replay!Answers(t, shape)
    BY <1>1, <1>2, AnswersKeeps
  <1>3. CASE ~\E shape \in traffic.shapes : Replay!Answers(t, shape)
    <2>1. PICK body : body = turns[t].body
      OBVIOUS
    <2>2. PICK kept : kept = Replay!StripReasoning(body)
      OBVIOUS
    <2>3. PICK u : u = [turns[t] EXCEPT !.pc = "reset", !.body = kept]
      OBVIOUS
    <2>4. turns' = [turns EXCEPT ![t] = u] /\ UNCHANGED <<traffic, cache, clock, refused>>
      BY <1>3, <2>1, <2>2, <2>3 DEF Replay!RetryStripped
    <2>5. TurnType(turns[t], Replay!Session) /\ TurnPast(turns[t], turns)
      BY DEF ReplayInv, TurnsOK
    <2>6. /\ DOMAIN u = TurnFields /\ u.pc = "reset" /\ u.last = turns[t].last /\ u.session = turns[t].session
          /\ u.body = kept /\ u.injected = turns[t].injected
      <3>1. DOMAIN turns[t] = TurnFields
        BY <2>5 DEF TurnType
      <3> QED
        BY <2>3, <3>1 DEF TurnFields
    <2>7. body \in Seq(ReplayItem) /\ Replay!Conversation(body)
      BY <2>1, <2>5 DEF TurnType
    <2>8. PICK wanted : wanted = {x \in Replay!ToSet(body) : x.type # "reasoning"}
      OBVIOUS
    <2>9. kept = Replay!Kept(body, wanted)
      BY <2>2, <2>8 DEF Replay!StripReasoning
    <2>10. kept \in Seq(ReplayItem) /\ PartOf(kept, body, wanted)
      BY <2>7, <2>9, KeptIsPart
    <2>11. Replay!Conversation(kept)
      BY <2>7, <2>10, PartIsConversation
    <2>12. \A s : Replay!Types(kept, s) \subseteq Replay!Types(body, s)
      BY <2>7, <2>10, PartTypes
    <2>13. TurnType(u, Replay!Session)
      BY <1>1, <2>5, <2>6, <2>10, <2>11 DEF TurnType, Waiting
    <2>14. TurnPast(u, turns)
      BY <2>1, <2>5, <2>6, <2>12 DEF TurnPast
    <2>15. turns[t].pc # "done"
      BY <1>1
    <2> QED
      BY <2>4, <2>13, <2>14, <2>15, OnlyTurn
  <1> QED
    BY <1>2, <1>3

-----------------------------------------------------------------------------
(* An answer that is stored: the store has room for it, or makes room.       *)
RoomFor(before, s) ==
    /\ before = [k \in Replay!Session |-> before[k]]
    /\ \A k \in Replay!Session : before[k] # NoEntry => before[k] = cache[k]
    /\ \A S : S \subseteq {k \in Replay!Session : before[k] # NoEntry} \cup {s} => Cardinality(S) <= MaxSize

LEMMA OneMoreKey ==
    ASSUME TrafficOK, StoreOK, NEW s \in Replay!Session, NEW live, live \subseteq Replay!Keys
    PROVE  /\ \A S : S \subseteq live \cup {s} /\ Cardinality(live) < MaxSize => Cardinality(S) <= MaxSize
           /\ \A S, v : S \subseteq (live \ {v}) \cup {s} /\ v \in live => Cardinality(S) <= MaxSize
  <1>1. live \subseteq Replay!Session
    BY DEF Replay!Keys
  <1>2. IsFiniteSet(live) /\ Cardinality(live) \in Nat /\ Cardinality(live) <= MaxSize /\ MaxSize \in Nat
    BY <1>1, KeysAreFinite, FewerKeys, TrafficFacts
  <1>3. ASSUME NEW S, S \subseteq live \cup {s}, Cardinality(live) < MaxSize PROVE Cardinality(S) <= MaxSize
    <2>1. IsFiniteSet(live \cup {s}) /\ Cardinality(live \cup {s}) \in {Cardinality(live), Cardinality(live) + 1}
      BY <1>2, FS_AddElement
    <2>2. Cardinality(S) \in Nat /\ Cardinality(S) <= Cardinality(live \cup {s})
      BY <1>3, <2>1, FS_Subset, FS_CardinalityType
    <2> QED
      BY <1>2, <1>3, <2>1, <2>2
  <1>4. ASSUME NEW S, NEW v, S \subseteq (live \ {v}) \cup {s}, v \in live PROVE Cardinality(S) <= MaxSize
    <2>1. PICK rest : rest = live \ {v}
      OBVIOUS
    <2>2. IsFiniteSet(rest) /\ Cardinality(rest) = Cardinality(live) - 1
      BY <1>2, <1>4, <2>1, FS_RemoveElement
    <2>3. IsFiniteSet(rest \cup {s}) /\ Cardinality(rest \cup {s}) \in {Cardinality(rest), Cardinality(rest) + 1}
      BY <2>2, FS_AddElement
    <2>4. S \subseteq rest \cup {s}
      BY <1>4, <2>1
    <2>5. Cardinality(S) \in Nat /\ Cardinality(S) <= Cardinality(rest \cup {s})
      BY <2>3, <2>4, FS_Subset, FS_CardinalityType
    <2> QED
      BY <1>2, <2>2, <2>3, <2>5
  <1> QED
    BY <1>3, <1>4

LEMMA RoomMade ==
    ASSUME TrafficOK, StoreOK, NEW s \in Replay!Session,
           NEW before \in (IF s \in Replay!Keys THEN {cache} ELSE Replay!Evicted(s))
    PROVE  RoomFor(before, s)
  <1>1. cache = [k \in Replay!Session |-> cache[k]]
    BY DEF StoreOK
  <1>2. CASE s \in Replay!Keys
    <2>1. before = cache
      BY <1>2
    <2>2. {k \in Replay!Session : before[k] # NoEntry} \cup {s} = Replay!Keys
      BY <1>2, <2>1 DEF Replay!Keys
    <2>3. \A S : S \subseteq Replay!Keys => Cardinality(S) <= MaxSize
      BY FewerKeys
    <2> QED
      BY <1>1, <2>1, <2>2, <2>3 DEF RoomFor
  <1>3. CASE s \notin Replay!Keys
    <2>1. PICK live : live = {k \in Replay!Keys : Replay!Live(k)}
      OBVIOUS
    <2>2. live \subseteq Replay!Keys /\ live \subseteq Replay!Session
      BY <2>1 DEF Replay!Keys
    <2>3. \/ /\ Replay!Cardinality(live) < MaxSize
             /\ before = [k \in Replay!Session |-> IF k \in live THEN cache[k] ELSE NoEntry]
          \/ \E v \in live : before = [k \in Replay!Session |-> IF k \in live \ {v} THEN cache[k] ELSE NoEntry]
      BY <1>3, <2>1 DEF Replay!Evicted
    <2>4. CASE /\ Replay!Cardinality(live) < MaxSize
               /\ before = [k \in Replay!Session |-> IF k \in live THEN cache[k] ELSE NoEntry]
      <3>1. Cardinality(live) < MaxSize
        BY <2>4, KeyCount
      <3>2. {k \in Replay!Session : before[k] # NoEntry} \cup {s} \subseteq live \cup {s}
        BY <2>4
      <3>3. \A S : S \subseteq live \cup {s} => Cardinality(S) <= MaxSize
        BY <2>2, <3>1, OneMoreKey
      <3> QED
        BY <2>2, <2>4, <3>2, <3>3 DEF RoomFor
    <2>5. CASE \E v \in live : before = [k \in Replay!Session |-> IF k \in live \ {v} THEN cache[k] ELSE NoEntry]
      <3>1. PICK v \in live : before = [k \in Replay!Session |-> IF k \in live \ {v} THEN cache[k] ELSE NoEntry]
        BY <2>5
      <3>2. {k \in Replay!Session : before[k] # NoEntry} \cup {s} \subseteq (live \ {v}) \cup {s}
        BY <3>1
      <3>3. \A S : S \subseteq (live \ {v}) \cup {s} => Cardinality(S) <= MaxSize
        BY <2>2, <3>1, OneMoreKey
      <3> QED
        BY <2>2, <3>1, <3>2, <3>3 DEF RoomFor
    <2> QED
      BY <2>3, <2>4, <2>5
  <1> QED
    BY <1>2, <1>3

-----------------------------------------------------------------------------
LEMMA StoreWritten ==
    ASSUME TrafficOK, StoreOK, UNCHANGED <<traffic, clock, refused>>, NEW s \in Replay!Session,
           \A q : Over(turns, q) => Over(turns', q) /\ turns'[q] = turns[q],
           NEW before, RoomFor(before, s), NEW entry, cache' = [before EXCEPT ![s] = entry],
           StoredFor(entry, s, turns', refused, clock)
    PROVE  StoreOK'
  <1>1. /\ cache' = [k \in Replay!Session |-> cache'[k]] /\ cache'[s] = entry
        /\ \A k \in Replay!Session : k # s => cache'[k] = before[k]
        /\ \A k \in Replay!Session : before[k] # NoEntry => before[k] = cache[k]
    BY DEF RoomFor
  <1>2. /\ Replay!Session' = Replay!Session /\ refused' = refused /\ clock' = clock
        /\ Replay!Keys' = {k \in Replay!Session : cache'[k] # NoEntry}
    BY DEF Replay!Session, Replay!Keys
  <1>3. Replay!Keys' \subseteq {k \in Replay!Session : before[k] # NoEntry} \cup {s}
    BY <1>1, <1>2
  <1>4. Cardinality(Replay!Keys') <= MaxSize
    BY <1>3 DEF RoomFor
  <1>5. ASSUME NEW k \in Replay!Keys' PROVE StoredFor(cache'[k], k, turns', refused', clock')
    <2>1. CASE k = s
      BY <1>1, <1>2, <2>1
    <2>2. CASE k # s
      <3>1. cache'[k] = cache[k] /\ k \in Replay!Keys
        BY <1>1, <1>2, <1>5, <2>2 DEF Replay!Keys
      <3>2. PICK old : old = cache[k]
        OBVIOUS
      <3>3. StoredFor(old, k, turns, refused, clock)
        BY <3>1, <3>2 DEF StoreOK
      <3>4. old.storedAt \in 0 .. clock
        BY <3>3 DEF StoredFor
      <3>5. StoredFor(old, k, turns', refused, clock)
        BY <3>3, <3>4, StoredStays
      <3> QED
        BY <1>2, <3>1, <3>2, <3>5
    <2> QED
      BY <2>1, <2>2
  <1> QED
    BY <1>1, <1>2, <1>4, <1>5 DEF StoreOK

LEMMA CloseKeeps ==
    ASSUME ReplayInv, NEW t \in Replay!Turn, Replay!Close(t)
    PROVE  ReplayInv'
  <1>1. PICK u : u = [turns[t] EXCEPT !.pc = "done"]
    OBVIOUS
  <1>2. PICK s : s = turns[t].session
    OBVIOUS
  <1>3. PICK shape : shape = turns[t].shape
    OBVIOUS
  <1>4. /\ turns[t].pc = "answered" /\ UNCHANGED <<traffic, clock, refused>>
        /\ turns' = [turns EXCEPT ![t] = u]
        /\ IF shape.reasoning \/ shape.call THEN Replay!Set(s, Replay!Output(t, shape)) ELSE cache' = Replay!Delete(s)
    BY <1>1, <1>2, <1>3 DEF Replay!Close, Replay!At
  <1>5. TurnType(turns[t], Replay!Session) /\ TurnPast(turns[t], turns)
    BY DEF ReplayInv, TurnsOK
  <1>6. /\ DOMAIN u = TurnFields /\ u.pc = "done" /\ u.last = turns[t].last /\ u.session = turns[t].session
        /\ u.body = turns[t].body /\ u.injected = turns[t].injected /\ s \in Replay!Session
        /\ u.shape = shape /\ shape \in ReplayShape /\ turns[t].shape = shape
    <2>1. DOMAIN turns[t] = TurnFields /\ turns[t].session \in Replay!Session /\ turns[t].shape \in ReplayShape
      BY <1>4, <1>5 DEF TurnType
    <2> QED
      BY <1>1, <1>2, <1>3, <2>1 DEF TurnFields
  <1>7. TurnType(u, Replay!Session) /\ TurnPast(u, turns)
    BY <1>4, <1>5, <1>6, TurnGoesOn
  <1>8. turns[t].pc # "done" /\ traffic' = traffic
    BY <1>4
  <1>9. /\ TurnsOK' /\ turns'[t] = u /\ DOMAIN turns' = Replay!Turn
        /\ \A q : Over(turns, q) => Over(turns', q) /\ turns'[q] = turns[q]
    BY <1>4, <1>7, <1>8, TurnMoves DEF ReplayInv
  <1>10. TrafficOK' /\ RefusedOK'
    BY <1>4, <1>9 DEF ReplayInv, TrafficOK, RefusedOK
  <1>11. StoreOK'
    <2>1. CASE ~(shape.reasoning \/ shape.call)
      <3>1. cache' = Replay!Delete(s)
        BY <1>4, <2>1
      <3> QED
        BY <1>4, <1>6, <1>9, <3>1, ReadStays DEF ReplayInv
    <2>2. CASE shape.reasoning \/ shape.call
      <3>1. PICK stored : stored = Replay!Output(t, shape)
        OBVIOUS
      <3>2. PICK until : until = clock + EntryTTL
        OBVIOUS
      <3>3. PICK entry : entry = [items |-> stored, expiresAt |-> until, storedAt |-> clock]
        OBVIOUS
      <3>4. PICK before \in (IF s \in Replay!Keys THEN {cache} ELSE Replay!Evicted(s)) :
                cache' = [before EXCEPT ![s] = entry]
        BY <1>4, <2>2, <3>1, <3>2, <3>3 DEF Replay!Set
      <3>5. RoomFor(before, s)
        BY <1>6, <3>4, RoomMade DEF ReplayInv
      <3>6. DOMAIN entry = {"items", "expiresAt", "storedAt"} /\ entry.items = stored /\ entry.storedAt = clock
        BY <3>3
      <3>7. clock \in 0 .. clock
        BY TrafficFacts DEF ReplayInv
      <3>8. t \notin refused
        BY <1>4 DEF ReplayInv, RefusedOK, Over
      <3>9. turns'[t].pc = "done" /\ turns'[t].session = s /\ turns'[t].shape = shape /\ t \in DOMAIN turns'
        BY <1>2, <1>6, <1>9
      <3>10. StoredFor(entry, s, turns', refused, clock)
        BY <2>2, <3>1, <3>6, <3>7, <3>8, <3>9 DEF StoredFor
      <3> QED
        BY <1>4, <1>6, <1>9, <3>4, <3>5, <3>10, StoreWritten DEF ReplayInv
    <2> QED
      BY <2>1, <2>2
  <1> QED
    BY <1>9, <1>10, <1>11 DEF ReplayInv

LEMMA ReplayTickKeeps ==
    ASSUME ReplayInv, Replay!Tick
    PROVE  ReplayInv'
  <1>1. clock < traffic.ticks /\ clock' = clock + 1 /\ traffic' = traffic /\ cache' = cache /\ turns' = turns /\ refused' = refused
    BY DEF Replay!Tick
  <1>2. clock \in Nat /\ traffic.ticks \in Nat
    BY TrafficFacts DEF ReplayInv
  <1>3. clock' \in Nat /\ clock <= clock' /\ clock' \in 0 .. traffic.ticks
    BY <1>1, <1>2
  <1>4. TrafficOK'
    BY <1>1, <1>3 DEF ReplayInv, TrafficOK
  <1>5. \A q : Over(turns, q) => Over(turns', q) /\ turns'[q] = turns[q]
    BY <1>1
  <1>6. /\ cache' = [s \in Replay!Session |-> cache'[s]]
        /\ \A s \in Replay!Session : cache'[s] # NoEntry =>
              /\ cache[s] # NoEntry /\ DOMAIN cache'[s] = DOMAIN cache[s] /\ cache'[s].items = cache[s].items
              /\ cache'[s].storedAt = cache[s].storedAt \/ cache'[s].storedAt = clock
    BY <1>1 DEF ReplayInv, StoreOK
  <1>7. StoreOK'
    BY <1>1, <1>3, <1>5, <1>6, StoreShrinks DEF ReplayInv
  <1>8. TurnsOK' /\ RefusedOK'
    BY <1>1 DEF ReplayInv, TurnsOK, RefusedOK, TurnPast, Over, Replay!Turn, Replay!Session
  <1> QED
    BY <1>4, <1>7, <1>8 DEF ReplayInv

LEMMA TurnStepKeeps ==
    ASSUME ReplayInv, NEW t \in Replay!Turn, Replay!TurnStep(t)
    PROVE  ReplayInv'
  <1>1. CASE Replay!Apply(t)
    BY <1>1, ApplyKeeps
  <1>2. CASE Replay!CreateResponse(t)
    BY <1>2, AnswersKeeps DEF Replay!CreateResponse, Replay!At
  <1>3. CASE Replay!CallFails(t)
    BY <1>3, PcKeeps DEF Replay!CallFails
  <1>4. CASE Replay!DecodeFailure(t)
    BY <1>4, DecodeFailureKeeps
  <1>5. CASE Replay!RetryStripped(t)
    BY <1>5, RetryStrippedKeeps
  <1>6. CASE Replay!RetryReset(t)
    BY <1>6, AnswersKeeps DEF Replay!RetryReset, Replay!At
  <1>7. CASE Replay!Close(t)
    BY <1>7, CloseKeeps
  <1>8. CASE Replay!CloseSkipped(t)
    BY <1>8, PcKeeps DEF Replay!CloseSkipped, Replay!At
  <1> QED
    BY <1>1, <1>2, <1>3, <1>4, <1>5, <1>6, <1>7, <1>8 DEF Replay!TurnStep

LEMMA ReplayStep == ReplayInv /\ [Next]_vars => ReplayInv'
  <1> SUFFICES ASSUME ReplayInv, [Next]_vars PROVE ReplayInv'
    OBVIOUS
  <1>1. CASE Replay!Next
    BY <1>1, AskKeeps, ReplayTickKeeps, TurnStepKeeps DEF Replay!Next
  <1>2. CASE UNCHANGED replayVars
    <2>1. traffic' = traffic /\ clock' = clock /\ cache' = cache /\ turns' = turns /\ refused' = refused
      BY <1>2 DEF replayVars
    <2>2. TrafficOK' /\ StoreOK'
      BY <2>1 DEF ReplayInv, TrafficOK, StoreOK, Replay!Session, Replay!Keys
    <2>3. TurnsOK' /\ RefusedOK'
      BY <2>1 DEF ReplayInv, TurnsOK, RefusedOK, TurnPast, Over, Replay!Turn, Replay!Session
    <2> QED
      BY <2>2, <2>3 DEF ReplayInv
  <1> QED
    BY <1>1, <1>2 DEF Next, vars, InLeader, InProxy, InModels, InPacer, InReplay

-----------------------------------------------------------------------------
LEMMA ReplaySafe == ReplayInv => Replay!ReplayIsSound
  <1> SUFFICES ASSUME ReplayInv PROVE Replay!ReplayIsSound
    OBVIOUS
  <1>1. \A t \in Replay!Turn : TurnType(turns[t], Replay!Session) /\ TurnPast(turns[t], turns)
    BY DEF ReplayInv, TurnsOK
  <1>2. DOMAIN turns = Replay!Turn /\ Replay!Turn \subseteq Nat \ {0} /\ clock \in 0 .. traffic.ticks
    BY TrafficFacts DEF ReplayInv, TurnsOK, TrafficOK
  <1>3. Replay!TypeOK
    <2>1. ASSUME NEW s \in Replay!Keys
          PROVE  cache[s].storedAt \in 0 .. traffic.ticks /\ Replay!Len(cache[s].items) \in 1 .. 3
      <3>1. StoredFor(cache[s], s, turns, refused, clock)
        BY DEF ReplayInv, StoreOK
      <3>2. PICK q \in DOMAIN turns : /\ turns[q].pc = "done"
                                      /\ turns[q].shape.reasoning \/ turns[q].shape.call
                                      /\ cache[s].items = Replay!Output(q, turns[q].shape)
        BY <3>1 DEF StoredFor
      <3>3. q \in Nat /\ turns[q].shape \in ReplayShape
        BY <1>1, <1>2, <3>2 DEF TurnType
      <3>4. Len(Replay!Output(q, turns[q].shape)) \in 1 .. 3
        BY <3>2, <3>3, OutputItems
      <3>5. cache[s].storedAt \in 0 .. traffic.ticks
        BY <1>2, <3>1, TrafficFacts DEF ReplayInv, StoredFor
      <3> QED
        BY <3>2, <3>4, <3>5
    <2>2. \A t \in Replay!Turn :
             turns[t].pc \in {"new", "asked", "call", "stripped", "reset", "answered", "done", "failed"}
      BY <1>1 DEF TurnType
    <2>3. refused \subseteq Replay!Turn
      BY <1>2 DEF ReplayInv, RefusedOK, Over
    <2> QED
      BY <2>1, <2>2, <2>3 DEF Replay!TypeOK
  <1>4. Replay!ReplayIsBounded
    BY KeyCount DEF ReplayInv, StoreOK, Replay!ReplayIsBounded
  <1>5. Replay!BodiesAreConversations
    BY <1>1 DEF TurnType, Replay!BodiesAreConversations
  <1>6. Replay!ReplayFitsHistory
    BY <1>1 DEF TurnPast, Replay!ReplayFitsHistory
  <1> QED
    BY <1>3, <1>4, <1>5, <1>6 DEF Replay!ReplayIsSound

LEMMA OnlyApplied ==
    ASSUME ReplayInv, Replay!Next, NEW t \in Replay!Turn, turns[t].pc = "asked"
    PROVE  turns'[t] = turns[t] \/ Replay!Apply(t)
  <1>1. DOMAIN turns = Replay!Turn
    BY DEF ReplayInv, TurnsOK
  <1>2. ASSUME NEW s \in Replay!Turn, turns[s].pc # "asked", NEW u, turns' = [turns EXCEPT ![s] = u]
        PROVE  turns'[t] = turns[t]
    BY <1>2
  <1>3. CASE \E s \in Replay!Turn, k \in Replay!Session, p \in {0} \cup Replay!Turn, form \in traffic.forms :
                Replay!Ask(s, k, p, form)
    <2>1. PICK s \in Replay!Turn, k \in Replay!Session, p \in {0} \cup Replay!Turn, form \in traffic.forms :
                Replay!Ask(s, k, p, form)
      BY <1>3
    <2>2. turns[s].pc = "new" /\ \E u : turns' = [turns EXCEPT ![s] = u]
      BY <2>1 DEF Replay!Ask, Replay!At
    <2> QED
      BY <1>2, <2>2
  <1>4. CASE Replay!Tick
    BY <1>4 DEF Replay!Tick
  <1>5. ASSUME NEW s \in Replay!Turn, Replay!TurnStep(s) PROVE turns'[t] = turns[t] \/ Replay!Apply(t)
    <2>1. CASE Replay!Apply(s)
      <3>1. turns[s].pc = "asked" /\ \E u : turns' = [turns EXCEPT ![s] = u]
        BY <2>1 DEF Replay!Apply, Replay!At
      <3> QED
        BY <2>1, <3>1
    <2>2. CASE Replay!DecodeFailure(s)
      <3>1. turns[s].pc # "asked" /\ \E u : turns' = [turns EXCEPT ![s] = u]
        BY <2>2 DEF Replay!DecodeFailure, Replay!At
      <3> QED
        BY <1>2, <3>1
    <2>3. CASE Replay!RetryStripped(s)
      <3>1. turns[s].pc # "asked" /\ \E u : turns' = [turns EXCEPT ![s] = u]
        BY <2>3 DEF Replay!RetryStripped, Replay!At, Replay!Answers
      <3> QED
        BY <1>2, <3>1
    <2>4. CASE Replay!Close(s) \/ Replay!CloseSkipped(s)
      <3>1. turns[s].pc # "asked" /\ \E u : turns' = [turns EXCEPT ![s] = u]
        BY <2>4 DEF Replay!Close, Replay!CloseSkipped, Replay!At
      <3> QED
        BY <1>2, <3>1
    <2>5. CASE Replay!CreateResponse(s) \/ Replay!RetryReset(s) \/ Replay!CallFails(s)
      <3>1. turns[s].pc # "asked" /\ \E u : turns' = [turns EXCEPT ![s] = u]
        BY <2>5 DEF Replay!CreateResponse, Replay!RetryReset, Replay!CallFails, Replay!At, Replay!Answers
      <3> QED
        BY <1>2, <3>1
    <2> QED
      BY <1>5, <2>1, <2>2, <2>3, <2>4, <2>5 DEF Replay!TurnStep
  <1> QED
    BY <1>3, <1>4, <1>5 DEF Replay!Next

LEMMA RefusedStayOut == ReplayInv /\ [Next]_vars => [Replay!RefusedIsNotReplayed]_vars
  <1> SUFFICES ASSUME ReplayInv, [Next]_vars, NEW t \in Replay!Turn, turns[t].pc = "asked",
                      NEW x \in turns'[t].injected
               PROVE  x.turn \notin refused
    BY DEF Replay!RefusedIsNotReplayed, Replay!At
  <1>1. TurnType(turns[t], Replay!Session) /\ DOMAIN turns = Replay!Turn
    BY DEF ReplayInv, TurnsOK
  <1>2. turns[t].injected = {}
    BY <1>1 DEF TurnType, Waiting
  <1>3. turns'[t] # turns[t]
    BY <1>2
  <1>4. Replay!Next
    BY <1>3 DEF Next, vars, replayVars, InLeader, InProxy, InModels, InPacer, InReplay
  <1>5. Replay!Apply(t)
    BY <1>3, <1>4, OnlyApplied
  <1>6. PICK s : s = turns[t].session
    OBVIOUS
  <1>7. PICK found : found = IF ~turns[t].previousId /\ Replay!Live(s)
                             THEN Replay!FilterReplayItems(turns[t].body, cache[s].items) ELSE <<>>
    OBVIOUS
  <1>8. x \in Replay!ToSet(found)
    <2>1. PICK put : put = Replay!ToSet(found)
      OBVIOUS
    <2>2. PICK body : body = IF found = <<>> THEN turns[t].body ELSE Replay!InsertReplayItems(turns[t].body, found)
      OBVIOUS
    <2>3. PICK u : u = [turns[t] EXCEPT !.pc = "call", !.injected = put, !.body = body]
      OBVIOUS
    <2>4. turns' = [turns EXCEPT ![t] = u]
      BY <1>5, <1>6, <1>7, <2>1, <2>2, <2>3 DEF Replay!Apply
    <2>5. DOMAIN turns[t] = TurnFields
      BY <1>1 DEF TurnType
    <2>6. u.injected = put
      BY <2>3, <2>5 DEF TurnFields
    <2>7. turns'[t] = u
      BY <1>1, <2>4
    <2> QED
      BY <2>1, <2>6, <2>7
  <1>9. PICK i \in DOMAIN found : x = found[i]
    BY <1>8 DEF Replay!ToSet
  <1>10. Finding(found, t, s)
    BY <1>6, <1>7, <1>9 DEF Finding
  <1>11. PICK q : FoundOf(found, q, t, s)
    BY <1>10, FoundFor
  <1> QED
    BY <1>9, <1>11 DEF FoundOf

(* ReplayIsSound, for all traffics, however many turns of however many       *)
(* sessions overlap: the store is bounded, what Apply puts into a request    *)
(* makes a conversation that fits it, and no ciphertext the upstream refused *)
(* (recoverReasoningDecodeFailure clears its entry) is put into a later one. *)
THEOREM ReplayStaysSound == Spec => ReplayIsSound
  <1>1. Init => ReplayInv
    BY ReplayInit DEF Init
  <1>2. Spec => []ReplayInv
    BY <1>1, ReplayStep, PTL DEF Spec
  <1> QED
    BY <1>2, ReplaySafe, RefusedStayOut, PTL DEF Spec, ReplayIsSound
=============================================================================
