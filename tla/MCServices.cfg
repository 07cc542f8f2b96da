SPECIFICATION FairSpec
CONSTANTS
    x1 = x1  x2 = x2
    Focus = {"leader", "proxy", "models", "pacer", "replay"}
    Process = {"p"}  Dir = {"d"}  DirOf <- MCDirOf  Handler <- MCHandler  Kinds <- MCKinds
    StoreKeys <- MCStoreKeys  Stalls = TRUE  Faults = TRUE
    NoStore = noStore  Unclaimed = free  Orphan = orphan
    Client <- MCClient  Scheduler = x2  Settings <- MCSettings  Host = {"grok"}  DefaultHost = "grok"
    BaseCooldown = 1  MaxCooldown = 1  HalfOpen = 1  MaxFailures = 2  Statuses = {200, 403, 404}
    MaxRequests = 2  MaxReconfigs = 1  NoBundle = none  NoEvent = noEvent
    Lister <- MCLister  Catalogues <- MCCatalogues  Static = {"c"}  TTL = 2  FailureTTL = 1
    MaxChanges = 2  Failed = none
    Caller <- MCLister  Interval = 2  ConsoleCooldown = 3  MaxWait = 2  MaxTurns = 2  Nobody = none
    Traffics <- MCTraffics  MaxSize = 1  EntryTTL = 1  NoEntry = none
INVARIANTS CatalogueIsKept
PROPERTIES SchedulersFollow ClearanceIsShared PaceHolds ReplayIsSound ServicesGoOn
CHECK_DEADLOCK FALSE
