SPECIFICATION Spec
CONSTANTS
    t1 = t1  t2 = t2
    Focus = {"undo", "serial", "leader", "startup", "build"}
    Token <- MCToken  Pool = {"pool"}  SerialPool = {"basic", "super"}  NoPool = none
    Writer = {"w"}  Overlap = FALSE  MaxRev = 3
    Process = {"p", "q"}  Dir = {"d"}  DirOf <- MCDirOf  Handler = {}  Kinds <- MCKinds
    StoreKeys <- MCStoreKeys  Stalls = TRUE  Faults = FALSE
    NoStore = noStore  Free = free  Orphan = orphan
    Pages <- MCPages  Uses <- MCUses  DeletedLocal = {"b"}  Sources = {TRUE, FALSE}
    MaxStarts = 3  MaxFaults = 2
    User = {"u"}  MaxIds = 2  Flow = {"f", "g"}  FlowKinds <- MCFlowKinds  Payloads <- MCPayloads
    Answers = {"ok", "401", "402"}  QuotaPause = 1  PaymentPause = 1
    MaxTokens = 3  MaxBuildOps = 3  MaxStoreErrors = 1  NoAccount = none  NoBilling = noStore
SYMMETRY Symmetry
INVARIANTS SyncIsSound MigrationIsSafe GrantsAreKept
PROPERTIES UndoComplete OneLeader CooledIsNotListed
CHECK_DEADLOCK FALSE
