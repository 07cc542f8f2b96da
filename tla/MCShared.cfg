SPECIFICATION FairSpec
CONSTANTS
    x1 = x1  x2 = x2  j1 = j1
    Focus = {"health", "quota", "config"}
    Account <- MCAccount  MarkJob <- MCMarkJob  Deployments <- MCDeployments
    IcThreshold = 2  SsoMaxFailures = 2  MinAge = 1  PageSize = 1  MaxDeletes = 1  Absent = none
    Call <- MCCall  FastLimit <- MCFastLimit  ConsoleLimit = 2  AutoTotal = 1  ConsoleMark = 1
    Span = 1  MaxCalls = 2  NoReset = none  None = none
    Process = {"p", "q"}  Defaults <- MCDefaults  Environment <- MCEnvironment  Patches <- MCPatches
    StartupOnly = {"s"}  Accepts <- MCAccepts  Cleaned <- MCCleaned  Kinds = {"toml", "redis", "sql"}
    MaxWrites = 2  MaxStoreFaults = 1
INVARIANTS CountsAreKept
PROPERTIES StatusForCause ConfigIsKept LoopsRepair
