SPECIFICATION FairSpec
CONSTANTS
    x1 = x1  x2 = x2  none = none
    Focus = {"dispatch", "video", "batch", "sessions", "cache"}
    Req <- MCReq  Settings <- MCSettings
    Token <- MCToken  MaxRetries = 1  RefreshQueueCap = 1  LiteImages = 2  NoToken = none
    VideoJob <- MCVideoJob  Lengths <- MCLengths  References <- MCReferences  MaxImages = 2
    ChatMessages <- MCChatMessages  VideoFaults = 2  Missing = none
    Task <- MCTask  Listed <- MCListed  Requests <- MCRequests  ChunkSize = 2  Workers = 2
    Watcher = {}  QueueCap = 1  RedisFaults = 0
    Conn <- MCConn  Crowds <- MCCrowds  IpOf <- MCIpOf  Ticket <- MCTicket  MaxConnections = 2  MaxPerIP = 1
    TicketTTL = 1  MaxRuns <- MCMaxRuns  MaxEvents = 2
    Worker <- MCWorker  Name = {"a", "b", "c"}  Size <- MCSize  Limits = {0, 8}
    MaxCacheOps = 3  MaxIOFaults = 1  NoWorker = none
INVARIANTS LeasesBalanced SessionsAreCounted
PROPERTIES VideosAreTrue CacheIsTrue WorkEnds
CHECK_DEADLOCK FALSE
