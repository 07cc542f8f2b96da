SPECIFICATION Spec
CONSTANTS
    x1 = x1  x2 = x2
    Focus = {"build", "chat", "summary", "rounds", "batch"}
    ClientTools <- MCClientTools  MaxItems = 2  MaxChunks = 1
    Api = {"chat", "responses", "messages"}  Modes = {"plain", "tools", "disabled"}
    Dialects <- MCDialects  MaxPieces = 4  MaxChunk = 2  MaxBuffer = 3
    Track = {"updates", "modes"}  Promoted = {"updates"}  Text = {1}  EnVotes = 2
    MaxPending = 2  MaxReport = 2  MaxInputs = 3
    Image <- MCImage  N = 2  Retries = 3
    Task = {"t"}  Listed <- MCListed  Requests <- MCRequests  ChunkSize = 2  Workers = 2
    Watcher = {"w"}  QueueCap = 2  RedisFaults = 1
INVARIANTS StreamIsFiltered SummaryIsOrderly FinalIsKnown TallyIsExact
PROPERTIES StreamIsTheAnswer RoundsAreTrue
CHECK_DEADLOCK FALSE
