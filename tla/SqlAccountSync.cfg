SPECIFICATION LiveSpec
CONSTANTS
    Token = {t1, t2}
    Pool = {basic, super}
    NoPool = none
    MaxRev = 4
INVARIANTS TypeOK SyncComplete GroupIsNext
PROPERTIES PassCatchesUp ImplementsFeed Converges
