\* The indexer on a chain of two transactions of either program, one crash.
SPECIFICATION FairSpec
CONSTANTS
    a = a
    b = b
    Agents = {a, b}
    Legacy = {b}
    Updated <- MCUpdated
    Escrows = {e1}
    Party = party
    Jobs = {j1}
    PollLimit = 2
    FirstLimit = 1
    CatchUpLimit = 2
    Prior = 1
    MaxTx = 2
    MaxCrashes = 1
    RING = 2
    MAX_LIMIT = 2
    DEFAULT_LIMIT = 1
INVARIANTS
    TypeOK
    OneRowPerEvent
    RightSubject
    EntryIsNotOlder
    HistoryInOrder
    PagesAreComplete
PROPERTIES
    KeepsIndex
    RecentIndexed
CHECK_DEADLOCK FALSE
