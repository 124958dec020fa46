SPECIFICATION PagingSpec
CONSTANTS
    None = None
    Users = {"ann", "bob"}
    AccountIds = {1, 2}
    TransactionIds = {1, 2, 3}
    Ticks = 2
    Millisecond = 2
    MaxBatch = 2
    Limits = {1, 2}
    Walks = {"w"}
CHECK_DEADLOCK FALSE
INVARIANTS
    PagesAreExact
PROPERTIES
    WalkEnds
