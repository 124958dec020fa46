SPECIFICATION MCSpec
CONSTANTS
    a = a
    b = b
    c = c
    nowhere = nowhere
    r1 = r1
    r2 = r2
    r3 = r3
    s1 = s1
    NoRow = NoRow
    NoOne = NoOne
    Accounts <- MCAccounts
    Quoted <- MCQuoted
    Opening <- MCOpening
    Requests <- MCRequests
    Ops <- MCOps
    Seeded = {s1}
    SeededRow <- MCSeededRow
    MaxEntries = 3
INVARIANTS
    BalanceMatchesLedger
    SpendsExactlyTheCover
    OnlyCrossedBatchesDeadlock
    EventsAfterCommit
PROPERTIES
    ImplementsAtomicLedger
    EveryRequestEnds
