SPECIFICATION FairSpec
CONSTANTS
    w1 = w1
    w2 = w2
    w3 = w3
    NoOne = NoOne
    Writers <- MCWriters
    Rows <- MCRows
    Path <- MCPath
    Parties <- MCParties
    MaxAttempts = 3
INVARIANTS
    NoLostUpdate
    CommittedAtMostOnce
    ConflictsAreProgress
    BarrierForcesConflict
PROPERTIES
    EveryCallEnds
