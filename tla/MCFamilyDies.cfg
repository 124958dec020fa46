SPECIFICATION FairSpec
CONSTANTS
    Unknown = Unknown
    NoRow = NoRow
    NoOne = NoOne
    Requests <- MCRequests
    Tokens <- MCTokens
    AccessTTL = 1
    RefreshTTL = 2
    MaxLogins = 1
    MaxClock = 1
INVARIANTS
    FamilyDies
