SPECIFICATION MCSpec
CONSTANTS
    Unknown = Unknown
    NoRow = NoRow
    NoOne = NoOne
    Requests <- MCRequests
    Tokens <- MCTokens
    AccessTTL = 1
    RefreshTTL = 1
    MaxLogins = 2
    MaxClock = 2
INVARIANTS
    UniqueHead
    RevocationReaches
    NoFalseAlarm
    DemotionCatchesUp
PROPERTIES
    RotatesLiveToken
    LogoutDenies
    EveryRequestEnds
