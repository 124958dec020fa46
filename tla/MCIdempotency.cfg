SPECIFICATION MCSpec
CONSTANTS
    r1 = r1
    r2 = r2
    r3 = r3
    NoKey = NoKey
    NoRecord = NoRecord
    NoResponse = NoResponse
    Requests <- MCRequests
    Keys = {"k"}
    Bodies = {"x", "y"}
    TTL = 2
    MaxClock = 2
    MaxBoots = 2
INVARIANTS
    OneEffectPerKey
    ReplayIsTruthful
