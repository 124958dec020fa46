SPECIFICATION MCSpec
CONSTANTS
    o1 = o1
    o2 = o2
    c1 = c1
    s1 = s1
    Orders = {o1, o2}
    Statuses = {"posted", "failed"}
    Changes <- MCChanges
    Streams = {c1}
    Sockets = {s1}
    Watched <- MCWatched
    BufferSize = 2
    MaxBoots = 2
INVARIANTS
    NoGapNoDuplicate
    LastWordIsStored
