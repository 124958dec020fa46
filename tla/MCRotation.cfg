SPECIFICATION RotationSpec
CONSTANTS
    None = None
    MaxRotations = 2
    PoolMax = 2
    Probes = {q1, q2}
    q1 = q1
    q2 = q2
INVARIANTS
    RefusedForAReason
    NoOldBackend
    
PROPERTIES
    PoolRecovers
