SPECIFICATION FairSpec
CONSTANTS
    w1 = w1
    w2 = w2
    w3 = w3
    NoWorker = NoWorker
    NoJob = NoJob
    Jobs <- MCJobs
    Backlog <- MCBacklog
    Workers <- MCWorkers
    MaxIdlePolls = 2
INVARIANTS
    ExactlyOnce
    NoEarlyReturn
    OneJobPerDeath
PROPERTIES
    ImplementsWorkQueue
    PoolDrains
