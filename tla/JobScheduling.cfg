SPECIFICATION FairSpec
CONSTANTS
    Replica = {r1, r2}
    NoReplica = NoReplica
    Job = {poll, cluster, health}
    Locked = {poll, cluster}
    AwaitsResults = TRUE
    PoolSizes = {2, 3}
    MaxQueries = 2
    Mortal = {r1, r2}
INVARIANTS
    TypeOK
    OneReplicaRunsAJob
    NoLockLeaks
    PoolNeverStuck
PROPERTIES
    EveryFiringEnds
