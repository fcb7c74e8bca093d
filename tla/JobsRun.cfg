SPECIFICATION FiringSpec
CONSTANTS
    Replica = {r1}
    NoReplica = NoReplica
    Job = {poll, cluster, health}
    Locked = {poll, cluster}
    AwaitsResults = FALSE
    PoolSizes = {5}
    MaxQueries = 1
    Mortal = {}
PROPERTIES
    EveryLockedJobRuns
