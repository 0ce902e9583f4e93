\* The aarch64 managers: safety, the pool and progress.
SPECIFICATION FairSpec
CONSTANTS
    j1 = j1
    j2 = j2
    j3 = j3
    NULL = NULL
    Jobs <- MCJobs
    NLANES = 3
    Variants <- MCVariants
    LEN_MOD = 8
    MaxBlocks = 3
INVARIANTS
    TypeOK
    NoFault
    LaneAccounting
    CompletedDigest
PROPERTIES
    PoolSpec
    EveryJobFinishes
