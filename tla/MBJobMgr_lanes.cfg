\* A manager with a lane that submit never fills, as in SHA-NI, a single-buffer
\* threshold above one, as in the SHA-NI AVX512 flush, and jobs as long as the
\* word of an empty lane, as in MD5.
SPECIFICATION FairSpec
CONSTANTS
    j1 = j1
    j2 = j2
    j3 = j3
    j4 = j4
    NULL = NULL
    STALE = STALE
    Jobs <- MCJobs
    Buffers <- MCJobs
    Byte <- MCByte
    NLANES = 5
    FILL = 4
    SB_THRESHOLD = 2
    BLOCK_SIZE = 2
    EMPTY_LEN = 2
    EMPTY_TAG = 4
    MaxBlocks = 2
INVARIANTS
    TypeOK
    NoFault
    LaneAccounting
    JobsInLanes
    LaneProgress
    CompletedDigest
PROPERTIES
    PoolSpec
    EveryJobFinishes
