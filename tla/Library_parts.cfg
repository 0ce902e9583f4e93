\* Every part: all cuts of messages over several blocks, all first calls.
SPECIFICATION Spec
CONSTANTS
    t1 = t1
    t2 = t2
    Parts = {"base", "mh", "gcm", "xts", "cbc", "rolling", "dispatch", "api"}
    BaseHashes <- MCHashes
    BASE_BLOCK = 4
    FIELD64 = 1
    FIELD128 = 2
    BaseMaxTotal = 13
    MhKinds <- MCMhKinds
    SEGS = 2
    STEPS = 2
    WORD = 2
    MUR_BLOCK = 4
    LENFIELD = 3
    LEN32 = 32
    MhMaxTotal = 27
    GCM_BLOCK = 3
    GROUP = 2
    LOW = 8
    AAD_LIMIT = 5
    AadLens = {0, 1, 3, 4, 5}
    GcmMaxLen = 34
    XTS_BLOCK = 3
    XTS_GROUP = 2
    XtsShifts <- MCShifts
    XtsMaxLen = 23
    XtsMemory = 47
    UNROLLED_LOOPS = 3
    CBC_GROUP = 3
    CbcShifts <- MCBlockShifts
    CbcMaxLen = 11
    CbcMemory = 23
    RhByte = {0, 1}
    RhWindows = {1, 2, 3}
    RhTriggers <- MCTriggers
    RhLoops = {"base", "x86"}
    ROTATION = 4
    INT_LIMIT = 5
    RhMaxBuffer = 5
    DispThreads <- MCThreads
    Machines <- MCMachines
    Families <- MCHashes
    NoImpl = NoImpl
    ApiThreads <- MCThreads
    NoThread = NoThread
    NoFunction = NoFunction
    NoWork = NoWork
    ApiPrograms <- MCPrograms
INVARIANTS
    TypeOK
    BaseDigestIsReference
    MhDigestIsReference
    GcmOutputIsReference
    GcmTagIsReference
    XtsOutputIsStandard
    CbcOutputIsStandard
    RhFirstHit
    RunsHere
    ApiWorkIsCovered
