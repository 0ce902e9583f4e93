\* What md5_mb.h says of the hash, in the SVE managers of MD5.
SPECIFICATION Spec
CONSTANTS
    j1 = j1
    j2 = j2
    j3 = j3
    NULL = NULL
    Jobs <- MCJobs
    NLANES = 4
    Variants <- MCSve
    LEN_MOD = 4
    MaxBlocks = 3
INVARIANT CompletedDigest
