\* Two contexts on a two-lane manager, with a length field of two cells.
SPECIFICATION FairSpec
CONSTANTS
    c1 = c1
    c2 = c2
    NULL = NULL
    STALE = STALE
    SUBMITTING = SUBMITTING
    FLUSHING = FLUSHING
    Ctxs <- MCCtxs
    Jobs <- MCCtxs
    Buffers <- MCBuffers
    Byte <- MCByte
    NLANES = 2
    FILL = 2
    SB_THRESHOLD = 1
    BLOCK_SIZE = 3
    PADLENGTHFIELD_SIZE = 2
    EMPTY_LEN = 5
    EMPTY_TAG = 15
    MaxTotal = 5
INVARIANTS
    TypeOK
    NoFault
    OneOwner
    NoByteLost
PROPERTIES
    ServiceSpec
    CallReturns
