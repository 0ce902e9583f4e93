\* What sha1_mb.h says of errors.
SPECIFICATION Spec
CONSTANTS
    c1 = c1
    c2 = c2
    NULL = NULL
    STALE = STALE
    SUBMITTING = SUBMITTING
    FLUSHING = FLUSHING
    Ctxs <- MCCtxs
    Jobs <- MCCtxs
    Buffers <- MCBuffers
    Byte <- MCByte
    NLANES = 2
    FILL = 2
    SB_THRESHOLD = 1
    BLOCK_SIZE = 2
    PADLENGTHFIELD_SIZE = 1
    EMPTY_LEN = 2
    EMPTY_TAG = 15
    MaxTotal = 2
INVARIANT ErrorNamesSubmitted
