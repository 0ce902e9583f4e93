\* What isal_crypto_api.h says of threads, on any machine.
SPECIFICATION Spec
CONSTANTS
    t1 = t1
    t2 = t2
    t3 = t3
    NONE = NONE
    Threads <- MCThreads
    Outcomes <- AllOutcomes
INVARIANT OneRunner
