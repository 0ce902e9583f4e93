\* The gate, the answers and progress, on any machine.
SPECIFICATION FairSpec
CONSTANTS
    t1 = t1
    t2 = t2
    t3 = t3
    NONE = NONE
    Threads <- MCThreads
    Outcomes <- AllOutcomes
INVARIANTS
    OneRunnerIfShaPasses
    HonestAnswer
PROPERTIES
    GateIfShaPasses
    CallReturns
