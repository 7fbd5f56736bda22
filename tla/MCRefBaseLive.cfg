\* Liveness: two sp and two wp, every thread inside RefBase keeps running.
SPECIFICATION FairSpec
CONSTANTS
    Sp = {p1, p2}
    Wp = {w1, w2}
    NoPtr = NoPtr
    INITIAL_STRONG_VALUE = 4
    Publications = {"sp", "wp"}
    ForceSetEarly = FALSE
PROPERTIES
    PromoteEnds
    ImplementsDeletion
CHECK_DEADLOCK FALSE
