\* Three sp and two wp on one object, either kind first, both life-times.
SPECIFICATION Spec
CONSTANTS
    Sp = {p1, p2, p3}
    Wp = {w1, w2}
    NoPtr = NoPtr
    INITIAL_STRONG_VALUE = 5
    Publications = {"sp", "wp"}
    ForceSetEarly = FALSE
SYMMETRY Handles
INVARIANTS
    TypeOK
    NoUseAfterFree
    ReferenceKeepsObject
    AssertsHold
    CountsMatch
    NoLeak
    CallbackBalance
PROPERTIES
    NeverRevived
    ImplementsLifetime
CHECK_DEADLOCK FALSE
