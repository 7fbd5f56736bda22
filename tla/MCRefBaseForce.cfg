\* force_set() on an object whose first reference is a wp, against promote().
SPECIFICATION Spec
CONSTANTS
    Sp = {p1, p2}
    Wp = {w1}
    NoPtr = NoPtr
    INITIAL_STRONG_VALUE = 4
    Publications = {"wp"}
    ForceSetEarly = TRUE
INVARIANTS
    AssertsHold
CHECK_DEADLOCK FALSE
