\* Three threads, one round, atomic instructions or mutexes.
SPECIFICATION FairSpec
CONSTANTS
    THREAD_COUNT = 3
    ITERATION_COUNT = 1
    Modes = {"atomic", "mutex"}
INVARIANTS
    StartTogether
    NothingLost
PROPERTIES
    Finishes
