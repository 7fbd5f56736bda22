\* The whole program, from new ALooperTester to the end of main().
SPECIFICATION Spec
CONSTANTS
    Loopers = {"tester"}
    Messages = {"start", "read", "wait", "other", "mesg", "stop"}
    None = None
INVARIANT InPostOrder
PROPERTY EverythingEnds
