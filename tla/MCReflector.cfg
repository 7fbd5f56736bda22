\* The whole program, from new HandlerReflectorTester to the end of main().
SPECIFICATION Spec
CONSTANTS
    Loopers = {"reflector", "worker"}
    Messages = {"start", "write", "read", "stop"}
    None = None
INVARIANTS
    OneBall
    HandlersAlive
PROPERTY EverythingEnds
