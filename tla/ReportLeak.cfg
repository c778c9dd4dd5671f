\* Reporting is switched off before the actor is destroyed.
CONSTANTS
    a1 = a1
    a2 = a2
    a3 = a3
    a4 = a4
    a5 = a5
    Addr = {a1, a2, a3, a4, a5}
    NULL = NULL
    Traffic = {}
    Commands = {"REPORTING FALSE"}
    PeerCommands = {}
    HandlerReads = FALSE
    Interruptible = FALSE
    MaxIterations = 2
    PipeCap = 1
SPECIFICATION Spec
INVARIANT
    NoOrphan
