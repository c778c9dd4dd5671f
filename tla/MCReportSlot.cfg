\* Reports of every kind, handlers that read their own report, a client that
\* toggles reporting, and a signal.
CONSTANTS
    a1 = a1
    a2 = a2
    a3 = a3
    a4 = a4
    a5 = a5
    Addr = {a1, a2, a3, a4, a5}
    NULL = NULL
    Traffic = {"SOCK", "TIME"}
    Commands = {"REPORTING TRUE", "REPORTING FALSE", "STOP", "OTHER"}
    PeerCommands = {"REPORTING FALSE", "STOP"}
    HandlerReads = TRUE
    Interruptible = TRUE
    MaxIterations = 2
    PipeCap = 1
SPECIFICATION Spec
SYMMETRY Blocks
INVARIANTS
    TypeOK
    Ownership
    NoOrphanWhileReporting
    ActorOutlivesController
    NeverSeesInit
    FourReports
    IInv
PROPERTIES
    NeverBackwards
    MailboxSpec
