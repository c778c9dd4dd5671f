\* The stock actors and one of the client's, with two events from outside and
\* everything that follows from them.
CONSTANTS
    NULL = NULL
    Actors = {"p", "c1", "c2", "l", "x"}
    Kind <- MCKind
    Sources <- MCSources
    NumBlocks = 6
    HWM = 2
    PipeHWM = 1
    MaxEvents = 2
SPECIFICATION Spec
INVARIANTS
    TypeOK
    Ownership
    NoLeak
    InOrder
    Counted
\* Nothing happens after the last event from outside.
CHECK_DEADLOCK FALSE
