\* A client that sets, asks, connects, disconnects, and writes START, $TERM and
\* commands that the actor's handler returns; peers that connect and start the
\* actor and send it $TERM; a timer, a signal that interrupts the process, and a
\* pipe that is full with one message in each direction.
CONSTANTS
    v1 = v1
    v2 = v2
    e1 = e1
    NULL = NULL
    Values = {v1, v2}
    Endpoints = {e1}
    Tells = {"API", "START", "TERM"}
    PeerCommands = {"CONNECT", "START", "TERM"}
    Echoes = TRUE
    Timed = TRUE
    Interruptible = TRUE
    PipeHWM = 1
    MaxCalls = 3
SPECIFICATION Spec
INVARIANTS
    TypeOK
    AnswersMatch
    CopiesCoherent
    ConnectionsCoherent
    ShimAlive
    
    IInv
PROPERTIES
    DestroyJoins
    AskReturns
    SendReturns
    DestroyReturns
