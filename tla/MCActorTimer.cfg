\* A timeout that is longer than a turn of the loop takes, switched off and
\* on by the handler, and messages all the time.
CONSTANTS
    Periods = {4}
    IntSpan = 16
    MaxCost = 2
    Slack = 1
    Preempted = FALSE
    MaxPending = 2
    MaxSets = 2
SPECIFICATION Spec
INVARIANTS
    TypeOK
PROPERTIES
    FixedInterval
    KeepsTicking
    MessagesHandled
