\* A clock that ticks between two reads of a turn.
CONSTANTS
    Periods = {4}
    IntSpan = 16
    MaxCost = 2
    Slack = 1
    Preempted = TRUE
    MaxPending = 2
    MaxSets = 2
SPECIFICATION Spec
PROPERTY
    KeepsTicking
