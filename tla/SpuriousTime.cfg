\* An actor whose timeout is switched off.
CONSTANTS
    Periods = {4}
    IntSpan = 16
    MaxCost = 2
    Slack = 1
    Preempted = FALSE
    MaxPending = 2
    MaxSets = 2
SPECIFICATION Spec
PROPERTY
    NeverTimesOut
