\* A filter is removed while others stay.
CONSTANTS
    a = a
    b = b
    p1 = p1
    p2 = p2
    Topics = {a, b}
    Filters = {{a}, {b}, {a, b}}
    Publishers = {p1, p2}
    MaxCalls = 4
    MaxInFlight = 1
SPECIFICATION Spec
PROPERTY
    OnlyListedHandled
