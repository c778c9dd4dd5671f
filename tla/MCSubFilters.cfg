\* Two publishers, two topics, filters for each of them and the empty one.
CONSTANTS
    a = a
    b = b
    p1 = p1
    p2 = p2
    Topics = {a, b}
    Filters = {{a}, {b}, {a, b}}
    Publishers = {p1, p2}
    MaxCalls = 6
    MaxInFlight = 1
SPECIFICATION Spec
INVARIANTS
    TypeOK
    ListedPasses
    NoGapBetweenSwaps
    IInv
PROPERTIES
    DueHandled
    FilterTakesEffect
