\* Two actors, a type with and one without a capability, a parameter of each
\* kind, and five calls.
CONSTANTS
    u1 = u1
    u2 = u2
    n1 = n1
    n2 = n2
    called = called
    blob = blob
    uncalled = uncalled
    trigger = trigger
    NULL = NULL
    Garbage = Garbage
    Broken = Broken
    Uuids = {u1, u2}
    Names = {n1, n2}
    Types = {"rich", "plain"}
    Plain = {"plain"}
    Params = {called, blob, uncalled, trigger}
    Preset = {called, uncalled}
    Called = {called, blob, trigger}
    Triggers = {trigger}
    Tunable = {called}
    Blobs = {blob}
    Values = {"default", "other"}
    Default = "default"
    Paths = {"absolute", "relative", "local", "up"}
    Dirs = {"home", "sub"}
    Home = "home"
    Nowhere = "nowhere"
    Locate <- MCLocate
    MaxPos = 1
    MaxCalls = 5
SYMMETRY Symmetric
SPECIFICATION Spec
INVARIANTS
    TypeOK
    ValuesTold
    InSync
PROPERTIES
    ImplementsDocument
