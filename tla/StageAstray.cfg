\* A path that leads up, from a directory with two above it.
CONSTANTS
    u1 = u1
    n1 = n1
    NULL = NULL
    Garbage = Garbage
    Broken = Broken
    called = called
    Uuids = {u1}
    Names = {n1}
    Types = {"rich"}
    Plain = {}
    Params = {called}
    Preset = {called}
    Called = {called}
    Triggers = {}
    Tunable = {}
    Blobs = {}
    Values = {"default"}
    Default = "default"
    Paths = {"up", "local"}
    Dirs = {"home", "above", "top"}
    Home = "home"
    Nowhere = "nowhere"
    Locate <- UpLocate
    MaxPos = 0
    MaxCalls = 2
SPECIFICATION Spec
INVARIANTS
    SaveGoesHome
