CONSTANTS
    TeamSize = 3
    ScratchSize = 6
    Shape <- Chain
    Scripts <- Mixed
    FhNodes = {"x", "y"}
    FhThreads = {"a", "b", "c", "d"}
    FhNodeOf <- NodeOfThread
    FhRoutes <- OneRoute
    FhPins = {"a1", "a2", "b1", "c1", "d1"}
    FhThreadOf <- ThreadOfPin
    FhAsked <- AskedByPin
    FhPages = {1, 2, 3}
    fhi_MaxRegionSize = 2
    fhc_MaxVictimBuckets = 2
    fhc_RemoteBucketsM = 3
    FhMaxCalls = 5
SPECIFICATION MemorySpec
INVARIANTS NoOverlap PinnedInUse PlacesSound
PROPERTY MemorySettles
CHECK_DEADLOCK FALSE
