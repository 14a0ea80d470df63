SPECIFICATION Spec
CONSTANTS
    s1 = s1  s2 = s2  c1 = c1  c2 = c2  c3 = c3
    memory = memory  disk = disk
    Shared = Shared  Public = Public  None = None  NoBody = NoBody
    SegmentOf <- MCSegmentOf
    Calls = {c1, c3}
    Segments = {s1}
    Layers = {memory, disk}
    Chains <- MCStack
    ForceMaxAge <- MCNoForce
    NullIfNotFound = {}
    Policies <- MCSimple
    MaxVersion = 1
    MaxTime = 3
INVARIANTS OnlyCacheableStatus
CHECK_DEADLOCK FALSE
