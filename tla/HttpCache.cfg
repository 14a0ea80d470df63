SPECIFICATION Spec
CONSTANTS
    s1 = s1  s2 = s2  c1 = c1  c2 = c2  c3 = c3
    memory = memory  disk = disk
    Shared = Shared  Public = Public  None = None  NoBody = NoBody
    SegmentOf <- MCSegmentOf
    Calls = {c1, c2, c3}
    Segments = {s1, s2}
    Layers = {memory, disk}
    Chains <- MCMemoryOrStack
    ForceMaxAge <- MCForce
    NullIfNotFound = {c1}
    Policies <- MCPolicies
    MaxVersion = 1
    MaxTime = 2
INVARIANTS AudienceRespected
PROPERTIES FreshEnough ReturnsWhatItHeard
CHECK_DEADLOCK FALSE
