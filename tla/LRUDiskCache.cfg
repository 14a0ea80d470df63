SPECIFICATION FairSpec
CONSTANTS
    kA = kA  kB = kB
    gA1 = gA1  gA2 = gA2  sA1 = sA1  sA2 = sA2  sB1 = sB1  sB2 = sB2
    Keys = {kA, kB}
    KeyOf <- MCKeyOf
    MaxAgeOf <- MCMortal
    DefaultMaxAge = 0
    Capacity = 1
    Stale = FALSE
    NoKey = NoKey
    NoFile = NoFile
    Undefined = Undefined
    Gets = {gA1}
    Sets = {sA1, sA2, sB1}
    MaxTime = 2
    MaxFaults = 1
PROPERTY EveryOpEnds
INVARIANTS ReadsLast EntriesOnDisk OrphansOnlyByOverlap
CHECK_DEADLOCK FALSE
