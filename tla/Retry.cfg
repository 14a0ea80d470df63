SPECIFICATION FairSpec
CONSTANTS
    c1 = c1  c2 = c2  c3 = c3
    Calls = {c1, c2, c3}
    concurrency = 1
    retries = 1
    Idempotent = {c1, c2}
    Cancellable = {c2, c3}
INVARIANTS SlotsInUse WritesRepeatOnlyUnanswered
PROPERTIES EveryCallEnds
CHECK_DEADLOCK FALSE
