SPECIFICATION MemoFairSpec
CONSTANTS
    r1 = r1  r2 = r2  k1 = k1  m1 = m1  m2 = m2
    c1 = c1  c2 = c2  c3 = c3  c4 = c4
    NoKey = NoKey
    NoCall = NoCall
    Calls = {c1, c2, c3, c4}
    Requests = {r1, r2}
    Keys = {k1}
    RequestOf <- MCRequestOf
    KeyOf <- MCKeyOf
    Safe = {c1, c2, c4}
    Cancellable = {r1}
    MaxVersion = 1
    Memoizable = {c1, c2, c4}
    MemoKeys = {m1, m2}
    MemoKeyOf <- MCMemoKeyOf
    IgnoreRecorder = {c3}
INVARIANTS RepeatableReads EveryAnswerRecorded OneFlightPerKey CancellationStaysHome
PROPERTIES NoCancelAfterWrite Coalesces EveryCallReturns
CHECK_DEADLOCK FALSE
