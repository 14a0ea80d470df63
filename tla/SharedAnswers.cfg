CONSTANTS
    IncomingRequests = {q1, q2}
    Requests <- MCRequests
    MaxCalls = 2
SPECIFICATION Spec
SYMMETRY Alike
INVARIANTS AnswersItsResource MixedOnlyAmongFiles NeverShared KeptApart
CHECK_DEADLOCK FALSE
