SPECIFICATION WorkerSpec
CONSTANTS
    rA = rA  rB = rB  rE = rE  rO = rO
    qA1 = qA1  qA2 = qA2  qB = qB  qE = qE  qO = qO
    Requests = {qA1, qA2, qB, qE, qO}
    Routes = {rA, rB, rE, rO}
    Replica = Replica
    RouteOf <- MCRouteOf
    RouteConcurrent <- MCRouteConcurrent
    RoutePerMinute <- MCRoutePerMinute
    Concurrent = 2
    PerMinute = 2
    Minute = 2
    MaxTime = 2
    KindOf <- MCKindOf
    Awaits = {rA, rE}
    Smartcache = {rA}
    Forbidden <- MCForbidden
    Always <- MCAlways
    Reading = {qA1, qA2}
    Carries <- MCCarries
    Styles <- MCStyles
SYMMETRY MCSymmetry
INVARIANTS CountersExact LimitsHold TokensForAdmitted MinuteBounded GaugesExact AnswersAgree
CHECK_DEADLOCK FALSE
