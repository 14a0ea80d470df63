SPECIFICATION Spec
CONSTANTS
    r1 = r1  r2 = r2
    SIGINT = SIGINT  SIGTERM = SIGTERM
    Requests = {r1}
    Signals = {SIGINT, SIGTERM}
    NoSignal = NoSignal
    numWorkers = 2
    Modes = {FALSE}
    MaxForks = 5
    MaxCrashes = 1
    MaxSignals = 1
INVARIANT InFlightFinish
CHECK_DEADLOCK FALSE
