CONSTANTS
    N = 2
    Deps <- ChainDeps
    Required = {1}
    Runners = {1, 2}
    First = c1
    Starters = {s1}
    RunCallers = {r1}
    Inspectors = {q1}
    Closers = {c1, c2}
    NoGeneration = NoGeneration
SPECIFICATION LiveSpec
INVARIANTS ReleaseIsExclusive RunErrorIsJustified
PROPERTIES CloseIsLive RunnerExitStopsPeers
CHECK_DEADLOCK FALSE
