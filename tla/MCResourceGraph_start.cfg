CONSTANTS
    N = 3
    Deps <- JoinDeps
    Required = {1, 3}
    Runners = {}
    First = c1
    Starters = {s1, s2}
    RunCallers = {}
    Inspectors = {}
    Closers = {c1, c2}
    NoGeneration = NoGeneration
SPECIFICATION Spec
INVARIANTS TypeOK DependentsCloseFirst PassesAreOrderly NilCloseMeansReleased
PROPERTIES ImplementsOwnership CloseIsIrreversible
