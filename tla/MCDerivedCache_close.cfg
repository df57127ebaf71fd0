CONSTANTS
    Instances = {1}
    Queries = {"q"}
    Callers = {"i1", "l1", "t1", "c1"}
    Call <- ShutCall
    At <- OneInstance
    Asks <- OneQuery
    Impatient = {"l1", "c1"}
    Faulty = FALSE
    MaxVersion = 0
    Base = Base
    None = None
SPECIFICATION FairSpec
INVARIANTS DrainMeansQuiet
PROPERTIES CacheReturns
