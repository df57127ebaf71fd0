CONSTANTS
    Instances = {1, 2}
    Queries = {"q"}
    Callers = {"i1", "l1", "l2", "l3", "l4"}
    Call <- FreshCall
    At <- PeerAt
    Asks <- OneQuery
    Impatient = {"l1"}
    Faulty = TRUE
    MaxVersion = 1
    Base = Base
    None = None
SPECIFICATION Spec
CONSTRAINT HereOrThere
INVARIANTS TypeOK EntriesAreFresh UnwrittenIsRetained ReadsObserveInvalidation SharingIsSound
CHECK_DEADLOCK FALSE
