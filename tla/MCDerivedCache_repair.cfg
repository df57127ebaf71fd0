CONSTANTS
    Instances = {1}
    Queries = {"q"}
    Callers = {"i1", "i2", "l1", "l2"}
    Call <- RepairCall
    At <- OneInstance
    Asks <- OneQuery
    Impatient = {}
    Faulty = FALSE
    MaxVersion = 1
    Base = Base
    None = None
SPECIFICATION Spec
INVARIANTS OldEntriesUnreachable
