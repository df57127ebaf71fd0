CONSTANTS
    Instances = {1}
    Queries = {"q"}
    Callers = {"l1", "l2", "l3"}
    Call <- ShareCall
    At <- OneInstance
    Asks <- OneQuery
    Impatient = {"l1", "l2"}
    Faulty = FALSE
    MaxVersion = 1
    Base = Base
    None = None
SPECIFICATION Spec
INVARIANTS CancellationIsOwn
