CONSTANTS
  Redis = TRUE
  Subs = {1}
  Callers = {"start", "run", "pub", "close"}
  Call <- OverlapCall
  Impatient = {"pub"}
  Nobody = Nobody
  MaxRevision = 2
  MaxFaults = 1
SPECIFICATION Spec
INVARIANTS TypeOK HandledOnceInOrder FailureIsVisible ReconcileInforms ClosedIsQuiet
PROPERTIES NeverBackwards
