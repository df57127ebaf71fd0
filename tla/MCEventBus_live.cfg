CONSTANTS
  Redis = TRUE
  Subs = {1}
  Callers = {"start", "run", "look", "close"}
  Call <- LifeCall
  Impatient = {"close"}
  Nobody = Nobody
  MaxRevision = 1
  MaxFaults = 1
SPECIFICATION LiveSpec
PROPERTIES BusIsLive
