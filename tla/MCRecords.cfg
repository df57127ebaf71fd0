SPECIFICATION RecordsSpec
CONSTANTS
  x1 = x1 x2 = x2 y1 = y1 y2 = y2
  Readers = {x1, x2} Editors = {y1, y2} Scopes = {"application", "user"}
  MaxReads = 2 MaxCacheFaults = 1 NoEditor = NoEditor
  Requests = {x1, x2} Resends = {1, 2, 3} MaxVersion = 4
  SessionIds = {x1, x2} Handlers = {y1, y2} Providers = {"github", "lark"} MaxPasswords = 2
  ProofTTL = 2 LockTTL = 2 FailureWindow = 3 MaxFailures = 2 SessionTTL = 7 MaxClock = 9
  Writers = {x1, x2} SnapshotReaders = {"reader"} Paths <- MCPaths
  Versions = {"v0", "v1", "v2", "v3"} Empty = "v0" Built <- MCBuilt
  MaxFaults = 2 MaxEdits = 1 NoWriter = NoWriter
  Commands = {x1, x2, "third"} Services = {1, 2} Pids = {1, 2} MaxLaunches = 3 MaxMishaps = 2
  Names = {1, 2, 3}
  OptionIds = {1, 2, 3} OptionNames = {x1, x2, "third"} Managers = {y1, y2} Lookups = {"lookup"}
  MaxOptions = 2 MaxLostCommands = 1
  Departments = {1, 2, 3} Requesters = {y1, y2}
  Callers = {x1, x2, "third"} BusinessModules = {y1, y2} NoModule = NoModule
  CoreMigrations <- MCCore Offers <- MCOffers
  MigrateCommands = {x1, x2, "third"} NoMigration = NoMigration
  TableReaders = {"table reader"} TableWriters = {y1, y2} MaxEvictions = 1
  Outputs = {1, 2, 3} Extension = {1} OutputGroup = {2, 3} Generators = {x1, x2}
  Wanted <- MCWanted Marked = {"a", "b"} MaxTouches = 1
  Browsers = {x1, x2} Callbacks = {y1, y2} Identities = {x1, x2} Attempts = {1, 2}
  Logins = {1, 2, 3, 4} MaxUpsets = 1 NoLogin = 0 NoAttempt = 0 NoIdentity = NoIdentity
SYMMETRY RecordsSymmetry
INVARIANTS RecordsTypeOK OrderIsCorrect StoresAreSound QueriesAreSound
PROPERTIES AccountIsSound SessionsHold SnapshotIsSound ToolsAreSound
CHECK_DEADLOCK FALSE
