SPECIFICATION ServersSpec
CONSTANTS
  Starters = {"s1", "s2"} Users = {"use"} Probes = {} Closers = {"close", "nested"}
  Commands = {"d1"} Impatient = {"s1", "nested"}
  UserOf <- MCUserOf Inside <- MCInside NoUser = NoUser
  Components = {"http", "grpc"} Stuck = {"grpc"}
  TaskKeys = {1, 2} Specs = {"daily"} EntryIDs = {1, 2, 3, 4}
  MaxTroubles = 1 MaxEdits = 0 NoSpec = NoSpec
  Clients = {"c1", "c2"} Signals = {"m1"} QueueSize = 1 BufferSize = 1
  Writers = {"w1"} Requests = {} Loops = {"l1", "l2"}
  Processes = {1, 2} At <- MCAt MaxAttempts = 2 MaxFailures = 1 Nobody = Nobody
  Issues = {"first", "second"} Verifications = {"guess", "again"}
  Repeatable = {"first", "guess"} Unreadable = {}
  CodeOf <- MCCodeOf CallerOf <- MCCallerOf MaxTries = 2
  PendingTTL = 1 CodeTTL = 2 Cooldown = 2 IdempotencyTTL = 2 RepeatWithin = 1
  QuotaWindow = 1 MaxIssues = 1 CallerWindow = 1 CallerLimit = 1 GlobalWindow = 3 GlobalLimit = 2
  MaxGuesses = 2 Start = 4 MaxTime = 6 None = None
  Loads = {"boot"} Changes = {} Shutdowns = {"shutdown"}
  DatabaseUsers = {"query"} ObjectUsers = {"upload"} Nothing = Nothing
  Registrations = {"one"} KeyOf <- MCKeyOf Withdrawn = {"one"} Appends = {"append"}
  QueueClosers = {} Offsets = 1 ErrorSlots = 1
  Runtimes = {"main"} Opens = {"open1"} EventLoops = {"loop"}
  Shuts = {"close1"} Owner <- MCOwner NoRuntime = NoRuntime
  Subjects = {"redis", "manager", "tasks", "hub", "policy", "config", "kafka", "events"}
PROPERTIES ServersProgress
CHECK_DEADLOCK FALSE
