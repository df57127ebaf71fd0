SPECIFICATION ServersSafeSpec
CONSTANTS
  Starters = {"s1", "s2"} Users = {"use"} Probes = {"probe"} Closers = {"close", "second", "nested"}
  Commands = {"d1", "d2"} Impatient = {"s1", "second", "nested"}
  UserOf <- MCUserOf Inside <- MCInside NoUser = NoUser
  Components = {"http", "task", "grpc"} Stuck = {"grpc"}
  TaskKeys = {1, 2} Specs = {"hourly", "daily"} EntryIDs = {1, 2, 3, 4}
  MaxTroubles = 1 MaxEdits = 1 NoSpec = NoSpec
  Clients = {"c1", "c2"} Signals = {"m1", "m2"} QueueSize = 1 BufferSize = 1
  Writers = {"w1", "w2"} Requests = {"q1"} Loops = {}
  Processes = {1, 2} At <- MCAt MaxAttempts = 2 MaxFailures = 1 Nobody = Nobody
  Issues = {"first", "second"} Verifications = {"guess", "again"}
  Repeatable = {"first", "guess"} Unreadable = {}
  CodeOf <- MCCodeOf CallerOf <- MCCallerOf MaxTries = 2
  PendingTTL = 1 CodeTTL = 2 Cooldown = 2 IdempotencyTTL = 2 RepeatWithin = 1
  QuotaWindow = 1 MaxIssues = 1 CallerWindow = 1 CallerLimit = 1 GlobalWindow = 3 GlobalLimit = 2
  MaxGuesses = 2 Start = 4 MaxTime = 6 None = None
  Loads = {"boot", "again"} Changes = {"change"} Shutdowns = {"shutdown"}
  DatabaseUsers = {"query"} ObjectUsers = {"upload"} Nothing = Nothing
  Registrations = {"one", "same"} KeyOf <- MCKeyOf Withdrawn = {"one"} Appends = {"append"}
  QueueClosers = {"closer"} Offsets = 2 ErrorSlots = 1
  Runtimes = {"main", "spare"} Opens = {"open1", "open2"} EventLoops = {"loop"}
  Shuts = {"close1", "again1", "close2"} Owner <- MCOwner NoRuntime = NoRuntime
  Subjects = {"redis", "manager", "tasks", "hub", "policy", "challenge", "config", "kafka",
              "events"}
INVARIANTS ServersTypeOK RedisIsSound LifecycleIsSafe TaskIsSound MessagingIsSafe PolicyIsSound
PROPERTIES StepsAreSound
CHECK_DEADLOCK FALSE
