\* The gate, the watcher, the copies for the cloud, the relay, pairing the connection to it and pulls, with what must happen.
SPECIFICATION MCSpec
CONSTANTS
  c1 = c1
  c2 = c2
  c3 = c3
  f1 = f1
  f2 = f2
  old = old
  new = new
  None = None
  Nobody = Nobody
  Calls <- MCCalls
  Files <- MCFiles
  Contents <- MCContents
  MaxContent = 3
  MaxEvents = 1
  FolderQueueSize = 1
  MaxRetries = 1
  MaxFailures = 1
  MaxSnaps = 2
  MaxPauses = 2
  MaxTime = 1
  MaxLosses = 1
  MaxRestarts = 1
  MaxRetriesPerCheck = 1
  Keep = 2
  Refused = {1}
  Clients <- MCCalls
  Room <- MCRoom
  MaxPerRoom = 3
  ClientBudget = 3
  TotalBudget = 3
  Slots = 1
  Sizes = {1, 2}
  MaxMessages = 2
  Devices = {c1, c2}
  MaxPairings = 0
  MaxUnpairs = 1
  MaxReboots = 1
  Loops <- MCLoops
  Codes = {"home", "work"}
  NoCode = ""
  Hasty = FALSE
  Pulled <- MCPulled
  Short = {3}
  Junk = 0
  Pullers = {c1, c2}
  BatchSize = 2
  MaxAttempts = 2
  MaxWrites = 1
INVARIANTS
  NoTornRead
  NoCopyIsLost
  BudgetIsGivenBack
  FileIsWhole
PROPERTIES
  ImplementsLock
  AWaitingWriterEnters
  AWaitingReaderEnters
  PauseLastsItsTime
  FailedUploadGoesUp
  ChangeIsCaptured
  NobodyStaysDeaf
  UnpairedIsTold
  EndsUpAsSet
  PullEnds
\* A part stops when its bounds are reached.
CHECK_DEADLOCK FALSE
