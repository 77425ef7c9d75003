\* Snapshots, answers to a conflict and the hash cache on one device.
SPECIFICATION PartsSpec
CONSTANTS
  ui = ui
  bg = bg
  user = user
  auto = auto
  app = app
  tool = tool
  main = main
  side = side
  c1 = c1
  c2 = c2
  d1 = d1
  d2 = d2
  x = x
  f = f
  r1 = r1
  r2 = r2
  NoBase = NoBase
  Empty = Empty
  None = None
  Threads <- MCThreads
  ProcessOf <- MCProcessOf
  Ops <- MCOps
  Branches <- MCBranches
  Main = main
  Data <- MCData
  MaxId = 3
  MaxCrashes = 1
  MaxAuto = 2
  MaxManual = 1
  ProcessesMeet = FALSE
  HistoryThreads <- MCHistory
  SwitchThreads <- MCSwitch
  SwitchTime = 3
  SwitchSteps = 2
  Devices <- MCDevs
  SaveFiles <- MCFiles
  Answers <- MCAnswers
  Kinds = {"local", "remote", "branch"}
  CopyMayFail = FALSE
  AnswerTime = 4
  MaxReports = 1
  RootKinds = {"local", "remote"}
  RootTime = 3
  Readers <- MCReaders
  HotWindow = 3
  Granularity = 2
  MaxRead = 1
  MaxAge = 3
  CacheTime = 6
  MaxWrites = 2
SYMMETRY Sym
INVARIANTS
  EverySnapshotRestores
  OwnVersionIsKept
  HashIsFresh
PROPERTIES
  NothingClearedUnsaved
  RestoreGivesBack
  AnswersStand
  OwnWorkStays
\* A part stops when its bounds are reached.
CHECK_DEADLOCK FALSE
