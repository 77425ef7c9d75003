\* Comparisons, the cloud, tracking, messages, pairing and unknown games.
SPECIFICATION PartsSpec
CONSTANTS
  f = f
  g = g
  h1 = h1
  h2 = h2
  dir = dir
  a = a
  b = b
  m1 = m1
  m2 = m2
  Absent = Absent
  NoBase = NoBase
  Pending = Pending
  Conflict = Conflict
  Paths <- MCPaths
  Hashes <- MCHashes
  Folders <- MCFolders
  Clocks = {2, 3}
  Skew = 1
  CloudDevices = {1, 2}
  Starters = {1}
  CloudTime = 5
  MaxPlays = 2
  MaxRestores = 1
  UsedDuringPull = FALSE
  MaxHeadChain = 2
  Devices <- MCDevs
  Users <- MCUsers
  MaxOps = 5
  Messages <- MCMessages
  MaxAuthSkew = 2
  SweepEvery = 1
  Ahead = 3
  MaxTime = 12
  MaxPairings = 1
  MaxUnpairs = 2
  MaxRestarts = 1
  Ids <- MCPaths
  GameFolders <- MCHashes
  Requests <- MCRequests
SYMMETRY Sym
INVARIANTS
  PlanMakesSidesAgree
  OneSidedChangeWins
  PeerFollowsNewest
  AcceptedOnce
  AnswersAreNotUndone
PROPERTIES
  TakenUnaskedLosesNothing
  GoodbyeHasLanded
\* A part stops when its bounds are reached, and a judgement when it is made.
CHECK_DEADLOCK FALSE
