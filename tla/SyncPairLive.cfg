SPECIFICATION FairSpec
CONSTANTS
  a = a
  b = b
  f = f
  g = g
  NoBase = NoBase
  Unknown = Unknown
  Devices <- Both
  Players = {a}
  Known = {f, g}
  MidPass = FALSE
  Faults = {"lost"}
  Paths = {f, g}
  Kept = {g}
  Hashes <- MCHashes
  Absent = 0
  Folders = {}
  Skew = 0
  Edited = {g}
  MaxVersion = 2
  MaxDeletes = 1
  MaxReports = 1
  MaxRefreshes = 0
CHECK_DEADLOCK FALSE
PROPERTIES
  Converges
