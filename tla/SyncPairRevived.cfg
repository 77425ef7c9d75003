SPECIFICATION Spec
CONSTANTS
  a = a
  b = b
  f = f
  g = g
  NoBase = NoBase
  Unknown = Unknown
  Devices <- Both
  Players = {a}
  Known = {f, g}
  MidPass = FALSE
  Faults = {}
  Paths = {f, g}
  Kept = {g}
  Hashes <- MCHashes
  Absent = 0
  Folders = {}
  Skew = 0
  Edited = {f}
  MaxVersion = 2
  MaxDeletes = 1
  MaxReports = 1
  MaxRefreshes = 1
CHECK_DEADLOCK FALSE
PROPERTIES
  IdleNeverOverwrites
