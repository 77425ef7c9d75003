SPECIFICATION Spec
CONSTANTS
  a = a
  b = b
  f = f
  g = g
  NoBase = NoBase
  Unknown = Unknown
  Devices <- Both
  Players = {}
  Known = {g}
  MidPass = FALSE
  Faults = {}
  Paths = {f, g}
  Kept = {g}
  Hashes <- MCHashes
  Absent = 0
  Folders = {}
  Skew = 0
  Edited = {}
  MaxVersion = 1
  MaxDeletes = 0
  MaxReports = 1
  MaxRefreshes = 0
CHECK_DEADLOCK FALSE
PROPERTIES
  NoUnaskedDeletion
