SPECIFICATION Spec
CONSTANTS
  a = a
  b = b
  f = f
  g = g
  NoBase = NoBase
  Unknown = Unknown
  Devices <- Both
  Players = {a, b}
  Known = {g}
  MidPass = TRUE
  Faults = {"lost", "interrupt", "restart", "expire"}
  Paths = {g}
  Kept = {g}
  Hashes <- MCHashes
  Absent = 0
  Folders = {}
  Skew = 0
  Edited = {g}
  MaxVersion = 3
  MaxDeletes = 0
  MaxReports = 1
  MaxRefreshes = 1
CHECK_DEADLOCK FALSE
INVARIANTS
  BaseWasShared
  OnePlayerNeverConflicts
PROPERTIES
  UnseenEditNeverReplaced
SYMMETRY Twins
