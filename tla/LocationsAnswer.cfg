\* A save location both users changed; one of them keeps the own version.
SPECIFICATION Spec
CONSTANTS
  Devices = {"a", "b"}
  Kinds = {"local", "remote"}
  MaxTime = 3
  Paths = {"f"}
  Folders = {}
  Hashes = {1, 2, 3}
  Absent = 0
  NoBase = NoBase
  Skew = 0
PROPERTY
  KeptMineStays
CHECK_DEADLOCK FALSE
