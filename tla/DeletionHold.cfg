\* Two devices share two files, and the users touch their folders twice.
SPECIFICATION FairSpec
CONSTANTS
  a = a
  b = b
  f = f
  g = g
  Devices = {a, b}
  Paths = {f, g}
  Before <- BothBefore
  Hasty = FALSE
  MaxActs = 2
INVARIANTS
  AsksOnlyItsOwnUser
PROPERTIES
  NothingGoesUnasked
  PutBackIsFetched
\* Two equal saves need nothing more.
CHECK_DEADLOCK FALSE
