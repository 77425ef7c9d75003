SPECIFICATION FairSpec
CONSTANTS
  f1 = f1
  f2 = f2
  p1 = p1
  Loop = Loop
  NoPeer = NoPeer
  Callers = {Loop}
  Followers = {f1, f2}
  Peers = {p1}
  MaxBusyFollowUps = 1
INVARIANTS
  OneSyncAtATime
  NotBusyMeansQuiet
PROPERTIES
  EventuallySent
  QuietensDown
