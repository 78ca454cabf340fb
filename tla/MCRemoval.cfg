\* Two requests, two entries in Radarr, failing and late calls and a crash.
SPECIFICATION FairSpec
CONSTANTS
  None = None
  Removers = {r1}
  SeerrIds = {k1}
  Other = u
  Jobs = {j1}
  MaxArr = 2
  MaxId = 2
  MaxFaults = 1
PROPERTIES
  StaysAway
  ForgetsLast
  KeepsShared
  RemovalFinishes
CHECK_DEADLOCK FALSE
