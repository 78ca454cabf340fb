\* A tv request whose fan-out finds, misses or adds episodes while others are
\* grabbed, imported, transcoded and found in Jellyfin: the rollup settles.
SPECIFICATION FairSpec
CONSTANTS
  e1 = e1
  e2 = e2
  req = req
  pack = pack
  single = single
  Items = {e1, e2}
  Requests = {req}
  Movies = {}
  RequestOf <- MCRequestOf
  Carries <- MCCarries
  Keys = {pack}
  ReportIds = {NoKey}
  NoKey = NoKey
  NoError = NoError
  SeerrError = SeerrError
  JobStates = {}
  Connected = {"seerr", "tdarr", "jellyfin", "notifier"}
  MaxRows = 1
  MaxCycle = 1
INVARIANTS
  CompletionReported
PROPERTIES
  CompletionSettles
