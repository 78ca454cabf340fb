\* Two releases of one movie, an Arrarr job
\* behind them, Seerr and Jellyfin: reports of two attempts in any order.
SPECIFICATION Spec
CONSTANTS
  m = m
  req = req
  k1 = k1
  k2 = k2
  Items = {m}
  Requests = {req}
  Movies = {req}
  RequestOf <- MCRequestOf
  Carries <- MCCarries
  Keys = {k1, k2}
  ReportIds = {k1, k2}
  NoKey = NoKey
  NoError = NoError
  SeerrError = SeerrError
  JobStates = {"READY", "FAILED"}
  Connected = {"seerr", "jellyfin"}
  MaxRows = 2
  MaxCycle = 2
INVARIANTS
  PointerIsTop
  ErrorIsCurrent
  CompletionStands
PROPERTIES
  TerminalRowsStay
  CanceledSticks
