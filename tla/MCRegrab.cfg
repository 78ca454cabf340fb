\* The same release is grabbed again after a failure and a retry.
SPECIFICATION Spec
CONSTANTS
  m = m
  req = req
  k1 = k1
  k2 = k2
  Items = {m}
  Requests = {req}
  Movies = {req}
  RequestOf <- MCRequestOf
  Carries <- MCCarries
  Keys = {k1}
  ReportIds = {k1}
  NoKey = NoKey
  NoError = NoError
  SeerrError = SeerrError
  JobStates = {}
  Connected = {}
  MaxRows = 2
  MaxCycle = 2
PROPERTIES
  NewRowServesAttempt
