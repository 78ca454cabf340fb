\* A season pack and a single release of its second episode: partial grabs
\* and imports, retries that take the sibling along.
SPECIFICATION Spec
CONSTANTS
  e1 = e1
  e2 = e2
  req = req
  pack = pack
  single = single
  Items = {e1, e2}
  Requests = {req}
  Movies = {}
  RequestOf <- MCRequestOf
  Carries <- MCCarries
  Keys = {pack, single}
  ReportIds = {pack, single}
  NoKey = NoKey
  NoError = NoError
  SeerrError = SeerrError
  JobStates = {"CANCELED"}
  Connected = {}
  MaxRows = 2
  MaxCycle = 2
INVARIANTS
  LinksTell
  ImportedRowIsComplete
PROPERTIES
  PackMovesTogether
  KeepsPromise
