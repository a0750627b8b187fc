SPECIFICATION Spec
CONSTANTS
  Items = {1}
  QueuedAt <- NoQueuedAt
  Owner = {}
  Expiring = {}
  d1 = d1
  d2 = d2
  c1 = c1
  c2 = c2
  Procs = {d1, d2, c1, c2}
  Nobody = Nobody
  NoFile = NoFile
  MaxLostPastePasses = 1
  MaxMisroutes = 1
  NoDraft = NoDraft
  Foreign = Foreign
  PersonMayType = FALSE
  Clients = {c1, c2}
  Generated = {}
  Withdrawable = {1}
  Cancellable = {1}
  MaxScanRetries = 0
  Drainers = {d1, d2}
  Native = {}
  Placeholders = {}
  Digest = {}
  MaxAttempts = 1
  MaxComposerRetries = 0
  StampMayFail = FALSE
  Waiting = {}
  Exhausted = {}
  Malformed = {}
  MaxCrashes = 0
INVARIANTS
  
  
  
  SetAsideKnowsTyped
PROPERTIES
  CancelKeepsItsPromise
SYMMETRY Interchangeable
