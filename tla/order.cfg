SPECIFICATION Spec
CONSTANTS
  Items = {1, 2, 3}
  QueuedAt <- MixedQueuedAt
  Owner = {1}
  Expiring = {2}
  d1 = d1
  d2 = d2
  c1 = c1
  c2 = c2
  Procs = {d1, d2, c1, c2}
  Nobody = Nobody
  NoFile = NoFile
  MaxLostPastePasses = 1
  MaxMisroutes = 1
  NoDraft = NoDraft
  Foreign = Foreign
  PersonMayType = FALSE
  Clients = {}
  Generated = {}
  Withdrawable = {}
  Cancellable = {}
  MaxScanRetries = 1
  Drainers = {d1}
  Native = {}
  Placeholders = {}
  Digest = {}
  MaxAttempts = 1
  MaxComposerRetries = 0
  StampMayFail = FALSE
  Waiting = {1, 2, 3}
  Exhausted = {}
  Malformed = {}
  MaxCrashes = 0
INVARIANTS
  TypedInQueueOrder
