SPECIFICATION Spec
CONSTANTS
  Items = {1, 2}
  QueuedAt <- NoQueuedAt
  Owner = {}
  Expiring = {}
  d1 = d1
  d2 = d2
  c1 = c1
  c2 = c2
  Procs = {d1, d2, c1, c2}
  Nobody = Nobody
  NoFile = NoFile
  MaxLostPastePasses = 1
  MaxMisroutes = 1
  NoDraft = NoDraft
  Foreign = Foreign
  PersonMayType = TRUE
  Clients = {}
  Generated = {}
  Withdrawable = {}
  Cancellable = {}
  MaxScanRetries = 1
  Drainers = {d1}
  Native = {1}
  Placeholders = {1, 2}
  Digest = {}
  MaxAttempts = 1
  MaxComposerRetries = 0
  StampMayFail = TRUE
  Waiting = {1, 2}
  Exhausted = {}
  Malformed = {}
  MaxCrashes = 2
INVARIANTS
  EachReplayNeedsACrash
