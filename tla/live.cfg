SPECIFICATION FairSpec
CONSTANTS
  Items = {1}
  QueuedAt <- NoQueuedAt
  Owner = {}
  Expiring = {}
  d1 = d1
  d2 = d2
  c1 = c1
  c2 = c2
  Procs = {d1, d2, c1, c2}
  Nobody = Nobody
  NoFile = NoFile
  MaxLostPastePasses = 2
  MaxMisroutes = 2
  NoDraft = NoDraft
  Foreign = Foreign
  PersonMayType = FALSE
  Clients = {}
  Generated = {}
  Withdrawable = {}
  Cancellable = {}
  MaxScanRetries = 1
  Drainers = {d1}
  Native = {}
  Placeholders = {}
  Digest = {}
  MaxAttempts = 2
  MaxComposerRetries = 1
  StampMayFail = FALSE
  Waiting = {1}
  Exhausted = {}
  Malformed = {}
  MaxCrashes = 2
PROPERTIES
  DrainEndsInTime
  InflightIsResolved
