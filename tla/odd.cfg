SPECIFICATION Spec
CONSTANTS
  Items = {1, 2, 3}
  QueuedAt <- NoQueuedAt
  Owner = {}
  Expiring = {}
  d1 = d1
  d2 = d2
  c1 = c1
  c2 = c2
  Procs = {d1, d2, c1, c2}
  Nobody = Nobody
  NoFile = NoFile
  MaxLostPastePasses = 1
  MaxMisroutes = 1
  NoDraft = NoDraft
  Foreign = Foreign
  PersonMayType = FALSE
  Clients = {c1}
  Generated = {2}
  Withdrawable = {1}
  Cancellable = {1, 3}
  MaxScanRetries = 1
  Drainers = {d1}
  Native = {}
  Placeholders = {}
  Digest = {2}
  MaxAttempts = 1
  MaxComposerRetries = 0
  StampMayFail = FALSE
  Waiting = {1, 3}
  Exhausted = {3}
  Malformed = {1}
  MaxCrashes = 1
INVARIANTS
  TypeOK
PROPERTIES
  SettledIsFinal
