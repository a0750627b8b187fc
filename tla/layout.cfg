SPECIFICATION FairSpec
CONSTANTS
  p1 = p1
  o1 = o1
  m1 = m1
  b1 = b1
  Procs = {p1, o1, m1, b1}
  Priority = {p1}
  Builds = {p1, o1}
  Migrators = {m1}
  OldBuilds = {b1}
  Nobody = Nobody
  NoFile = NoFile
  MaxFiles = 3
  MaxRelocks = 2
  MaxWork = 4
INVARIANTS
  OneOwner
  OldAndNewExclude
  HolderFindsAgent
  RegistrationEnds
  OvertakenAtMostOnce
PROPERTIES
  FreeLockIsTaken
