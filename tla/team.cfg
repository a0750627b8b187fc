SPECIFICATION Spec
CONSTANTS
  m1 = m1
  m2 = m2
  s1 = s1
  s2 = s2
  s3 = s3
  h1 = h1
  h2 = h2
  r1 = r1
  send = send
  pump = pump
  Msgs = {m1}
  Older <- OlderPairs
  Serves = {s1, s2}
  Hooks = {}
  Retractors = {}
  Nobody = Nobody
  Kinds = {"command"}
  Sent = {m1}
  Send = send
  Pump = pump
  Routes = 1
  Mirrors = TRUE
  MaxCrashes = 1
SYMMETRY Sym
INVARIANTS
  TypeOK
  TypedOnce
  ExpiredIsUntyped
CHECK_DEADLOCK FALSE
