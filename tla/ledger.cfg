SPECIFICATION Spec
CONSTANTS
  m1 = m1
  m2 = m2
  s1 = s1
  s2 = s2
  h1 = h1
  h2 = h2
  r1 = r1
  Msgs = {m1, m2}
  Older <- OlderPairs
  Serves = {s1, s2}
  Hooks = {h1, h2}
  Retractors = {r1}
  Nobody = Nobody
  Kinds = {"hook", "queue", "command"}
  Scenes <- TwoScenes
  MaxCrashes = 1
SYMMETRY Sym
INVARIANTS
  TypeOK
  
  DeliveredWasTyped
  
PROPERTIES
  KeepsPromise
  BuriedStaysBuried
CHECK_DEADLOCK FALSE
