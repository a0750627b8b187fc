SPECIFICATION Spec
CONSTANTS
  i1 = i1
  i2 = i2
  w1 = w1
  w2 = w2
  p1 = p1
  p2 = p2
  k1 = k1
  k2 = k2
  Items = {i1, i2}
  Urgent = {i2}
  Cancellable = {i2}
  Answers = {i2}
  Wrappers = {w1, w2}
  Slots = {p1, p2}
  Tokens = {k1, k2}
  Nobody = Nobody
  None = None
  Handback = Handback
  Scenes <- ThreeScenes
  MaxTries = 2
  MaxOut = 2
  MaxFaults = 1
SYMMETRY Sym
INVARIANTS
  TypeOK
  OneWriter
  AtMostOnce
  WaitingIsUnseen
  ProcessedWasReceived
  InflightIsOwned
  AnswerNotTyped
  StopsAtBoundary

  
CHECK_DEADLOCK FALSE
