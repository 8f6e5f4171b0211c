SPECIFICATION RLSafety
CONSTANTS
  Threads = {t1, t2}
  Keys = {k1}
  NoCall = NoCall
  NoBucket = NoBucket
  Capacity = 2
  Token = 3
  Rate = 1
  Second = 2
  MaxTime = 7
SYMMETRY Symmetry
INVARIANTS
  RLTypeOK
  AdmittedWithinRate
PROPERTIES
  RetryAfterHonoured
