SPECIFICATION Spec
CONSTANTS
  Clients = {c1, c2, c3}
  Conns = {h1, h2, h3}
  NoConn = NoConn
  Capacity = 2
INVARIANTS
  TypeOK
  LeasesExclusive
  HandlesAccounted
  CapacityBound
  WakeupsSuffice
PROPERTIES
  AcquireReturns
