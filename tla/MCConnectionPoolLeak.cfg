SPECIFICATION Safety
CONSTANTS
  Clients = {c1, c2}
  Conns = {h1, h2}
  NoConn = NoConn
  Capacity = 2
INVARIANTS
  CapacityKept
