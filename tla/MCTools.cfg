SPECIFICATION Spec
CONSTANTS
  Runs = {r1, r2}
  Names = {"admin", "webtest"}
  TestNames = {"webtest"}
  Seeds = 2
  MaxId = 3
  MaxUid = 3
  MaxOpening = 2
  None = None
SYMMETRY Alike
INVARIANTS
  TypeOK
  DoneMeansDone
  SessionsFollowPassword
CHECK_DEADLOCK FALSE
