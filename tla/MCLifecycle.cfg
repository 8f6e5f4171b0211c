SPECIFICATION Spec
CONSTANTS
  Requests = {r1, r2, r3}
  HttpThreads = 2
  JudgeWorkers = 1
  MaxSignals = 2
CHECK_DEADLOCK FALSE
INVARIANTS
  TypeOK
  ExitIsQuiet
PROPERTIES
  AcceptedIsAnswered
  GracefulExit
