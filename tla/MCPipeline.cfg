SPECIFICATION Spec
CONSTANTS
  w1 = w1
  w2 = w2
  Workers = {w1, w2}
  Fds = {1, 2, 3, 4, 5, 6, 7, 8}
  MaxPipes = 4
  Workloads <- MCWorkloads
  Free = Free
  NoChild = NoChild
INVARIANTS
  TypeOK
  VerdictDeserved
  DescriptorsReturned
PROPERTIES
  EveryPipelineEnds
CHECK_DEADLOCK FALSE
