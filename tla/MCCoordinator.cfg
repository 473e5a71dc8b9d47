CONSTANTS
  NoNode = NoNode
  a1 = a1
  a2 = a2
  Nodes <- MCNodes
  Before <- MCBefore
  Retryable <- MCRetryable
  RetryLimit <- MCRetryLimit
  TaskNodes <- MCTaskNodes
  Linked <- MCLinked
  Deadline <- MCDeadline
  ExpiresAt = 2
  Concurrency = 2
  Callers <- MCCallers
  MaxTime = 2
  MaxWakes = 1
  MaxFailures = 1
  MaxRestarts = 1
SPECIFICATION Spec
SYMMETRY MCSymmetry
INVARIANTS
  TypeOK
  RunsBounded
  DependenciesFirst
  NothingUntold
  ToldInOrder
PROPERTIES
  OverIsOver
CHECK_DEADLOCK FALSE
