CONSTANTS
  NoNode = NoNode
  a1 = a1
  a2 = a2
  Nodes <- MCNodes
  Before <- MCBefore
  Retryable <- MCRetryable
  RetryLimit <- MCRetryLimit
  TaskNodes <- MCTaskNodes
  Linked <- MCLinked
  Deadline <- MCDeadline
  ExpiresAt = 2
  Concurrency = 2
  Callers = {a1}
  MaxTime = 2
  MaxWakes = 0
  MaxFailures = 0
  MaxRestarts = 1
SPECIFICATION FairSpec
PROPERTIES
  RunningIsResumed
CHECK_DEADLOCK FALSE
