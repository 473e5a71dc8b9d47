CONSTANTS
  ack = ack
  half = half
  more = more
  done = done
  broken = broken
  w1 = w1
  w2 = w2
  Events <- MCEvents
  Kind <- MCKind
  OccurredAt <- MCOccurredAt
  Progress <- MCProgress
  ExpiresAt = 2
  Workers <- MCWorkers
  MaxTime = 2
SPECIFICATION Spec
SYMMETRY MCSymmetry
INVARIANTS
  TypeOK
  OneEventPerVersion
  HistoryEndsLikeTask
  ConsentFirst
PROPERTIES
  FirstEndWins
  ProgressForward
CHECK_DEADLOCK FALSE
