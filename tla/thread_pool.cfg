SPECIFICATION FairSpec
CONSTANTS
  Jobs <- MCJobs
  Workers = {w1, w2}
INVARIANTS TypeOK Exclusive NoLostWakeup
PROPERTIES ImplementsJobQueue Served
CHECK_DEADLOCK FALSE
