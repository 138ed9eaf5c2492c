SPECIFICATION FairSpec
CONSTANTS
  Job <- OneJob
  Damaged <- OneJob
  MaxWorkers = 2
  MaxAttempt = 3
  MaxBoot = 2
  MaxOutage = 1
 
PROPERTIES ResultsAreSettled ShutdownEnds
CHECK_DEADLOCK FALSE
