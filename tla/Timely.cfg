SPECIFICATION TimelySpec
CONSTANTS
  Job = {1, 2, 3}
  Spare = {}
  Plan <- PairPlan
  Batches <- PairBatches
  Scope = {"book", "studio"}
  Project = {"book"}
  Lane = {"text"}
  NoLane = NoLane
  Provider = {"codex"}
  ProviderOf <- MCProviderOf
  OperationOf <- MCOperationOf
  Cap = 1
  LeaseTtl = 2
  RetryDelay = 1
  Failures = {"media_decode_failure"}
  Priorities = {3}
  DefaultPriority = 3
  MaxAttempts = 4
  MaxBoot = 2
INVARIANTS ConcurrencyCap
PROPERTIES QueuedSettles 
CHECK_DEADLOCK FALSE
