SPECIFICATION ControlSpec
CONSTANTS
  Job = {1, 2, 3, 4}
  Spare = {}
  Plan <- ReviewPlan
  Batches <- ReviewBatches
  Scope = {"book"}
  Project = {}
  Lane = {"text"}
  NoLane = NoLane
  Provider = {"codex"}
  ProviderOf <- MCProviderOf
  OperationOf <- MCOperationOf
  Cap = 1
  LeaseTtl = 1
  RetryDelay = 1
  Failures = {"unknown", "missing_reference_asset"}
  Priorities = {3, 4}
  DefaultPriority = 3
  MaxAttempts = 3
  MaxBoot = 2
INVARIANTS SingleWinner RowsStorable NoReadyJobLeftBlocked DependenciesBeforeRun
CHECK_DEADLOCK FALSE
