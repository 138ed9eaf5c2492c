SPECIFICATION Spec
CONSTANTS
  Job = {1, 2, 7}
  Spare = {7}
  Plan <- WholePlan
  Batches <- WholeBatches
  Scope = {"book"}
  Project = {"book"}
  Lane = {"text", "alt"}
  NoLane = NoLane
  Provider = {"codex", "gemini"}
  ProviderOf <- MCProviderOf
  OperationOf <- MCOperationOf
  Cap = 2
  LeaseTtl = 1
  RetryDelay = 1
  Failures = {"quota_exhausted", "insufficient_disk_space"}
  Priorities = {3}
  DefaultPriority = 3
  MaxAttempts = 1
  MaxBoot = 2
INVARIANTS  StorageStop SnapshotQuiescent
PROPERTIES ImplementsLedger
CHECK_DEADLOCK FALSE
