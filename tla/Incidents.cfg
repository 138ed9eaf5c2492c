SPECIFICATION IncidentSpec
CONSTANTS
  Job = {1, 2, 3, 7, 8}
  Spare = {7, 8}
  Plan <- LanesPlan
  Batches <- LanesBatches
  Scope = {"book"}
  Project = {}
  Lane = {"text", "image", "alt"}
  NoLane = NoLane
  Provider = {"codex", "gemini"}
  ProviderOf <- MCProviderOf
  OperationOf <- MCOperationOf
  Cap = 2
  LeaseTtl = 1
  RetryDelay = 1
  Failures = {"quota_exhausted", "invalid_credentials"}
  Priorities = {3}
  DefaultPriority = 3
  MaxAttempts = 2
  MaxBoot = 1
INVARIANTS IncidentOwnership OneLiveRowPerRole
CHECK_DEADLOCK FALSE
