SPECIFICATION ExportSpec
CONSTANTS
  Content = {"c1"}
  Scope = {"ann", "bob"}
  Upload <- MCUploads
  UploadOf <- MCUploadOf
  None = None
  Advance = {1}
  CleanupLimit = 1
  MaxFaults = 1
  MaxRestart = 1
  Project = "ann"
  Export = {"x1"}
  Executor = {e1, e2}
SYMMETRY Symmetry
INVARIANTS  SnapshotIsOneState
CHECK_DEADLOCK FALSE
CONSTRAINT OneInterruption
