SPECIFICATION Spec
CONSTANTS
  Content = {"c1", "c2"}
  Scope = {"ann", "bob"}
  Upload <- MCUploads
  UploadOf <- MCUploadOf
  None = None
  Advance = {1, 2}
  CleanupLimit = 3
  MaxFaults = 1
  MaxRestart = 1
INVARIANTS  VerifiedMeansRemoved
PROPERTIES CleanupSparesLiveMedia
CHECK_DEADLOCK FALSE
