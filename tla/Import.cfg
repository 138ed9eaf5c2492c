SPECIFICATION FairSpec
CONSTANTS
  Content = {"c1", "c2", "c3"}
  Scope = {"ann", "bob", "new"}
  Item <- MCItem
  Upload <- MCUpload
  UploadOf <- MCUploadOf
  None = None
  Targets = {"ann", None}
  MaxFaults = 1
  MaxRestart = 1
INVARIANTS ReferencesCounted LockedUntilSettled  RollbackLeavesNoFile
PROPERTIES ReplacesWhatWasPinned 
CHECK_DEADLOCK FALSE
