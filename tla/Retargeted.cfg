SPECIFICATION SwitchSpec
CONSTANTS
  Character = {"ann"}
  View = {"front"}
  Page = {1}
  MaxSheet = 1
  MaxLibrary = 1
  MaxRun = 1
  MaxRevision = 1
  MaxEdit = 0
PROPERTIES RemainingWorkContinues
CHECK_DEADLOCK FALSE
