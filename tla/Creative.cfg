SPECIFICATION SteadySpec
CONSTANTS
  Character = {"ann"}
  View = {"front"}
  Page = {1, 2}
  MaxSheet = 2
  MaxLibrary = 2
  MaxRun = 1
  MaxRevision = 4
  MaxEdit = 1
INVARIANTS  ReviewsAreCurrent ReviewedRunsAreWhole
PROPERTIES LockedContentFrozen 
CHECK_DEADLOCK FALSE
