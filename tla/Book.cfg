SPECIFICATION Spec
CONSTANTS
  Story = {"p1"}
  Special = {"title"}
  Choice = {"photo"}
  Kind = {interior, cover}
  MaxRevision = 5
  MaxCover = 2
  MaxVersion = 2
  MaxJob = 2
  MaxWatermark = 1
  MaxPreview = 2
  MaxRun = 1
  Clerk = {c1}
  Mode <- MCModes
INVARIANTS ApprovalCoversContent StaleGatesAreCanceled
PROPERTIES StaleRunIsInert ImplementsAuthorization
SYMMETRY Symmetry
CHECK_DEADLOCK FALSE
CONSTRAINT OneSettingChanges
