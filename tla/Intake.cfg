SPECIFICATION FairSpec
CONSTANTS
  Character = {"ann", "bob"}
  Look = {"coat"}
  Label = {"omar"}
  Photo = {"u1", "u2"}
  Nobody = Nobody
  LookOf <- MCLookOf
  SourceOf <- MCSourceOf
  MaxVersion = 2
  Shelved = {"ann"}
  New = New
  Idle = Idle
  Face = {"u1"}
  MaxAsk = 2
  Aims <- MCAims
INVARIANTS PhotosAreWhole  OneMainChild
PROPERTIES CommitsAreAnswered
CHECK_DEADLOCK FALSE
