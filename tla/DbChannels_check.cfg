SPECIFICATION FairSpec
CONSTANTS
  a = a
  b = b
  Runs = {a, b}
  None = None
  MaxRecords = 2
  MaxEdits = 1
  MaxCrashes = 1
INVARIANTS
  OneRunPerRecord
  ProcessingHasOwner
  RecordTellsOutcome
PROPERTIES
  ClaimsEnd
CHECK_DEADLOCK FALSE
