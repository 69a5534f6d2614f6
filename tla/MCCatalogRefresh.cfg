\* Three refreshes, two edits, one reconfiguration of model-info.
CONSTANTS
  MaxRefreshes = 3
  MaxEdits = 2
  MaxGeneration = 2
\* With the bounds used up nothing need happen any more.
CHECK_DEADLOCK FALSE
SPECIFICATION Spec
INVARIANTS
  TypeOK
  SuccessIsCached
PROPERTIES
  LatestIngestWins
