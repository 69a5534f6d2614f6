\* Termination, and recovery from a runtime doubt, under the engine's and the
\* operator's fairness.
CONSTANTS
  pluginIDs <- TwoPlugins
  PlannerIDs <- OnePlanner
  WriterID <- Writer
  MaxVersionRetries = 1
  MaxEdits = 1
  MaxRuns = 1
  MaxInstances = 2
  MaxRestarts = 0
\* With the bounds used up nothing need happen any more.
CHECK_DEADLOCK FALSE
SPECIFICATION RecoverySpec
PROPERTIES
  RunsEnd
  RuntimeDoubtClears
