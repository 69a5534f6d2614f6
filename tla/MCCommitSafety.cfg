\* Commits, retries and reconciles of two runs when the operator edits the config,
\* workers are replaced, answers are lost, PUTs come late and Core restarts. The
\* second plugin is a planner and stands for every worker.
CONSTANTS
  pluginIDs <- TwoPlugins
  PlannerIDs <- OnePlanner
  WriterID <- Writer
  MaxVersionRetries = 1
  MaxEdits = 2
  MaxRuns = 2
  MaxInstances = 3
  MaxRestarts = 1
\* With the bounds used up nothing need happen any more.
CHECK_DEADLOCK FALSE
SPECIFICATION Spec
INVARIANTS
  TypeOK
  AtMostOnePut
  VerdictsAreConverged
  UnjudgedPutIsBlocked
  RuntimeDoubtHasEvidence
PROPERTIES
  EditsLostOnlyInWindow
  ImplementsGate
