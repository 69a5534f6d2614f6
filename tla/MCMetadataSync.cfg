\* Every shape of a model against every shape of the catalogs, four syncs.
CONSTANTS
  Value <- MCValue
  Unset = Unset
  Models <- MCModels
  Upstreams <- MCUpstreams
  SourceLists <- MCSourceLists
  Overrides <- MCOverrides
  MaxSyncs = 4
\* After the last sync nothing happens.
CHECK_DEADLOCK FALSE
SPECIFICATION Spec
INVARIANTS
  TypeOK
PROPERTIES
  OnlyOutputLimitDrifts
  SettlesAfterTwoSyncs
