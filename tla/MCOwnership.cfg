\* Every run from every file: the membership planner, the metadata planner, and
\* whatever else may be proposed.
CONSTANTS
  Name = {"a", "b", "q"}
  Unplain = {"q"}
  Token = {"old", "new"}
  Documents <- MCDocuments
  DesiredLists <- MCDesired
  Patches <- MCPatches
  Skip = Skip
SPECIFICATION Spec
INVARIANTS
  TypeOK
  RefusalsAreExplained
PROPERTIES
  OnlyOwnedChange
