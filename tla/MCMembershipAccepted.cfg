\* Does the Writer take what the membership planner proposes?
CONSTANTS
  Name = {"a", "b", "q"}
  Unplain = {"q"}
  Token = {"old", "new"}
  Documents <- MCDocuments
  DesiredLists <- MCDesired
  Patches <- MCPatches
  Skip = Skip
SPECIFICATION Spec
INVARIANTS
  MembershipIsAccepted
