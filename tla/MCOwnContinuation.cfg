\* Whether a planner goes on from its own continuation: expected to be violated.
SPECIFICATION Spec
CONSTANTS
  Scenario <- FullChannel
  AuthIndex <- MCAuthIndex
  Auth <- FetchAuth
  InitialAuths <- FetchAuths
  Bodies <- FetchBodies
  Word <- MCWord
  Upper <- MCUpper
  Sought <- MCSought
  Size <- MCSize
  MaxURL = 9
  MaxHeaderValue = 8
  MaxHeaders = 17
  OddIndex = {"odd"}
  Unsettled = {" x"}
  MaxInt = 7
  MaxDesired = 1
  MaxAuthChanges = 0
INVARIANTS
  OwnContinuationsAreTaken
