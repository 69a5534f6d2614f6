\* Both planners over small configurations and catalogs: when two credentials of the
\* host change at any moment, and when none does but snapshots and catalogs are odd.
SPECIFICATION MCSpec
CONSTANTS
  Scenario <- MCScenario
  AuthIndex <- MCAuthIndex
  Auth <- MCAuth
  InitialAuths <- MCInitialAuths
  Bodies <- MCBodies
  Word <- MCWord
  Upper <- MCUpper
  Sought <- MCSought
  Size <- MCSize
  MaxURL = 9
  MaxHeaderValue = 8
  MaxHeaders = 17
  OddIndex = {"odd"}
  Unsettled = {" x"}
  MaxInt = 7
  MaxDesired = 1
  MaxAuthChanges = 2
INVARIANTS
  TypeOK
  RefusalsHaveCause
  ProposalCoversChannels
  CredentialsHold
