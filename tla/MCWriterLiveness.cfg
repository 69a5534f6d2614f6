\* Progress under the goroutines' fairness: two writes admitted by timers, the
\* reconcile that unblocks them triggered by hand.
CONSTANTS
  RunId = {r1, r2, r3, r4}
  NoRun = NoRun
  Version = {v1}
  NoVersion = NoVersion
  Settings <- WriteSchedules
  Triggers <- ReconcileOnly
  RetainLimit = 1
  MaxNow = 1
SPECIFICATION FairSpec
PROPERTIES
  AcceptedRunsEnd
  DueWritesAreAdmitted
  ShutdownReturns
