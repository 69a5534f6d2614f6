\* Deadlines, the scheduler's timer and its wake-ups, with reconfigures.
CONSTANTS
  RunId = {r1, r2, r3, r4}
  NoRun = NoRun
  Version = {v1}
  NoVersion = NoVersion
  Settings <- SomeSchedules
  Triggers <- ReconcileOnly
  RetainLimit = 1
  MaxNow = 3
SPECIFICATION Spec
INVARIANTS
  SchedulerWakeupNotLost
PROPERTIES
  DeadlineMovesWithAdmission
