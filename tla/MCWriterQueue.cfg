\* The queue, the blocker and retention: every operation, one retained run,
\* no reconfigure, so the scheduler goroutine waits on an empty schedule.
CONSTANTS
  RunId = {r1, r2, r3, r4, r5}
  NoRun = NoRun
  Version = {v1}
  NoVersion = NoVersion
  Settings <- NoSettings
  Triggers <- Operation
  RetainLimit = 1
  MaxNow = 0
\* After the shutdown has returned nothing need happen any more.
CHECK_DEADLOCK FALSE
SPECIFICATION Spec
INVARIANTS
  TypeOK
  OneRunPerOperation
  StatusesAccountedFor
  BlockerAgreesWithRecord
  WorkerWakeupNotLost
PROPERTIES
  OnlyItsReconcileUnblocks
  ImplementsGate
