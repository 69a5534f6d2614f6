--------------------------- MODULE WriterService ---------------------------
(***************************************************************************)
(* The run queue of the sync-config-write plugin (Service in service.go):  *)
(* one worker goroutine, one scheduler goroutine, and the host's calls     *)
(* (management triggers, reconfigure, shutdown), all under Service.mu.     *)
(*                                                                         *)
(* A write job whose outcome is uncertain installs a blocker; while there  *)
(* is one no config write is accepted or started, and only a reconcile run *)
(* that presents the blocker's own evidence removes it.  The executor is   *)
(* abstract here: a run ends with any outcome its operation can have.      *)
(* One action is one critical section of Service.mu, or one step of a      *)
(* goroutine between two of them.                                          *)
(***************************************************************************)
EXTENDS Integers, Sequences, FiniteSets, SequencesExt

CONSTANTS
  RunId,        \* the opaque run identifiers
  NoRun,        \* the empty run identifier
  Version,      \* snapshot hashes that a block record can carry
  NoVersion,    \* the empty version string
  Triggers,     \* the operations the host triggers by hand
  Settings,     \* the settings a reconfigure can bring: intervals per operation
  RetainLimit,  \* completed statuses kept in memory, 32 in the code
  MaxNow        \* bound on the clock

AutoPull     == "auto-pull-models"
MetadataSync == "model-metadata-sync"
ModelInfo    == "model-info-catalog"
Reconcile    == "reconcile"

Operation == {AutoPull, MetadataSync, ModelInfo, Reconcile}
Scheduled == {AutoPull, MetadataSync, ModelInfo}
isConfigWriteOperation(op) == op \in {AutoPull, MetadataSync}

RunningState  == {"planning", "fetching", "committing", "waiting_reconfigure",
                  "reconciling"}
TerminalState == {"succeeded", "failed", "uncertain"}
UncertainCode == {"planner_stalled", "persisted_runtime_uncertain",
                  "commit_verification_failed"}
BlockCode     == UncertainCode \cup {"startup_reconcile_required"}
\* One representative for all the codes that fail a run and leave no doubt
\* about what is persisted.
ErrorCode     == BlockCode \cup {"", "core_unavailable", "reconcile_failed",
                                 "not_yet_implemented"}

\* A time of 0 is the zero time.Time: no deadline, nothing armed.
NoTime == 0

ASSUME RunAssumption == NoRun \notin RunId /\ RunId # {}
ASSUME VersionAssumption == NoVersion \notin Version
ASSUME TriggersAssumption == Triggers \subseteq Operation
ASSUME SettingsAssumption == Settings \subseteq [Scheduled -> Nat]
ASSUME BoundAssumption == RetainLimit \in Nat \ {0} /\ MaxNow \in Nat

VARIABLES
  settings,      \* the intervals in force, 0 for a disabled schedule
  configured,    \* whether a configuration was ever accepted
  queue,         \* accepted jobs in order of acceptance
  statuses,      \* run -> its status, NoStatus when the map has no entry
  activeByOp,    \* operation -> its queued or running run
  completed,     \* retained finished runs, oldest first
  blocker,       \* the run whose doubt blocks config writes
  blockRecord,   \* the evidence a reconcile must match
  worker,        \* where the worker goroutine is
  item,          \* the job the worker holds
  expected,      \* the block record the running reconcile was started with
  cleared,       \* what that reconcile returned
  now,           \* the clock
  deadlines,     \* operation -> absolute time of its next run
  wakeScheduler, \* the token of the capacity-1 wake channel
  wakePending,   \* a Configure that has unlocked and not called wake() yet
  scheduler,     \* where the scheduler goroutine is
  armed,         \* the time its timer is set to
  fireTime,      \* the clock fireExpired read before it locked
  shutdown       \* "no", "joining" (stop is closed), "returned"

queueVars == <<queue, statuses, activeByOp, completed>>
blockVars == <<blocker, blockRecord>>
workVars  == <<worker, item, expected, cleared>>
timeVars  == <<now, deadlines>>
schedVars == <<wakeScheduler, wakePending, scheduler, armed, fireTime>>
confVars  == <<settings, configured>>
vars == <<queueVars, blockVars, workVars, timeVars, schedVars, confVars, shutdown>>

NoJob    == [runID |-> NoRun, operation |-> "none"]
NoStatus == [operation |-> "none", state |-> "none", code |-> ""]
NoRecord == [id |-> NoRun, code |-> "", version |-> NoVersion]

Job    == [runID : RunId, operation : Operation]
Status == [operation : Operation, code : ErrorCode,
           state : RunningState \cup TerminalState \cup {"queued", "blocked"}]
Record == [id : RunId, code : BlockCode, version : Version \cup {NoVersion}]

stopped  == shutdown # "no"

\* newOpaqueID, n times: distinct identifiers that no status uses.  They are opaque,
\* so it does not matter which.
FreshIds(n) ==
  {ids \in [1..n -> {id \in RunId : statuses[id] = NoStatus}] :
     \A i, j \in 1..n : i # j => ids[i] # ids[j]}

---------------------------------------------------------------------------
(* Pieces of the critical sections *)

\* Signal or Broadcast on queueCond: the worker is the only waiter.
WokenNever(w) == w
Woken(w) == IF w = "asleep" THEN "check" ELSE w

NewStatusUnset(op) == [operation |-> op, state |-> "", code |-> ""]
NewStatus(op) == [operation |-> op, state |-> "queued", code |-> ""]

SetStatus(st, id, state, code) ==
  [st EXCEPT ![id] = [@ EXCEPT !.state = state, !.code = code]]

\* retainCompletedLocked for finished runs that are neither the blocker nor
\* retained already: append them and drop the oldest beyond the limit.
Retain(st, done, ids) ==
  LET all  == done \o ids
      drop == IF Len(all) > RetainLimit THEN Len(all) - RetainLimit ELSE 0
      gone == {all[i] : i \in 1..drop}
  IN  [statuses  |-> [id \in RunId |-> IF id \in gone THEN NoStatus ELSE st[id]],
       completed |-> SubSeq(all, drop + 1, Len(all))]

\* retainCompletedLocked(status): the current blocker and a run that is
\* already retained are left alone.
RetainOneEvenBlocker(st, done, block, id) ==
  IF id \in ToSet(done)
  THEN [statuses |-> st, completed |-> done]
  ELSE Retain(st, done, <<id>>)
RetainOne(st, done, block, id) ==
  IF id = block \/ id \in ToSet(done)
  THEN [statuses |-> st, completed |-> done]
  ELSE Retain(st, done, <<id>>)

\* enqueueLocked's answer to an operation.
Refused(op)   == isConfigWriteOperation(op) /\ blocker # NoRun
AcceptedTwice(op) == ~Refused(op)
Accepted(op)  == ~Refused(op) /\ activeByOp[op] = NoRun

\* enqueueLocked for the accepted operations ops, in the order given, each
\* under its fresh identifier.
EnqueueAll(ops) ==
  LET ids == CHOOSE s \in FreshIds(Len(ops)) : TRUE IN
  /\ FreshIds(Len(ops)) # {}
  /\ statuses' = [id \in RunId |->
                    IF \E i \in DOMAIN ops : ids[i] = id
                    THEN NewStatus(ops[CHOOSE i \in DOMAIN ops : ids[i] = id])
                    ELSE statuses[id]]
  /\ activeByOp' = [op \in Operation |->
                      IF \E i \in DOMAIN ops : ops[i] = op
                      THEN ids[CHOOSE i \in DOMAIN ops : ops[i] = op]
                      ELSE activeByOp[op]]
  /\ queue' = queue \o [i \in DOMAIN ops |-> [runID |-> ids[i], operation |-> ops[i]]]
  /\ worker' = IF ops = <<>> THEN worker ELSE Woken(worker)

\* updateDeadlineLocked
UpdatedDeadline(op, next) ==
  IF next[op] = 0 THEN NoTime
  ELSE IF ~configured \/ settings[op] # next[op] THEN now + next[op]
  ELSE deadlines[op]

\* nextDeadline: the earliest deadline, config writes left out while blocked.
NextDeadline ==
  LET open == {deadlines[op] : op \in {o \in Scheduled :
                 deadlines[o] # NoTime /\ ~Refused(o)}}
  IN  IF open = {} THEN NoTime ELSE CHOOSE t \in open : \A u \in open : t <= u

\* The first deadline + k * interval, k > 0, after time t.
AdvancedFromNow(deadline, interval, t) == t + interval
AdvancedDeadline(deadline, interval, t) ==
  deadline + interval * (((t - deadline) \div interval) + 1)

\* The test of runnableJobIndexLocked.
runnableAlways(job) == TRUE
runnableUnblocked(job) == blocker = NoRun
runnable(job) == blocker = NoRun \/ ~isConfigWriteOperation(job.operation)

---------------------------------------------------------------------------
\* New: the process starts quarantined by a startup blocker.
Init ==
  /\ settings = [op \in Scheduled |-> 0]
  /\ configured = FALSE
  /\ queue = <<>>
  /\ activeByOp = [op \in Operation |-> NoRun]
  /\ completed = <<>>
  /\ blocker = CHOOSE id \in RunId : TRUE
  /\ statuses = [id \in RunId |->
                   IF id = blocker
                   THEN [operation |-> Reconcile, state |-> "blocked",
                         code |-> "startup_reconcile_required"]
                   ELSE NoStatus]
  /\ blockRecord = [id |-> blocker, code |-> "startup_reconcile_required",
                    version |-> NoVersion]
  /\ worker = "check"
  /\ item = NoJob
  /\ expected = NoRecord
  /\ cleared = FALSE
  /\ now = 0
  /\ deadlines = [op \in Scheduled |-> NoTime]
  /\ wakeScheduler = FALSE
  /\ wakePending = FALSE
  /\ scheduler = "compute"
  /\ armed = NoTime
  /\ fireTime = 0
  /\ shutdown = "no"

---------------------------------------------------------------------------
(* The host's calls *)

\* A management trigger for op that is accepted.  One that is refused or
\* coalesced changes nothing.
Enqueue(op) ==
  /\ Accepted(op)
  /\ EnqueueAll(<<op>>)
  /\ UNCHANGED <<completed, blockVars, item, expected, cleared, timeVars,
                 schedVars, confVars, shutdown>>

\* configureSettings up to its unlock.
Configure(next) ==
  /\ ~wakePending
  /\ settings' = next
  /\ configured' = TRUE
  /\ deadlines' = [op \in Scheduled |-> UpdatedDeadline(op, next)]
  /\ wakePending' = TRUE
  /\ UNCHANGED <<queueVars, blockVars, workVars, now, wakeScheduler, scheduler,
                 armed, fireTime, shutdown>>

\* configureSettings' closing wake(): a send that never blocks.
ConfigureWake ==
  /\ wakePending
  /\ wakePending' = FALSE
  /\ wakeScheduler' = TRUE
  /\ UNCHANGED <<queueVars, blockVars, workVars, timeVars, scheduler, armed,
                 fireTime, confVars, shutdown>>

\* Shutdown up to its unlock: fail every queued job and close stop.
Shutdown ==
  LET ids    == [i \in DOMAIN queue |-> queue[i].runID]
      failed == [id \in RunId |->
                   IF id \in ToSet(ids)
                   THEN [statuses[id] EXCEPT !.state = "failed",
                                             !.code = "not_yet_implemented"]
                   ELSE statuses[id]]
      kept   == Retain(failed, completed, ids)
  IN  /\ shutdown = "no"
      /\ shutdown' = "joining"
      /\ statuses' = kept.statuses
      /\ completed' = kept.completed
      /\ activeByOp' = [op \in Operation |->
                          IF \E i \in DOMAIN queue : queue[i].operation = op
                          THEN NoRun ELSE activeByOp[op]]
      /\ queue' = <<>>
      /\ worker' = Woken(worker)
      /\ UNCHANGED <<blockVars, item, expected, cleared, timeVars, schedVars, confVars>>

\* Shutdown returns once both goroutines are gone.
ShutdownJoin ==
  /\ shutdown = "joining"
  /\ worker = "done"
  /\ scheduler = "done"
  /\ shutdown' = "returned"
  /\ UNCHANGED <<queueVars, blockVars, workVars, timeVars, schedVars, confVars>>

---------------------------------------------------------------------------
(* The worker goroutine *)

WorkerStop ==
  /\ worker = "check"
  /\ stopped
  /\ worker' = "done"
  /\ UNCHANGED <<queueVars, blockVars, item, expected, cleared, timeVars,
                 schedVars, confVars, shutdown>>

WorkerSleep ==
  /\ worker = "check"
  /\ ~stopped
  /\ \A i \in DOMAIN queue : ~runnable(queue[i])
  /\ worker' = "asleep"
  /\ UNCHANGED <<queueVars, blockVars, item, expected, cleared, timeVars,
                 schedVars, confVars, shutdown>>

\* Take the first runnable job.
WorkerDequeue ==
  /\ worker = "check"
  /\ ~stopped
  /\ \E i \in DOMAIN queue :
       /\ runnable(queue[i])
       /\ \A j \in 1..(i - 1) : ~runnable(queue[j])
       /\ item' = queue[i]
       /\ queue' = RemoveAt(queue, i)
  /\ worker' = "starting"
  /\ UNCHANGED <<statuses, activeByOp, completed, blockVars, expected, cleared,
                 timeVars, schedVars, confVars, shutdown>>

\* The first updateRun of a run.
WorkerBegin ==
  /\ worker = "starting"
  /\ LET reconcile == item.operation = Reconcile IN
       /\ statuses' = [statuses EXCEPT ![item.runID].state =
                         IF reconcile THEN "reconciling" ELSE "planning"]
       /\ worker' = IF reconcile THEN "loading" ELSE "executing"
  /\ UNCHANGED <<queue, activeByOp, completed, blockVars, item, expected, cleared,
                 timeVars, schedVars, confVars, shutdown>>

\* A reconcile copies the block record and hands it to the executor.
WorkerLoadBlock ==
  /\ worker = "loading"
  /\ expected' = blockRecord
  /\ worker' = "reconciling"
  /\ UNCHANGED <<queueVars, blockVars, item, cleared, timeVars, schedVars,
                 confVars, shutdown>>

\* The executor reports progress of a planned or a catalog run.
Progress(state) ==
  /\ worker = "executing"
  /\ state \in IF item.operation = ModelInfo THEN {"planning", "fetching"}
               ELSE RunningState \ {"reconciling"}
  /\ statuses' = [statuses EXCEPT ![item.runID].state = state]
  /\ UNCHANGED <<queue, activeByOp, completed, blockVars, workVars, timeVars,
                 schedVars, confVars, shutdown>>

\* What an outcome's block record can hold: a stalled planner leaves no version,
\* an unverified PUT may or may not have been read back.
BlockVersion(code) ==
  CASE code = "persisted_runtime_uncertain" -> Version
    [] code = "commit_verification_failed"  -> Version \cup {NoVersion}
    [] OTHER                                -> {NoVersion}

\* The blocker and its record after a run that ended with code.
BlockerAfterForgets(code) == IF code \in UncertainCode THEN item.runID ELSE NoRun
BlockerAfter(code) == IF code \in UncertainCode THEN item.runID ELSE blocker

BlockRecordNameless(code, version) ==
  IF code \in UncertainCode THEN [id |-> NoRun, code |-> code, version |-> version]
  ELSE blockRecord
BlockRecordAfter(code, version) ==
  IF code \in UncertainCode THEN [id |-> item.runID, code |-> code, version |-> version]
  ELSE blockRecord

\* finish: code is the outcome's code, version the one its block record holds.
Finish(code, version) ==
  LET uncertain == code \in UncertainCode
      state == IF uncertain THEN "uncertain"
               ELSE IF code = "" THEN "succeeded" ELSE "failed"
      block == BlockerAfter(code)
      kept  == RetainOne(SetStatus(statuses, item.runID, state, code),
                         completed, block, item.runID)
  IN  /\ worker = "executing"
      /\ uncertain => isConfigWriteOperation(item.operation)
      /\ version \in BlockVersion(code)
      /\ blocker' = block
      /\ blockRecord' = BlockRecordAfter(code, version)
      /\ statuses' = kept.statuses
      /\ completed' = kept.completed
      /\ activeByOp' = [activeByOp EXCEPT ![item.operation] = NoRun]
      /\ item' = NoJob
      /\ worker' = "check"
      /\ UNCHANGED <<queue, expected, cleared, timeVars, schedVars, confVars, shutdown>>

\* The guard of clearMatchingBlock for a reconcile that verified version v.
MatchesBlock(v) ==
  /\ blocker # NoRun
  /\ blockRecord = expected
  /\ expected.version # NoVersion => v = expected.version

\* clearBlockLocked(true): an uncertain run becomes an ordinary finished one, the
\* startup blocker is dropped.
ClearBlock ==
  IF statuses[blocker].state = "uncertain"
  THEN RetainOne(statuses, completed, NoRun, blocker)
  ELSE [statuses  |-> [statuses EXCEPT ![blocker] = NoStatus], completed |-> completed]

\* Executor.ReconcileAndClear with conclusive evidence calls clearMatchingBlock,
\* which calls clearBlockLocked when the record still matches.
ReconcileAndClear(v) ==
  /\ worker = "reconciling"
  /\ expected.code \in BlockCode
  /\ IF MatchesBlock(v)
     THEN /\ statuses' = ClearBlock.statuses
          /\ completed' = ClearBlock.completed
          /\ blocker' = NoRun
          /\ blockRecord' = NoRecord
          /\ cleared' = TRUE
     ELSE UNCHANGED <<statuses, completed, blockVars>> /\ cleared' = FALSE
  /\ worker' = "reconciled"
  /\ UNCHANGED <<queue, activeByOp, item, expected, timeVars, schedVars, confVars,
                 shutdown>>

\* Executor.ReconcileAndClear without conclusive evidence.
ReconcileInconclusive ==
  /\ worker = "reconciling"
  /\ cleared' = FALSE
  /\ worker' = "reconciled"
  /\ UNCHANGED <<queueVars, blockVars, item, expected, timeVars, schedVars,
                 confVars, shutdown>>

\* A reconcile that cleared the blocker wakes the scheduler when it has unlocked.
AfterReconcileSilent(c) == "check"
AfterReconcile(c) == IF c THEN "waking" ELSE "check"

\* finishAtomicReconcile up to its unlock.
FinishReconcile ==
  LET done == SetStatus(statuses, item.runID,
                        IF cleared THEN "succeeded" ELSE "failed",
                        IF cleared THEN "" ELSE "reconcile_failed")
      kept == RetainOne(done, completed, blocker, item.runID)
  IN  /\ worker = "reconciled"
      /\ statuses' = kept.statuses
      /\ completed' = kept.completed
      /\ activeByOp' = [activeByOp EXCEPT ![item.operation] = NoRun]
      /\ item' = NoJob
      /\ expected' = NoRecord
      /\ worker' = AfterReconcile(cleared)
      /\ UNCHANGED <<queue, blockVars, cleared, timeVars, schedVars, confVars, shutdown>>

\* wake() after a reconcile that cleared the blocker.
WorkerWake ==
  /\ worker = "waking"
  /\ cleared' = FALSE
  /\ wakeScheduler' = TRUE
  /\ worker' = "check"
  /\ UNCHANGED <<queueVars, blockVars, item, expected, timeVars, wakePending,
                 scheduler, armed, fireTime, confVars, shutdown>>

---------------------------------------------------------------------------
(* The scheduler goroutine *)

SchedulerCompute ==
  /\ scheduler = "compute"
  /\ armed' = NextDeadline
  /\ scheduler' = "select"
  /\ UNCHANGED <<queueVars, blockVars, workVars, timeVars, wakeScheduler,
                 wakePending, fireTime, confVars, shutdown>>

SchedulerStop ==
  /\ scheduler = "select"
  /\ stopped
  /\ scheduler' = "done"
  /\ UNCHANGED <<queueVars, blockVars, workVars, timeVars, wakeScheduler,
                 wakePending, armed, fireTime, confVars, shutdown>>

SchedulerWoken ==
  /\ scheduler = "select"
  /\ wakeScheduler
  /\ wakeScheduler' = FALSE
  /\ scheduler' = "compute"
  /\ UNCHANGED <<queueVars, blockVars, workVars, timeVars, wakePending, armed,
                 fireTime, confVars, shutdown>>

\* The timer fires, and fireExpired reads the clock before it locks.
SchedulerTimer ==
  /\ scheduler = "select"
  /\ armed # NoTime
  /\ armed <= now
  /\ fireTime' = now
  /\ scheduler' = "fire"
  /\ UNCHANGED <<queueVars, blockVars, workVars, timeVars, wakeScheduler,
                 wakePending, armed, confVars, shutdown>>

Expired == {op \in Scheduled : deadlines[op] # NoTime /\ deadlines[op] <= fireTime}

\* fireExpired: every expired operation is offered to enqueueLocked, in the
\* random order of a Go map; the ones it refuses stay due.
FireExpired ==
  LET admitted == {op \in Expired : Accepted(op)}
      n == Cardinality(admitted)
  IN  /\ scheduler = "fire"
      /\ \E ops \in [1..n -> admitted] :
           /\ \A i, j \in 1..n : i # j => ops[i] # ops[j]
           /\ EnqueueAll(ops)
      /\ deadlines' = [op \in Scheduled |->
                         IF op \notin Expired \/ Refused(op) THEN deadlines[op]
                         ELSE IF settings[op] = 0 THEN NoTime
                         ELSE AdvancedDeadline(deadlines[op], settings[op], fireTime)]
      /\ scheduler' = "compute"
      /\ fireTime' = 0
      /\ UNCHANGED <<completed, blockVars, item, expected, cleared, now,
                     wakeScheduler, wakePending, armed, confVars, shutdown>>

Tick ==
  /\ now < MaxNow
  /\ now' = now + 1
  /\ UNCHANGED <<queueVars, blockVars, workVars, deadlines, schedVars, confVars,
                 shutdown>>

---------------------------------------------------------------------------
Worker ==
  \/ WorkerStop \/ WorkerSleep \/ WorkerDequeue \/ WorkerBegin \/ WorkerLoadBlock
  \/ \E code \in {"", "core_unavailable"} \cup UncertainCode,
        version \in Version \cup {NoVersion} : Finish(code, version)
  \/ \E v \in Version : ReconcileAndClear(v)
  \/ ReconcileInconclusive \/ FinishReconcile \/ WorkerWake

Scheduler ==
  SchedulerCompute \/ SchedulerStop \/ SchedulerWoken \/ SchedulerTimer \/ FireExpired

Host ==
  \/ \E op \in Triggers : Enqueue(op)
  \/ \E next \in Settings : Configure(next)
  \/ ConfigureWake \/ Shutdown \/ ShutdownJoin

Next ==
  \/ Worker
  \/ \E state \in RunningState : Progress(state)
  \/ Scheduler
  \/ Host
  \/ Tick

Spec == Init /\ [][Next]_vars

\* The worker goroutine is always scheduled again and every executor call ends
\* (its requests and the convergence wait all time out).  The scheduler's select
\* picks among ready cases at random, so no ready case loses for ever.
Fairness ==
  /\ WF_vars(Worker)
  /\ WF_vars(SchedulerCompute) /\ WF_vars(FireExpired)
  /\ SF_vars(SchedulerStop) /\ SF_vars(SchedulerWoken) /\ SF_vars(SchedulerTimer)
  /\ WF_vars(ConfigureWake) /\ WF_vars(ShutdownJoin)

FairSpec == Spec /\ Fairness

---------------------------------------------------------------------------
(* What must hold *)

\* The range of every variable.
TypeOK ==
  /\ settings \in [Scheduled -> Nat]
  /\ configured \in BOOLEAN
  /\ queue \in Seq(Job)
  /\ statuses \in [RunId -> Status \cup {NoStatus}]
  /\ activeByOp \in [Operation -> RunId \cup {NoRun}]
  /\ completed \in Seq(RunId)
  /\ blocker \in RunId \cup {NoRun}
  /\ blockRecord \in Record \cup {NoRecord}
  /\ worker \in {"check", "asleep", "starting", "loading", "executing",
                "reconciling", "reconciled", "waking", "done"}
  /\ item \in Job \cup {NoJob}
  /\ expected \in Record \cup {NoRecord}
  /\ cleared \in BOOLEAN
  /\ now \in Nat
  /\ deadlines \in [Scheduled -> Nat]
  /\ wakeScheduler \in BOOLEAN
  /\ wakePending \in BOOLEAN
  /\ scheduler \in {"compute", "select", "fire", "done"}
  /\ armed \in Nat
  /\ fireTime \in Nat
  /\ shutdown \in {"no", "joining", "returned"}

\* "At most one queued/running job per operation": the entry of activeByOp is
\* exactly the one job of that operation in the queue or in the worker's hands,
\* through triggers, timers, completion and shutdown.
OneRunPerOperation ==
  /\ \A i, j \in DOMAIN queue : i # j => queue[i].operation # queue[j].operation
  /\ \A i \in DOMAIN queue :
       /\ activeByOp[queue[i].operation] = queue[i].runID
       /\ queue[i].operation # item.operation
  /\ item # NoJob => activeByOp[item.operation] = item.runID
  /\ \A op \in Operation : activeByOp[op] # NoRun =>
       \/ item.operation = op
       \/ \E i \in DOMAIN queue : queue[i].operation = op

\* The status map holds the retained finished runs, the active runs and the
\* blocker, and nothing else: no active or blocking run is ever evicted by the
\* retention limit, and no status leaks.
StatusesAccountedFor ==
  LET active == {activeByOp[op] : op \in Operation} \ {NoRun}
      block  == {blocker} \ {NoRun}
  IN  /\ {id \in RunId : statuses[id] # NoStatus} = ToSet(completed) \cup active \cup block
      /\ ToSet(completed) \cap (active \cup block) = {}
      /\ Len(completed) = Cardinality(ToSet(completed))
      /\ Len(completed) <= RetainLimit

\* While the state of the last write is in doubt no config write is running:
\* not one queued before the doubt, not one from a timer, not one accepted
\* between a reconcile's evidence and its clearing.
NoWriteWhileBlocked ==
  blocker # NoRun => ~isConfigWriteOperation(item.operation)

\* The blocker, the record a reconcile must match, and the status operators
\* read all name the same run and the same doubt.
BlockerAgreesWithRecord ==
  IF blocker = NoRun THEN blockRecord = NoRecord
  ELSE /\ blockRecord.id = blocker
       /\ blockRecord.code = statuses[blocker].code
       /\ statuses[blocker].state \in {"blocked", "uncertain"}

\* A blocker only ever disappears, and only in the hands of a reconcile run that
\* was started on exactly this block record.
OnlyItsReconcileUnblocks ==
  [][blocker # NoRun /\ blocker' # blocker =>
       /\ blocker' = NoRun
       /\ item.operation = Reconcile
       /\ expected = blockRecord]_vars

\* Unless a reconfigure changes the schedule, the deadline of an operation only
\* moves when its run is admitted in the same step, and then to the next point
\* of its own schedule after the firing: a refused tick stays due, a tick is
\* admitted once, and the schedule does not drift.
DeadlineMovesWithAdmission ==
  [][\A op \in Scheduled :
       configured /\ settings' = settings /\ deadlines'[op] # deadlines[op] =>
         /\ blocker = NoRun \/ ~isConfigWriteOperation(op)
         /\ activeByOp'[op] # NoRun
         /\ fireTime < deadlines'[op] /\ deadlines'[op] <= fireTime + settings[op]
         /\ (deadlines'[op] - deadlines[op]) % settings[op] = 0]_vars

\* The scheduler never sleeps past a deadline: when it waits with its timer off or
\* set too late, a wake-up is in the channel or on its way.
SchedulerWakeupNotLost ==
  scheduler = "select" /\ NextDeadline # NoTime =>
    \/ armed # NoTime /\ armed <= NextDeadline
    \/ wakeScheduler \/ wakePending
    \/ cleared /\ worker \in {"reconciled", "waking"}

\* The worker never sleeps on a job it could take, nor through a shutdown.
WorkerWakeupNotLost ==
  worker = "asleep" =>
    ~stopped /\ \A i \in DOMAIN queue : ~runnable(queue[i])

\* A run accepted before shutdown ends, but for a write behind a doubt: even a
\* reconcile behind retained writes, the way out of a block, is never blocked.
AcceptedRunsEnd ==
  /\ activeByOp[Reconcile] # NoRun /\ shutdown = "no" ~> activeByOp[Reconcile] = NoRun
  /\ \A op \in {AutoPull, MetadataSync} :
       activeByOp[op] # NoRun /\ shutdown = "no" ~> activeByOp[op] = NoRun \/ blocker # NoRun

\* A write whose deadline passed is admitted, unless a doubt or the shutdown holds
\* it back or a reconfigure moves the deadline.
DueWritesAreAdmitted ==
  \A op \in {AutoPull, MetadataSync} :
    deadlines[op] # NoTime /\ deadlines[op] <= now
      ~> \/ activeByOp[op] # NoRun \/ blocker # NoRun \/ stopped
         \/ deadlines[op] = NoTime \/ deadlines[op] > now

\* Shutdown joins both goroutines whatever they were doing.
ShutdownReturns == shutdown = "joining" ~> shutdown = "returned"

\* The phase of the run in the worker's hands; a catalog refresh is no write.
GatePhase ==
  IF isConfigWriteOperation(item.operation) THEN "writing"
  ELSE IF item.operation = Reconcile THEN "reconciling" ELSE "idle"

Gate == INSTANCE WriterGate WITH
  NoDoubt <- "", StartupDoubt <- "startup_reconcile_required",
  WriteDoubts <- UncertainCode, doubt <- blockRecord.code, phase <- GatePhase

\* The queue, the worker and the blocker keep the Writer's promise about doubt
\* (WriterGate): a write starts and runs in no doubt, may leave one, and only a
\* reconcile run settles it.
ImplementsGate == Gate!Spec
=============================================================================
