---------------------------- MODULE ConfigCommit ----------------------------
(***************************************************************************)
(* What the Writer's executor does between the worker's Execute and its    *)
(* outcome (executor.go, commit_engine.go, reconcile.go, and the planner   *)
(* call of planner.go), against a CPA Core that other people edit.         *)
(*                                                                         *)
(* A run reads the config, has a planner compute a proposal, checks that   *)
(* the config is still the one planned for, notes which config every       *)
(* plugin runs, PUTs the proposal with a fresh sync epoch, reads it back,  *)
(* and waits for every plugin to run it.  Core's PUT is unconditional and  *)
(* its reloads are asynchronous; a request may fail, and a PUT whose       *)
(* answer is lost may have landed, may still land, or never.  A run that   *)
(* cannot tell leaves a block that only a reconcile run removes.           *)
(*                                                                         *)
(* One action is one request, or one step the outside world takes.         *)
(***************************************************************************)
EXTENDS Integers, Sequences, FiniteSets, SequencesExt

CONSTANTS
  pluginIDs,         \* the coordinated plugins in the order of the code
  WriterID,          \* the one whose status is read in memory
  PlannerIDs,        \* the planners in the order reconcile asks them
  MaxVersionRetries, \* max_version_retries of the settings
  MaxEdits,          \* bound on operator edits
  MaxRuns,           \* bound on write runs
  MaxInstances,      \* bound on the instances of one plugin
  MaxRestarts        \* bound on restarts of Core

Plugins  == ToSet(pluginIDs)
Planners == ToSet(PlannerIDs)

ASSUME PluginAssumption ==
  /\ pluginIDs \in Seq(Plugins) /\ PlannerIDs \in Seq(Planners)
  /\ WriterID \in Plugins /\ Planners \subseteq Plugins \ {WriterID}
  /\ Len(PlannerIDs) > 0
ASSUME CommitBounds ==
  /\ MaxVersionRetries \in Nat /\ MaxEdits \in Nat /\ MaxRuns \in Nat
  /\ MaxInstances \in Nat /\ MaxRestarts \in Nat

\* A config file, as far as the engine tells files apart: the last operator
\* edit it contains, the last edit of plugin settings, the sync epoch of the last
\* Writer PUT (which stands for the models that PUT brought), and whether
\* comments are indented.
Content == [edit : Nat, settings : Nat, epoch : Nat, comments : {"flush", "indented"}]
NoContent == [edit |-> 0, settings |-> 0, epoch |-> 0, comments |-> "none"]

\* A version is the hash of the whole file; NoVersion is the empty string.
configVersion(content) == content
NoVersion == NoContent

\* The hash of a plugin's own subtree: its settings and the epoch in it.
RuntimeHash == [settings : Nat, epoch : Nat]
runtimeConfigHash(content) == [settings |-> content.settings, epoch |-> content.epoch]

UncertainCode == {"planner_stalled", "persisted_runtime_uncertain",
                  "commit_verification_failed"}
BlockCode == UncertainCode \cup {"startup_reconcile_required"}
FailureCode == {"core_unavailable", "loopback_timeout", "version_conflict",
                "invalid_request", "invalid_config", "reconcile_failed"}

VARIABLES
  config,   \* the authoritative file
  late,     \* PUTs whose answer was lost and that may still land
  runtime,  \* plugin -> its instance, its reconfigure_seq, the hash it runs
  pending,  \* plugin -> whether Core has yet to reconfigure it
  plans,    \* planner -> how many plan handlers it is running
  pc,       \* what the executor does next
  planner,  \* the planner of the run
  attempt,  \* 0 .. MaxVersionRetries
  base,     \* the config the run, or the reconcile, has read
  at,       \* the edit in force when the commit compared versions
  put,      \* the content of the run's PUT
  step,     \* position in pluginIDs or PlannerIDs of the next status request
  pre,      \* plugin -> instance and seq before the PUT
  block,    \* the block record, NoBlock for none
  outcome,  \* what the last run came to
  puts,     \* PUTs sent by the run
  quiet,    \* no change of config since the run's last verifying GET
  edits, epochs, runs, restarts  \* counters

world   == <<config, late, runtime, pending, plans>>
locals  == <<planner, attempt, base, at, put, step, pre>>
results == <<block, outcome, puts>>
counts  == <<edits, epochs, runs, restarts>>
vars    == <<world, pc, locals, results, quiet, counts>>

NoPlanner == "none"
NoPre   == [p \in Plugins |-> [instance |-> 0, seq |-> 0]]
NoBlock == [code |-> "", version |-> NoVersion, pre |-> NoPre]
StartupBlock == [NoBlock EXCEPT !.code = "startup_reconcile_required"]

---------------------------------------------------------------------------
(* CPA Core, outside src/: the config file, its reloads, its restarts *)

\* What Core writes for a PUT body (NormalizeCommentIndentation).
Persisted(content) == [content EXCEPT !.comments = "flush"]

\* The file becomes content; every plugin is due for a reconfigure.
Write(content) ==
  /\ config' = content
  /\ pending' = [p \in Plugins |-> TRUE]
  /\ quiet' = FALSE

\* The operator changes a plugin's settings, or anything else in the file.
Edit(ofPlugin) ==
  /\ edits < MaxEdits
  /\ edits' = edits + 1
  /\ Write([config EXCEPT !.edit = edits + 1,
                          !.settings = IF ofPlugin THEN edits + 1 ELSE @])
  /\ UNCHANGED <<late, runtime, plans, pc, locals, results, epochs, runs, restarts>>

\* Core reconfigures plugin p from the file.  Service.Configure counts it.
Reload(p) ==
  /\ pending[p]
  /\ pending' = [pending EXCEPT ![p] = FALSE]
  /\ runtime' = [runtime EXCEPT ![p].seq = @ + 1,
                                ![p].hash = runtimeConfigHash(config)]
  /\ UNCHANGED <<config, late, plans, pc, locals, results, quiet, counts>>

\* A fresh instance of plugin p, configured once.
Fresh(p) == [instance |-> runtime[p].instance + 1, seq |-> 1,
             hash |-> runtimeConfigHash(config)]

\* Core replaces the instance of a worker; a plan it was computing is cut off.
Replace(p) ==
  /\ p # WriterID
  /\ runtime[p].instance < MaxInstances
  /\ runtime' = [runtime EXCEPT ![p] = Fresh(p)]
  /\ pending' = [pending EXCEPT ![p] = FALSE]
  /\ plans' = [plans EXCEPT ![p] = 0]
  /\ pc' = IF pc = "planning" /\ planner = p THEN "asking" ELSE pc
  /\ UNCHANGED <<config, late, locals, results, quiet, counts>>

\* A PUT whose answer was lost lands after all, or never does.
LatePut(l) ==
  /\ l \in late
  /\ late' = late \ {l}
  /\ Write(Persisted(l.content))
  /\ UNCHANGED <<runtime, plans, pc, locals, results, counts>>
LateDropped(l) ==
  /\ l \in late
  /\ late' = late \ {l}
  /\ UNCHANGED <<config, runtime, pending, plans, pc, locals, results, quiet, counts>>

\* A plan handler that nobody waits for any more returns (endPlan).
PlanEnds(p) ==
  /\ plans[p] > IF pc = "planning" /\ planner = p THEN 1 ELSE 0
  /\ plans' = [plans EXCEPT ![p] = @ - 1]
  /\ UNCHANGED <<config, late, runtime, pending, pc, locals, results, quiet, counts>>

---------------------------------------------------------------------------
Forgotten ==
  /\ planner' = NoPlanner /\ attempt' = 0 /\ base' = NoContent /\ at' = 0
  /\ step' = 1 /\ pre' = NoPre

Init ==
  /\ config = [edit |-> 0, settings |-> 0, epoch |-> 0, comments |-> "flush"]
  /\ late = {}
  /\ runtime = [p \in Plugins |-> [instance |-> 1, seq |-> 1,
                                   hash |-> runtimeConfigHash(config)]]
  /\ pending = [p \in Plugins |-> FALSE]
  /\ plans = [p \in Planners |-> 0]
  /\ pc = "idle"
  /\ planner = NoPlanner /\ attempt = 0 /\ base = NoContent /\ at = 0
  /\ put = NoContent /\ step = 1 /\ pre = NoPre
  /\ block = StartupBlock
  /\ outcome = "none"
  /\ puts = 0
  /\ quiet = FALSE
  /\ edits = 0 /\ epochs = 0 /\ runs = 0 /\ restarts = 0

\* Core, and with it every plugin and every request, stops and starts again: the
\* block and the run are lost, and the Writer starts with the startup block.
Restart ==
  /\ restarts < MaxRestarts
  /\ restarts' = restarts + 1
  /\ \A p \in Plugins : runtime[p].instance < MaxInstances
  /\ late' = {}
  /\ runtime' = [p \in Plugins |-> Fresh(p)]
  /\ pending' = [p \in Plugins |-> FALSE]
  /\ plans' = [p \in Planners |-> 0]
  /\ pc' = "idle"
  /\ Forgotten
  /\ put' = NoContent
  /\ block' = StartupBlock
  /\ outcome' = "none"
  /\ puts' = 0
  /\ quiet' = FALSE
  /\ UNCHANGED <<config, edits, epochs, runs>>

---------------------------------------------------------------------------
(* How a run ends *)

\* The run is over; a code in doubt leaves a block with the evidence at hand.
BlockAfterBase(code, version) ==
  IF code \in UncertainCode THEN [code |-> code, version |-> base, pre |-> pre]
  ELSE block
BlockAfterFailure(code, version) ==
  IF code \in UncertainCode \cup {"reconcile_failed"}
  THEN [code |-> code, version |-> version, pre |-> pre]
  ELSE block
BlockAfter(code, version) ==
  IF code \in UncertainCode THEN [code |-> code, version |-> version, pre |-> pre]
  ELSE block

End(code, version) ==
  /\ pc' = "idle"
  /\ outcome' = code
  /\ block' = BlockAfter(code, version)
  /\ Forgotten

\* The loop of ExecuteWithProgress: only a version conflict starts over.
RetriesDoubt(code) ==
  /\ code \in {"version_conflict", "commit_verification_failed"}
  /\ attempt < MaxVersionRetries
RetriesOnceMore(code) == code = "version_conflict" /\ attempt <= MaxVersionRetries
Retries(code) == code = "version_conflict" /\ attempt < MaxVersionRetries

CommitEnds(code, version) ==
  IF Retries(code)
  THEN /\ pc' = "snapshot"
       /\ attempt' = attempt + 1
       /\ base' = NoContent /\ at' = 0 /\ step' = 1 /\ pre' = NoPre
       /\ UNCHANGED <<planner, block, outcome>>
  ELSE End(code, version)

\* The next status request of a round over n plugins, else what follows the round.
Onward(n, after) ==
  IF step < n THEN step' = step + 1 /\ pc' = pc
  ELSE step' = 1 /\ pc' = after

\* A status request to another plugin can fail; the Writer's own status cannot.
Unanswered(p) == p # WriterID

---------------------------------------------------------------------------
(* Planning *)

\* The worker starts a write; WriterService starts none while there is a block.
StartRun(p) ==
  /\ pc = "idle"
  /\ block = NoBlock
  /\ runs < MaxRuns
  /\ runs' = runs + 1
  /\ planner' = p
  /\ pc' = "snapshot"
  /\ put' = NoContent
  /\ puts' = 0
  /\ outcome' = "none"
  /\ UNCHANGED <<world, attempt, base, at, step, pre, block, quiet, edits, epochs,
                 restarts>>

Snapshot ==
  /\ pc = "snapshot"
  /\ \/ /\ base' = config
        /\ pc' = "plan"
        /\ UNCHANGED <<planner, attempt, at, step, pre, block, outcome>>
     \/ End("core_unavailable", NoVersion)
  /\ UNCHANGED <<world, put, puts, quiet, counts>>

\* The request to the planner reaches its handler, or fails on the way.
CallPlanner ==
  /\ pc = "plan"
  /\ \/ /\ plans' = [plans EXCEPT ![planner] = @ + 1]
        /\ pc' = "planning"
     \/ /\ pc' = "asking"
        /\ UNCHANGED plans
  /\ UNCHANGED <<config, late, runtime, pending, locals, results, quiet, counts>>

\* The handler returns a proposal, or an error.
PlannerAnswers ==
  /\ pc = "planning"
  /\ plans' = [plans EXCEPT ![planner] = @ - 1]
  /\ \/ /\ pc' = "commit"
        /\ UNCHANGED <<planner, attempt, base, at, step, pre, block, outcome>>
     \/ \E code \in {"core_unavailable", "invalid_request"} : End(code, NoVersion)
  /\ UNCHANGED <<config, late, runtime, pending, put, puts, quiet, counts>>

\* The client gives up on a handler that is still running.
PlannerUnanswered ==
  /\ pc = "planning"
  /\ pc' = "asking"
  /\ UNCHANGED <<world, locals, results, quiet, counts>>

\* Only a planner that is known to be idle leaves no doubt.
AskPlanner ==
  /\ pc = "asking"
  /\ \/ plans[planner] = 0 /\ End("loopback_timeout", NoVersion)
     \/ End("planner_stalled", NoVersion)
  /\ UNCHANGED <<world, put, puts, quiet, counts>>

---------------------------------------------------------------------------
(* The serialized commit *)

ConflictIgnored == FALSE
Conflict == configVersion(config) # configVersion(base)

CommitGet ==
  /\ pc = "commit"
  /\ \/ CommitEnds("core_unavailable", NoVersion)
     \/ Conflict /\ CommitEnds("version_conflict", NoVersion)
     \/ ~Conflict /\ \E code \in {"unchanged", "invalid_request"} :
                        CommitEnds(code, NoVersion)
     \/ /\ ~Conflict
        /\ at' = config.edit
        /\ pc' = "capturing"
        /\ UNCHANGED <<planner, attempt, base, step, pre, block, outcome>>
  /\ UNCHANGED <<world, put, puts, quiet, counts>>

\* captureStatus before the PUT: every plugin must run the config being replaced.
CaptureStatus ==
  LET p == pluginIDs[step] IN
  /\ pc = "capturing"
  /\ \/ /\ runtime[p].hash = runtimeConfigHash(base)
        /\ pre' = [pre EXCEPT ![p] = [instance |-> runtime[p].instance,
                                      seq |-> runtime[p].seq]]
        /\ Onward(Len(pluginIDs), "put")
        /\ UNCHANGED <<planner, attempt, base, at, block, outcome>>
     \/ /\ Unanswered(p) \/ runtime[p].hash # runtimeConfigHash(base)
        /\ CommitEnds("core_unavailable", NoVersion)
  /\ UNCHANGED <<world, put, puts, quiet, counts>>

\* No epoch, no place to put it, or no request: nothing is sent.
PutUnbuilt ==
  /\ pc = "put"
  /\ \E code \in {"core_unavailable", "invalid_request"} : CommitEnds(code, NoVersion)
  /\ UNCHANGED <<world, put, puts, quiet, counts>>

\* injectSyncEpoch and putConfig.  The encoder indents the comments of the body.
PutConfig ==
  LET body == [base EXCEPT !.epoch = epochs + 1, !.comments = "indented"]
      lost == [content |-> body, at |-> at, judged |-> FALSE]
  IN
  /\ pc = "put"
  /\ epochs' = epochs + 1
  /\ put' = body
  /\ puts' = puts + 1
  /\ \/ \* it lands, and the answer says so or is lost
        /\ pc' \in {"reread", "rereadLost"}
        /\ Write(Persisted(body))
        /\ UNCHANGED <<late, planner, attempt, base, at, step, pre, block, outcome>>
     \/ \* Core refuses it
        /\ CommitEnds("invalid_config", NoVersion)
        /\ UNCHANGED <<config, pending, late, quiet>>
     \/ \* no answer yet it did not land: it may still be on its way
        /\ pc' = "rereadLost"
        /\ late' \in {late, late \cup {lost}}
        /\ UNCHANGED <<config, pending, quiet, planner, attempt, base, at, step, pre,
                       block, outcome>>
  /\ UNCHANGED <<runtime, plans, edits, runs, restarts>>

\* After a PUT without an answer: whatever stands is recorded with the doubt.
UnansweredCode == "commit_verification_failed"
RereadLostTrusting ==
  /\ pc = "rereadLost"
  /\ \/ config = base /\ CommitEnds("core_unavailable", NoVersion)
     \/ config # base /\ CommitEnds(UnansweredCode, configVersion(config))
  /\ UNCHANGED <<world, put, puts, quiet, counts>>
RereadLost ==
  /\ pc = "rereadLost"
  /\ \E version \in {configVersion(config), NoVersion} :
       CommitEnds(UnansweredCode, version)
  /\ UNCHANGED <<world, put, puts, quiet, counts>>

\* The bytes the re-GET of an answered PUT must return.
expectedPersisted == Persisted(put)

Reread ==
  /\ pc = "reread"
  /\ \/ CommitEnds("commit_verification_failed", NoVersion) /\ UNCHANGED quiet
     \/ /\ config # expectedPersisted
        /\ CommitEnds("commit_verification_failed", configVersion(config))
        /\ UNCHANGED quiet
     \/ /\ config = expectedPersisted
        /\ pc' = "waiting"
        /\ quiet' = TRUE
        /\ UNCHANGED <<planner, attempt, base, at, step, pre, block, outcome>>
  /\ UNCHANGED <<world, put, puts, counts>>

\* checkConvergence's test of one status.
RunsUnhashed(p) == runtime[p].seq > pre[p].seq
Runs(p) == runtime[p].seq > pre[p].seq /\ runtime[p].hash = runtimeConfigHash(put)

\* One status of a round of checkConvergence; a round that fails starts over.
CheckConvergence ==
  LET p == pluginIDs[step]
      same == runtime[p].instance = pre[p].instance
  IN
  /\ pc = "waiting"
  /\ \/ /\ Unanswered(p) \/ (same /\ ~Runs(p))
        /\ step' = 1
        /\ UNCHANGED <<pc, planner, attempt, base, at, pre, block, outcome>>
     \/ /\ ~same
        /\ CommitEnds("persisted_runtime_uncertain", expectedPersisted)
     \/ /\ same /\ Runs(p)
        /\ IF step < Len(pluginIDs)
           THEN /\ step' = step + 1
                /\ UNCHANGED <<pc, planner, attempt, base, at, pre, block, outcome>>
           ELSE CommitEnds("succeeded", expectedPersisted)
  /\ UNCHANGED <<world, put, puts, quiet, counts>>

\* The 120 s deadline of converged, whatever the round is doing.
DeadlineOfRequest == pc = "waiting" /\ step > 1
Deadline == pc = "waiting"
ConvergenceTimeout ==
  /\ Deadline
  /\ CommitEnds("persisted_runtime_uncertain", expectedPersisted)
  /\ UNCHANGED <<world, put, puts, quiet, counts>>

---------------------------------------------------------------------------
(* Reconcile *)

ReconcileFails == End("reconcile_failed", NoVersion)

\* The worker starts a reconcile with a copy of the block.
StartReconcile ==
  /\ pc = "idle"
  /\ block # NoBlock
  /\ pc' = IF block.code = "planner_stalled" THEN "askIdle" ELSE "verifyGet"
  /\ outcome' = "none"
  /\ UNCHANGED <<world, locals, block, puts, quiet, counts>>

\* planner_stalled: every planner must say that it is idle.
AskedPlanners == Len(PlannerIDs)
AskIdle ==
  LET p == PlannerIDs[step] IN
  /\ pc = "askIdle"
  /\ \/ /\ plans[p] = 0
        /\ Onward(AskedPlanners, "clearing")
        /\ UNCHANGED <<planner, attempt, base, at, pre, block, outcome>>
     \/ ReconcileFails
  /\ UNCHANGED <<world, put, puts, quiet, counts>>

\* The other codes: the file must be the one in doubt, when the record names it.
VerifyGet ==
  /\ pc = "verifyGet"
  /\ \/ /\ block.version \in {NoVersion, configVersion(config)}
        /\ base' = config
        /\ pc' = "verifying"
        /\ quiet' = TRUE
        /\ UNCHANGED <<planner, attempt, at, step, pre, block, outcome>>
     \/ ReconcileFails /\ UNCHANGED quiet
  /\ UNCHANGED <<world, put, puts, counts>>

\* Every plugin must run that file, planners must be idle, and a plugin whose
\* status is known from before the PUT must be the same instance, reconfigured
\* since.  (The code first collects all statuses; any failing test ends it.)
RunsVerified(p) ==
  /\ runtime[p].hash = runtimeConfigHash(base)
  /\ block.pre # NoPre =>
       runtime[p].instance = block.pre[p].instance /\ runtime[p].seq > block.pre[p].seq
Verified(p) == RunsVerified(p) /\ (p \in Planners => plans[p] = 0)

VerifyStatus ==
  LET p == pluginIDs[step] IN
  /\ pc = "verifying"
  /\ \/ /\ Verified(p)
        /\ Onward(Len(pluginIDs), "verifyAgain")
        /\ UNCHANGED <<planner, attempt, base, at, pre, block, outcome>>
     \/ (Unanswered(p) \/ ~Verified(p)) /\ ReconcileFails
  /\ UNCHANGED <<world, put, puts, quiet, counts>>

VerifyAgain ==
  /\ pc = "verifyAgain"
  /\ \/ /\ configVersion(config) = configVersion(base)
        /\ pc' = "clearing"
        /\ UNCHANGED <<planner, attempt, base, at, step, pre, block, outcome>>
     \/ ReconcileFails
  /\ UNCHANGED <<world, put, puts, quiet, counts>>

\* The callback of ReconcileAndClear.  Every PUT still on its way has now been
\* judged without its answer.
ClearBlock ==
  /\ pc = "clearing"
  /\ pc' = "idle"
  /\ block' = NoBlock
  /\ outcome' = "cleared"
  /\ late' = {[l EXCEPT !.judged = TRUE] : l \in late}
  /\ Forgotten
  /\ UNCHANGED <<config, runtime, pending, plans, put, puts, quiet, counts>>

---------------------------------------------------------------------------
Engine ==
  \/ Snapshot \/ CallPlanner \/ PlannerAnswers \/ PlannerUnanswered \/ AskPlanner
  \/ CommitGet \/ CaptureStatus \/ PutUnbuilt \/ PutConfig \/ Reread \/ RereadLost
  \/ CheckConvergence
  \/ AskIdle \/ VerifyGet \/ VerifyStatus \/ VerifyAgain \/ ClearBlock

Core ==
  \/ \E ofPlugin \in BOOLEAN : Edit(ofPlugin)
  \/ \E p \in Plugins : Reload(p) \/ Replace(p)
  \/ \E p \in Planners : PlanEnds(p)
  \/ \E l \in late : LatePut(l) \/ LateDropped(l)
  \/ Restart

Next ==
  \/ Engine
  \/ ConvergenceTimeout
  \/ \E p \in Planners : StartRun(p)
  \/ StartReconcile
  \/ Core

Spec == Init /\ [][Next]_vars

\* Every request of the engine ends (its client has a timeout), and so does
\* the wait for convergence.
EngineFairness == WF_vars(Engine) /\ WF_vars(ConvergenceTimeout)
FairSpec == Spec /\ EngineFairness

\* The operator keeps asking for a reconcile while there is a block, Core
\* catches up with its reloads, abandoned handlers return, and no request fails
\* every time it is tried.
Recovery ==
  /\ WF_vars(StartReconcile)
  /\ \A p \in Plugins : WF_vars(Reload(p))
  /\ \A p \in Planners : WF_vars(PlanEnds(p))
  /\ SF_vars(VerifyGet /\ pc' = "verifying")
  /\ \A i \in DOMAIN pluginIDs : SF_vars(VerifyStatus /\ step = i /\ pc' # "idle")
  /\ SF_vars(VerifyAgain /\ pc' = "clearing")
RecoverySpec == FairSpec /\ Recovery

---------------------------------------------------------------------------
(* What must hold *)

Pc == {"idle", "snapshot", "plan", "planning", "asking", "commit", "capturing", "put",
       "reread", "rereadLost", "waiting", "askIdle", "verifyGet", "verifying",
       "verifyAgain", "clearing"}
Attempts == 0..MaxVersionRetries
Status == [instance : Nat, seq : Nat]
Instance == [instance : Nat, seq : Nat, hash : RuntimeHash]
LostPut == [content : Content, at : Nat, judged : BOOLEAN]
Record == [code : BlockCode \cup {""}, version : Content \cup {NoVersion},
           pre : [Plugins -> Status]]
Outcome == UncertainCode \cup FailureCode \cup {"none", "unchanged", "succeeded", "cleared"}

\* The range of every variable.
TypeOK ==
  /\ config \in Content
  /\ late \subseteq LostPut
  /\ runtime \in [Plugins -> Instance]
  /\ pending \in [Plugins -> BOOLEAN]
  /\ plans \in [Planners -> Nat]
  /\ pc \in Pc
  /\ planner \in Planners \cup {NoPlanner}
  /\ attempt \in Attempts
  /\ base \in Content \cup {NoContent}
  /\ at \in Nat
  /\ put \in Content \cup {NoContent}
  /\ step \in Nat
  /\ pre \in [Plugins -> Status]
  /\ block \in Record /\ outcome \in Outcome
  /\ puts \in Nat
  /\ quiet \in BOOLEAN
  /\ edits \in Nat /\ epochs \in Nat /\ runs \in Nat /\ restarts \in Nat

\* A run sends at most one PUT, through every retry: a PUT that may have landed
\* is never sent again ("never automatically replay an uncertain PUT").
AtMostOnePut == puts <= 1

\* An operator's edit is only ever lost to a PUT whose commit had compared
\* versions before the edit was made: not to a proposal planned on an older
\* snapshot, and not to one of an earlier attempt of the run.
EditsLostOnlyInWindow ==
  [][config'.edit < config.edit =>
       \/ pc = "put" /\ config'.edit = at
       \/ \E l \in late \ late' : config'.edit = l.at]_vars

\* A run that reports success, and a reconcile that clears a block, leave every
\* plugin, replaced ones included, running the file, which after a success is the
\* PUT's: unless somebody has written the file since the last GET that counts.
VerdictsAreConverged ==
  outcome \in {"succeeded", "cleared"} /\ quiet =>
    /\ \A p \in Plugins : runtime[p].hash = runtimeConfigHash(config)
    /\ outcome = "succeeded" => config = expectedPersisted

\* A PUT that may still land and that no reconcile has judged keeps a block
\* standing, or its run is about to leave one: no other run can start under it.
UnjudgedPutIsBlocked ==
  (\E l \in late : ~l.judged) => block # NoBlock \/ pc = "rereadLost"

\* A block on a runtime that did not converge names the file that the PUT made,
\* and its statuses are from before the PUT: a plugin that has come to run the
\* PUT's epoch has been reconfigured since, so a reconcile can tell it.
RuntimeDoubtHasEvidence ==
  block.code = "persisted_runtime_uncertain" =>
    /\ block.version = Persisted(put)
    /\ \A p \in Plugins :
         /\ runtime[p].instance = block.pre[p].instance
         /\ runtime[p].hash.epoch = put.epoch
         => runtime[p].seq > block.pre[p].seq

\* Every run and every reconcile ends, whatever Core and the plugins do.
RunsEnd == pc # "idle" ~> pc = "idle"

\* A block on a runtime that did not converge in time is cleared in the end, once
\* Core has caught up, unless the file is written again or a plugin's instance
\* is replaced.
RuntimeDoubtClears ==
  block.code = "persisted_runtime_uncertain"
    ~> \/ block = NoBlock
       \/ config # Persisted(put)
       \/ \E p \in Plugins : runtime[p].instance # block.pre[p].instance

\* The phase of the executor.
GatePhase ==
  CASE pc = "idle" -> "idle"
    [] pc \in {"askIdle", "verifyGet", "verifying", "verifyAgain", "clearing"} -> "reconciling"
    [] OTHER -> "writing"

Gate == INSTANCE WriterGate WITH
  NoDoubt <- "", StartupDoubt <- "startup_reconcile_required",
  WriteDoubts <- UncertainCode, doubt <- block.code, phase <- GatePhase

\* The executor, with Core restarting under it, keeps the Writer's promise about
\* doubt (WriterGate): each failure either leaves no doubt or one of three, and a
\* reconcile that fails leaves the doubt it found.
ImplementsGate == Gate!Spec
=============================================================================
