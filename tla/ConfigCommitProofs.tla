-------------------------- MODULE ConfigCommitProofs --------------------------
(***************************************************************************)
(* Proofs about ConfigCommit, for any plugins, planners, retries, edits    *)
(* and restarts.                                                           *)
(*                                                                         *)
(* Shape is inductive by itself and carries the rest: the range of every   *)
(* variable, and what a run holds at each of its points (which block       *)
(* stands, whether it has sent its PUT, which content it has read).  Each  *)
(* property then needs one more idea: EditOrder (no edit is from the       *)
(* future, and a commit writes over what it compared versions with),       *)
(* Evidence (no epoch is from the future, and statuses are never ahead of  *)
(* the runtime), Verdict (a round of statuses keeps finding what it found  *)
(* while nobody writes the file).                                          *)
(***************************************************************************)
EXTENDS ConfigCommit, TLAPS

BeforePut   == {"snapshot", "plan", "planning", "asking", "commit", "capturing", "put"}
AfterPut    == {"reread", "rereadLost", "waiting"}
Writing     == BeforePut \cup AfterPut
Reconciling == {"askIdle", "verifyGet", "verifying", "verifyAgain", "clearing"}

\* The next status request of a round is to a plugin there is.
StepInRange ==
  /\ pc \in {"capturing", "waiting", "verifying"} => step \in 1 .. Len(pluginIDs)
  /\ pc = "askIdle" => step \in 1 .. Len(PlannerIDs)
  /\ pc \notin {"capturing", "waiting", "verifying", "askIdle"} => step = 1

\* What a run or a reconcile holds while it is at work.
AtWork ==
  /\ block.code = "" => block = NoBlock
  /\ pc \in Writing => block = NoBlock /\ planner \in Planners
  /\ pc \in Reconciling => block # NoBlock
  /\ pc # "idle" => outcome = "none"
  /\ pc = "planning" => plans[planner] > 0
  /\ pc \in (Writing \ {"snapshot"}) \cup {"verifying", "verifyAgain"} => base \in Content
  /\ pc \in AfterPut => put \in Content
  /\ pc \in BeforePut => puts = 0
  /\ puts <= 1

Shape == TypeOK /\ StepInRange /\ AtWork

LEMMA ContentFacts ==
  /\ \A c \in Content : c # NoContent /\ Persisted(c) \in Content
  /\ \A c \in Content \cup {NoContent} : runtimeConfigHash(c) \in RuntimeHash
  /\ \A c \in Content : /\ Persisted(c).edit = c.edit /\ Persisted(c).epoch = c.epoch
                        /\ Persisted(c).settings = c.settings /\ Persisted(c) # NoContent
<1> QED
  BY DEF Content, NoContent, Persisted, runtimeConfigHash, RuntimeHash

LEMMA PluginFacts ==
  /\ Len(pluginIDs) \in Nat /\ Len(pluginIDs) > 0
  /\ \A i \in 1 .. Len(pluginIDs) : pluginIDs[i] \in Plugins
  /\ \A p \in Plugins : \E i \in 1 .. Len(pluginIDs) : pluginIDs[i] = p
  /\ Len(PlannerIDs) \in Nat /\ Len(PlannerIDs) > 0
  /\ \A i \in 1 .. Len(PlannerIDs) : PlannerIDs[i] \in Planners
  /\ Planners \subseteq Plugins /\ WriterID \in Plugins
<1>1. /\ Len(pluginIDs) \in Nat /\ DOMAIN pluginIDs = 1 .. Len(pluginIDs)
      /\ \A i \in 1 .. Len(pluginIDs) : pluginIDs[i] \in Plugins
      /\ Len(PlannerIDs) \in Nat /\ \A i \in 1 .. Len(PlannerIDs) : PlannerIDs[i] \in Planners
  BY PluginAssumption
<1>2. \A p \in Plugins : \E i \in 1 .. Len(pluginIDs) : pluginIDs[i] = p
  BY <1>1 DEF Plugins, ToSet
<1>3. Len(pluginIDs) > 0
  BY <1>1, <1>2, PluginAssumption
<1> QED
  BY <1>1, <1>2, <1>3, PluginAssumption

LEMMA NoPreStatus == NoPre \in [Plugins -> Status] /\ NoBlock.code = ""
<1> QED
  BY DEF NoPre, NoBlock, Status

LEMMA IdlePc ==
  "idle" \notin Writing \cup Reconciling \cup AfterPut \cup BeforePut
                 \cup {"capturing", "waiting", "verifying", "askIdle", "verifyAgain"}
<1> QED
  BY DEF Writing, BeforePut, AfterPut, Reconciling

-----------------------------------------------------------------------------
(* How a run ends. *)

\* What is left of the locals and the block.
Ended(code, version) ==
  /\ pc' = "idle" /\ outcome' = code /\ planner' = NoPlanner /\ attempt' = 0
  /\ base' = NoContent /\ at' = 0 /\ step' = 1 /\ pre' = NoPre
  /\ \/ code \notin UncertainCode /\ block' = block
     \/ /\ code \in UncertainCode /\ block' # NoBlock
        /\ block'.code = code /\ block'.version = version /\ block'.pre = pre
        /\ block' = [code |-> code, version |-> version, pre |-> pre]

LEMMA EndFacts ==
  ASSUME NEW code, NEW version, End(code, version)
  PROVE  Ended(code, version)
<1>1. pc' = "idle" /\ outcome' = code /\ planner' = NoPlanner /\ attempt' = 0
      /\ base' = NoContent /\ at' = 0 /\ step' = 1 /\ pre' = NoPre
      /\ block' = BlockAfter(code, version)
  BY DEF End, Forgotten
<1>2. CASE code \in UncertainCode
  <2>1. block' = [code |-> code, version |-> version, pre |-> pre]
    BY <1>1, <1>2 DEF BlockAfter
  <2>2. block'.code # NoBlock.code
    BY <1>2, <2>1 DEF NoBlock, UncertainCode
  <2> QED
    BY <1>1, <1>2, <2>1, <2>2 DEF Ended
<1>3. CASE code \notin UncertainCode
  BY <1>1, <1>3 DEF BlockAfter, Ended
<1> QED
  BY <1>2, <1>3

\* A commit that fails with anything but a conflict ends the run.
LEMMA CommitEndsFacts ==
  ASSUME NEW code, NEW version, CommitEnds(code, version)
  PROVE  \/ Ended(code, version)
         \/ /\ code = "version_conflict" /\ attempt < MaxVersionRetries
            /\ pc' = "snapshot" /\ attempt' = attempt + 1
            /\ base' = NoContent /\ at' = 0 /\ step' = 1 /\ pre' = NoPre
            /\ UNCHANGED <<planner, block, outcome>>
<1>1. CASE Retries(code)
  BY <1>1 DEF CommitEnds, Retries
<1>2. CASE ~ Retries(code)
  BY <1>2, EndFacts DEF CommitEnds
<1> QED
  BY <1>1, <1>2

\* The run has ended and keeps the shape.
LEMMA EndedShape ==
  ASSUME Shape, NEW code \in Outcome, NEW version \in Content \cup {NoVersion},
         Ended(code, version),
         edits' \in Nat, epochs' \in Nat, runs' \in Nat, restarts' \in Nat,
         config' \in Content, late' \subseteq LostPut,
         runtime' \in [Plugins -> Instance],
         pending' \in [Plugins -> BOOLEAN], plans' \in [Planners -> Nat],
         put' \in Content \cup {NoContent}, quiet' \in BOOLEAN, puts' \in {0, 1}
  PROVE  Shape'
<1>1. block' \in Record
  <2>1. CASE block' = block
    BY <2>1 DEF Shape, TypeOK
  <2>2. CASE code \in UncertainCode /\ block' = [code |-> code, version |-> version, pre |-> pre]
    <3>1. pre \in [Plugins -> Status]
      BY DEF Shape, TypeOK
    <3> QED
      BY <2>2, <3>1 DEF Record, BlockCode
  <2> QED
    BY <2>1, <2>2 DEF Ended
<1>2. TypeOK'
  <2>1. /\ planner' \in Planners \cup {NoPlanner}
        /\ base' \in Content \cup {NoContent} /\ pre' \in [Plugins -> Status]
    BY NoPreStatus DEF Ended
  <2>4. attempt' \in Attempts /\ at' \in Nat /\ step' \in Nat /\ puts' \in Nat
    BY CommitBounds DEF Ended, Attempts
  <2>5. pc' \in Pc
    BY DEF Ended, Pc
  <2>2. outcome' \in Outcome
    BY DEF Ended
  <2> QED
    BY <1>1, <2>1, <2>2, <2>4, <2>5 DEF TypeOK, Outcome
<1>3. StepInRange'
  BY DEF StepInRange, Ended
<1>4. AtWork'
  <2>1. pc' = "idle" /\ puts' <= 1
    BY DEF Ended
  <2>2. block'.code = "" => block' = NoBlock
    BY DEF Shape, AtWork, Ended, UncertainCode
  <2>3. "idle" \notin Writing \cup Reconciling \cup {"verifying", "verifyAgain", "clearing"}
    BY DEF Writing, BeforePut, AfterPut, Reconciling
  <2> QED
    BY <2>1, <2>2, <2>3 DEF AtWork, Writing
<1> QED
  BY <1>2, <1>3, <1>4 DEF Shape

\* The common case: the step changes nothing else but perhaps quiet.
LEMMA EndedHereShape ==
  ASSUME Shape, NEW code \in Outcome, NEW version \in Content \cup {NoVersion},
         Ended(code, version),
         UNCHANGED <<config, late, runtime, pending, put, puts, quiet, counts>>,
         plans' \in [Planners -> Nat]
  PROVE  Shape'
<1>1. puts \in {0, 1}
  <2>1. puts \in Nat /\ puts <= 1
    BY Zenon DEF Shape, TypeOK, AtWork
  <2> QED
    BY <2>1
<1>2. /\ config' \in Content /\ late' \subseteq LostPut /\ runtime' \in [Plugins -> Instance]
      /\ pending' \in [Plugins -> BOOLEAN] /\ put' \in Content \cup {NoContent}
  BY DEF Shape, TypeOK
<1>3. quiet' \in BOOLEAN /\ puts' \in {0, 1}
  <2>1. quiet \in BOOLEAN
    BY Zenon DEF Shape, TypeOK
  <2>2. quiet' = quiet /\ puts' = puts
    OBVIOUS
  <2> QED
    BY <1>1, <2>1, <2>2, Zenon
<1>4. edits' \in Nat /\ epochs' \in Nat /\ runs' \in Nat /\ restarts' \in Nat
  BY DEF Shape, TypeOK, counts
<1> QED
  BY <1>2, <1>3, <1>4, EndedShape

-----------------------------------------------------------------------------
(* The shape, step by step. *)

LEMMA InitShape == Init => Shape
<1> SUFFICES ASSUME Init PROVE Shape
  OBVIOUS
<1>1. config \in Content /\ runtimeConfigHash(config) \in RuntimeHash
  BY DEF Init, Content, runtimeConfigHash, RuntimeHash
<1>2. runtime \in [Plugins -> Instance]
  BY <1>1 DEF Init, Instance
<1>3. block \in Record /\ block.code # ""
  BY NoPreStatus DEF Init, StartupBlock, NoBlock, BlockCode, Record
<1>4. TypeOK
  <2>1. attempt \in Attempts /\ outcome \in Outcome /\ pc \in Pc
    BY CommitBounds DEF Init, Attempts, Outcome, Pc
  <2>2. late \subseteq LostPut /\ pending \in [Plugins -> BOOLEAN] /\ plans \in [Planners -> Nat]
        /\ pre \in [Plugins -> Status] /\ base \in Content \cup {NoContent}
        /\ put \in Content \cup {NoContent} /\ planner \in Planners \cup {NoPlanner}
    BY NoPreStatus DEF Init
  <2>3. at \in Nat /\ step \in Nat /\ puts \in Nat /\ quiet \in BOOLEAN
        /\ edits \in Nat /\ epochs \in Nat /\ runs \in Nat /\ restarts \in Nat
    BY DEF Init
  <2> QED
    BY <1>1, <1>2, <1>3, <2>1, <2>2, <2>3 DEF TypeOK
<1>5. StepInRange /\ AtWork
  <2>1. pc = "idle" /\ step = 1 /\ puts <= 1
    BY DEF Init
  <2> QED
    BY <1>3, <2>1, IdlePc DEF StepInRange, AtWork
<1> QED
  BY <1>4, <1>5 DEF Shape

LEMMA FreshType ==
  ASSUME TypeOK, NEW p \in Plugins
  PROVE  Fresh(p) \in Instance
<1>1. runtime[p].instance \in Nat /\ runtimeConfigHash(config) \in RuntimeHash
  BY ContentFacts DEF TypeOK, Instance
<1> QED
  BY <1>1 DEF Fresh, Instance

\* What a step may leave as it is.
LEMMA Held ==
  ASSUME Shape
  PROVE  /\ config \in Content /\ plans \in [Planners -> Nat]
         /\ base \in Content \cup {NoContent}
         /\ at \in Nat /\ step \in Nat /\ pre \in [Plugins -> Status] /\ quiet \in BOOLEAN
<1> QED
  BY Zenon DEF Shape, TypeOK

LEMMA CoreShape ==
  ASSUME Shape, Core PROVE Shape'
<1>0. TypeOK /\ StepInRange /\ AtWork
  BY DEF Shape
<1>1. ASSUME NEW ofPlugin \in BOOLEAN, Edit(ofPlugin) PROVE Shape'
  <2>1. config' \in Content
    <3>1. edits + 1 \in Nat /\ config \in Content
      <4>1. edits \in Nat /\ config \in Content
        BY <1>0, Zenon DEF TypeOK
      <4> QED
        BY <4>1
    <3> QED
      BY <1>1, <3>1 DEF Edit, Write, Content
  <2>2. TypeOK'
    <3>1. edits' \in Nat /\ pending' \in [Plugins -> BOOLEAN] /\ quiet' \in BOOLEAN
      <4>1. edits \in Nat
        BY <1>0, Zenon DEF TypeOK
      <4> QED
        <5>1. edits' = edits + 1 /\ pending' = [q \in Plugins |-> TRUE] /\ quiet' = FALSE
          BY <1>1 DEF Edit, Write
        <5>2. edits' \in Nat
          BY <4>1, <5>1
        <5>3. pending' \in [Plugins -> BOOLEAN] /\ quiet' \in BOOLEAN
          BY <5>1, Zenon
        <5> QED
          BY <5>2, <5>3
    <3>2. UNCHANGED <<late, runtime, plans, pc, locals, results, epochs, runs, restarts>>
      BY <1>1 DEF Edit
    <3> QED
      BY <1>0, <2>1, <3>1, <3>2 DEF TypeOK, locals, results
  <2>3. StepInRange' /\ AtWork'
    BY <1>0, <1>1 DEF StepInRange, AtWork, Edit, locals, results
  <2> QED
    BY <2>2, <2>3 DEF Shape
<1>2. ASSUME NEW p \in Plugins, Reload(p) PROVE Shape'
  <2>1. runtime' \in [Plugins -> Instance]
    <3>1. runtime[p] \in Instance
          /\ runtimeConfigHash(config) \in RuntimeHash
      BY <1>0, ContentFacts DEF TypeOK
    <3> DEFINE hash == runtimeConfigHash(config)
               new == [runtime[p] EXCEPT !.seq = runtime[p].seq + 1, !.hash = hash]
    <3>2. ASSUME NEW r \in Instance, NEW n \in Nat, NEW h \in RuntimeHash
          PROVE  [r EXCEPT !.seq = n, !.hash = h] \in Instance
      BY <3>2 DEF Instance
    <3>3. runtime[p].seq + 1 \in Nat
      BY <3>1 DEF Instance
    <3>4. runtime' = [runtime EXCEPT ![p] = new]
      BY <1>2 DEF Reload
    <3>5. new \in Instance
      BY <3>1, <3>2, <3>3
    <3> HIDE DEF new
    <3> QED
      BY <1>0, <3>4, <3>5 DEF TypeOK
  <2>2. TypeOK'
    BY <1>0, <1>2, <2>1 DEF TypeOK, Reload, locals, results, counts
  <2>3. StepInRange' /\ AtWork'
    BY <1>0, <1>2 DEF StepInRange, AtWork, Reload, locals, results
  <2> QED
    BY <2>2, <2>3 DEF Shape
<1>3. ASSUME NEW p \in Plugins, Replace(p) PROVE Shape'
  <2>1. TypeOK'
    <3>1. runtime' \in [Plugins -> Instance]
      BY <1>0, <1>3, FreshType DEF TypeOK, Replace
    <3>2. pc' \in Pc
      BY <1>0, <1>3 DEF TypeOK, Replace, Pc
    <3> QED
      BY <1>0, <1>3, <3>1, <3>2 DEF TypeOK, Replace, locals, results, counts
  <2>2. CASE pc' = pc
    <3>1. pc = "planning" => plans'[planner] = plans[planner] /\ planner' = planner
      <4>1. pc = "planning" => planner # p
        BY <1>3, <2>2 DEF Replace
      <4>2. plans' = [plans EXCEPT ![p] = 0] /\ planner' = planner
        BY <1>3 DEF Replace, locals
      <4>3. pc = "planning" => planner \in Planners
        BY <1>0 DEF AtWork, Writing, BeforePut
      <4>4. plans \in [Planners -> Nat]
        BY Held
      <4> QED
        BY <4>1, <4>2, <4>3, <4>4
    <3>2. UNCHANGED <<locals, results>>
      BY <1>3 DEF Replace
    <3>3. StepInRange'
      BY <1>0, <2>2, <3>2 DEF StepInRange, locals
    <3>4. AtWork'
      BY <1>0, <2>2, <3>1, <3>2 DEF AtWork, locals, results
    <3> QED
      BY <2>1, <3>3, <3>4 DEF Shape
  <2>3. CASE pc = "planning" /\ pc' = "asking"
    BY <1>0, <1>3, <2>1, <2>3
    DEF Shape, StepInRange, AtWork, Replace, locals, results, Writing, BeforePut, AfterPut,
        Reconciling
  <2> QED
    BY <1>3, <2>2, <2>3 DEF Replace
<1>4. ASSUME NEW p \in Planners, PlanEnds(p) PROVE Shape'
  <2>1. plans' \in [Planners -> Nat]
    <3>1. plans[p] \in Nat /\ plans[p] > 0
      <4>1. plans \in [Planners -> Nat]
        BY <1>0, Zenon DEF TypeOK
      <4> QED
        BY <1>4, <4>1 DEF PlanEnds
    <3> QED
      BY <1>0, <1>4, <3>1 DEF TypeOK, PlanEnds
  <2>2. TypeOK'
    BY <1>0, <1>4, <2>1 DEF TypeOK, PlanEnds, locals, results, counts
  <2>3. UNCHANGED <<pc, locals, results>>
    BY <1>4 DEF PlanEnds
  <2>4. pc = "planning" => plans'[planner] > 0
    <3>1. plans \in [Planners -> Nat]
      BY Held
    <3>2. pc = "planning" => planner \in Planners /\ plans[planner] > 0
      BY <1>0 DEF AtWork, Writing, BeforePut
    <3>3. pc = "planning" /\ planner = p => plans[p] > 1
      BY <1>4 DEF PlanEnds
    <3> QED
      BY <1>4, <3>1, <3>2, <3>3 DEF PlanEnds
  <2>5. StepInRange'
    BY <1>0, <2>3 DEF StepInRange, locals
  <2>6. AtWork'
    BY <1>0, <2>3, <2>4 DEF AtWork, locals, results
  <2> QED
    BY <2>2, <2>5, <2>6 DEF Shape
<1>5. ASSUME NEW l \in late, LatePut(l) \/ LateDropped(l) PROVE Shape'
  <2>1. l.content \in Content
    BY <1>0, <1>5 DEF TypeOK, LostPut
  <2>2. config' \in Content /\ late' \subseteq late
    BY <1>0, <1>5, <2>1, ContentFacts DEF LatePut, LateDropped, Write, TypeOK
  <2>3. TypeOK'
    BY <1>0, <1>5, <2>2 DEF TypeOK, LatePut, LateDropped, Write, locals, results, counts
  <2>4. UNCHANGED <<plans, pc, locals, results, counts>>
    BY <1>5 DEF LatePut, LateDropped
  <2>5. StepInRange'
    BY <1>0, <2>4 DEF StepInRange, locals
  <2>6. AtWork'
    BY <1>0, <2>4 DEF AtWork, locals, results
  <2> QED
    BY <2>3, <2>5, <2>6 DEF Shape
<1>6. CASE Restart
  <2>1. runtime' \in [Plugins -> Instance]
    BY <1>0, <1>6, FreshType DEF Restart
  <2>2. block' \in Record /\ block'.code # ""
    BY <1>6, NoPreStatus DEF Restart, StartupBlock, NoBlock, BlockCode, Record
  <2>3. TypeOK'
    <3>1. /\ late' = {} /\ pc' = "idle" /\ planner' = NoPlanner /\ attempt' = 0
          /\ base' = NoContent /\ at' = 0 /\ step' = 1 /\ pre' = NoPre /\ put' = NoContent
          /\ outcome' = "none" /\ puts' = 0 /\ quiet' = FALSE /\ restarts' = restarts + 1
          /\ pending' = [p \in Plugins |-> FALSE] /\ plans' = [p \in Planners |-> 0]
          /\ UNCHANGED <<config, edits, epochs, runs>>
      BY <1>6 DEF Restart, Forgotten
    <3>2. attempt' \in Attempts /\ outcome' \in Outcome /\ pc' \in Pc
      BY <3>1, CommitBounds DEF Attempts, Outcome, Pc
    <3>3. late' \subseteq LostPut /\ pending' \in [Plugins -> BOOLEAN]
          /\ plans' \in [Planners -> Nat] /\ pre' \in [Plugins -> Status]
          /\ at' \in Nat /\ step' \in Nat /\ puts' \in Nat /\ quiet' \in BOOLEAN
      BY <3>1, NoPreStatus
    <3>4. restarts' \in Nat
      <4>1. restarts \in Nat
        BY <1>0, Zenon DEF TypeOK
      <4> QED
        BY <3>1, <4>1
    <3> QED
      BY <1>0, <2>1, <2>2, <3>1, <3>2, <3>3, <3>4 DEF TypeOK
  <2>4. StepInRange' /\ AtWork'
    <3>1. pc' = "idle" /\ step' = 1 /\ puts' <= 1
      BY <1>6 DEF Restart, Forgotten
    <3> QED
      BY <2>2, <3>1, IdlePc DEF StepInRange, AtWork
  <2> QED
    BY <2>3, <2>4 DEF Shape
<1> QED
  BY <1>1, <1>2, <1>3, <1>4, <1>5, <1>6 DEF Core

\* The run, or the reconcile, goes on: its next request, with what it has read.
Goes(after) ==
  /\ pc' = after
  /\ UNCHANGED <<config, late, runtime, pending, planner, attempt, put, block, outcome,
                 puts, counts>>

LEMMA GoesShape ==
  ASSUME Shape, NEW after \in Pc, Goes(after),
         plans' \in [Planners -> Nat], base' \in Content \cup {NoContent}, at' \in Nat,
         step' \in Nat, pre' \in [Plugins -> Status], quiet' \in BOOLEAN,
         StepInRange', AtWork'
  PROVE  Shape'
<1>1. TypeOK'
  <2>1. /\ edits' \in Nat /\ epochs' \in Nat /\ runs' \in Nat /\ restarts' \in Nat
        /\ puts' \in Nat /\ attempt' \in Attempts
    BY DEF Goes, counts, Shape, TypeOK
  <2>2. /\ config' \in Content /\ late' \subseteq LostPut /\ runtime' \in [Plugins -> Instance]
        /\ pending' \in [Plugins -> BOOLEAN] /\ planner' \in Planners \cup {NoPlanner}
        /\ put' \in Content \cup {NoContent} /\ block' \in Record /\ outcome' \in Outcome
        /\ pc' \in Pc
    BY DEF Goes, Shape, TypeOK
  <2> QED
    BY <2>1, <2>2 DEF TypeOK
<1> QED
  BY <1>1 DEF Shape

\* The constants of the codes a run may end with.
LEMMA Codes ==
  /\ {"core_unavailable", "invalid_request", "loopback_timeout", "planner_stalled",
      "version_conflict", "unchanged", "invalid_config", "commit_verification_failed",
      "persisted_runtime_uncertain", "succeeded", "reconcile_failed", "cleared"} \subseteq Outcome
  /\ NoVersion \in Content \cup {NoVersion}
<1> QED
  BY DEF Outcome, UncertainCode, FailureCode

LEMMA StartShape ==
  ASSUME Shape, NEW p \in Planners, StartRun(p) PROVE Shape'
<1>1. TypeOK'
  <2>1. /\ edits' \in Nat /\ epochs' \in Nat /\ runs' \in Nat /\ restarts' \in Nat
        /\ puts' \in Nat /\ attempt' \in Attempts /\ at' \in Nat /\ step' \in Nat
        /\ quiet' \in BOOLEAN /\ base' \in Content \cup {NoContent}
    <3>1. /\ edits \in Nat /\ epochs \in Nat /\ runs \in Nat /\ restarts \in Nat
          /\ attempt \in Attempts /\ at \in Nat /\ step \in Nat
          /\ quiet \in BOOLEAN /\ base \in Content \cup {NoContent}
      BY Zenon DEF Shape, TypeOK
    <3> QED
      BY <3>1 DEF StartRun
  <2>2. /\ config' \in Content /\ late' \subseteq LostPut /\ runtime' \in [Plugins -> Instance]
        /\ pending' \in [Plugins -> BOOLEAN] /\ planner' \in Planners \cup {NoPlanner}
        /\ put' \in Content \cup {NoContent} /\ block' \in Record /\ outcome' \in Outcome
        /\ pc' \in Pc /\ plans' \in [Planners -> Nat] /\ pre' \in [Plugins -> Status]
    BY DEF StartRun, Shape, TypeOK, world, Pc, Outcome
  <2> QED
    BY <2>1, <2>2 DEF TypeOK
<1>2. StepInRange' /\ AtWork'
  BY DEF StartRun, Shape, StepInRange, AtWork, Writing, BeforePut, AfterPut, Reconciling
<1> QED
  BY <1>1, <1>2 DEF Shape

LEMMA PlanningShape ==
  ASSUME Shape,
         Snapshot \/ CallPlanner \/ PlannerAnswers \/ PlannerUnanswered \/ AskPlanner
  PROVE  Shape'
<1>0. StepInRange /\ AtWork
  BY DEF Shape
<1>1. CASE Snapshot
  <2>1. CASE End("core_unavailable", NoVersion)
    BY <1>1, <2>1, EndFacts, EndedHereShape, Codes, Held DEF Snapshot, world
  <2>2. CASE ~ End("core_unavailable", NoVersion)
    <3>1. Goes("plan") /\ base' = config /\ UNCHANGED <<plans, at, step, pre, quiet>>
      BY <1>1, <2>2 DEF Snapshot, Goes, world
    <3>2. StepInRange'
      BY <1>0, <1>1, <3>1 DEF StepInRange, Goes, Snapshot
    <3>3. AtWork'
      BY <1>0, <1>1, <3>1, Held
      DEF AtWork, Goes, Snapshot, Writing, BeforePut, AfterPut, Reconciling
    <3> QED
      BY <3>1, <3>2, <3>3, Held, GoesShape DEF Pc
  <2> QED
    BY <2>1, <2>2
<1>2. CASE CallPlanner
  <2>1. PICK after \in {"planning", "asking"} : Goes(after)
    BY <1>2 DEF CallPlanner, Goes, locals, results
  <2>2. UNCHANGED <<base, at, step, pre, quiet>>
    BY <1>2 DEF CallPlanner, locals
  <2>3. plans' \in [Planners -> Nat] /\ (pc' = "planning" => plans'[planner] > 0)
    <3>1. planner \in Planners
      BY <1>0, <1>2 DEF CallPlanner, AtWork, Writing, BeforePut
    <3>2. plans \in [Planners -> Nat]
      BY Held
    <3>3. plans[planner] + 1 \in Nat /\ plans[planner] + 1 > 0
      BY <3>1, <3>2
    <3> QED
      BY <1>2, <3>1, <3>2, <3>3 DEF CallPlanner
  <2>4. StepInRange'
    BY <1>0, <1>2, <2>1, <2>2 DEF StepInRange, Goes, CallPlanner
  <2>5. AtWork'
    BY <1>0, <1>2, <2>1, <2>2, <2>3
    DEF AtWork, Goes, CallPlanner, Writing, BeforePut, AfterPut, Reconciling
  <2> QED
    BY <2>1, <2>2, <2>3, <2>4, <2>5, Held, GoesShape DEF Pc
<1>3. CASE PlannerAnswers
  <2>1. plans' \in [Planners -> Nat]
    <3>1. planner \in Planners /\ plans[planner] > 0
      BY <1>0, <1>3 DEF PlannerAnswers, AtWork, Writing, BeforePut
    <3>2. plans[planner] - 1 \in Nat
      BY <3>1, Held
    <3> QED
      BY <1>3, <3>2, Held DEF PlannerAnswers
  <2>2. CASE \E code \in {"core_unavailable", "invalid_request"} : End(code, NoVersion)
    <3>1. PICK code \in {"core_unavailable", "invalid_request"} : Ended(code, NoVersion)
      BY <2>2, EndFacts
    <3> QED
      BY <1>3, <2>1, <3>1, EndedHereShape, Codes DEF PlannerAnswers
  <2>3. CASE pc' = "commit" /\ UNCHANGED <<planner, attempt, base, at, step, pre, block, outcome>>
    <3>1. Goes("commit") /\ UNCHANGED <<base, at, step, pre, quiet>>
      BY <1>3, <2>3 DEF PlannerAnswers, Goes
    <3>2. StepInRange'
      BY <1>0, <1>3, <3>1 DEF StepInRange, Goes, PlannerAnswers
    <3>3. AtWork'
      BY <1>0, <1>3, <3>1
      DEF AtWork, Goes, PlannerAnswers, Writing, BeforePut, AfterPut, Reconciling
    <3> QED
      BY <2>1, <3>1, <3>2, <3>3, Held, GoesShape DEF Pc
  <2> QED
    BY <1>3, <2>2, <2>3 DEF PlannerAnswers
<1>4. CASE PlannerUnanswered
  <2>1. Goes("asking") /\ UNCHANGED <<plans, base, at, step, pre, quiet>>
    BY <1>4 DEF PlannerUnanswered, Goes, locals, results, world
  <2>4. StepInRange'
    BY <1>0, <1>4, <2>1 DEF StepInRange, Goes, PlannerUnanswered
  <2>5. AtWork'
    BY <1>0, <1>4, <2>1
    DEF AtWork, Goes, PlannerUnanswered, Writing, BeforePut, AfterPut, Reconciling
  <2> QED
    BY <2>1, <2>4, <2>5, Held, GoesShape DEF Pc
<1>5. CASE AskPlanner
  BY <1>5, EndFacts, EndedHereShape, Codes, Held DEF AskPlanner, world
<1> QED
  BY <1>1, <1>2, <1>3, <1>4, <1>5

\* A commit step that ends the run with a code of its own.
LEMMA FailedCommitShape ==
  ASSUME Shape, NEW code \in Outcome \ {"version_conflict"},
         NEW version \in Content \cup {NoVersion}, CommitEnds(code, version),
         UNCHANGED <<world, put, puts, quiet, counts>>
  PROVE  Shape'
<1>1. Ended(code, version)
  BY CommitEndsFacts
<1>2. UNCHANGED <<config, late, runtime, pending, put, puts, quiet, counts>>
      /\ plans' \in [Planners -> Nat]
  BY Held DEF world
<1> QED
  BY <1>1, <1>2, EndedHereShape

LEMMA CommitGetShape ==
  ASSUME Shape, CommitGet PROVE Shape'
<1>0. StepInRange /\ AtWork /\ UNCHANGED <<world, put, puts, quiet, counts>>
  BY DEF Shape, CommitGet
<1>1. CASE \E code \in {"core_unavailable", "unchanged", "invalid_request"} :
             CommitEnds(code, NoVersion)
  <2>1. PICK code \in {"core_unavailable", "unchanged", "invalid_request"} :
          CommitEnds(code, NoVersion)
    BY <1>1
  <2> QED
    BY <1>0, <2>1, FailedCommitShape, Codes
<1>2. CASE CommitEnds("version_conflict", NoVersion)
  <2>1. CASE Ended("version_conflict", NoVersion)
    BY <1>0, <2>1, EndedHereShape, Codes, Held DEF world
  <2>2. CASE /\ attempt < MaxVersionRetries
             /\ pc' = "snapshot" /\ attempt' = attempt + 1
             /\ base' = NoContent /\ at' = 0 /\ step' = 1 /\ pre' = NoPre
             /\ UNCHANGED <<planner, block, outcome>>
    <3>1. attempt' \in Attempts
      <4>1. attempt \in Attempts
        BY Zenon DEF Shape, TypeOK
      <4> QED
        BY <2>2, <4>1, CommitBounds DEF Attempts
    <3>2. TypeOK'
      <4>1. /\ edits' \in Nat /\ epochs' \in Nat /\ runs' \in Nat /\ restarts' \in Nat
            /\ puts' \in Nat
        BY <1>0 DEF counts, Shape, TypeOK
      <4>2. /\ config' \in Content /\ late' \subseteq LostPut /\ quiet' \in BOOLEAN
            /\ runtime' \in [Plugins -> Instance] /\ plans' \in [Planners -> Nat]
            /\ pending' \in [Plugins -> BOOLEAN] /\ planner' \in Planners \cup {NoPlanner}
            /\ put' \in Content \cup {NoContent} /\ block' \in Record /\ outcome' \in Outcome
        BY <1>0, <2>2 DEF Shape, TypeOK, world
      <4>3. /\ pc' \in Pc /\ base' \in Content \cup {NoContent} /\ at' \in Nat
            /\ step' \in Nat /\ pre' \in [Plugins -> Status]
        BY <2>2, NoPreStatus DEF Pc
      <4> QED
        BY <3>1, <4>1, <4>2, <4>3 DEF TypeOK
    <3>3. StepInRange' /\ AtWork'
      <4>1. pc = "commit"
        BY DEF CommitGet
      <4> QED
        BY <1>0, <2>2, <4>1
        DEF StepInRange, AtWork, Writing, BeforePut, AfterPut, Reconciling
    <3> QED
      BY <3>2, <3>3 DEF Shape
  <2> QED
    BY <1>2, <2>1, <2>2, CommitEndsFacts
<1>3. CASE /\ at' = config.edit /\ pc' = "capturing"
           /\ UNCHANGED <<planner, attempt, base, step, pre, block, outcome>>
  <2>1. Goes("capturing") /\ UNCHANGED <<base, step, pre, quiet, plans>>
    BY <1>0, <1>3 DEF Goes, world
  <2>2. at' \in Nat
    BY <1>3, Held DEF Content
  <2>3. StepInRange'
    BY <1>0, <1>3, PluginFacts DEF StepInRange, CommitGet
  <2>4. AtWork'
    BY <1>0, <1>3, <2>1
    DEF AtWork, Goes, CommitGet, Writing, BeforePut, AfterPut, Reconciling
  <2> QED
    BY <2>1, <2>2, <2>3, <2>4, Held, GoesShape DEF Pc
<1> QED
  BY <1>1, <1>2, <1>3 DEF CommitGet

\* What a round of status requests leaves of the step.
LEMMA OnwardFacts ==
  ASSUME NEW n, NEW after, step \in Nat, n \in Nat, step \in 1 .. n, Onward(n, after)
  PROVE  \/ step' \in 1 .. n /\ step' = step + 1 /\ pc' = pc /\ step < n
         \/ step' = 1 /\ pc' = after /\ step = n
<1> QED
  BY DEF Onward

LEMMA CaptureShape ==
  ASSUME Shape, CaptureStatus PROVE Shape'
<1>0. StepInRange /\ AtWork /\ pc = "capturing" /\ UNCHANGED <<world, put, puts, quiet, counts>>
  BY DEF Shape, CaptureStatus
<1>1. step \in 1 .. Len(pluginIDs) /\ pluginIDs[step] \in Plugins
  BY <1>0, PluginFacts DEF StepInRange
<1> DEFINE p == pluginIDs[step]
<1>2. CASE CommitEnds("core_unavailable", NoVersion)
  BY <1>0, <1>2, FailedCommitShape, Codes
<1>3. CASE /\ pre' = [pre EXCEPT ![p] = [instance |-> runtime[p].instance,
                                         seq |-> runtime[p].seq]]
           /\ Onward(Len(pluginIDs), "put")
           /\ UNCHANGED <<planner, attempt, base, at, block, outcome>>
  <2>1. pre' \in [Plugins -> Status]
    <3>1. runtime[p] \in Instance
      BY <1>1 DEF Shape, TypeOK
    <3>2. [instance |-> runtime[p].instance, seq |-> runtime[p].seq] \in Status
      BY <3>1 DEF Instance, Status
    <3> QED
      BY <1>1, <1>3, <3>2, Held
  <2>2. \/ step' \in 1 .. Len(pluginIDs) /\ pc' = "capturing"
        \/ step' = 1 /\ pc' = "put"
    BY <1>0, <1>1, <1>3, OnwardFacts, PluginFacts, Held
  <2>3. step' \in Nat /\ UNCHANGED <<plans, base, at, quiet>>
    BY <1>0, <1>3, <2>2, PluginFacts DEF world
  <2>4. StepInRange'
    BY <2>2 DEF StepInRange
  <2>5. AtWork'
    BY <1>0, <1>3, <2>2, <2>3 DEF AtWork, Writing, BeforePut, AfterPut, Reconciling
  <2>6. PICK after \in {"capturing", "put"} : pc' = after
    BY <2>2
  <2>7. Goes(after)
    BY <1>0, <1>3, <2>6 DEF Goes, world
  <2> QED
    BY <2>1, <2>3, <2>4, <2>5, <2>7, Held, GoesShape DEF Pc
<1> QED
  BY <1>2, <1>3 DEF CaptureStatus

LEMMA PutUnbuiltShape ==
  ASSUME Shape, PutUnbuilt PROVE Shape'
<1>1. PICK code \in {"core_unavailable", "invalid_request"} : CommitEnds(code, NoVersion)
  BY DEF PutUnbuilt
<1> QED
  BY <1>1, FailedCommitShape, Codes DEF PutUnbuilt

\* The body of the PUT, as PutConfig names it.
Body == [base EXCEPT !.epoch = epochs + 1, !.comments = "indented"]

LEMMA BodyFacts ==
  ASSUME Shape, pc = "put"
  PROVE  /\ base \in Content /\ Body \in Content /\ Body.edit = base.edit
         /\ Body.epoch = epochs + 1 /\ Persisted(Body) \in Content /\ epochs + 1 \in Nat
<1>1. base \in Content
  BY DEF Shape, AtWork, Writing, BeforePut
<1>2. epochs + 1 \in Nat
  <2>1. epochs \in Nat
    BY Zenon DEF Shape, TypeOK
  <2> QED
    BY <2>1
<1>3. Body \in Content /\ Body.edit = base.edit /\ Body.epoch = epochs + 1
  BY <1>1, <1>2 DEF Body, Content
<1> QED
  BY <1>1, <1>2, <1>3, ContentFacts

\* The alternatives of PutConfig.
PutLands ==
  /\ pc' \in {"reread", "rereadLost"} /\ config' = Persisted(Body)
  /\ pending' = [q \in Plugins |-> TRUE] /\ quiet' = FALSE
  /\ UNCHANGED <<late, planner, attempt, base, at, step, pre, block, outcome>>
PutRefused ==
  CommitEnds("invalid_config", NoVersion) /\ UNCHANGED <<config, pending, late, quiet>>
PutLost ==
  /\ pc' = "rereadLost"
  /\ late' \in {late, late \cup {[content |-> Body, at |-> at, judged |-> FALSE]}}
  /\ UNCHANGED <<config, pending, quiet, planner, attempt, base, at, step, pre, block, outcome>>

LEMMA PutCases ==
  ASSUME PutConfig
  PROVE  /\ pc = "put" /\ epochs' = epochs + 1 /\ put' = Body /\ puts' = puts + 1
         /\ UNCHANGED <<runtime, plans, edits, runs, restarts>>
         /\ PutLands \/ PutRefused \/ PutLost
<1> QED
  BY DEF PutConfig, PutLands, PutRefused, PutLost, Body, Write

LEMMA PutShape ==
  ASSUME Shape, PutConfig PROVE Shape'
<1>0. /\ pc = "put" /\ epochs' = epochs + 1 /\ put' = Body /\ puts' = puts + 1
      /\ UNCHANGED <<runtime, plans, edits, runs, restarts>>
  BY PutCases
<1>1. StepInRange /\ AtWork /\ base \in Content /\ Body \in Content
      /\ Persisted(Body) \in Content
  BY <1>0, BodyFacts DEF Shape
<1>2. puts = 0 /\ puts' = 1
  <2>1. puts = 0
    BY <1>0, <1>1 DEF AtWork, BeforePut
  <2> QED
    BY <1>0, <2>1
<1>3. /\ edits' \in Nat /\ epochs' \in Nat /\ runs' \in Nat /\ restarts' \in Nat
  <2>1. edits \in Nat /\ epochs \in Nat /\ runs \in Nat /\ restarts \in Nat
    BY Zenon DEF Shape, TypeOK
  <2> QED
    BY <1>0, <2>1
<1>4. /\ runtime' \in [Plugins -> Instance] /\ plans' \in [Planners -> Nat]
      /\ put' \in Content \cup {NoContent}
  BY <1>0, <1>1 DEF Shape, TypeOK
<1>5. CASE PutRefused
  <2>1. Ended("invalid_config", NoVersion)
    BY <1>5, CommitEndsFacts DEF PutRefused
  <2>2. config' \in Content /\ late' \subseteq LostPut /\ pending' \in [Plugins -> BOOLEAN]
        /\ quiet' \in BOOLEAN
    BY <1>5 DEF Shape, TypeOK, PutRefused
  <2>3. puts' \in {0, 1}
    BY <1>2
  <2> QED
    BY <1>3, <1>4, <2>1, <2>2, <2>3, EndedShape, Codes
<1>6. CASE PutLands \/ PutLost
  <2>1. /\ pc' \in {"reread", "rereadLost"}
        /\ UNCHANGED <<planner, attempt, base, at, step, pre, block, outcome>>
    BY <1>6 DEF PutLands, PutLost
  <2>2. config' \in Content /\ pending' \in [Plugins -> BOOLEAN] /\ quiet' \in BOOLEAN
    BY <1>1, <1>6 DEF PutLands, PutLost, Shape, TypeOK
  <2>3. late' \subseteq LostPut
    <3>1. late \subseteq LostPut /\ at \in Nat
      BY Held DEF Shape, TypeOK
    <3>2. [content |-> Body, at |-> at, judged |-> FALSE] \in LostPut
      BY <1>1, <3>1 DEF LostPut
    <3> QED
      BY <1>6, <3>1, <3>2 DEF PutLands, PutLost
  <2>4. TypeOK'
    <3>1. /\ planner' \in Planners \cup {NoPlanner} /\ attempt' \in Attempts
          /\ base' \in Content \cup {NoContent} /\ at' \in Nat /\ step' \in Nat
          /\ pre' \in [Plugins -> Status] /\ block' \in Record /\ outcome' \in Outcome
      BY <2>1 DEF Shape, TypeOK
    <3>2. pc' \in Pc /\ puts' \in Nat
      BY <1>2, <2>1 DEF Pc
    <3> QED
      BY <1>3, <1>4, <2>2, <2>3, <3>1, <3>2 DEF TypeOK
  <2>5. StepInRange' /\ AtWork'
    BY <1>0, <1>1, <1>2, <2>1
    DEF StepInRange, AtWork, Writing, BeforePut, AfterPut, Reconciling
  <2> QED
    BY <2>4, <2>5 DEF Shape
<1> QED
  BY <1>5, <1>6, PutCases

LEMMA RereadShape ==
  ASSUME Shape, RereadLost \/ Reread PROVE Shape'
<1>0. StepInRange /\ AtWork /\ UNCHANGED <<world, put, puts, counts>>
  BY DEF Shape, RereadLost, Reread
<1>1. CASE UNCHANGED quiet /\ \E version \in {configVersion(config), NoVersion} :
             CommitEnds("commit_verification_failed", version)
  <2>1. PICK version \in {configVersion(config), NoVersion} :
          CommitEnds("commit_verification_failed", version)
    BY <1>1
  <2>2. version \in Content \cup {NoVersion}
    BY Held DEF configVersion
  <2> QED
    BY <1>0, <1>1, <2>1, <2>2, FailedCommitShape, Codes
<1>2. CASE /\ pc = "reread" /\ pc' = "waiting" /\ quiet' = TRUE
           /\ UNCHANGED <<planner, attempt, base, at, step, pre, block, outcome>>
  <2>1. Goes("waiting") /\ UNCHANGED <<plans, base, at, step, pre>>
    BY <1>0, <1>2 DEF Goes, world
  <2>2. StepInRange'
    BY <1>0, <1>2, PluginFacts DEF StepInRange
  <2>3. AtWork'
    BY <1>0, <1>2, <2>1 DEF AtWork, Goes, Writing, BeforePut, AfterPut, Reconciling
  <2> QED
    BY <1>2, <2>1, <2>2, <2>3, Held, GoesShape DEF Pc
<1> QED
  BY <1>1, <1>2 DEF RereadLost, Reread, UnansweredCode

LEMMA WaitShape ==
  ASSUME Shape, CheckConvergence \/ ConvergenceTimeout PROVE Shape'
<1>0. /\ StepInRange /\ AtWork /\ pc = "waiting"
      /\ UNCHANGED <<world, put, puts, quiet, counts>>
  BY DEF Shape, CheckConvergence, ConvergenceTimeout, Deadline
<1>1. step \in 1 .. Len(pluginIDs)
  BY <1>0 DEF StepInRange
<1>2. expectedPersisted \in Content
  BY <1>0, ContentFacts DEF AtWork, AfterPut, expectedPersisted
<1>3. CASE \E code \in {"persisted_runtime_uncertain", "succeeded"} :
             CommitEnds(code, expectedPersisted)
  <2>1. PICK code \in {"persisted_runtime_uncertain", "succeeded"} :
          CommitEnds(code, expectedPersisted)
    BY <1>3
  <2> QED
    BY <1>0, <1>2, <2>1, FailedCommitShape, Codes
<1>4. CASE /\ step' \in 1 .. Len(pluginIDs)
           /\ UNCHANGED <<pc, planner, attempt, base, at, pre, block, outcome>>
  <2>1. Goes("waiting") /\ UNCHANGED <<plans, base, at, pre, quiet>> /\ step' \in Nat
    BY <1>0, <1>4, PluginFacts DEF Goes, world
  <2>2. StepInRange'
    BY <1>0, <1>4 DEF StepInRange
  <2>3. AtWork'
    BY <1>0, <1>4, <2>1 DEF AtWork, Goes
  <2> QED
    BY <2>1, <2>2, <2>3, Held, GoesShape DEF Pc
<1>5. Len(pluginIDs) \in Nat /\ 1 \in 1 .. Len(pluginIDs)
      /\ (step < Len(pluginIDs) => step + 1 \in 1 .. Len(pluginIDs))
  BY <1>1, PluginFacts
<1>6. CASE CheckConvergence
  <2>1. \/ CommitEnds("persisted_runtime_uncertain", expectedPersisted)
        \/ CommitEnds("succeeded", expectedPersisted)
        \/ /\ step' = 1 \/ (step < Len(pluginIDs) /\ step' = step + 1)
           /\ UNCHANGED <<pc, planner, attempt, base, at, pre, block, outcome>>
    <3>1. CASE step < Len(pluginIDs)
      BY <1>6, <3>1 DEF CheckConvergence
    <3>2. CASE ~ (step < Len(pluginIDs))
      BY <1>6, <3>2 DEF CheckConvergence
    <3> QED
      BY <3>1, <3>2
  <2> QED
    BY <1>3, <1>4, <1>5, <2>1
<1>7. CASE ConvergenceTimeout
  BY <1>3, <1>7 DEF ConvergenceTimeout
<1> QED
  BY <1>6, <1>7

LEMMA ReconcileFailsShape ==
  ASSUME Shape, ReconcileFails, UNCHANGED <<world, put, puts, quiet, counts>>
  PROVE  Shape'
<1>1. Ended("reconcile_failed", NoVersion)
  BY EndFacts DEF ReconcileFails
<1>2. UNCHANGED <<config, late, runtime, pending, put, puts, quiet, counts>>
      /\ plans' \in [Planners -> Nat]
  BY Held DEF world
<1> QED
  BY <1>1, <1>2, EndedHereShape, Codes

LEMMA ReconcileShape ==
  ASSUME Shape, StartReconcile \/ AskIdle \/ VerifyGet \/ VerifyStatus \/ VerifyAgain
  PROVE  Shape'
<1>0. StepInRange /\ AtWork /\ UNCHANGED <<world, put, puts, counts>>
  <2>1. CASE StartReconcile
    BY <2>1 DEF Shape, StartReconcile, locals
  <2>2. CASE AskIdle
    BY <2>2 DEF Shape, AskIdle
  <2>3. CASE VerifyGet
    BY <2>3 DEF Shape, VerifyGet
  <2>4. CASE VerifyStatus
    BY <2>4 DEF Shape, VerifyStatus
  <2>5. CASE VerifyAgain
    BY <2>5 DEF Shape, VerifyAgain
  <2> QED
    BY <2>1, <2>2, <2>3, <2>4, <2>5
<1>1. CASE ReconcileFails /\ UNCHANGED quiet
  BY <1>0, <1>1, ReconcileFailsShape
<1>2. CASE StartReconcile
  <2>1. PICK after \in {"askIdle", "verifyGet"} : pc' = after
    BY <1>2 DEF StartReconcile
  <2>2. /\ UNCHANGED <<locals, block, quiet>> /\ outcome' = "none" /\ block # NoBlock
        /\ pc = "idle"
    BY <1>2 DEF StartReconcile
  <2>3. StepInRange'
    BY <1>0, <2>1, <2>2, PluginFacts DEF StepInRange, locals
  <2>4. AtWork'
    BY <1>0, <2>1, <2>2 DEF AtWork, locals, Writing, BeforePut, AfterPut, Reconciling
  <2>5. TypeOK'
    <3>1. /\ edits' \in Nat /\ epochs' \in Nat /\ runs' \in Nat /\ restarts' \in Nat
          /\ puts' \in Nat /\ attempt' \in Attempts /\ at' \in Nat /\ step' \in Nat
      BY <1>0, <2>2 DEF counts, Shape, TypeOK, locals
    <3>2. /\ config' \in Content /\ late' \subseteq LostPut /\ quiet' \in BOOLEAN
          /\ runtime' \in [Plugins -> Instance] /\ plans' \in [Planners -> Nat]
          /\ pending' \in [Plugins -> BOOLEAN] /\ planner' \in Planners \cup {NoPlanner}
          /\ put' \in Content \cup {NoContent} /\ block' \in Record
          /\ base' \in Content \cup {NoContent} /\ pre' \in [Plugins -> Status]
      BY <1>0, <2>2 DEF Shape, TypeOK, world, locals
    <3>3. outcome' \in Outcome /\ pc' \in Pc
      BY <2>1, <2>2 DEF Outcome, Pc
    <3> QED
      BY <3>1, <3>2, <3>3 DEF TypeOK
  <2> QED
    BY <2>3, <2>4, <2>5 DEF Shape
<1>3. CASE /\ pc = "askIdle" /\ Onward(Len(PlannerIDs), "clearing")
           /\ UNCHANGED <<planner, attempt, base, at, pre, block, outcome, quiet>>
  <2>1. step \in 1 .. Len(PlannerIDs)
    BY <1>0, <1>3 DEF StepInRange
  <2>2. \/ step' \in 1 .. Len(PlannerIDs) /\ pc' = "askIdle"
        \/ step' = 1 /\ pc' = "clearing"
    BY <1>3, <2>1, OnwardFacts, PluginFacts, Held
  <2>3. PICK after \in {"askIdle", "clearing"} : pc' = after
    BY <2>2
  <2>4. Goes(after) /\ UNCHANGED <<plans, base, at, pre, quiet>> /\ step' \in Nat
    BY <1>0, <1>3, <2>2, <2>3, PluginFacts DEF Goes, world
  <2>5. StepInRange'
    BY <2>2 DEF StepInRange
  <2>6. AtWork'
    BY <1>0, <1>3, <2>2, <2>4
    DEF AtWork, Goes, Writing, BeforePut, AfterPut, Reconciling
  <2> QED
    BY <2>4, <2>5, <2>6, Held, GoesShape DEF Pc
<1>4. CASE /\ pc = "verifyGet" /\ base' = config /\ pc' = "verifying" /\ quiet' = TRUE
           /\ UNCHANGED <<planner, attempt, at, step, pre, block, outcome>>
  <2>1. Goes("verifying") /\ UNCHANGED <<plans, at, step, pre>>
    BY <1>0, <1>4 DEF Goes, world
  <2>2. StepInRange'
    BY <1>0, <1>4, PluginFacts DEF StepInRange
  <2>3. AtWork'
    BY <1>0, <1>4, <2>1, Held
    DEF AtWork, Goes, Writing, BeforePut, AfterPut, Reconciling
  <2> QED
    BY <1>4, <2>1, <2>2, <2>3, Held, GoesShape DEF Pc
<1>5. CASE /\ pc = "verifying" /\ Onward(Len(pluginIDs), "verifyAgain")
           /\ UNCHANGED <<planner, attempt, base, at, pre, block, outcome, quiet>>
  <2>1. step \in 1 .. Len(pluginIDs)
    BY <1>0, <1>5 DEF StepInRange
  <2>2. \/ step' \in 1 .. Len(pluginIDs) /\ pc' = "verifying"
        \/ step' = 1 /\ pc' = "verifyAgain"
    BY <1>5, <2>1, OnwardFacts, PluginFacts, Held
  <2>3. PICK after \in {"verifying", "verifyAgain"} : pc' = after
    BY <2>2
  <2>4. Goes(after) /\ UNCHANGED <<plans, base, at, pre, quiet>> /\ step' \in Nat
    BY <1>0, <1>5, <2>2, <2>3, PluginFacts DEF Goes, world
  <2>5. StepInRange'
    BY <2>2 DEF StepInRange
  <2>6. AtWork'
    BY <1>0, <1>5, <2>2, <2>4
    DEF AtWork, Goes, Writing, BeforePut, AfterPut, Reconciling
  <2> QED
    BY <2>4, <2>5, <2>6, Held, GoesShape DEF Pc
<1>6. CASE /\ pc = "verifyAgain" /\ pc' = "clearing"
           /\ UNCHANGED <<planner, attempt, base, at, step, pre, block, outcome, quiet>>
  <2>1. Goes("clearing") /\ UNCHANGED <<plans, base, at, step, pre, quiet>>
    BY <1>0, <1>6 DEF Goes, world
  <2>2. StepInRange'
    BY <1>0, <1>6 DEF StepInRange
  <2>3. AtWork'
    BY <1>0, <1>6, <2>1
    DEF AtWork, Goes, Writing, BeforePut, AfterPut, Reconciling
  <2> QED
    BY <2>1, <2>2, <2>3, Held, GoesShape DEF Pc
<1>7. CASE AskIdle
  BY <1>1, <1>3, <1>7 DEF AskIdle, AskedPlanners
<1>8. CASE VerifyGet
  BY <1>1, <1>4, <1>8 DEF VerifyGet
<1>9. CASE VerifyStatus
  BY <1>1, <1>5, <1>9 DEF VerifyStatus
<1>10. CASE VerifyAgain
  BY <1>1, <1>6, <1>10 DEF VerifyAgain
<1> QED
  BY <1>2, <1>7, <1>8, <1>9, <1>10

LEMMA ClearShape ==
  ASSUME Shape, ClearBlock PROVE Shape'
<1>1. /\ pc' = "idle" /\ block' = NoBlock /\ outcome' = "cleared"
      /\ late' = {[l EXCEPT !.judged = TRUE] : l \in late}
      /\ planner' = NoPlanner /\ attempt' = 0 /\ base' = NoContent /\ at' = 0
      /\ step' = 1 /\ pre' = NoPre
      /\ UNCHANGED <<config, runtime, pending, plans, put, puts, quiet, counts>>
  BY DEF ClearBlock, Forgotten
<1>2. late' \subseteq LostPut
  <2>1. ASSUME NEW l \in LostPut PROVE [l EXCEPT !.judged = TRUE] \in LostPut
    BY DEF LostPut
  <2>2. late \subseteq LostPut
    BY DEF Shape, TypeOK
  <2> QED
    BY <1>1, <2>1, <2>2
<1>3. TypeOK'
  <2>1. /\ edits' \in Nat /\ epochs' \in Nat /\ runs' \in Nat /\ restarts' \in Nat
        /\ puts' \in Nat
    BY <1>1 DEF counts, Shape, TypeOK
  <2>2. /\ config' \in Content /\ runtime' \in [Plugins -> Instance]
        /\ plans' \in [Planners -> Nat] /\ pending' \in [Plugins -> BOOLEAN]
        /\ put' \in Content \cup {NoContent} /\ quiet' \in BOOLEAN
    BY <1>1 DEF Shape, TypeOK
  <2>3. /\ attempt' \in Attempts /\ base' \in Content \cup {NoContent} /\ at' \in Nat
        /\ step' \in Nat /\ pre' \in [Plugins -> Status] /\ pc' \in Pc
        /\ planner' \in Planners \cup {NoPlanner} /\ outcome' \in Outcome
    <3>1. attempt' \in Attempts /\ at' \in Nat /\ step' \in Nat
      BY <1>1, CommitBounds DEF Attempts
    <3>2. /\ base' \in Content \cup {NoContent} /\ pre' \in [Plugins -> Status]
          /\ planner' \in Planners \cup {NoPlanner}
      BY <1>1, NoPreStatus
    <3>3. pc' \in Pc /\ outcome' \in Outcome
      BY <1>1, Codes DEF Pc
    <3> QED
      BY <3>1, <3>2, <3>3
  <2>4. block' \in Record
    BY <1>1, NoPreStatus DEF NoBlock, Record
  <2> QED
    BY <1>2, <2>1, <2>2, <2>3, <2>4 DEF TypeOK
<1>4. StepInRange' /\ AtWork'
  <2>1. puts' <= 1
    BY <1>1 DEF Shape, AtWork
  <2> QED
    BY <1>1, <2>1, IdlePc DEF StepInRange, AtWork
<1> QED
  BY <1>3, <1>4 DEF Shape

LEMMA StepShape ==
  ASSUME Shape, [Next]_vars PROVE Shape'
<1>1. CASE UNCHANGED vars
  <2>0. UNCHANGED <<config, late, runtime, pending, plans, pc, planner, attempt, base, at, put,
                    step, pre, block, outcome, puts, quiet, edits, epochs, runs, restarts>>
    BY <1>1 DEF vars, world, locals, results, counts
  <2>1. TypeOK'
    BY <2>0 DEF Shape, TypeOK
  <2>2. StepInRange'
    BY <2>0 DEF Shape, StepInRange
  <2>3. AtWork'
    BY <2>0 DEF Shape, AtWork
  <2> QED
    BY <2>1, <2>2, <2>3 DEF Shape
<1>2. CASE Engine
  BY <1>2, PlanningShape, CommitGetShape, CaptureShape, PutUnbuiltShape, PutShape,
     RereadShape, WaitShape, ReconcileShape, ClearShape DEF Engine
<1> QED
  BY <1>1, <1>2, CoreShape, StartShape, WaitShape, ReconcileShape DEF Next

-----------------------------------------------------------------------------
(* The shape is invariant. *)

\* Every variable keeps its range, whatever fails and whoever edits the file.
THEOREM CommitTypeCorrect == Spec => []TypeOK
<1>1. Init => Shape
  BY InitShape
<1>2. Shape /\ [Next]_vars => Shape'
  BY StepShape
<1>3. Shape => TypeOK
  BY DEF Shape
<1> QED
  BY <1>1, <1>2, <1>3, PTL DEF Spec

THEOREM ShapeInvariance == Spec => []Shape
<1>1. Init => Shape
  BY InitShape
<1>2. Shape /\ [Next]_vars => Shape'
  BY StepShape
<1> QED
  BY <1>1, <1>2, PTL DEF Spec

\* A run sends its PUT once, whatever is lost, refused, retried or in doubt after
\* it: no path leads from the PUT back to the planning of the run.
THEOREM OnePutTheorem == Spec => []AtMostOnePut
<1>1. Shape => AtMostOnePut
  BY DEF Shape, AtWork, AtMostOnePut
<1> QED
  BY <1>1, ShapeInvariance, PTL

-----------------------------------------------------------------------------
(* Blocks: what the queue of the Writer sees of a run. *)

\* A step of a run that is at work.
LEMMA WriteSteps ==
  ASSUME Shape,
         \/ Snapshot \/ CallPlanner \/ PlannerAnswers \/ PlannerUnanswered \/ AskPlanner
         \/ CommitGet \/ CaptureStatus \/ PutUnbuilt \/ PutConfig \/ Reread \/ RereadLost
         \/ CheckConvergence \/ ConvergenceTimeout
  PROVE  /\ pc \in Writing
         /\ \/ pc' \in Writing /\ UNCHANGED block
            \/ \E code, version : Ended(code, version)
<1>1. CASE Snapshot
  BY <1>1, EndFacts DEF Snapshot, Writing, BeforePut
<1>2. CASE CallPlanner
  BY <1>2 DEF CallPlanner, Writing, BeforePut, results
<1>3. CASE PlannerAnswers
  BY <1>3, EndFacts DEF PlannerAnswers, Writing, BeforePut
<1>4. CASE PlannerUnanswered
  BY <1>4 DEF PlannerUnanswered, Writing, BeforePut, results
<1>5. CASE AskPlanner
  BY <1>5, EndFacts DEF AskPlanner, Writing, BeforePut
<1>6. ASSUME NEW code, NEW version, CommitEnds(code, version)
      PROVE  (pc' = "snapshot" /\ UNCHANGED block) \/ Ended(code, version)
  BY <1>6, CommitEndsFacts
<1>7. CASE CommitGet
  <2>1. \/ \E code : CommitEnds(code, NoVersion)
        \/ pc' = "capturing" /\ UNCHANGED block
    BY <1>7 DEF CommitGet
  <2> QED
    BY <1>6, <1>7, <2>1 DEF CommitGet, Writing, BeforePut
<1>8. CASE CaptureStatus
  <2>1. \/ CommitEnds("core_unavailable", NoVersion)
        \/ pc' \in {"capturing", "put"} /\ UNCHANGED block
    BY <1>8 DEF CaptureStatus, Onward
  <2> QED
    BY <1>6, <1>8, <2>1 DEF CaptureStatus, Writing, BeforePut
<1>9. CASE PutUnbuilt
  BY <1>6, <1>9 DEF PutUnbuilt, Writing, BeforePut
<1>10. CASE PutConfig
  BY <1>6, <1>10, PutCases DEF PutLands, PutRefused, PutLost, Writing, BeforePut, AfterPut
<1>11. CASE Reread \/ RereadLost
  <2>1. /\ pc \in AfterPut
        /\ \/ \E code, version : CommitEnds(code, version)
           \/ pc' = "waiting" /\ UNCHANGED block
    BY <1>11 DEF Reread, RereadLost, AfterPut
  <2> QED
    BY <1>6, <2>1 DEF Writing, BeforePut, AfterPut
<1>12. CASE CheckConvergence \/ ConvergenceTimeout
  <2>1. /\ pc \in AfterPut
        /\ \/ \E code, version : CommitEnds(code, version)
           \/ pc' = pc /\ UNCHANGED block
    <3>1. CASE ConvergenceTimeout
      BY <3>1 DEF ConvergenceTimeout, Deadline, AfterPut
    <3>2. CASE CheckConvergence /\ step < Len(pluginIDs)
      BY <3>2 DEF CheckConvergence, AfterPut
    <3>3. CASE CheckConvergence /\ ~ (step < Len(pluginIDs))
      BY <3>3 DEF CheckConvergence, AfterPut
    <3> QED
      BY <1>12, <3>1, <3>2, <3>3
  <2> QED
    BY <1>6, <2>1 DEF Writing, BeforePut, AfterPut
<1> QED
  BY <1>1, <1>2, <1>3, <1>4, <1>5, <1>7, <1>8, <1>9, <1>10, <1>11, <1>12

\* A step of a reconcile that is at work.
LEMMA ReconcileSteps ==
  ASSUME Shape, AskIdle \/ VerifyGet \/ VerifyStatus \/ VerifyAgain \/ ClearBlock
  PROVE  /\ pc \in Reconciling
         /\ \/ pc' \in Reconciling /\ UNCHANGED block
            \/ Ended("reconcile_failed", NoVersion)
            \/ ClearBlock
<1>1. CASE AskIdle
  BY <1>1, EndFacts DEF AskIdle, Onward, ReconcileFails, Reconciling
<1>2. CASE VerifyGet
  BY <1>2, EndFacts DEF VerifyGet, ReconcileFails, Reconciling
<1>3. CASE VerifyStatus
  BY <1>3, EndFacts DEF VerifyStatus, Onward, ReconcileFails, Reconciling
<1>4. CASE VerifyAgain
  BY <1>4, EndFacts DEF VerifyAgain, ReconcileFails, Reconciling
<1>5. CASE ClearBlock
  BY <1>5 DEF ClearBlock, Reconciling
<1> QED
  BY <1>1, <1>2, <1>3, <1>4, <1>5

\* Steps of the world that are no restart.
LEMMA CoreSteps ==
  ASSUME Shape, Core, ~ Restart
  PROVE  /\ UNCHANGED <<block, outcome, base, step, pre, put, puts, planner, at>>
         /\ pc' = pc \/ (pc = "planning" /\ pc' = "asking")
         /\ late' \subseteq late
<1>1. CASE \E ofPlugin \in BOOLEAN : Edit(ofPlugin)
  BY <1>1 DEF Edit, locals, results
<1>2. CASE \E p \in Plugins : Reload(p) \/ Replace(p)
  BY <1>2 DEF Reload, Replace, locals, results
<1>3. CASE \E p \in Planners : PlanEnds(p)
  BY <1>3 DEF PlanEnds, locals, results
<1>4. CASE \E l \in late : LatePut(l) \/ LateDropped(l)
  BY <1>4 DEF LatePut, LateDropped, locals, results
<1> QED
  BY <1>1, <1>2, <1>3, <1>4 DEF Core

LEMMA Phases ==
  /\ pc = "idle" => GatePhase = "idle"
  /\ pc \in Writing => GatePhase = "writing"
  /\ pc \in Reconciling => GatePhase = "reconciling"
<1>1. /\ pc = "idle" => GatePhase = "idle"
      /\ pc \in Reconciling => GatePhase = "reconciling"
  BY DEF GatePhase, Reconciling
<1>2. pc \in Writing => GatePhase = "writing"
  BY DEF GatePhase, Writing, BeforePut, AfterPut
<1> QED
  BY <1>1, <1>2

LEMMA PhasesNext ==
  /\ pc' = "idle" => GatePhase' = "idle"
  /\ pc' \in Writing => GatePhase' = "writing"
  /\ pc' \in Reconciling => GatePhase' = "reconciling"
<1>1. /\ pc' = "idle" => GatePhase' = "idle"
      /\ pc' \in Reconciling => GatePhase' = "reconciling"
  BY DEF GatePhase, Reconciling
<1>2. pc' \in Writing => GatePhase' = "writing"
  BY DEF GatePhase, Writing, BeforePut, AfterPut
<1> QED
  BY <1>1, <1>2

LEMMA GateStep ==
  ASSUME Shape, [Next]_vars PROVE [Gate!Next]_(Gate!vars)
<1> USE DEF Gate!vars
<1>0. AtWork /\ "idle" \notin Writing
  BY IdlePc DEF Shape
<1>1. CASE UNCHANGED <<pc, block>>
  BY <1>1 DEF GatePhase
<1>2. CASE Core
  <2>1. CASE Restart
    <3>1. block'.code = "startup_reconcile_required" /\ GatePhase' = "idle"
      BY <2>1, PhasesNext DEF Restart, StartupBlock, NoBlock
    <3> QED
      BY <3>1 DEF Gate!Next, Gate!Crash
  <2>2. CASE ~ Restart
    <3>1. UNCHANGED block /\ (pc' = pc \/ (pc \in Writing /\ pc' \in Writing))
      BY <1>2, <2>2, CoreSteps DEF Writing, BeforePut
    <3> QED
      BY <1>1, <3>1, Phases, PhasesNext
  <2> QED
    BY <2>1, <2>2
<1>3. ASSUME NEW code, NEW version, Ended(code, version), pc \in Writing
      PROVE  Gate!EndWrite
  <2>1. GatePhase = "writing" /\ GatePhase' = "idle"
    BY <1>3, Phases, PhasesNext DEF Ended
  <2>2. block'.code \in UncertainCode \cup {""}
    BY <1>0, <1>3, NoPreStatus DEF Ended, AtWork
  <2> QED
    BY <2>1, <2>2 DEF Gate!EndWrite
<1>4. CASE \/ Snapshot \/ CallPlanner \/ PlannerAnswers \/ PlannerUnanswered \/ AskPlanner
           \/ CommitGet \/ CaptureStatus \/ PutUnbuilt \/ PutConfig \/ Reread \/ RereadLost
           \/ CheckConvergence \/ ConvergenceTimeout
  BY <1>3, <1>4, WriteSteps, Phases, PhasesNext DEF Gate!Next
<1>5. CASE AskIdle \/ VerifyGet \/ VerifyStatus \/ VerifyAgain \/ ClearBlock
  <2>1. GatePhase = "reconciling"
    BY <1>5, ReconcileSteps, Phases
  <2>2. GatePhase' \in {"reconciling", "idle"} /\ block'.code \in {block.code, ""}
    <3>1. CASE ClearBlock
      BY <3>1, PhasesNext, NoPreStatus DEF ClearBlock
    <3>2. CASE Ended("reconcile_failed", NoVersion)
      BY <3>2, PhasesNext DEF Ended, UncertainCode
    <3>3. CASE pc' \in Reconciling /\ UNCHANGED block
      BY <3>3, PhasesNext
    <3> QED
      BY <1>5, <3>1, <3>2, <3>3, ReconcileSteps
  <2> QED
    BY <2>1, <2>2 DEF Gate!Next, Gate!Reconcile
<1>6. ASSUME NEW p \in Planners, StartRun(p) PROVE Gate!BeginWrite
  <2>1. pc = "idle" /\ pc' = "snapshot" /\ block = NoBlock /\ block' = block
    BY <1>6 DEF StartRun
  <2> QED
    BY <2>1, Phases, PhasesNext, NoPreStatus DEF Gate!BeginWrite, Writing, BeforePut
<1>7. CASE StartReconcile
  <2>1. pc = "idle" /\ pc' \in Reconciling /\ block' = block
    BY <1>7 DEF StartReconcile, Reconciling
  <2> QED
    BY <2>1, Phases, PhasesNext DEF Gate!Next, Gate!BeginReconcile
<1>8. CASE UNCHANGED vars
  BY <1>1, <1>8 DEF vars, results
<1> QED
  BY <1>2, <1>4, <1>5, <1>6, <1>7, <1>8 DEF Next, Engine, Gate!Next

\* The executor implements the abstract gate: a write runs only while nothing is
\* in doubt, it leaves no doubt or one of three, and only a reconcile removes one.
THEOREM GateTheorem == Spec => ImplementsGate
<1>1. Init => Gate!Init
  BY DEF Init, Gate!Init, StartupBlock, NoBlock, GatePhase
<1>2. Shape /\ [Next]_vars => [Gate!Next]_(Gate!vars)
  BY GateStep
<1> QED
  BY <1>1, <1>2, ShapeInvariance, PTL DEF Spec, Gate!Spec, ImplementsGate

-----------------------------------------------------------------------------
(* PUTs on their way. *)

LEMMA UnjudgedStep ==
  ASSUME Shape, UnjudgedPutIsBlocked, [Next]_vars PROVE UnjudgedPutIsBlocked'
<1>0. AtWork /\ "idle" \notin Writing
  BY IdlePc DEF Shape
<1>1. CASE late' \subseteq late /\ UNCHANGED <<pc, block>>
  BY <1>1 DEF UnjudgedPutIsBlocked
<1>2. CASE Restart
  BY <1>2 DEF Restart, UnjudgedPutIsBlocked
<1>3. CASE Core /\ ~ Restart
  <2>1. /\ late' \subseteq late /\ UNCHANGED block
        /\ pc = "rereadLost" => pc' = "rereadLost"
    BY <1>3, CoreSteps
  <2> QED
    BY <2>1 DEF UnjudgedPutIsBlocked
<1>4. CASE PutConfig
  <2>1. pc' = "rereadLost" \/ late' = late
    BY <1>4, PutCases DEF PutLands, PutRefused, PutLost
  <2>2. pc = "put" /\ block = NoBlock
    BY <1>0, <1>4 DEF PutConfig, AtWork, Writing, BeforePut
  <2> QED
    BY <2>1, <2>2 DEF UnjudgedPutIsBlocked
<1>5. CASE RereadLost
  <2>1. PICK version : Ended("commit_verification_failed", version)
    BY <1>5, CommitEndsFacts DEF RereadLost, UnansweredCode
  <2> QED
    BY <2>1 DEF Ended, UncertainCode, UnjudgedPutIsBlocked
<1>6. CASE \/ Snapshot \/ CallPlanner \/ PlannerAnswers \/ PlannerUnanswered \/ AskPlanner
           \/ CommitGet \/ CaptureStatus \/ PutUnbuilt \/ Reread
           \/ CheckConvergence \/ ConvergenceTimeout
  <2>1. pc # "rereadLost" /\ late' = late
    BY <1>6 DEF Snapshot, CallPlanner, PlannerAnswers, PlannerUnanswered, AskPlanner,
       CommitGet, CaptureStatus, PutUnbuilt, Reread, CheckConvergence, ConvergenceTimeout,
       Deadline, world
  <2>2. block = NoBlock
    BY <1>0, <1>6, WriteSteps DEF AtWork
  <2> QED
    BY <2>1, <2>2 DEF UnjudgedPutIsBlocked
<1>7. CASE StartReconcile \/ AskIdle \/ VerifyGet \/ VerifyStatus \/ VerifyAgain
  <2>1. late' = late /\ block # NoBlock
    BY <1>0, <1>7 DEF StartReconcile, AskIdle, VerifyGet, VerifyStatus, VerifyAgain, world,
       AtWork, Reconciling
  <2>2. UNCHANGED block
    <3>1. CASE StartReconcile
      BY <3>1 DEF StartReconcile
    <3>2. ~ ClearBlock \/ UNCHANGED block
      BY <1>7, <2>1 DEF StartReconcile, AskIdle, VerifyGet, VerifyStatus, VerifyAgain,
         ClearBlock
    <3> QED
      BY <1>7, <3>1, <3>2, ReconcileSteps DEF Ended, UncertainCode
  <2> QED
    BY <2>1, <2>2 DEF UnjudgedPutIsBlocked
<1>8. CASE ClearBlock
  <2>1. ASSUME NEW l \in late' PROVE l.judged
    <3>1. PICK k \in late : l = [k EXCEPT !.judged = TRUE]
      BY <1>8, <2>1 DEF ClearBlock
    <3>2. k \in LostPut
      BY DEF Shape, TypeOK
    <3> QED
      BY <3>1, <3>2 DEF LostPut
  <2> QED
    BY <2>1 DEF UnjudgedPutIsBlocked
<1>9. ASSUME NEW p \in Planners, StartRun(p) PROVE UnjudgedPutIsBlocked'
  BY <1>9 DEF StartRun, world, UnjudgedPutIsBlocked
<1>10. CASE UNCHANGED vars
  BY <1>10 DEF vars, world, results, UnjudgedPutIsBlocked
<1> QED
  BY <1>2, <1>3, <1>4, <1>5, <1>6, <1>7, <1>8, <1>9, <1>10 DEF Next, Engine

\* Between a lost answer and the reconcile that judges it a block stands, so that
\* no other run can PUT while the lost one may still land.
THEOREM UnjudgedTheorem == Spec => []UnjudgedPutIsBlocked
<1>1. Init => UnjudgedPutIsBlocked
  BY DEF Init, UnjudgedPutIsBlocked
<1>2. Shape /\ UnjudgedPutIsBlocked /\ [Next]_vars => UnjudgedPutIsBlocked'
  BY UnjudgedStep
<1> QED
  BY <1>1, <1>2, ShapeInvariance, PTL DEF Spec

-----------------------------------------------------------------------------
(* Edits. *)

\* The steps of the engine that send no PUT and judge none.
Asking ==
  \/ Snapshot \/ CallPlanner \/ PlannerAnswers \/ PlannerUnanswered \/ AskPlanner
  \/ CommitGet \/ CaptureStatus \/ PutUnbuilt \/ Reread \/ RereadLost
  \/ CheckConvergence \/ ConvergenceTimeout
  \/ StartReconcile \/ AskIdle \/ VerifyGet \/ VerifyStatus \/ VerifyAgain

LEMMA NextCases ==
  Next => Core \/ Asking \/ PutConfig \/ ClearBlock \/ (\E p \in Planners : StartRun(p))
<1> QED
  BY DEF Next, Engine, Asking

LEMMA AskingWorld ==
  ASSUME Asking
  PROVE  UNCHANGED <<config, late, runtime, pending, put, puts, counts>>
<1>1. CASE Snapshot \/ CommitGet \/ CaptureStatus \/ PutUnbuilt \/ AskPlanner \/ PlannerAnswers
  BY <1>1 DEF Snapshot, CommitGet, CaptureStatus, PutUnbuilt, AskPlanner, PlannerAnswers, world
<1>2. CASE CallPlanner \/ PlannerUnanswered
  BY <1>2 DEF CallPlanner, PlannerUnanswered, world, locals, results
<1>3. CASE Reread \/ RereadLost \/ CheckConvergence \/ ConvergenceTimeout
  BY <1>3 DEF Reread, RereadLost, CheckConvergence, ConvergenceTimeout, world
<1>4. CASE StartReconcile \/ AskIdle \/ VerifyGet \/ VerifyStatus \/ VerifyAgain
  BY <1>4 DEF StartReconcile, AskIdle, VerifyGet, VerifyStatus, VerifyAgain, world, locals
<1> QED
  BY <1>1, <1>2, <1>3, <1>4 DEF Asking

\* What the run or the reconcile has read: the config at a GET, or nothing.
LEMMA AskingBase ==
  ASSUME Asking
  PROVE  base' = base \/ (base' = config /\ pc' \in {"plan", "verifying"}) \/ base' = NoContent
<1>0. ASSUME NEW code, NEW version, End(code, version) \/ CommitEnds(code, version)
      PROVE  base' = NoContent
  BY <1>0 DEF End, CommitEnds, Forgotten
<1>1. CASE Snapshot \/ CommitGet \/ CaptureStatus
  BY <1>0, <1>1 DEF Snapshot, CommitGet, CaptureStatus
<1>2. CASE PutUnbuilt \/ AskPlanner \/ PlannerAnswers
  BY <1>0, <1>2 DEF PutUnbuilt, AskPlanner, PlannerAnswers
<1>3. CASE CallPlanner \/ PlannerUnanswered
  BY <1>3 DEF CallPlanner, PlannerUnanswered, locals
<1>4. CASE Reread \/ RereadLost
  BY <1>0, <1>4 DEF Reread, RereadLost
<1>5. CASE CheckConvergence
  <2>1. CASE step < Len(pluginIDs)
    BY <1>0, <1>5, <2>1 DEF CheckConvergence
  <2>2. CASE ~ (step < Len(pluginIDs))
    BY <1>0, <1>5, <2>2 DEF CheckConvergence
  <2> QED
    BY <2>1, <2>2
<1>6. CASE ConvergenceTimeout
  BY <1>0, <1>6 DEF ConvergenceTimeout
<1>7. CASE StartReconcile \/ AskIdle
  BY <1>0, <1>7 DEF StartReconcile, AskIdle, ReconcileFails, locals
<1>8. CASE VerifyGet
  BY <1>0, <1>8 DEF VerifyGet, ReconcileFails
<1>9. CASE VerifyStatus \/ VerifyAgain
  BY <1>0, <1>9 DEF VerifyStatus, VerifyAgain, ReconcileFails
<1> QED
  BY <1>1, <1>2, <1>3, <1>4, <1>5, <1>6, <1>7, <1>8, <1>9 DEF Asking

\* How a run gets to where the commit has compared versions.
LEMMA AskingCommitted ==
  ASSUME Shape, Asking, pc' \in {"capturing", "put"}
  PROVE  \/ CommitGet /\ at' = config.edit /\ base' = base /\ config = base
         \/ pc = "capturing" /\ at' = at /\ base' = base
<1>0. ASSUME NEW code, NEW version, End(code, version) \/ CommitEnds(code, version)
      PROVE  FALSE
  BY <1>0 DEF End, CommitEnds
<1>1. CASE Snapshot \/ CallPlanner \/ PlannerAnswers \/ PlannerUnanswered \/ AskPlanner
  BY <1>0, <1>1 DEF Snapshot, CallPlanner, PlannerAnswers, PlannerUnanswered, AskPlanner
<1>2. CASE CommitGet
  BY <1>0, <1>2 DEF CommitGet, Conflict, configVersion
<1>3. CASE CaptureStatus
  BY <1>0, <1>3 DEF CaptureStatus
<1>4. CASE PutUnbuilt \/ Reread \/ RereadLost
  BY <1>0, <1>4 DEF PutUnbuilt, Reread, RereadLost
<1>5. CASE CheckConvergence \/ ConvergenceTimeout
  <2>1. \/ \E code, version : CommitEnds(code, version)
        \/ pc = "waiting" /\ pc' = pc
    BY <1>5, <1>0 DEF CheckConvergence, ConvergenceTimeout
  <2> QED
    BY <1>0, <2>1
<1>6. CASE StartReconcile \/ AskIdle
  BY <1>0, <1>6 DEF StartReconcile, AskIdle, ReconcileFails, Onward
<1>7. CASE VerifyGet
  BY <1>0, <1>7 DEF VerifyGet, ReconcileFails
<1>8. CASE VerifyStatus \/ VerifyAgain
  BY <1>0, <1>8 DEF VerifyStatus, VerifyAgain, ReconcileFails, Onward
<1> QED
  BY <1>1, <1>2, <1>3, <1>4, <1>5, <1>6, <1>7, <1>8 DEF Asking

\* Nobody knows of an edit that was not made, and what a commit is about to write
\* over is what it compared versions with.
EditOrder ==
  /\ config.edit <= edits /\ base.edit <= edits
  /\ \A l \in late : l.content.edit <= edits /\ l.content.edit = l.at
  /\ pc \in {"capturing", "put"} => at = base.edit

LEMMA EditTypes ==
  ASSUME Shape
  PROVE  /\ edits \in Nat /\ config.edit \in Nat /\ base.edit \in Nat
         /\ \A l \in late : l.content \in Content /\ l.content.edit \in Nat
<1>1. edits \in Nat /\ config \in Content /\ base \in Content \cup {NoContent}
      /\ late \subseteq LostPut
  BY Zenon DEF Shape, TypeOK
<1> QED
  BY <1>1 DEF Content, NoContent, LostPut

LEMMA EditOrderStep ==
  ASSUME Shape, EditOrder, [Next]_vars PROVE EditOrder'
<1>0. /\ edits \in Nat /\ config.edit \in Nat /\ base.edit \in Nat
      /\ \A l \in late : l.content \in Content /\ l.content.edit \in Nat
  BY EditTypes
<1>1. ASSUME NEW ofPlugin \in BOOLEAN, Edit(ofPlugin) PROVE EditOrder'
  <2>1. edits' = edits + 1 /\ UNCHANGED <<late, base, at, pc>>
    BY <1>1 DEF Edit, locals
  <2>2. config'.edit = edits + 1
    BY <1>1, Held DEF Edit, Write, Content
  <2> QED
    BY <1>0, <2>1, <2>2 DEF EditOrder
<1>2. ASSUME NEW l \in late, LatePut(l) PROVE EditOrder'
  <2>1. config'.edit = l.content.edit
    BY <1>0, <1>2, ContentFacts DEF LatePut, Write
  <2>2. UNCHANGED <<base, at, pc, edits>> /\ late' \subseteq late
    BY <1>2 DEF LatePut, locals, counts
  <2> QED
    BY <1>0, <2>1, <2>2 DEF EditOrder
<1>3. CASE Core /\ UNCHANGED config /\ ~ Restart
  <2>1. UNCHANGED <<base, at>> /\ late' \subseteq late /\ (pc' = pc \/ pc' = "asking")
    BY <1>3, CoreSteps
  <2>2. edits' = edits \/ \E ofPlugin \in BOOLEAN : Edit(ofPlugin)
    BY <1>3 DEF Core, Reload, Replace, PlanEnds, LatePut, LateDropped, counts
  <2> QED
    BY <1>1, <1>3, <2>1, <2>2 DEF EditOrder
<1>4. CASE Restart
  <2>1. late' = {} /\ base' = NoContent /\ pc' = "idle" /\ UNCHANGED <<config, edits>>
    BY <1>4 DEF Restart, Forgotten
  <2> QED
    BY <1>0, <2>1 DEF EditOrder, NoContent
<1>5. CASE Core
  <2>1. \/ UNCHANGED config \/ \E ofPlugin \in BOOLEAN : Edit(ofPlugin)
        \/ \E l \in late : LatePut(l)
    BY <1>5 DEF Core, Reload, Replace, PlanEnds, LateDropped, Restart
  <2> QED
    BY <1>1, <1>2, <1>3, <1>4, <1>5, <2>1
<1>6. CASE Asking
  <2>1. UNCHANGED <<config, late, edits>>
    BY <1>6, AskingWorld DEF counts
  <2>2. base'.edit <= edits
    BY <1>0, <1>6, AskingBase DEF EditOrder, NoContent
  <2>3. pc' \in {"capturing", "put"} => at' = base'.edit
    BY <1>6, AskingCommitted DEF EditOrder
  <2> QED
    BY <2>1, <2>2, <2>3 DEF EditOrder
<1>7. CASE PutConfig
  <2>1. pc = "put" /\ edits' = edits /\ (PutLands \/ PutRefused \/ PutLost)
    BY <1>7, PutCases
  <2>2. /\ Body \in Content /\ Body.edit = base.edit /\ Persisted(Body).edit = base.edit
    BY <2>1, BodyFacts, ContentFacts
  <2>3. config' = config \/ config' = Persisted(Body)
    BY <2>1 DEF PutLands, PutRefused, PutLost
  <2>4. base' = base \/ base' = NoContent
    BY <2>1 DEF PutLands, PutRefused, PutLost, CommitEnds, End, Forgotten
  <2>5. late' \subseteq late \cup {[content |-> Body, at |-> at, judged |-> FALSE]}
    BY <2>1 DEF PutLands, PutRefused, PutLost
  <2>6. pc' \notin {"capturing", "put"}
    BY <2>1 DEF PutLands, PutRefused, PutLost, CommitEnds, End
  <2>7. at = base.edit
    BY <2>1 DEF EditOrder
  <2>8. config'.edit <= edits' /\ base'.edit <= edits'
    BY <1>0, <2>1, <2>2, <2>3, <2>4 DEF EditOrder, NoContent
  <2>9. \A l \in late' : l.content.edit <= edits' /\ l.content.edit = l.at
    BY <2>1, <2>2, <2>5, <2>7 DEF EditOrder
  <2> QED
    BY <2>6, <2>8, <2>9 DEF EditOrder
<1>8. CASE ClearBlock
  <2>1. /\ base' = NoContent /\ pc' = "idle" /\ UNCHANGED <<config, edits>>
        /\ late' = {[l EXCEPT !.judged = TRUE] : l \in late}
    BY <1>8 DEF ClearBlock, Forgotten, counts
  <2>2. ASSUME NEW l \in late PROVE /\ [l EXCEPT !.judged = TRUE].content = l.content
                                    /\ [l EXCEPT !.judged = TRUE].at = l.at
    <3>1. l \in LostPut
      BY DEF Shape, TypeOK
    <3> QED
      BY <3>1 DEF LostPut
  <2>3. ASSUME NEW k \in late' PROVE k.content.edit <= edits' /\ k.content.edit = k.at
    <3>1. PICK l \in late : k = [l EXCEPT !.judged = TRUE]
      BY <2>1, <2>3
    <3>2. k.content = l.content /\ k.at = l.at
      BY <2>2, <3>1
    <3> QED
      BY <2>1, <3>2 DEF EditOrder
  <2> QED
    BY <1>0, <2>1, <2>3 DEF EditOrder, NoContent
<1>9. ASSUME NEW p \in Planners, StartRun(p) PROVE EditOrder'
  BY <1>9 DEF StartRun, world, EditOrder
<1>10. CASE UNCHANGED vars
  BY <1>10 DEF vars, world, locals, counts, EditOrder
<1> QED
  BY <1>5, <1>6, <1>7, <1>8, <1>9, <1>10, NextCases

LEMMA EditsLostStep ==
  ASSUME Shape, EditOrder, [Next]_vars, config'.edit < config.edit
  PROVE  \/ pc = "put" /\ config'.edit = at
         \/ \E l \in late \ late' : config'.edit = l.at
<1>0. /\ edits \in Nat /\ config.edit \in Nat /\ base.edit \in Nat
      /\ \A l \in late : l.content \in Content /\ l.content.edit \in Nat
  BY EditTypes
<1>1. config' # config
  BY <1>0
<1>2. CASE \E ofPlugin \in BOOLEAN : Edit(ofPlugin)
  <2>1. config'.edit = edits + 1
    BY <1>2, Held DEF Edit, Write, Content
  <2> QED
    BY <1>0, <2>1 DEF EditOrder
<1>3. CASE \E l \in late : LatePut(l)
  <2>1. PICK l \in late : LatePut(l)
    BY <1>3
  <2>2. config'.edit = l.content.edit /\ l \in late \ late'
    BY <1>0, <2>1, ContentFacts DEF LatePut, Write
  <2> QED
    BY <2>2 DEF EditOrder
<1>4. CASE PutConfig
  <2>1. pc = "put" /\ config' = Persisted(Body)
    BY <1>1, <1>4, PutCases DEF PutLands, PutRefused, PutLost
  <2> QED
    BY <2>1, BodyFacts, ContentFacts DEF EditOrder
<1>5. CASE Core
  BY <1>1, <1>2, <1>3, <1>5 DEF Core, Reload, Replace, PlanEnds, LateDropped, Restart
<1>6. CASE Asking \/ ClearBlock \/ (\E p \in Planners : StartRun(p)) \/ UNCHANGED vars
  BY <1>1, <1>6, AskingWorld DEF ClearBlock, StartRun, world, vars
<1> QED
  BY <1>4, <1>5, <1>6, NextCases

\* An operator's edit is only lost to a PUT whose commit had compared versions
\* before the edit, however late that PUT lands and however often the run retried.
THEOREM EditsTheorem == Spec => EditsLostOnlyInWindow
<1>1. Init => EditOrder
  BY DEF Init, EditOrder, NoContent
<1>2. Shape /\ EditOrder /\ [Next]_vars => EditOrder'
  BY EditOrderStep
<1>3. Shape /\ EditOrder /\ [Next]_vars =>
        [config'.edit < config.edit =>
           \/ pc = "put" /\ config'.edit = at
           \/ \E l \in late \ late' : config'.edit = l.at]_vars
  BY EditsLostStep
<1> QED
  BY <1>1, <1>2, <1>3, ShapeInvariance, PTL DEF Spec, EditsLostOnlyInWindow

-----------------------------------------------------------------------------
(* Evidence: what the statuses from before a PUT say about the runtime. *)

\* Statuses s were taken from instances of the runtime r, or from older ones.
SeenIn(r, s) ==
  \A p \in Plugins : /\ s[p].instance <= r[p].instance
                     /\ s[p].instance = r[p].instance => s[p].seq <= r[p].seq

\* Whoever runs epoch e in the instance of s has been reconfigured since s.
ReconfiguredIn(r, s, e) ==
  \A p \in Plugins : /\ r[p].instance = s[p].instance
                     /\ r[p].hash.epoch = e
                     => r[p].seq > s[p].seq

\* No epoch is from the future.
EpochOrder ==
  /\ config.epoch <= epochs /\ base.epoch <= epochs
  /\ \A l \in late : l.content.epoch <= epochs
  /\ \A p \in Plugins : runtime[p].hash.epoch <= epochs

Evidence ==
  /\ EpochOrder
  /\ SeenIn(runtime, pre) /\ SeenIn(runtime, block.pre)
  /\ pc \in AfterPut => ReconfiguredIn(runtime, pre, put.epoch)
  /\ RuntimeDoubtHasEvidence

\* A reload or a replacement of p keeps what statuses say.
LEMMA RuntimeKeeps ==
  ASSUME NEW r \in [Plugins -> Instance], NEW s \in [Plugins -> Status], NEW p \in Plugins,
         NEW i \in Instance, SeenIn(r, s),
         \/ i.instance = r[p].instance /\ i.seq = r[p].seq + 1
         \/ i.instance = r[p].instance + 1
  PROVE  /\ SeenIn([r EXCEPT ![p] = i], s)
         /\ \A e : ReconfiguredIn(r, s, e) => ReconfiguredIn([r EXCEPT ![p] = i], s, e)
<1>1. /\ r[p].instance \in Nat /\ r[p].seq \in Nat /\ i.instance \in Nat /\ i.seq \in Nat
      /\ s[p].instance \in Nat /\ s[p].seq \in Nat
  BY DEF Instance, Status
<1>2. /\ s[p].instance <= r[p].instance
      /\ s[p].instance = r[p].instance => s[p].seq <= r[p].seq
  BY DEF SeenIn
<1>3. /\ s[p].instance <= i.instance
      /\ s[p].instance = i.instance => s[p].seq < i.seq
  BY <1>1, <1>2
<1>4. /\ [r EXCEPT ![p] = i][p] = i
      /\ \A q \in Plugins : q # p => [r EXCEPT ![p] = i][q] = r[q]
  OBVIOUS
<1> DEFINE r2 == [r EXCEPT ![p] = i]
<1> HIDE DEF r2
<1>5. SeenIn(r2, s)
  <2>1. ASSUME NEW q \in Plugins
        PROVE  /\ s[q].instance <= r2[q].instance
               /\ s[q].instance = r2[q].instance => s[q].seq <= r2[q].seq
    <3>1. CASE q = p
      BY <1>1, <1>3, <1>4, <3>1 DEF r2
    <3>2. CASE q # p
      BY <1>4, <3>2 DEF r2, SeenIn
    <3> QED
      BY <3>1, <3>2
  <2> QED
    BY <2>1 DEF SeenIn
<1>6. ASSUME NEW e, ReconfiguredIn(r, s, e) PROVE ReconfiguredIn(r2, s, e)
  <2>1. ASSUME NEW q \in Plugins, r2[q].instance = s[q].instance, r2[q].hash.epoch = e
        PROVE  r2[q].seq > s[q].seq
    <3>1. CASE q = p
      BY <1>1, <1>3, <1>4, <2>1, <3>1 DEF r2
    <3>2. CASE q # p
      BY <1>4, <1>6, <2>1, <3>2 DEF r2, ReconfiguredIn
    <3> QED
      BY <3>1, <3>2
  <2> QED
    BY <2>1 DEF ReconfiguredIn
<1> QED
  BY <1>5, <1>6 DEF r2

LEMMA NothingSeen ==
  ASSUME NEW r \in [Plugins -> Instance] PROVE SeenIn(r, NoPre)
<1>1. \A p \in Plugins : r[p].instance \in Nat /\ r[p].seq \in Nat
  BY DEF Instance
<1> QED
  BY <1>1 DEF SeenIn, NoPre

LEMMA EpochTypes ==
  ASSUME Shape
  PROVE  /\ epochs \in Nat /\ config.epoch \in Nat /\ base.epoch \in Nat
         /\ \A l \in late : l.content \in Content /\ l.content.epoch \in Nat
         /\ \A p \in Plugins : runtime[p].hash.epoch \in Nat
         /\ runtime \in [Plugins -> Instance] /\ pre \in [Plugins -> Status]
         /\ block.pre \in [Plugins -> Status] /\ block \in Record
<1>1. /\ epochs \in Nat /\ config \in Content /\ base \in Content \cup {NoContent}
      /\ late \subseteq LostPut /\ runtime \in [Plugins -> Instance]
      /\ pre \in [Plugins -> Status] /\ block \in Record
  BY Zenon DEF Shape, TypeOK
<1>2. config.epoch \in Nat /\ base.epoch \in Nat
  BY <1>1 DEF Content, NoContent
<1>3. \A l \in late : l.content \in Content /\ l.content.epoch \in Nat
  BY <1>1 DEF LostPut, Content
<1>4. \A p \in Plugins : runtime[p].hash.epoch \in Nat
  BY <1>1 DEF Instance, RuntimeHash
<1>5. block.pre \in [Plugins -> Status]
  BY <1>1 DEF Record
<1> QED
  BY <1>1, <1>2, <1>3, <1>4, <1>5

\* What a step of the engine makes of the statuses and of the block.
AskedPre ==
  \/ pre' = pre
  \/ pre' = NoPre /\ pc' \notin AfterPut
  \/ /\ pc' \notin AfterPut
     /\ \E p \in Plugins : pre' = [pre EXCEPT ![p] = [instance |-> runtime[p].instance,
                                                      seq |-> runtime[p].seq]]
AskedBlock ==
  \/ block' = block
  \/ /\ block'.pre = pre
     /\ block'.code = "persisted_runtime_uncertain" =>
          pc = "waiting" /\ block'.version = expectedPersisted

LEMMA EndedPre ==
  ASSUME NEW code, NEW version, Ended(code, version),
         code = "persisted_runtime_uncertain" =>
           pc = "waiting" /\ version = expectedPersisted
  PROVE  AskedPre /\ AskedBlock
<1> QED
  BY IdlePc DEF Ended, AskedPre, AskedBlock

LEMMA CommitEndedPre ==
  ASSUME NEW code, NEW version, CommitEnds(code, version),
         code = "persisted_runtime_uncertain" =>
           pc = "waiting" /\ version = expectedPersisted
  PROVE  AskedPre /\ AskedBlock
<1>1. CASE Ended(code, version)
  BY <1>1, EndedPre
<1>2. CASE pc' = "snapshot" /\ pre' = NoPre /\ block' = block
  BY <1>2 DEF AskedPre, AskedBlock, AfterPut
<1> QED
  BY <1>1, <1>2, CommitEndsFacts

LEMMA AskingPre ==
  ASSUME Shape, Asking
  PROVE  AskedPre /\ AskedBlock /\ (pc' \in AfterPut => pc \in AfterPut)
<1>0. ASSUME NEW code, NEW version, End(code, version) \/ CommitEnds(code, version),
             code # "persisted_runtime_uncertain" \/
               (pc = "waiting" /\ version = expectedPersisted)
      PROVE  AskedPre /\ AskedBlock /\ pc' \notin AfterPut
  <2>1. pc' \notin AfterPut
    BY <1>0 DEF AfterPut, End, CommitEnds
  <2> QED
    BY <1>0, <2>1, EndFacts, EndedPre, CommitEndedPre
<1>1. CASE UNCHANGED <<pre, block>> /\ (pc' \in AfterPut => pc \in AfterPut)
  BY <1>1 DEF AskedPre, AskedBlock
<1>2. CASE Snapshot
  BY <1>0, <1>1, <1>2 DEF Snapshot, AfterPut
<1>3. CASE CallPlanner \/ PlannerUnanswered
  BY <1>1, <1>3 DEF CallPlanner, PlannerUnanswered, AfterPut, locals, results
<1>4. CASE PlannerAnswers
  BY <1>0, <1>1, <1>4 DEF PlannerAnswers, AfterPut
<1>5. CASE AskPlanner
  BY <1>0, <1>5 DEF AskPlanner
<1>6. CASE CommitGet
  BY <1>0, <1>1, <1>6 DEF CommitGet, AfterPut
<1>7. CASE CaptureStatus
  <2>1. pluginIDs[step] \in Plugins
    BY <1>7, PluginFacts DEF CaptureStatus, Shape, StepInRange
  <2>2. CASE CommitEnds("core_unavailable", NoVersion)
    BY <1>0, <2>2
  <2>3. CASE ~ CommitEnds("core_unavailable", NoVersion)
    <3>1. /\ pre' = [pre EXCEPT ![pluginIDs[step]] =
                       [instance |-> runtime[pluginIDs[step]].instance,
                        seq |-> runtime[pluginIDs[step]].seq]]
          /\ Onward(Len(pluginIDs), "put") /\ block' = block /\ pc = "capturing"
      BY <1>7, <2>3 DEF CaptureStatus
    <3>2. pc' \notin AfterPut
      BY <3>1 DEF Onward, AfterPut
    <3> QED
      BY <2>1, <3>1, <3>2 DEF AskedPre, AskedBlock
  <2> QED
    BY <2>2, <2>3
<1>8. CASE PutUnbuilt
  BY <1>0, <1>8 DEF PutUnbuilt
<1>9. CASE Reread
  BY <1>0, <1>1, <1>9 DEF Reread, AfterPut
<1>10. CASE RereadLost
  BY <1>0, <1>10 DEF RereadLost, UnansweredCode
<1>11. CASE CheckConvergence
  <2>1. pc = "waiting"
    BY <1>11 DEF CheckConvergence
  <2>2. CASE step < Len(pluginIDs)
    BY <1>0, <1>1, <1>11, <2>1, <2>2 DEF CheckConvergence
  <2>3. CASE ~ (step < Len(pluginIDs))
    BY <1>0, <1>1, <1>11, <2>1, <2>3 DEF CheckConvergence
  <2> QED
    BY <2>2, <2>3
<1>12. CASE ConvergenceTimeout
  BY <1>0, <1>12 DEF ConvergenceTimeout, Deadline
<1>13. CASE StartReconcile
  BY <1>1, <1>13 DEF StartReconcile, AfterPut, locals
<1>14. CASE AskIdle
  BY <1>0, <1>1, <1>14 DEF AskIdle, ReconcileFails, Onward, AfterPut
<1>15. CASE VerifyGet
  BY <1>0, <1>1, <1>15 DEF VerifyGet, ReconcileFails, AfterPut
<1>16. CASE VerifyStatus
  BY <1>0, <1>1, <1>16 DEF VerifyStatus, ReconcileFails, Onward, AfterPut
<1>17. CASE VerifyAgain
  BY <1>0, <1>1, <1>17 DEF VerifyAgain, ReconcileFails, AfterPut
<1> QED
  BY <1>2, <1>3, <1>4, <1>5, <1>6, <1>7, <1>8, <1>9, <1>10, <1>11, <1>12, <1>13, <1>14,
     <1>15, <1>16, <1>17 DEF Asking

LEMMA EpochOrderStep ==
  ASSUME Shape, EpochOrder, [Next]_vars PROVE EpochOrder'
<1>0. /\ epochs \in Nat /\ config.epoch \in Nat /\ base.epoch \in Nat
      /\ \A l \in late : l.content \in Content /\ l.content.epoch \in Nat
      /\ \A p \in Plugins : runtime[p].hash.epoch \in Nat
      /\ runtime \in [Plugins -> Instance] /\ config \in Content
  BY EpochTypes, Held
<1>1. CASE \E ofPlugin \in BOOLEAN : Edit(ofPlugin)
  <2>1. UNCHANGED <<late, base, runtime, epochs>> /\ config'.epoch = config.epoch
    BY <1>0, <1>1 DEF Edit, Write, Content, locals
  <2> QED
    BY <2>1 DEF EpochOrder
<1>2. ASSUME NEW p \in Plugins, Reload(p) \/ Replace(p) PROVE EpochOrder'
  <2>1. UNCHANGED <<config, late, base, epochs>>
    BY <1>2 DEF Reload, Replace, locals, counts
  <2>2. \A q \in Plugins : runtime'[q].hash \in {runtime[q].hash, runtimeConfigHash(config)}
    <3>1. runtime[p] \in Instance
      BY <1>0
    <3>2. \/ runtime' = [runtime EXCEPT ![p].seq = @ + 1, ![p].hash = runtimeConfigHash(config)]
          \/ runtime' = [runtime EXCEPT ![p] = Fresh(p)]
      BY <1>2 DEF Reload, Replace
    <3> QED
      BY <1>0, <3>1, <3>2 DEF Fresh, Instance
  <2> QED
    BY <2>1, <2>2 DEF EpochOrder, runtimeConfigHash
<1>3. CASE \E p \in Planners : PlanEnds(p)
  BY <1>3 DEF PlanEnds, EpochOrder, locals, counts
<1>4. CASE \E l \in late : LatePut(l) \/ LateDropped(l)
  <2>1. PICK l \in late : LatePut(l) \/ LateDropped(l)
    BY <1>4
  <2>2. /\ UNCHANGED <<base, runtime, epochs>> /\ late' \subseteq late
        /\ config' = config \/ config' = Persisted(l.content)
    BY <2>1 DEF LatePut, LateDropped, Write, locals, counts
  <2> QED
    BY <1>0, <2>2, ContentFacts DEF EpochOrder
<1>5. CASE Restart
  <2>1. /\ UNCHANGED <<config, epochs>> /\ late' = {} /\ base' = NoContent
        /\ runtime' = [p \in Plugins |-> Fresh(p)]
    BY <1>5 DEF Restart, Forgotten
  <2> QED
    BY <1>0, <2>1 DEF EpochOrder, Fresh, runtimeConfigHash, NoContent
<1>6. CASE Asking
  <2>1. UNCHANGED <<config, late, runtime, epochs>>
    BY <1>6, AskingWorld DEF counts
  <2> QED
    BY <1>0, <1>6, <2>1, AskingBase DEF EpochOrder, NoContent
<1>7. CASE PutConfig
  <2>1. /\ pc = "put" /\ epochs' = epochs + 1 /\ runtime' = runtime
        /\ PutLands \/ PutRefused \/ PutLost
    BY <1>7, PutCases
  <2>2. /\ Body \in Content /\ Body.epoch = epochs + 1 /\ Persisted(Body).epoch = epochs + 1
    BY <2>1, BodyFacts, ContentFacts
  <2>3. config' = config \/ config' = Persisted(Body)
    BY <2>1 DEF PutLands, PutRefused, PutLost
  <2>4. base' = base \/ base' = NoContent
    BY <2>1 DEF PutLands, PutRefused, PutLost, CommitEnds, End, Forgotten
  <2>5. late' \subseteq late \cup {[content |-> Body, at |-> at, judged |-> FALSE]}
    BY <2>1 DEF PutLands, PutRefused, PutLost
  <2>6. \A n \in Nat : n <= epochs => n <= epochs'
    BY <1>0, <2>1
  <2>7. epochs + 1 <= epochs' /\ 0 <= epochs'
    BY <1>0, <2>1
  <2>8. config'.epoch <= epochs' /\ base'.epoch <= epochs'
    BY <1>0, <2>2, <2>3, <2>4, <2>6, <2>7 DEF EpochOrder, NoContent
  <2>9. ASSUME NEW l \in late' PROVE l.content.epoch <= epochs'
    <3>1. CASE l \in late
      BY <1>0, <2>6, <3>1 DEF EpochOrder
    <3>2. CASE l = [content |-> Body, at |-> at, judged |-> FALSE]
      BY <2>2, <2>7, <3>2
    <3> QED
      BY <2>5, <2>9, <3>1, <3>2
  <2>10. \A p \in Plugins : runtime'[p].hash.epoch <= epochs'
    BY <1>0, <2>1, <2>6 DEF EpochOrder
  <2> QED
    BY <2>8, <2>9, <2>10 DEF EpochOrder
<1>8. CASE ClearBlock
  <2>1. /\ base' = NoContent /\ UNCHANGED <<config, runtime, epochs>>
        /\ late' = {[l EXCEPT !.judged = TRUE] : l \in late}
    BY <1>8 DEF ClearBlock, Forgotten, counts
  <2>2. ASSUME NEW k \in late' PROVE k.content.epoch <= epochs'
    <3>1. PICK l \in late : k = [l EXCEPT !.judged = TRUE]
      BY <2>1, <2>2
    <3>2. l \in LostPut
      BY DEF Shape, TypeOK
    <3>3. k.content = l.content
      BY <3>1, <3>2 DEF LostPut
    <3> QED
      BY <2>1, <3>3 DEF EpochOrder
  <2> QED
    BY <1>0, <2>1, <2>2 DEF EpochOrder, NoContent
<1>9. ASSUME NEW p \in Planners, StartRun(p) PROVE EpochOrder'
  BY <1>9 DEF StartRun, world, EpochOrder
<1>10. CASE UNCHANGED vars
  BY <1>10 DEF vars, world, locals, counts, EpochOrder
<1> QED
  BY <1>1, <1>2, <1>3, <1>4, <1>5, <1>6, <1>7, <1>8, <1>9, <1>10, NextCases DEF Core

\* What Core's reload makes of an instance.
Reloaded(r, n, h) == [r EXCEPT !.seq = n, !.hash = h]

LEMMA ReloadedFacts ==
  ASSUME NEW r \in Instance, NEW n \in Nat, NEW h \in RuntimeHash
  PROVE  /\ Reloaded(r, n, h) \in Instance /\ Reloaded(r, n, h).instance = r.instance
         /\ Reloaded(r, n, h).seq = n /\ Reloaded(r, n, h).hash = h
<1> QED
  BY DEF Reloaded, Instance

LEMMA EvidenceStep ==
  ASSUME Shape, Evidence, [Next]_vars PROVE Evidence'
<1>0. /\ runtime \in [Plugins -> Instance] /\ pre \in [Plugins -> Status]
      /\ block.pre \in [Plugins -> Status]
      /\ EpochOrder' /\ AtWork
  BY EpochTypes, EpochOrderStep DEF Evidence, Shape
<1>1. CASE UNCHANGED <<runtime, pre, block, put>> /\ (pc' = pc \/ pc' \notin AfterPut)
  <2>1. pc' \in AfterPut => pc \in AfterPut
    BY <1>1
  <2> QED
    BY <1>0, <1>1, <2>1 DEF Evidence, RuntimeDoubtHasEvidence
<1>2. ASSUME NEW p \in Plugins, Reload(p) \/ Replace(p) PROVE Evidence'
  <2>1. UNCHANGED <<pre, block, put>> /\ (pc' \in AfterPut => pc \in AfterPut)
    BY <1>2 DEF Reload, Replace, locals, results, AfterPut
  <2>2. PICK i \in Instance : /\ runtime' = [runtime EXCEPT ![p] = i]
                              /\ \/ i.instance = runtime[p].instance
                                    /\ i.seq = runtime[p].seq + 1
                                 \/ i.instance = runtime[p].instance + 1
    <3>1. runtime[p] \in Instance /\ runtimeConfigHash(config) \in RuntimeHash
      BY <1>0, ContentFacts, Held
    <3>2. CASE Replace(p)
      <4>1. runtime' = [runtime EXCEPT ![p] = Fresh(p)]
        BY <3>2 DEF Replace
      <4>2. Fresh(p) \in Instance /\ Fresh(p).instance = runtime[p].instance + 1
        BY FreshType DEF Fresh, Shape
      <4> QED
        BY <4>1, <4>2
    <3>3. CASE Reload(p)
      <4> DEFINE new == Reloaded(runtime[p], runtime[p].seq + 1, runtimeConfigHash(config))
      <4>1. runtime[p].seq + 1 \in Nat
        BY <3>1 DEF Instance
      <4>2. new \in Instance /\ new.instance = runtime[p].instance
            /\ new.seq = runtime[p].seq + 1
        BY <3>1, <4>1, ReloadedFacts
      <4>3. runtime' = [runtime EXCEPT ![p] = new]
        BY <3>3 DEF Reload, Reloaded
      <4> HIDE DEF new
      <4> QED
        BY <4>2, <4>3
    <3> QED
      BY <1>2, <3>2, <3>3
  <2>3. SeenIn(runtime', pre) /\ SeenIn(runtime', block.pre)
    BY <1>0, <2>2, RuntimeKeeps DEF Evidence
  <2>4. /\ ReconfiguredIn(runtime, pre, put.epoch) => ReconfiguredIn(runtime', pre, put.epoch)
        /\ ReconfiguredIn(runtime, block.pre, put.epoch)
             => ReconfiguredIn(runtime', block.pre, put.epoch)
    BY <1>0, <2>2, RuntimeKeeps DEF Evidence
  <2>5. block.code = "persisted_runtime_uncertain" =>
          block.version = Persisted(put) /\ ReconfiguredIn(runtime, block.pre, put.epoch)
    BY DEF Evidence, RuntimeDoubtHasEvidence, ReconfiguredIn
  <2>6. RuntimeDoubtHasEvidence'
    BY <2>1, <2>4, <2>5 DEF RuntimeDoubtHasEvidence, ReconfiguredIn
  <2>7. pc' \in AfterPut => ReconfiguredIn(runtime', pre', put'.epoch)
    BY <2>1, <2>4 DEF Evidence
  <2> QED
    BY <1>0, <2>1, <2>3, <2>6, <2>7 DEF Evidence
<1>3. CASE Restart
  <2>1. pre' = NoPre /\ block' = StartupBlock /\ pc' = "idle"
    BY <1>3 DEF Restart, Forgotten
  <2>2. block'.pre = NoPre /\ block'.code = "startup_reconcile_required"
    BY <2>1 DEF StartupBlock, NoBlock
  <2>3. runtime' \in [Plugins -> Instance]
    BY <1>3, FreshType DEF Restart, Shape
  <2>4. SeenIn(runtime', pre') /\ SeenIn(runtime', block'.pre)
    BY <2>1, <2>2, <2>3, NothingSeen
  <2>5. RuntimeDoubtHasEvidence' /\ pc' \notin AfterPut
    BY <2>1, <2>2, IdlePc DEF RuntimeDoubtHasEvidence
  <2> QED
    BY <1>0, <2>4, <2>5 DEF Evidence
<1>4. CASE Core /\ UNCHANGED runtime
  <2>1. CASE Restart
    BY <1>3, <2>1
  <2>2. CASE ~ Restart
    <3>1. UNCHANGED <<pre, block, put>> /\ (pc' = pc \/ pc' = "asking")
      BY <1>4, <2>2, CoreSteps
    <3> QED
      BY <1>1, <1>4, <3>1 DEF AfterPut
  <2> QED
    BY <2>1, <2>2
<1>5. CASE Core
  <2>1. UNCHANGED runtime \/ Restart \/ \E p \in Plugins : Reload(p) \/ Replace(p)
    BY <1>5 DEF Core, Edit, PlanEnds, LatePut, LateDropped
  <2> QED
    BY <1>2, <1>3, <1>4, <1>5, <2>1
<1>6. CASE Asking
  <2>1. UNCHANGED <<runtime, put>>
    BY <1>6, AskingWorld
  <2>2. AskedPre /\ AskedBlock /\ (pc' \in AfterPut => pc \in AfterPut)
    BY <1>6, AskingPre
  <2>3. SeenIn(runtime', pre')
    <3>1. CASE pre' = pre
      BY <2>1, <3>1 DEF Evidence
    <3>2. CASE pre' = NoPre
      BY <1>0, <2>1, <3>2, NothingSeen
    <3>3. ASSUME NEW p \in Plugins,
                 pre' = [pre EXCEPT ![p] = [instance |-> runtime[p].instance,
                                            seq |-> runtime[p].seq]]
          PROVE  SeenIn(runtime', pre')
      <4>1. runtime[p].instance \in Nat /\ runtime[p].seq \in Nat
        BY <1>0 DEF Instance
      <4>2. pre'[p].instance = runtime[p].instance /\ pre'[p].seq = runtime[p].seq
            /\ \A q \in Plugins : q # p => pre'[q] = pre[q]
        BY <1>0, <3>3
      <4>3. SeenIn(runtime, pre)
        BY DEF Evidence
      <4> QED
        BY <2>1, <4>1, <4>2, <4>3 DEF SeenIn
    <3> QED
      BY <2>2, <3>1, <3>2, <3>3 DEF AskedPre
  <2>4. SeenIn(runtime', block'.pre)
    BY <2>1, <2>2 DEF AskedBlock, Evidence
  <2>5. pc' \in AfterPut => ReconfiguredIn(runtime', pre', put'.epoch)
    <3>1. ASSUME pc' \in AfterPut PROVE pre' = pre
      BY <2>2, <3>1 DEF AskedPre
    <3> QED
      BY <2>1, <2>2, <3>1 DEF Evidence
  <2>6. RuntimeDoubtHasEvidence'
    <3>1. CASE block' = block
      BY <2>1, <3>1 DEF Evidence, RuntimeDoubtHasEvidence
    <3>2. CASE /\ block'.pre = pre
               /\ block'.code = "persisted_runtime_uncertain" =>
                    pc = "waiting" /\ block'.version = expectedPersisted
      <4>1. pc = "waiting" => ReconfiguredIn(runtime, pre, put.epoch)
        BY DEF Evidence, AfterPut
      <4> QED
        BY <2>1, <3>2, <4>1
        DEF RuntimeDoubtHasEvidence, ReconfiguredIn, expectedPersisted
    <3> QED
      BY <2>2, <3>1, <3>2 DEF AskedBlock
  <2> QED
    BY <1>0, <2>3, <2>4, <2>5, <2>6 DEF Evidence
<1>7. CASE PutConfig
  <2>1. /\ pc = "put" /\ put' = Body /\ runtime' = runtime
        /\ PutLands \/ PutRefused \/ PutLost
    BY <1>7, PutCases
  <2>2. Body.epoch = epochs + 1
    BY <2>1, BodyFacts
  <2>3. block = NoBlock
    BY <1>0, <2>1 DEF AtWork, Writing, BeforePut
  <2>4. block' = NoBlock /\ (pre' = pre \/ (pre' = NoPre /\ pc' = "idle"))
    <3>1. CASE PutRefused
      BY <2>3, <3>1, CommitEndsFacts DEF PutRefused, Ended, UncertainCode
    <3>2. CASE PutLands \/ PutLost
      BY <2>3, <3>2 DEF PutLands, PutLost
    <3> QED
      BY <2>1, <3>1, <3>2
  <2>5. SeenIn(runtime', pre')
    BY <1>0, <2>1, <2>4, NothingSeen DEF Evidence
  <2>6. SeenIn(runtime', block'.pre)
    BY <2>1, <2>3, <2>4 DEF Evidence
  <2>7. ReconfiguredIn(runtime', pre', put'.epoch)
    <3>1. ASSUME NEW p \in Plugins PROVE runtime'[p].hash.epoch # put'.epoch
      <4>1. runtime[p].hash.epoch \in Nat /\ epochs \in Nat /\ runtime[p].hash.epoch <= epochs
        BY EpochTypes DEF Evidence, EpochOrder
      <4> QED
        BY <2>1, <2>2, <4>1
    <3> QED
      BY <3>1 DEF ReconfiguredIn
  <2>8. RuntimeDoubtHasEvidence'
    BY <2>4, NoPreStatus DEF RuntimeDoubtHasEvidence
  <2> QED
    BY <1>0, <2>5, <2>6, <2>7, <2>8 DEF Evidence
<1>8. CASE ClearBlock
  <2>1. pre' = NoPre /\ block' = NoBlock /\ pc' = "idle" /\ runtime' = runtime
    BY <1>8 DEF ClearBlock, Forgotten
  <2>2. block'.pre = NoPre /\ block'.code = ""
    BY <2>1 DEF NoBlock
  <2>3. RuntimeDoubtHasEvidence' /\ pc' \notin AfterPut
    BY <2>1, <2>2, IdlePc DEF RuntimeDoubtHasEvidence
  <2> QED
    BY <1>0, <2>1, <2>2, <2>3, NothingSeen DEF Evidence
<1>9. ASSUME NEW p \in Planners, StartRun(p) PROVE Evidence'
  <2>1. /\ pc' = "snapshot" /\ block = NoBlock /\ UNCHANGED <<block, pre, runtime>>
    BY <1>9 DEF StartRun, world
  <2>2. RuntimeDoubtHasEvidence' /\ pc' \notin AfterPut
    BY <2>1, NoPreStatus DEF RuntimeDoubtHasEvidence, AfterPut
  <2> QED
    BY <1>0, <2>1, <2>2 DEF Evidence
<1>10. CASE UNCHANGED vars
  BY <1>1, <1>10 DEF vars, world, locals, results
<1> QED
  BY <1>5, <1>6, <1>7, <1>8, <1>9, <1>10, NextCases

\* A block on a runtime that did not converge names the file of the PUT, and any
\* plugin that comes to run the PUT's epoch has been reconfigured since its status
\* was taken: sync epochs are never reused, so a reconcile cannot be misled.
THEOREM EvidenceTheorem == Spec => []RuntimeDoubtHasEvidence
<1>1. Init => Evidence
  <2> SUFFICES ASSUME Init PROVE Evidence
    OBVIOUS
  <2>1. Shape /\ pre = NoPre /\ block.pre = NoPre /\ block.code = "startup_reconcile_required"
        /\ pc = "idle"
    BY InitShape DEF Init, StartupBlock, NoBlock
  <2>2. EpochOrder
    BY DEF Init, EpochOrder, runtimeConfigHash, NoContent
  <2>3. runtime \in [Plugins -> Instance]
    BY <2>1, EpochTypes
  <2> QED
    BY <2>1, <2>2, <2>3, NothingSeen, IdlePc DEF Evidence, RuntimeDoubtHasEvidence
<1>2. Shape /\ Evidence /\ [Next]_vars => Evidence'
  BY EvidenceStep
<1>3. Evidence => RuntimeDoubtHasEvidence
  BY DEF Evidence
<1> QED
  BY <1>1, <1>2, <1>3, ShapeInvariance, PTL DEF Spec

-----------------------------------------------------------------------------
(* Verdicts: what the plugins run while nobody writes the file. *)

\* Every plugin of runtime r runs file c; the first n - 1 of them do.
AllRun(r, c) == \A p \in Plugins : r[p].hash = runtimeConfigHash(c)
RunBefore(r, c, n) == \A i \in 1 .. Len(pluginIDs) :
                        i < n => r[pluginIDs[i]].hash = runtimeConfigHash(c)

\* Without a write since the last GET that counts, a round of statuses finds what
\* it has found before, and a file all plugins ran is one they still run.
Verdict ==
  /\ quiet =>
       /\ block.code \in {"", "planner_stalled"} /\ pc # "waiting" => AllRun(runtime, config)
       /\ pc = "waiting" => config = Persisted(put) /\ RunBefore(runtime, config, step)
       /\ pc = "verifying" => config = base /\ RunBefore(runtime, config, step)
       /\ pc \in {"verifyAgain", "clearing"} => AllRun(runtime, config)
       /\ outcome = "succeeded" => config = Persisted(put)
  /\ outcome \in {"succeeded", "cleared"} => block = NoBlock
  /\ pc = "askIdle" => block.code = "planner_stalled"
  /\ pc \in {"verifyGet", "verifying", "verifyAgain"} =>
       block.code \notin {"", "planner_stalled"}

\* A round that has come past the last plugin has found them all.
LEMMA RoundOver ==
  ASSUME NEW r, NEW c, NEW n, n = Len(pluginIDs), RunBefore(r, c, n),
         r[pluginIDs[n]].hash = runtimeConfigHash(c)
  PROVE  AllRun(r, c)
<1>1. ASSUME NEW i \in 1 .. Len(pluginIDs) PROVE r[pluginIDs[i]].hash = runtimeConfigHash(c)
  <2>1. CASE i = n
    BY <2>1
  <2>2. CASE i # n
    <3>1. i < n
      BY <2>2, PluginFacts
    <3> QED
      BY <3>1 DEF RunBefore
  <2> QED
    BY <2>1, <2>2
<1> QED
  BY <1>1, PluginFacts DEF AllRun

\* A round goes on after a plugin that runs the file.
LEMMA RoundOn ==
  ASSUME NEW r, NEW c, NEW n \in Nat, RunBefore(r, c, n),
         r[pluginIDs[n]].hash = runtimeConfigHash(c)
  PROVE  RunBefore(r, c, n + 1)
<1>1. ASSUME NEW i \in 1 .. Len(pluginIDs), i < n + 1
      PROVE  r[pluginIDs[i]].hash = runtimeConfigHash(c)
  <2>1. i < n \/ i = n
    BY <1>1, PluginFacts
  <2> QED
    BY <2>1 DEF RunBefore
<1> QED
  BY <1>1 DEF RunBefore

LEMMA RoundStarts ==
  ASSUME NEW r, NEW c PROVE RunBefore(r, c, 1)
<1> QED
  BY PluginFacts DEF RunBefore

\* A plugin that Core configures from the file runs it.
LEMMA ConfiguredRuns ==
  ASSUME Shape, NEW p \in Plugins, Reload(p) \/ Replace(p)
  PROVE  /\ runtime'[p].hash = runtimeConfigHash(config)
         /\ \A q \in Plugins : q # p => runtime'[q] = runtime[q]
         /\ UNCHANGED config
<1>0. runtime \in [Plugins -> Instance] /\ runtimeConfigHash(config) \in RuntimeHash
  BY EpochTypes, ContentFacts, Held
<1>1. CASE Replace(p)
  BY <1>0, <1>1 DEF Replace, Fresh
<1>2. CASE Reload(p)
  <2> DEFINE new == Reloaded(runtime[p], runtime[p].seq + 1, runtimeConfigHash(config))
  <2>1. runtime[p].seq + 1 \in Nat
    BY <1>0 DEF Instance
  <2>2. new.hash = runtimeConfigHash(config)
    BY <1>0, <2>1, ReloadedFacts
  <2>3. runtime' = [runtime EXCEPT ![p] = new] /\ UNCHANGED config
    BY <1>2 DEF Reload, Reloaded
  <2> HIDE DEF new
  <2> QED
    BY <1>0, <2>2, <2>3
<1> QED
  BY <1>1, <1>2

LEMMA ConfiguredKeeps ==
  ASSUME Shape, NEW p \in Plugins, Reload(p) \/ Replace(p)
  PROVE  /\ AllRun(runtime, config) => AllRun(runtime', config')
         /\ \A n : RunBefore(runtime, config, n) => RunBefore(runtime', config', n)
<1> QED
  BY ConfiguredRuns, PluginFacts DEF AllRun, RunBefore

LEMMA VerdictCore ==
  ASSUME Shape, Verdict, Core PROVE Verdict'
<1>1. CASE Restart
  <2>1. /\ quiet' = FALSE /\ outcome' = "none" /\ pc' = "idle"
    BY <1>1 DEF Restart
  <2> QED
    BY <2>1 DEF Verdict
<1>2. CASE ~ Restart
  <2>1. /\ UNCHANGED <<block, outcome, base, step, put>>
        /\ pc' = pc \/ (pc = "planning" /\ pc' = "asking")
    BY <1>2, CoreSteps
  <2>2. CASE quiet' = FALSE
    BY <2>1, <2>2 DEF Verdict
  <2>3. CASE \E p \in Plugins : Reload(p) \/ Replace(p)
    <3>1. PICK p \in Plugins : Reload(p) \/ Replace(p)
      BY <2>3
    <3>2. UNCHANGED <<quiet, config>>
      BY <3>1 DEF Reload, Replace
    <3>3. /\ AllRun(runtime, config) => AllRun(runtime', config')
          /\ \A n : RunBefore(runtime, config, n) => RunBefore(runtime', config', n)
      BY <3>1, ConfiguredKeeps
    <3> QED
      BY <2>1, <3>2, <3>3 DEF Verdict
  <2>4. CASE UNCHANGED <<quiet, config, runtime>>
    BY <2>1, <2>4 DEF Verdict
  <2>5. \/ quiet' = FALSE \/ UNCHANGED <<quiet, config, runtime>>
        \/ \E p \in Plugins : Reload(p) \/ Replace(p)
    BY <1>2 DEF Core, Edit, PlanEnds, LatePut, LateDropped, Write
  <2> QED
    BY <2>2, <2>3, <2>4, <2>5
<1> QED
  BY <1>1, <1>2

\* A run that ends, other than by success, before it waits for its PUT, or with a
\* doubt about the PUT.
LEMMA VerdictEnded ==
  ASSUME Shape, Verdict, pc \in Writing, NEW code, NEW version, Ended(code, version),
         code \notin {"succeeded", "cleared"},
         pc = "waiting" => code = "persisted_runtime_uncertain",
         UNCHANGED <<config, runtime, quiet>>
  PROVE  Verdict'
<1>1. block = NoBlock /\ block.code = ""
  BY NoPreStatus DEF Shape, AtWork
<1>2. pc' = "idle" /\ outcome' = code
  BY DEF Ended
<1>3. CASE pc # "waiting"
  <2>1. quiet' => AllRun(runtime', config')
    BY <1>1, <1>3 DEF Verdict
  <2> QED
    BY <1>2, <2>1 DEF Verdict
<1>4. CASE pc = "waiting"
  <2>1. block'.code = "persisted_runtime_uncertain"
    BY <1>4 DEF Ended, UncertainCode
  <2> QED
    BY <1>2, <2>1 DEF Verdict
<1> QED
  BY <1>3, <1>4

\* A run that goes on without having waited for its PUT.
LEMMA VerdictGoes ==
  ASSUME Shape, Verdict, pc \in Writing, pc # "waiting",
         pc' \in Writing \ {"waiting"}, UNCHANGED <<block, config, runtime, quiet>>,
         outcome' = outcome
  PROVE  Verdict'
<1>1. block = NoBlock /\ block.code = "" /\ outcome = "none"
  BY NoPreStatus, IdlePc DEF Shape, AtWork
<1>2. pc' \notin {"askIdle", "verifyGet", "verifying", "verifyAgain", "clearing", "waiting"}
  BY DEF Writing, BeforePut, AfterPut
<1> QED
  BY <1>1, <1>2 DEF Verdict

LEMMA VerdictCommitEnds ==
  ASSUME Shape, Verdict, pc \in Writing, NEW code, NEW version, CommitEnds(code, version),
         code \notin {"succeeded", "cleared"},
         pc = "waiting" => code = "persisted_runtime_uncertain",
         UNCHANGED <<config, runtime, quiet>>
  PROVE  Verdict'
<1>1. CASE Ended(code, version)
  BY <1>1, VerdictEnded
<1>2. CASE code = "version_conflict" /\ pc' = "snapshot" /\ UNCHANGED <<planner, block, outcome>>
  <2>1. pc # "waiting" /\ pc' \in Writing \ {"waiting"}
    BY <1>2 DEF Writing, BeforePut
  <2> QED
    BY <1>2, <2>1, VerdictGoes
<1> QED
  BY <1>1, <1>2, CommitEndsFacts

\* What the run does before it waits.
LEMMA VerdictWriting ==
  ASSUME Shape, Verdict,
         \/ Snapshot \/ CallPlanner \/ PlannerAnswers \/ PlannerUnanswered \/ AskPlanner
         \/ CommitGet \/ CaptureStatus \/ PutUnbuilt \/ RereadLost
  PROVE  Verdict'
<1>1. pc \in Writing /\ pc # "waiting"
  <2>1. pc # "waiting"
    BY DEF Snapshot, CallPlanner, PlannerAnswers, PlannerUnanswered, AskPlanner, CommitGet,
       CaptureStatus, PutUnbuilt, RereadLost
  <2> QED
    BY <2>1, WriteSteps
<1>2. UNCHANGED <<config, runtime, quiet>>
  BY DEF Snapshot, CallPlanner, PlannerAnswers, PlannerUnanswered, AskPlanner, CommitGet,
     CaptureStatus, PutUnbuilt, RereadLost, world
<1>3. ASSUME NEW code, NEW version, End(code, version) \/ CommitEnds(code, version),
             code \notin {"succeeded", "cleared"}
      PROVE  Verdict'
  BY <1>1, <1>2, <1>3, EndFacts, VerdictEnded, VerdictCommitEnds
<1>4. CASE pc' \in Writing \ {"waiting"} /\ UNCHANGED <<block, outcome>>
  BY <1>1, <1>2, <1>4, VerdictGoes
<1>5. CASE Snapshot
  BY <1>3, <1>4, <1>5 DEF Snapshot, Writing, BeforePut
<1>6. CASE CallPlanner \/ PlannerUnanswered
  BY <1>4, <1>6 DEF CallPlanner, PlannerUnanswered, results, Writing, BeforePut
<1>7. CASE PlannerAnswers
  BY <1>3, <1>4, <1>7 DEF PlannerAnswers, Writing, BeforePut
<1>8. CASE AskPlanner
  BY <1>3, <1>8 DEF AskPlanner
<1>9. CASE CommitGet
  BY <1>3, <1>4, <1>9 DEF CommitGet, Writing, BeforePut
<1>10. CASE CaptureStatus
  BY <1>3, <1>4, <1>10 DEF CaptureStatus, Onward, Writing, BeforePut
<1>11. CASE PutUnbuilt
  BY <1>3, <1>11 DEF PutUnbuilt
<1>12. CASE RereadLost
  BY <1>3, <1>12 DEF RereadLost, UnansweredCode
<1> QED
  BY <1>5, <1>6, <1>7, <1>8, <1>9, <1>10, <1>11, <1>12

LEMMA VerdictPut ==
  ASSUME Shape, Verdict, PutConfig PROVE Verdict'
<1>1. /\ pc = "put" /\ pc \in Writing /\ runtime' = runtime
      /\ PutLands \/ PutRefused \/ PutLost
  BY PutCases DEF Writing, BeforePut
<1>2. block = NoBlock /\ block.code = "" /\ outcome = "none"
  BY <1>1, NoPreStatus DEF Shape, AtWork
<1>3. CASE PutRefused
  BY <1>1, <1>3, VerdictCommitEnds DEF PutRefused
<1>4. CASE PutLands
  BY <1>2, <1>4 DEF PutLands, Verdict
<1>5. CASE PutLost
  <2>1. pc' \in Writing \ {"waiting"} /\ UNCHANGED <<block, config, runtime, quiet, outcome>>
    BY <1>1, <1>5 DEF PutLost, Writing, AfterPut
  <2> QED
    BY <1>1, <2>1, VerdictGoes
<1> QED
  BY <1>1, <1>3, <1>4, <1>5

LEMMA VerdictReread ==
  ASSUME Shape, Verdict, Reread PROVE Verdict'
<1>1. pc = "reread" /\ pc \in Writing /\ UNCHANGED <<config, runtime, put>>
  BY DEF Reread, world, Writing, AfterPut
<1>2. CASE UNCHANGED quiet /\ \E version : CommitEnds("commit_verification_failed", version)
  BY <1>1, <1>2, VerdictCommitEnds
<1>3. CASE /\ config = expectedPersisted /\ pc' = "waiting"
           /\ UNCHANGED <<step, block, outcome>>
  <2>1. step' = 1 /\ block.code = "" /\ outcome = "none"
    BY <1>1, <1>3, NoPreStatus DEF Shape, StepInRange, AtWork
  <2>2. RunBefore(runtime', config', step')
    BY <2>1, RoundStarts
  <2> QED
    BY <1>1, <1>3, <2>1, <2>2 DEF Verdict, expectedPersisted
<1> QED
  BY <1>2, <1>3 DEF Reread

LEMMA VerdictWaiting ==
  ASSUME Shape, Verdict, CheckConvergence \/ ConvergenceTimeout PROVE Verdict'
<1>1. /\ pc = "waiting" /\ pc \in Writing
      /\ UNCHANGED <<config, runtime, put, quiet>>
  BY DEF CheckConvergence, ConvergenceTimeout, Deadline, world, Writing, AfterPut
<1>2. /\ block = NoBlock /\ block.code = "" /\ outcome = "none"
      /\ step \in 1 .. Len(pluginIDs) /\ step \in Nat
      /\ quiet => config = Persisted(put) /\ RunBefore(runtime, config, step)
  BY <1>1, NoPreStatus, Held DEF Shape, AtWork, StepInRange, Verdict
<1>3. Runs(pluginIDs[step]) /\ quiet
        => runtime[pluginIDs[step]].hash = runtimeConfigHash(config)
  BY <1>2 DEF Runs, runtimeConfigHash, Persisted, Content, Shape, TypeOK
<1>4. CASE CommitEnds("persisted_runtime_uncertain", expectedPersisted)
  BY <1>1, <1>4, VerdictCommitEnds
<1>5. CASE step' = 1 /\ UNCHANGED <<pc, block, outcome>>
  BY <1>1, <1>2, <1>5, RoundStarts DEF Verdict
<1>6. CASE step' = step + 1 /\ Runs(pluginIDs[step]) /\ UNCHANGED <<pc, block, outcome>>
  <2>1. quiet => RunBefore(runtime, config, step + 1)
    BY <1>2, <1>3, <1>6, RoundOn
  <2> QED
    BY <1>1, <1>2, <1>6, <2>1 DEF Verdict
<1>7. CASE /\ step = Len(pluginIDs) /\ Runs(pluginIDs[step])
           /\ CommitEnds("succeeded", expectedPersisted)
  <2>1. /\ pc' = "idle" /\ outcome' = "succeeded" /\ block' = NoBlock
    <3>1. Ended("succeeded", expectedPersisted)
      BY <1>7, CommitEndsFacts
    <3> QED
      BY <1>2, <3>1 DEF Ended, UncertainCode
  <2>2. quiet => AllRun(runtime, config)
    BY <1>2, <1>3, <1>7, RoundOver
  <2> QED
    BY <1>1, <1>2, <2>1, <2>2 DEF Verdict
<1>8. CASE ConvergenceTimeout
  BY <1>4, <1>8 DEF ConvergenceTimeout
<1>9. CASE CheckConvergence
  <2>1. CASE step < Len(pluginIDs)
    BY <1>4, <1>5, <1>6, <1>9, <2>1 DEF CheckConvergence
  <2>2. CASE ~ (step < Len(pluginIDs))
    <3>1. step = Len(pluginIDs)
      <4>1. step \in 1 .. Len(pluginIDs) /\ Len(pluginIDs) \in Nat
        BY <1>2, PluginFacts
      <4> QED
        BY <2>2, <4>1
    <3> QED
      BY <1>4, <1>5, <1>7, <1>9, <2>2, <3>1 DEF CheckConvergence
  <2> QED
    BY <2>1, <2>2
<1> QED
  BY <1>8, <1>9

LEMMA VerdictReconcile ==
  ASSUME Shape, Verdict,
         StartReconcile \/ AskIdle \/ VerifyGet \/ VerifyStatus \/ VerifyAgain
  PROVE  Verdict'
<1>1. /\ pc # "waiting" /\ UNCHANGED <<config, runtime, put, block>> /\ block # NoBlock
      /\ block.code # ""
  <2>1. pc # "waiting" /\ block # NoBlock
    BY DEF StartReconcile, AskIdle, VerifyGet, VerifyStatus, VerifyAgain, Shape, AtWork,
       Reconciling
  <2>2. UNCHANGED <<config, runtime, put>>
    BY AskingWorld DEF Asking
  <2>3. UNCHANGED block
    BY EndFacts DEF StartReconcile, AskIdle, VerifyGet, VerifyStatus, VerifyAgain, ReconcileFails,
       Ended, UncertainCode
  <2> QED
    BY <2>1, <2>2, <2>3 DEF Shape, AtWork
<1>2. ASSUME ReconcileFails, UNCHANGED quiet PROVE Verdict'
  <2>1. pc' = "idle" /\ outcome' = "reconcile_failed"
    BY <1>2 DEF ReconcileFails, End
  <2> QED
    BY <1>1, <1>2, <2>1 DEF Verdict
<1>3. CASE StartReconcile
  <2>1. /\ outcome' = "none" /\ UNCHANGED quiet
        /\ \/ block.code = "planner_stalled" /\ pc' = "askIdle"
           \/ block.code # "planner_stalled" /\ pc' = "verifyGet"
    BY <1>3 DEF StartReconcile
  <2> QED
    BY <1>1, <2>1 DEF Verdict
<1>4. CASE AskIdle
  <2>1. CASE ReconcileFails
    BY <1>2, <1>4, <2>1 DEF AskIdle
  <2>2. CASE ~ ReconcileFails
    <3>1. pc = "askIdle" /\ pc' \in {"askIdle", "clearing"} /\ UNCHANGED <<outcome, quiet>>
      BY <1>4, <2>2 DEF AskIdle, Onward
    <3> QED
      BY <1>1, <3>1 DEF Verdict
  <2> QED
    BY <2>1, <2>2
<1>5. CASE VerifyGet
  <2>1. CASE ReconcileFails /\ UNCHANGED quiet
    BY <1>2, <2>1
  <2>2. CASE /\ base' = config /\ pc' = "verifying" /\ UNCHANGED <<step, outcome>>
    <3>1. pc = "verifyGet" /\ step' = 1 /\ outcome = "none"
      BY <1>5, <2>2 DEF VerifyGet, Shape, StepInRange, AtWork
    <3>2. RunBefore(runtime', config', step')
      BY <3>1, RoundStarts
    <3> QED
      BY <1>1, <2>2, <3>1, <3>2 DEF Verdict
  <2> QED
    BY <1>5, <2>1, <2>2 DEF VerifyGet
<1>6. CASE VerifyStatus
  <2>1. CASE ReconcileFails
    BY <1>2, <1>6, <2>1 DEF VerifyStatus
  <2>2. CASE ~ ReconcileFails
    <3>1. /\ pc = "verifying" /\ Verified(pluginIDs[step]) /\ Onward(Len(pluginIDs), "verifyAgain")
          /\ UNCHANGED <<base, outcome, quiet>>
      BY <1>6, <2>2 DEF VerifyStatus
    <3>2. /\ step \in 1 .. Len(pluginIDs) /\ step \in Nat
          /\ quiet => config = base /\ RunBefore(runtime, config, step)
      BY <3>1, Held DEF Shape, StepInRange, Verdict
    <3>3. quiet => runtime[pluginIDs[step]].hash = runtimeConfigHash(config)
      BY <3>1, <3>2 DEF Verified, RunsVerified
    <3>4. \/ step' = step + 1 /\ pc' = "verifying"
          \/ step = Len(pluginIDs) /\ pc' = "verifyAgain"
      BY <3>1, <3>2, OnwardFacts, PluginFacts
    <3>5. CASE step' = step + 1 /\ pc' = "verifying"
      <4>1. quiet => RunBefore(runtime, config, step + 1)
        BY <3>2, <3>3, RoundOn
      <4> QED
        BY <1>1, <3>1, <3>2, <3>5, <4>1 DEF Verdict
    <3>6. CASE step = Len(pluginIDs) /\ pc' = "verifyAgain"
      <4>1. quiet => AllRun(runtime, config)
        BY <3>2, <3>3, <3>6, RoundOver
      <4> QED
        BY <1>1, <3>1, <3>6, <4>1 DEF Verdict
    <3> QED
      BY <3>4, <3>5, <3>6
  <2> QED
    BY <2>1, <2>2
<1>7. CASE VerifyAgain
  <2>1. CASE ReconcileFails
    BY <1>2, <1>7, <2>1 DEF VerifyAgain
  <2>2. CASE ~ ReconcileFails
    <3>1. pc = "verifyAgain" /\ pc' = "clearing" /\ UNCHANGED <<outcome, quiet>>
      BY <1>7, <2>2 DEF VerifyAgain
    <3> QED
      BY <1>1, <3>1 DEF Verdict
  <2> QED
    BY <2>1, <2>2
<1> QED
  BY <1>3, <1>4, <1>5, <1>6, <1>7

LEMMA VerdictStep ==
  ASSUME Shape, Verdict, [Next]_vars PROVE Verdict'
<1>1. CASE ClearBlock
  <2>1. /\ pc = "clearing" /\ pc' = "idle" /\ block' = NoBlock /\ outcome' = "cleared"
        /\ UNCHANGED <<config, runtime, quiet>>
    BY <1>1 DEF ClearBlock
  <2> QED
    BY <2>1 DEF Verdict
<1>2. ASSUME NEW p \in Planners, StartRun(p) PROVE Verdict'
  <2>1. /\ pc = "idle" /\ pc' = "snapshot" /\ block = NoBlock /\ outcome' = "none"
        /\ UNCHANGED <<config, runtime, quiet, block>>
    BY <1>2 DEF StartRun, world
  <2> QED
    BY <2>1, NoPreStatus DEF Verdict
<1>3. CASE UNCHANGED vars
  BY <1>3 DEF vars, world, locals, results, Verdict
<1> QED
  BY <1>1, <1>2, <1>3, VerdictCore, VerdictWriting, VerdictPut, VerdictReread, VerdictWaiting,
     VerdictReconcile DEF Next, Engine

\* A success and a cleared block mean that every plugin, replaced ones included,
\* runs the file that stands, unless it was written since the last GET that counts.
THEOREM VerdictTheorem == Spec => []VerdictsAreConverged
<1>1. Init => Verdict
  BY DEF Init, Verdict
<1>2. Shape /\ Verdict /\ [Next]_vars => Verdict'
  BY VerdictStep
<1>3. Shape /\ Verdict => VerdictsAreConverged
  <2> SUFFICES ASSUME Shape, Verdict, outcome \in {"succeeded", "cleared"}, quiet
               PROVE  /\ \A p \in Plugins : runtime[p].hash = runtimeConfigHash(config)
                      /\ outcome = "succeeded" => config = expectedPersisted
    BY DEF VerdictsAreConverged
  <2>1. block.code = "" /\ pc # "waiting"
    BY NoPreStatus DEF Verdict, Shape, AtWork
  <2> QED
    BY <2>1 DEF Verdict, AllRun, expectedPersisted
<1> QED
  BY <1>1, <1>2, <1>3, ShapeInvariance, PTL DEF Spec
=============================================================================
