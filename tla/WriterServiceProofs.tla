------------------------ MODULE WriterServiceProofs ------------------------
(***************************************************************************)
(* Proofs about the writer's run queue and its scheduler, for every set of *)
(* run identifiers, versions, settings and bounds.                         *)
(***************************************************************************)
EXTENDS WriterService, SequenceTheorems, FunctionTheorems, FiniteSetTheorems,
        TLAPS

---------------------------------------------------------------------------
(* Facts about the operators the actions are built from *)

\* Removing one element of a sequence keeps its elements' type.
LEMMA RemoveAtType ==
  ASSUME NEW S, NEW s \in Seq(S), NEW i \in 1..Len(s)
  PROVE  RemoveAt(s, i) \in Seq(S)
<1>1. SubSeq(s, 1, i - 1) \in Seq(S)
  <2>1. \A j \in 1..(i - 1) : s[j] \in S
    BY ElementOfSeq, LenProperties
  <2> QED
    BY <2>1, SubSeqProperties
<1>2. SubSeq(s, i + 1, Len(s)) \in Seq(S)
  <2>1. \A j \in (i + 1)..Len(s) : s[j] \in S
    BY ElementOfSeq, LenProperties
  <2> QED
    BY <2>1, SubSeqProperties, LenProperties
<1> QED
  BY <1>1, <1>2, ConcatProperties DEF RemoveAt

\* Removing the element at position i leaves the others in their order.
LEMMA RemoveAtElements ==
  ASSUME NEW S, NEW s \in Seq(S), NEW i \in 1..Len(s)
  PROVE  /\ Len(RemoveAt(s, i)) = Len(s) - 1
         /\ \A j \in 1..(Len(s) - 1) :
              RemoveAt(s, i)[j] = IF j < i THEN s[j] ELSE s[j + 1]
<1> DEFINE a == SubSeq(s, 1, i - 1)
           b == SubSeq(s, i + 1, Len(s))
<1>0. Len(s) \in Nat /\ i \in Int
  BY LenProperties
<1>1. a \in Seq(S) /\ Len(a) = i - 1 /\ \A j \in 1..(i - 1) : a[j] = s[j]
  <2>1. \A j \in 1..(i - 1) : s[j] \in S
    BY ElementOfSeq, LenProperties
  <2>2. \A j \in 1..(i - 1) - 1 + 1 : a[j] = s[1 + j - 1]
    BY <2>1, <1>0, SubSeqProperties
  <2>3. a \in Seq(S) /\ Len(a) = IF 1 <= i - 1 THEN (i - 1) - 1 + 1 ELSE 0
    BY <2>1, <1>0, SubSeqProperties
  <2> QED
    BY <2>2, <2>3, <1>0
<1>2. /\ b \in Seq(S) /\ Len(b) = Len(s) - i
      /\ \A j \in 1..(Len(s) - i) : b[j] = s[i + j]
  <2>1. \A j \in (i + 1)..Len(s) : s[j] \in S
    BY ElementOfSeq, LenProperties
  <2>2. \A j \in 1..Len(s) - (i + 1) + 1 : b[j] = s[(i + 1) + j - 1]
    BY <2>1, <1>0, SubSeqProperties
  <2>3. b \in Seq(S) /\ Len(b) = IF i + 1 <= Len(s) THEN Len(s) - (i + 1) + 1 ELSE 0
    BY <2>1, <1>0, SubSeqProperties
  <2> QED
    BY <2>2, <2>3, <1>0
<1>3. /\ Len(RemoveAt(s, i)) = Len(a) + Len(b)
      /\ \A j \in 1..Len(a) + Len(b) :
           RemoveAt(s, i)[j] = IF j <= Len(a) THEN a[j] ELSE b[j - Len(a)]
  BY <1>1, <1>2, ConcatProperties DEF RemoveAt
<1> HIDE DEF a, b
<1>4. Len(RemoveAt(s, i)) = Len(s) - 1
  BY <1>0, <1>1, <1>2, <1>3
<1>5. ASSUME NEW j \in 1..(Len(s) - 1)
      PROVE  RemoveAt(s, i)[j] = IF j < i THEN s[j] ELSE s[j + 1]
  <2>1. RemoveAt(s, i)[j] = IF j <= i - 1 THEN a[j] ELSE b[j - (i - 1)]
    BY <1>0, <1>1, <1>2, <1>3
  <2>2. CASE j < i
    BY <2>1, <2>2, <1>0, <1>1
  <2>3. CASE ~(j < i)
    <3>1. j - (i - 1) \in 1..(Len(s) - i)
      BY <2>3, <1>0
    <3>2. b[j - (i - 1)] = s[j + 1]
      BY <3>1, <1>0, <1>2
    <3> QED
      BY <3>2, <2>1, <2>3, <1>0
  <2> QED
    BY <2>2, <2>3
<1> QED
  BY <1>4, <1>5

\* No value occurs twice.
Distinct(s) == \A i, j \in DOMAIN s : i # j => s[i] # s[j]

\* A sequence of one element.
LEMMA Singleton ==
  ASSUME NEW S, NEW x \in S
  PROVE  <<x>> \in Seq(S) /\ Len(<<x>>) = 1 /\ ToSet(<<x>>) = {x} /\ Distinct(<<x>>)
<1> DEFINE s == <<x>>
<1>1. s \in Seq(S) /\ Len(s) = 1 /\ DOMAIN s = {1} /\ s[1] = x
  OBVIOUS
<1> HIDE DEF s
<1>2. ToSet(s) = {x} /\ Distinct(s)
  BY <1>1 DEF ToSet, Distinct
<1> QED
  BY <1>1, <1>2 DEF s

\* The values of a concatenation, and when they stay distinct.
LEMMA ConcatValues ==
  ASSUME NEW S, NEW s \in Seq(S), NEW t \in Seq(S)
  PROVE  /\ ToSet(s \o t) = ToSet(s) \cup ToSet(t)
         /\ Distinct(s) /\ Distinct(t) /\ ToSet(s) \cap ToSet(t) = {} => Distinct(s \o t)
<1> DEFINE u == s \o t
<1>0. Len(s) \in Nat /\ Len(t) \in Nat /\ DOMAIN s = 1..Len(s) /\ DOMAIN t = 1..Len(t)
  BY LenProperties
<1>1. /\ DOMAIN u = 1..(Len(s) + Len(t))
      /\ \A i \in 1..Len(s) + Len(t) : u[i] = IF i <= Len(s) THEN s[i] ELSE t[i - Len(s)]
  BY ConcatProperties, LenProperties
<1> HIDE DEF u
<1>2. \A i \in 1..Len(s) : u[i] = s[i] /\ i \in DOMAIN u
  BY <1>0, <1>1
<1>3. \A i \in 1..Len(t) : u[Len(s) + i] = t[i] /\ Len(s) + i \in DOMAIN u
  <2> TAKE i \in 1..Len(t)
  <2>1. Len(s) + i \in 1..(Len(s) + Len(t)) /\ ~(Len(s) + i <= Len(s))
    BY <1>0
  <2>2. (Len(s) + i) - Len(s) = i
    BY <1>0
  <2> QED
    BY <2>1, <2>2, <1>1
<1>4. ASSUME NEW i \in DOMAIN u
      PROVE  \/ i \in DOMAIN s /\ u[i] = s[i]
             \/ i - Len(s) \in DOMAIN t /\ u[i] = t[i - Len(s)] /\ i \notin DOMAIN s
  BY <1>0, <1>1
<1>5. ToSet(u) = ToSet(s) \cup ToSet(t)
  BY <1>0, <1>2, <1>3, <1>4 DEF ToSet
<1>6. ASSUME Distinct(s), Distinct(t), ToSet(s) \cap ToSet(t) = {}
      PROVE  Distinct(u)
  <2> SUFFICES ASSUME NEW i \in DOMAIN u, NEW j \in DOMAIN u, i # j
               PROVE  u[i] # u[j]
    BY DEF Distinct
  <2>1. CASE i \in DOMAIN s /\ j \in DOMAIN s
    BY <2>1, <1>0, <1>2, <1>6 DEF Distinct
  <2>2. CASE i \notin DOMAIN s /\ j \notin DOMAIN s
    <3>1. i - Len(s) # j - Len(s)
      BY <1>0, <1>1
    <3> QED
      BY <2>2, <3>1, <1>4, <1>6 DEF Distinct
  <2>3. CASE ~(i \in DOMAIN s <=> j \in DOMAIN s)
    <3>1. \A k \in DOMAIN u : IF k \in DOMAIN s THEN u[k] \in ToSet(s) ELSE u[k] \in ToSet(t)
      BY <1>4 DEF ToSet
    <3> QED
      BY <2>3, <3>1, <1>6
  <2> QED
    BY <2>1, <2>2, <2>3
<1> QED
  BY <1>5, <1>6 DEF u

\* What retention leaves in r of the statuses st and the finished runs: some runs are
\* evicted, from the list and from the statuses alike, and nothing else changes.
Retained(r, st, finished) ==
  /\ r.completed \in Seq(RunId)
  /\ Distinct(r.completed)
  /\ Len(r.completed) <= RetainLimit
  /\ r.statuses \in [RunId -> Status \cup {NoStatus}]
  /\ \E gone \in SUBSET finished :
       /\ ToSet(r.completed) = finished \ gone
       /\ r.statuses = [id \in RunId |-> IF id \in gone THEN NoStatus ELSE st[id]]

\* What Retain returns: the finished runs appended, the oldest beyond the limit
\* dropped, and exactly the dropped ones without a status.
LEMMA RetainFacts ==
  ASSUME NEW st \in [RunId -> Status \cup {NoStatus}],
         NEW done \in Seq(RunId), NEW ids \in Seq(RunId), Distinct(done \o ids)
  PROVE  Retained(Retain(st, done, ids), st, ToSet(done \o ids))
<1> DEFINE all  == done \o ids
           n    == Len(all)
           drop == IF n > RetainLimit THEN n - RetainLimit ELSE 0
           gone == {all[i] : i \in 1..drop}
           kept == SubSeq(all, drop + 1, n)
           r    == Retain(st, done, ids)
<1>1. all \in Seq(RunId)
  BY ConcatProperties
<1>r. /\ r.completed = kept
      /\ r.statuses = [id \in RunId |-> IF id \in gone THEN NoStatus ELSE st[id]]
  BY DEF Retain
<1> HIDE DEF all, r
<1>2. n \in Nat /\ DOMAIN all = 1..n /\ \A i \in 1..n : all[i] \in RunId
  BY <1>1, LenProperties, ElementOfSeq
<1> HIDE DEF n
<1>3. drop \in Nat /\ drop <= n /\ n - drop <= RetainLimit
  BY <1>2, BoundAssumption
<1> HIDE DEF drop
<1>4. /\ kept \in Seq(RunId)
      /\ Len(kept) = n - drop
      /\ \A i \in 1..(n - drop) : kept[i] = all[drop + i]
  <2>1. \A i \in (drop + 1)..n : all[i] \in RunId
    BY <1>2, <1>3
  <2>2. /\ kept \in Seq(RunId)
        /\ Len(kept) = IF drop + 1 <= n THEN n - (drop + 1) + 1 ELSE 0
        /\ \A i \in 1..n - (drop + 1) + 1 : kept[i] = all[(drop + 1) + i - 1]
    BY <2>1, <1>2, <1>3, SubSeqProperties
  <2> QED
    BY <2>2, <1>2, <1>3
<1>5. DOMAIN kept = 1..(n - drop)
  BY <1>4, LenProperties
<1> HIDE DEF kept
<1>6. r.statuses \in [RunId -> Status \cup {NoStatus}]
  BY <1>r
<1>7. /\ Distinct(kept)
      /\ gone \in SUBSET ToSet(all)
      /\ ToSet(kept) = ToSet(all) \ gone
  <2>a. Distinct(all)
    BY DEF all
  <2>1. Distinct(kept)
    <3> SUFFICES ASSUME NEW i \in 1..(n - drop), NEW j \in 1..(n - drop), i # j
                 PROVE  kept[i] # kept[j]
      BY <1>5 DEF Distinct
    <3>1. drop + i \in DOMAIN all /\ drop + j \in DOMAIN all /\ drop + i # drop + j
      BY <1>2, <1>3
    <3> QED
      BY <3>1, <1>4, <2>a DEF Distinct
  <2>2. gone \in SUBSET ToSet(all)
    BY <1>2, <1>3 DEF ToSet
  <2>3. ASSUME NEW i \in 1..(n - drop)
        PROVE  kept[i] \in ToSet(all) \ gone
    <3>1. drop + i \in DOMAIN all /\ \A j \in 1..drop : j \in DOMAIN all /\ j # drop + i
      BY <1>2, <1>3
    <3>2. kept[i] = all[drop + i]
      BY <1>4
    <3> QED
      BY <3>1, <3>2, <2>a DEF Distinct, ToSet
  <2>4. ASSUME NEW i \in DOMAIN all, all[i] \notin gone
        PROVE  all[i] \in ToSet(kept)
    <3>1. i - drop \in 1..(n - drop) /\ drop + (i - drop) = i
      BY <2>4, <1>2, <1>3
    <3> QED
      BY <3>1, <1>4, <1>5 DEF ToSet
  <2> QED
    BY <2>1, <2>2, <2>3, <2>4, <1>5 DEF ToSet
<1> QED
  BY <1>r, <1>3, <1>4, <1>6, <1>7 DEF Retained, r, all

\* A new status is one.
LEMMA NewStatusType ==
  \A op \in Operation : NewStatus(op) \in Status /\ NewStatus(op) # NoStatus
BY DEF NewStatus, Status, ErrorCode, NoStatus

\* What accepting the operations ops does: each gets a new identifier, a queued
\* status, its entry in activeByOp, and a place at the end of the queue.
EnqueuedUnder(ids, ops) ==
  /\ ids \in Seq(RunId)
  /\ Len(ids) = Len(ops)
  /\ Distinct(ids)
  /\ \A i \in 1..Len(ops) :
       /\ statuses[ids[i]] = NoStatus
       /\ statuses'[ids[i]] = NewStatus(ops[i])
       /\ activeByOp'[ops[i]] = ids[i]
       /\ queue'[Len(queue) + i] = [runID |-> ids[i], operation |-> ops[i]]
  /\ statuses' \in [RunId -> Status \cup {NoStatus}]
  /\ \A id \in RunId : id \notin ToSet(ids) => statuses'[id] = statuses[id]
  /\ activeByOp' \in [Operation -> RunId \cup {NoRun}]
  /\ \A op \in Operation : op \notin ToSet(ops) => activeByOp'[op] = activeByOp[op]
  /\ queue' \in Seq(Job)
  /\ Len(queue') = Len(queue) + Len(ops)
  /\ \A i \in 1..Len(queue) : queue'[i] = queue[i]

\* EnqueueAll accepts its operations under fresh, distinct identifiers and leaves
\* the queue before them as it was.
LEMMA EnqueueAllFacts ==
  ASSUME TypeOK, NEW ops \in Seq(Operation), Distinct(ops), EnqueueAll(ops)
  PROVE  \E ids : EnqueuedUnder(ids, ops)
<1> DEFINE n == Len(ops)
           ids == CHOOSE s \in FreshIds(n) : TRUE
           jobs == [i \in DOMAIN ops |-> [runID |-> ids[i], operation |-> ops[i]]]
<1>0. n \in Nat /\ DOMAIN ops = 1..n /\ (\A i \in 1..n : ops[i] \in Operation)
  BY LenProperties, ElementOfSeq
<1>1. ids \in FreshIds(n)
  BY DEF EnqueueAll
<1>2. /\ statuses' = [id \in RunId |->
                    IF \E i \in DOMAIN ops : ids[i] = id
                    THEN NewStatus(ops[CHOOSE i \in DOMAIN ops : ids[i] = id])
                    ELSE statuses[id]]
      /\ activeByOp' = [op \in Operation |->
                      IF \E i \in DOMAIN ops : ops[i] = op
                      THEN ids[CHOOSE i \in DOMAIN ops : ops[i] = op]
                      ELSE activeByOp[op]]
      /\ queue' = queue \o jobs
  BY DEF EnqueueAll
<1> HIDE DEF ids, n
<1>3. /\ ids \in [1..n -> RunId]
      /\ \A i \in 1..n : statuses[ids[i]] = NoStatus
      /\ \A i, j \in 1..n : i # j => ids[i] # ids[j]
  BY <1>1 DEF FreshIds
<1>4. /\ ids \in Seq(RunId)
      /\ DOMAIN ids = 1..n
      /\ Len(ids) = n
  BY <1>0, <1>3, SeqDef, LenProperties
<1>5. \A i \in 1..n : (CHOOSE k \in DOMAIN ops : ids[k] = ids[i]) = i
  BY <1>0, <1>3
<1>6. \A i \in 1..n : (CHOOSE k \in DOMAIN ops : ops[k] = ops[i]) = i
  BY <1>0 DEF Distinct
<1>7. ASSUME NEW i \in 1..n
      PROVE  statuses'[ids[i]] = NewStatus(ops[i]) /\ activeByOp'[ops[i]] = ids[i]
  <2>1. ids[i] \in RunId /\ ops[i] \in Operation /\ i \in DOMAIN ops
    BY <1>0, <1>3
  <2>2. statuses'[ids[i]] = NewStatus(ops[CHOOSE k \in DOMAIN ops : ids[k] = ids[i]])
    BY <2>1, <1>2
  <2>3. activeByOp'[ops[i]] = ids[CHOOSE k \in DOMAIN ops : ops[k] = ops[i]]
    BY <2>1, <1>2
  <2> QED
    BY <2>2, <2>3, <1>5, <1>6
<1>8. ASSUME NEW id \in RunId
      PROVE  /\ statuses'[id] \in Status \cup {NoStatus}
             /\ id \notin ToSet(ids) => statuses'[id] = statuses[id]
  <2>1. CASE \E i \in 1..n : ids[i] = id
    <3>1. PICK i \in 1..n : ids[i] = id
      BY <2>1
    <3>2. statuses'[id] = NewStatus(ops[i]) /\ id \in ToSet(ids)
      BY <3>1, <1>7, <1>4 DEF ToSet
    <3> QED
      BY <3>1, <3>2, <1>0, NewStatusType
  <2>2. CASE ~\E i \in 1..n : ids[i] = id
    BY <2>2, <1>0, <1>2 DEF TypeOK
  <2> QED
    BY <2>1, <2>2
<1>9. ASSUME NEW op \in Operation
      PROVE  /\ activeByOp'[op] \in RunId \cup {NoRun}
             /\ op \notin ToSet(ops) => activeByOp'[op] = activeByOp[op]
  <2>1. CASE \E i \in 1..n : ops[i] = op
    BY <2>1, <1>7, <1>0, <1>3 DEF ToSet
  <2>2. CASE ~\E i \in 1..n : ops[i] = op
    BY <2>2, <1>0, <1>2 DEF TypeOK
  <2> QED
    BY <2>1, <2>2
<1>10. /\ jobs \in Seq(Job)
       /\ Len(jobs) = n
       /\ \A i \in 1..n : jobs[i] = [runID |-> ids[i], operation |-> ops[i]]
  <2>1. jobs \in [1..n -> Job] /\ \A i \in 1..n : jobs[i] = [runID |-> ids[i], operation |-> ops[i]]
    BY <1>0, <1>3 DEF Job
  <2> QED
    BY <2>1, <1>0, SeqDef, LenProperties
<1> HIDE DEF jobs
<1>11. queue \in Seq(Job) /\ Len(queue) \in Nat
  BY LenProperties DEF TypeOK
<1>12. /\ queue' \in Seq(Job)
       /\ Len(queue') = Len(queue) + n
       /\ \A i \in 1..Len(queue) + n :
            queue'[i] = IF i <= Len(queue) THEN queue[i] ELSE jobs[i - Len(queue)]
  BY <1>2, <1>10, <1>11, ConcatProperties
<1>13. \A i \in 1..Len(queue) : queue'[i] = queue[i]
  BY <1>0, <1>11, <1>12
<1>14. ASSUME NEW i \in 1..n
       PROVE  queue'[Len(queue) + i] = [runID |-> ids[i], operation |-> ops[i]]
  <2>1. /\ Len(queue) + i \in 1..Len(queue) + n
        /\ ~(Len(queue) + i <= Len(queue))
        /\ (Len(queue) + i) - Len(queue) = i
    BY <1>0, <1>11
  <2> QED
    BY <2>1, <1>10, <1>12
<1>15. statuses' = [id \in RunId |-> statuses'[id]] /\ activeByOp' = [op \in Operation |-> activeByOp'[op]]
  BY <1>2
<1>16. EnqueuedUnder(ids, ops)
  BY <1>3, <1>4, <1>7, <1>8, <1>9, <1>12, <1>13, <1>14, <1>15 DEF EnqueuedUnder, Distinct, n
<1> QED
  BY <1>16

\* One accepted trigger, and the operations one firing accepts.
LEMMA EnqueueFacts ==
  ASSUME NEW op \in Operation, Enqueue(op)
  PROVE  /\ <<op>> \in Seq(Operation) /\ Distinct(<<op>>)
         /\ Len(<<op>>) = 1 /\ ToSet(<<op>>) = {op}
         /\ EnqueueAll(<<op>>)
BY Singleton DEF Enqueue

\* Every set of scheduled operations is finite.
LEMMA ScheduledFinite == \A S \in SUBSET Scheduled : IsFiniteSet(S) /\ Cardinality(S) \in Nat
<1>1. IsFiniteSet((({} \cup {AutoPull}) \cup {MetadataSync}) \cup {ModelInfo})
  <2>1. IsFiniteSet({} \cup {AutoPull})
    BY FS_EmptySet, FS_AddElement
  <2>2. IsFiniteSet(({} \cup {AutoPull}) \cup {MetadataSync})
    BY <2>1, FS_AddElement
  <2> QED
    BY <2>2, FS_AddElement
<1> QED
  BY <1>1, FS_Subset, FS_CardinalityType DEF Scheduled

\* A firing offers enqueueLocked a list of distinct operations that it accepts.
LEMMA FireExpiredFacts ==
  ASSUME FireExpired
  PROVE  \E ops \in Seq(Operation) :
           /\ EnqueueAll(ops)
           /\ Distinct(ops)
           /\ \A i \in 1..Len(ops) : ops[i] \in Expired /\ Accepted(ops[i])
<1> DEFINE admitted == {op \in Expired : Accepted(op)}
           n == Cardinality(admitted)
<1>1. PICK ops \in [1..n -> admitted] :
        EnqueueAll(ops) /\ \A i, j \in 1..n : i # j => ops[i] # ops[j]
  BY DEF FireExpired
<1>2. n \in Nat
  BY ScheduledFinite DEF Expired
<1>3. admitted \subseteq Operation
  BY DEF Expired, Scheduled, Operation
<1> HIDE DEF n
<1>4. ops \in Seq(Operation) /\ DOMAIN ops = 1..n /\ Len(ops) = n
  <2>1. ops \in [1..n -> Operation]
    BY <1>1, <1>3
  <2> QED
    BY <2>1, <1>2, SeqDef, LenProperties
<1>5. \A i \in 1..n : ops[i] \in Expired /\ Accepted(ops[i])
  BY <1>1
<1> QED
  BY <1>1, <1>4, <1>5 DEF Distinct

\* The deadline after a firing at time t is the first point of the schedule that
\* lies after t.
LEMMA AdvancedDeadlineFacts ==
  ASSUME NEW d \in Nat, NEW i \in Nat \ {0}, NEW t \in Nat, d <= t
  PROVE  /\ AdvancedDeadline(d, i, t) \in Nat
         /\ t < AdvancedDeadline(d, i, t)
         /\ AdvancedDeadline(d, i, t) <= t + i
<1> DEFINE q == (t - d) \div i
           a == i * q
<1>1. q \in Nat /\ a \in Nat /\ a <= t - d /\ t - d < a + i
  BY SMTT(30)
<1>2. i * (q + 1) = a + i
  BY <1>1
<1> QED
  BY <1>1, <1>2 DEF AdvancedDeadline

---------------------------------------------------------------------------
(* Type correctness *)

\* The status of a run after its state is set.
LEMMA SetStatusType ==
  ASSUME NEW st \in [RunId -> Status \cup {NoStatus}], NEW id \in RunId,
         st[id] # NoStatus,
         NEW state \in RunningState \cup TerminalState, NEW code \in ErrorCode
  PROVE  SetStatus(st, id, state, code) \in [RunId -> Status \cup {NoStatus}]
<1>1. st[id] \in Status
  OBVIOUS
<1>2. [st[id] EXCEPT !.state = state, !.code = code] \in Status
  BY <1>1 DEF Status
<1> QED
  BY <1>2 DEF SetStatus

\* The runs that have a status, and those queued or running.
Live   == {id \in RunId : statuses[id] # NoStatus}
Active == {activeByOp[op] : op \in Operation} \ {NoRun}

\* Which job each point of the worker goroutine holds.
WorkerPhase ==
  /\ item # NoJob <=>
       worker \in {"starting", "loading", "executing", "reconciling", "reconciled"}
  /\ worker \in {"loading", "reconciling", "reconciled"} => item.operation = Reconcile
  /\ worker = "executing" => item.operation # Reconcile

\* Every run with a status is finished and retained, active, or the blocker, and
\* only one of these.
Ledger ==
  /\ Live = ToSet(completed) \cup Active \cup ({blocker} \ {NoRun})
  /\ ToSet(completed) \cap Active = {}
  /\ blocker \notin ToSet(completed) \cup Active
  /\ Distinct(completed)
  /\ Len(completed) <= RetainLimit
  /\ \A op, other \in Operation :
       op # other /\ activeByOp[op] # NoRun => activeByOp[op] # activeByOp[other]

IInv ==
  /\ TypeOK
  /\ WorkerPhase
  /\ OneRunPerOperation
  /\ Ledger
  /\ BlockerAgreesWithRecord
  /\ NoWriteWhileBlocked

\* What the invariant says of one active run, queued or in the worker's hands.
LEMMA ActiveRunFacts ==
  ASSUME IInv
  PROVE  /\ \A i \in DOMAIN queue :
              /\ queue[i] \in Job
              /\ queue[i].runID \in Active
         /\ item # NoJob => item \in Job /\ item.runID \in Active
         /\ \A id \in Active :
              id \in RunId /\ statuses[id] \in Status /\ id # blocker /\ id \notin ToSet(completed)
<1>1. \A i \in DOMAIN queue : queue[i] \in Job
  BY ElementOfSeq, LenProperties DEF IInv, TypeOK
<1>2. NoRun \notin RunId
  BY RunAssumption
<1>3. \A i \in DOMAIN queue : queue[i].runID \in Active
  BY <1>1, <1>2 DEF IInv, OneRunPerOperation, Active, Job
<1>4. item # NoJob => item \in Job /\ item.runID \in Active
  BY <1>2 DEF IInv, OneRunPerOperation, TypeOK, Active, Job
<1>5. \A id \in Active : id \in Live
  BY DEF IInv, Ledger
<1>6. \A id \in Active : id # blocker /\ id \notin ToSet(completed)
  BY DEF IInv, Ledger
<1>7. \A id \in Live : id \in RunId /\ statuses[id] \in Status
  BY DEF IInv, TypeOK, Live
<1> QED
  BY <1>1, <1>3, <1>4, <1>5, <1>6, <1>7

\* Retaining one run: the blocker is left out.
LEMMA RetainOneFacts ==
  ASSUME NEW st \in [RunId -> Status \cup {NoStatus}],
         NEW done \in Seq(RunId), NEW block, NEW id \in RunId,
         Distinct(done), Len(done) <= RetainLimit
  PROVE  Retained(RetainOne(st, done, block, id), st,
                  IF id = block THEN ToSet(done) ELSE ToSet(done) \cup {id})
<1> DEFINE r == RetainOne(st, done, block, id)
<1>1. CASE id = block \/ id \in ToSet(done)
  <2>1. r.statuses = st /\ r.completed = done
    BY <1>1 DEF RetainOne
  <2>2. (IF id = block THEN ToSet(done) ELSE ToSet(done) \cup {id}) = ToSet(done)
    BY <1>1
  <2> HIDE DEF r
  <2>3. Retained(r, st, ToSet(done))
    <3>1. ToSet(r.completed) = ToSet(done) \ {}
      BY <2>1
    <3>2. r.statuses = [other \in RunId |-> IF other \in {} THEN NoStatus ELSE st[other]]
      BY <2>1
    <3>3. \E gone \in SUBSET ToSet(done) :
            /\ ToSet(r.completed) = ToSet(done) \ gone
            /\ r.statuses = [other \in RunId |-> IF other \in gone THEN NoStatus ELSE st[other]]
      <4> WITNESS {} \in SUBSET ToSet(done)
      <4> QED
        BY <3>1, <3>2
    <3> QED
      BY <2>1, <3>3 DEF Retained
  <2> QED
    BY <2>2, <2>3 DEF r
<1>2. CASE ~(id = block \/ id \in ToSet(done))
  <2> DEFINE ids == <<id>>
  <2>1. r = Retain(st, done, ids)
    BY <1>2 DEF RetainOne
  <2>2. ids \in Seq(RunId) /\ ToSet(ids) = {id} /\ Distinct(ids)
    BY Singleton
  <2> HIDE DEF ids, r
  <2>3. ToSet(done \o ids) = ToSet(done) \cup {id} /\ Distinct(done \o ids)
    BY <1>2, <2>2, ConcatValues
  <2>4. Retained(r, st, ToSet(done) \cup {id})
    BY <2>1, <2>2, <2>3, RetainFacts
  <2> QED
    BY <1>2, <2>4 DEF r
<1> QED
  BY <1>1, <1>2

\* The codes and states a run can end with, and the absence of a status.
LEMMA StatusFacts ==
  /\ NoStatus \notin Status
  /\ {"", "core_unavailable", "reconcile_failed", "not_yet_implemented"} \subseteq ErrorCode
  /\ UncertainCode \subseteq ErrorCode
  /\ {"succeeded", "failed", "uncertain"} \subseteq RunningState \cup TerminalState
BY DEF NoStatus, Status, RunningState, TerminalState, ErrorCode, BlockCode

\* A set of at most three times has an earliest.
LEMMA EarliestOfThree ==
  ASSUME NEW a \in Nat, NEW b \in Nat, NEW c \in Nat,
         NEW S \in SUBSET {a, b, c}, S # {}
  PROVE  \E t \in S : \A u \in S : t <= u
<1>1. CASE a \in S /\ (b \in S => a <= b) /\ (c \in S => a <= c)
  BY <1>1
<1>2. CASE b \in S /\ (a \in S => b <= a) /\ (c \in S => b <= c)
  BY <1>2
<1>3. CASE c \in S /\ (b \in S => c <= b) /\ (a \in S => c <= a)
  BY <1>3
<1>4. a \in S \/ b \in S \/ c \in S
  OBVIOUS
<1> QED
  BY <1>1, <1>2, <1>3, <1>4

\* Shutdown fails the queued runs, which are active and not retained yet.
LEMMA ShutdownFacts ==
  ASSUME IInv
  PROVE  LET ids    == [i \in DOMAIN queue |-> queue[i].runID]
             failed == [id \in RunId |->
                          IF id \in ToSet(ids)
                          THEN [statuses[id] EXCEPT !.state = "failed",
                                                    !.code = "not_yet_implemented"]
                          ELSE statuses[id]]
         IN  /\ ids \in Seq(RunId)
             /\ ToSet(ids) \subseteq Active
             /\ Distinct(completed \o ids)
             /\ ToSet(completed \o ids) = ToSet(completed) \cup ToSet(ids)
             /\ failed \in [RunId -> Status \cup {NoStatus}]
             /\ \A id \in RunId : failed[id] = NoStatus <=> statuses[id] = NoStatus
<1> DEFINE ids    == [i \in DOMAIN queue |-> queue[i].runID]
           failed == [id \in RunId |->
                        IF id \in ToSet(ids)
                        THEN [statuses[id] EXCEPT !.state = "failed",
                                                  !.code = "not_yet_implemented"]
                        ELSE statuses[id]]
<1>0. /\ completed \in Seq(RunId) /\ queue \in Seq(Job)
      /\ Len(queue) \in Nat /\ DOMAIN queue = 1..Len(queue)
      /\ Distinct(completed)
  BY LenProperties DEF IInv, TypeOK, Ledger
<1>1. \A i \in DOMAIN queue : ids[i] = queue[i].runID /\ ids[i] \in Active /\ ids[i] \in RunId
  BY ActiveRunFacts
<1>2. ids \in Seq(RunId) /\ DOMAIN ids = DOMAIN queue
  <2>1. ids \in [1..Len(queue) -> RunId]
    BY <1>0, <1>1
  <2> QED
    BY <1>0, <2>1, SeqDef
<1> HIDE DEF ids
<1>3. ToSet(ids) \subseteq Active
  BY <1>1, <1>2 DEF ToSet
<1>4. Distinct(ids)
  <2> SUFFICES ASSUME NEW i \in DOMAIN queue, NEW j \in DOMAIN queue, i # j
               PROVE  ids[i] # ids[j]
    BY <1>2 DEF Distinct
  <2>1. queue[i] \in Job /\ queue[j] \in Job
    BY ActiveRunFacts
  <2>2. queue[i].operation # queue[j].operation
    BY DEF IInv, OneRunPerOperation
  <2>3. ids[i] = activeByOp[queue[i].operation] /\ ids[j] = activeByOp[queue[j].operation]
    BY <1>1 DEF IInv, OneRunPerOperation
  <2>4. ids[i] # NoRun
    BY <1>1, RunAssumption
  <2> QED
    BY <2>1, <2>2, <2>3, <2>4 DEF IInv, Ledger, Job
<1>5. ToSet(completed) \cap ToSet(ids) = {}
  BY <1>3 DEF IInv, Ledger
<1>6. Distinct(completed \o ids) /\ ToSet(completed \o ids) = ToSet(completed) \cup ToSet(ids)
  BY <1>0, <1>2, <1>4, <1>5, ConcatValues
<1>7. \A id \in ToSet(ids) : id \in RunId /\ statuses[id] \in Status
  BY <1>3, ActiveRunFacts
<1>8. \A status \in Status :
        [status EXCEPT !.state = "failed", !.code = "not_yet_implemented"] \in Status
  BY StatusFacts DEF Status
<1>9. \A id \in RunId : statuses[id] \in Status \cup {NoStatus}
  BY DEF IInv, TypeOK
<1>10. \A id \in RunId : failed[id] \in Status \cup {NoStatus}
  BY <1>7, <1>8, <1>9, StatusFacts
<1>11. \A id \in RunId : failed[id] = NoStatus <=> statuses[id] = NoStatus
  BY <1>7, <1>8, <1>9, StatusFacts
<1>12. failed \in [RunId -> Status \cup {NoStatus}]
  BY <1>10
<1> QED
  BY <1>2, <1>3, <1>6, <1>11, <1>12 DEF ids

\* Clearing the blocker leaves it out, or among the retained runs.
LEMMA ClearBlockFacts ==
  ASSUME IInv, blocker \in RunId
  PROVE  /\ ClearBlock.statuses \in [RunId -> Status \cup {NoStatus}]
         /\ ClearBlock.completed \in Seq(RunId)
         /\ Distinct(ClearBlock.completed)
         /\ Len(ClearBlock.completed) <= RetainLimit
         /\ \E gone \in SUBSET (ToSet(completed) \cup {blocker}) :
              /\ ToSet(ClearBlock.completed) = (ToSet(completed) \cup {blocker}) \ gone
              /\ ClearBlock.statuses =
                   [id \in RunId |-> IF id \in gone THEN NoStatus ELSE statuses[id]]
<1>0. /\ completed \in Seq(RunId) /\ statuses \in [RunId -> Status \cup {NoStatus}]
      /\ Distinct(completed) /\ Len(completed) <= RetainLimit
      /\ blocker \notin ToSet(completed) /\ blocker # NoRun
  BY RunAssumption DEF IInv, TypeOK, Ledger
<1>1. CASE statuses[blocker].state = "uncertain"
  <2>1. ClearBlock = RetainOne(statuses, completed, NoRun, blocker)
    BY <1>1 DEF ClearBlock
  <2>2. Retained(ClearBlock, statuses, ToSet(completed) \cup {blocker})
    BY <1>0, <2>1, RetainOneFacts
  <2> QED
    BY <2>2 DEF Retained
<1>2. CASE statuses[blocker].state # "uncertain"
  <2> DEFINE st == [statuses EXCEPT ![blocker] = NoStatus]
  <2>1. ClearBlock.statuses = st /\ ClearBlock.completed = completed
    BY <1>2 DEF ClearBlock
  <2>2. st \in [RunId -> Status \cup {NoStatus}]
    BY <1>0
  <2>3. st = [id \in RunId |-> IF id \in {blocker} THEN NoStatus ELSE statuses[id]]
    BY <1>0
  <2>4. ToSet(completed) = (ToSet(completed) \cup {blocker}) \ {blocker}
    BY <1>0
  <2> HIDE DEF st
  <2>5. \E gone \in SUBSET (ToSet(completed) \cup {blocker}) :
          /\ ToSet(completed) = (ToSet(completed) \cup {blocker}) \ gone
          /\ st = [id \in RunId |-> IF id \in gone THEN NoStatus ELSE statuses[id]]
    <3> WITNESS {blocker} \in SUBSET (ToSet(completed) \cup {blocker})
    <3> QED
      BY <2>3, <2>4
  <2> QED
    BY <1>0, <2>1, <2>2, <2>5
<1> QED
  BY <1>1, <1>2

\* The scheduler arms its timer for no time, or for an open deadline.
LEMMA NextDeadlineFacts ==
  ASSUME deadlines \in [Scheduled -> Nat]
  PROVE  NextDeadline \in Nat
<1> DEFINE open == {deadlines[op] : op \in {o \in Scheduled : deadlines[o] # NoTime /\ ~Refused(o)}}
<1>1. CASE open = {}
  BY <1>1 DEF NextDeadline, NoTime
<1>2. CASE open # {}
  <2>1. open \subseteq Nat
    OBVIOUS
  <2>2. /\ open \in SUBSET {deadlines[AutoPull], deadlines[MetadataSync], deadlines[ModelInfo]}
        /\ deadlines[AutoPull] \in Nat /\ deadlines[MetadataSync] \in Nat
        /\ deadlines[ModelInfo] \in Nat
    BY DEF Scheduled
  <2>3. \E t \in open : \A u \in open : t <= u
    BY <1>2, <2>2, EarliestOfThree
  <2> QED
    BY <1>2, <2>1, <2>3 DEF NextDeadline
<1> QED
  BY <1>1, <1>2

\* Initially, and after every step, each variable has its type.
LEMMA TypeStep == IInv /\ [Next]_vars => TypeOK'
<1> SUFFICES ASSUME IInv, [Next]_vars PROVE TypeOK'
  OBVIOUS
<1>0. TypeOK /\ WorkerPhase /\ Ledger
  BY DEF IInv
<1>d. Distinct(completed) /\ Len(completed) <= RetainLimit
  BY <1>0 DEF Ledger
<1>1. ASSUME NEW op \in Triggers, Enqueue(op) PROVE TypeOK'
  <2>1. op \in Operation
    BY TriggersAssumption
  <2>2. PICK ids : EnqueuedUnder(ids, <<op>>)
    BY <1>0, <1>1, <2>1, EnqueueFacts, EnqueueAllFacts
  <2>3. worker' \in {worker, "check"}
    BY <1>1 DEF Enqueue, EnqueueAll, Woken
  <2> QED
    BY <1>0, <1>1, <2>2, <2>3
       DEF TypeOK, Enqueue, EnqueuedUnder, blockVars, timeVars, schedVars, confVars
<1>2. ASSUME NEW next \in Settings, Configure(next) PROVE TypeOK'
  <2>1. next \in [Scheduled -> Nat]
    BY SettingsAssumption
  <2>2. \A op \in Scheduled : UpdatedDeadline(op, next) \in Nat
    BY <2>1, <1>0 DEF TypeOK, UpdatedDeadline, NoTime
  <2>3. deadlines' \in [Scheduled -> Nat]
    BY <1>2, <2>2 DEF Configure
  <2>4. /\ settings' = next /\ configured' = TRUE /\ wakePending' = TRUE
        /\ UNCHANGED <<queueVars, blockVars, workVars, now, wakeScheduler, scheduler,
                       armed, fireTime, shutdown>>
    BY <1>2 DEF Configure
  <2> QED
    BY <1>0, <2>1, <2>3, <2>4 DEF TypeOK, queueVars, blockVars, workVars
<1>3. CASE ConfigureWake
  <2>1. wakePending' \in BOOLEAN /\ wakeScheduler' \in BOOLEAN
    BY <1>3 DEF ConfigureWake
  <2>2. /\ UNCHANGED <<queue, statuses, activeByOp, completed, blocker, blockRecord>>
        /\ UNCHANGED <<worker, item, expected, cleared, now, deadlines>>
        /\ UNCHANGED <<scheduler, armed, fireTime, settings, configured, shutdown>>
    BY <1>3 DEF ConfigureWake, queueVars, blockVars, workVars, timeVars, confVars
  <2> QED
    BY <1>0, <2>1, <2>2 DEF TypeOK
<1>4. CASE ShutdownJoin
  BY <1>0, <1>4 DEF TypeOK, ShutdownJoin, queueVars, blockVars, workVars, timeVars,
                    schedVars, confVars
<1>5. CASE Shutdown
  <2> DEFINE ids    == [i \in DOMAIN queue |-> queue[i].runID]
             failed == [id \in RunId |->
                          IF id \in ToSet(ids)
                          THEN [statuses[id] EXCEPT !.state = "failed",
                                                    !.code = "not_yet_implemented"]
                          ELSE statuses[id]]
             kept   == Retain(failed, completed, ids)
  <2>1. ids \in Seq(RunId) /\ failed \in [RunId -> Status \cup {NoStatus}]
    BY ShutdownFacts
  <2>2. Retained(kept, failed, ToSet(completed \o ids))
    BY <1>0, <2>1, ShutdownFacts, RetainFacts DEF TypeOK
  <2>3. statuses' = kept.statuses /\ completed' = kept.completed
    BY <1>5 DEF Shutdown
  <2>4. activeByOp' \in [Operation -> RunId \cup {NoRun}]
    BY <1>0, <1>5 DEF TypeOK, Shutdown
  <2> HIDE DEF ids, failed, kept
  <2>5. statuses' \in [RunId -> Status \cup {NoStatus}] /\ completed' \in Seq(RunId)
    BY <2>2, <2>3 DEF Retained
  <2>6. /\ queue' = <<>> /\ worker' = Woken(worker) /\ shutdown' = "joining"
        /\ UNCHANGED <<blockVars, item, expected, cleared, timeVars, schedVars, confVars>>
    BY <1>5 DEF Shutdown
  <2> QED
    BY <1>0, <2>4, <2>5, <2>6 DEF TypeOK, Woken, blockVars, timeVars, schedVars, confVars
<1>6. CASE WorkerStop \/ WorkerSleep
  <2>1. CASE WorkerStop
    BY <1>0, <2>1 DEF TypeOK, WorkerStop, queueVars, blockVars, timeVars, schedVars, confVars
  <2>2. CASE WorkerSleep
    BY <1>0, <2>2 DEF TypeOK, WorkerSleep, queueVars, blockVars, timeVars, schedVars, confVars
  <2> QED
    BY <1>6, <2>1, <2>2
<1>7. CASE WorkerDequeue
  <2>1. PICK i \in DOMAIN queue : item' = queue[i] /\ queue' = RemoveAt(queue, i)
    BY <1>7 DEF WorkerDequeue
  <2>2. queue \in Seq(Job) /\ i \in 1..Len(queue)
    BY <1>0, LenProperties DEF TypeOK
  <2>3. item' \in Job /\ queue' \in Seq(Job)
    BY <2>1, <2>2, ElementOfSeq, RemoveAtType
  <2> QED
    BY <1>0, <1>7, <2>3 DEF TypeOK, WorkerDequeue, blockVars, timeVars, schedVars, confVars
<1>8. CASE WorkerBegin
  <2>1. item \in Job /\ statuses[item.runID] \in Status
    BY <1>0, <1>8, ActiveRunFacts DEF WorkerBegin, WorkerPhase
  <2>2. statuses' \in [RunId -> Status \cup {NoStatus}]
    BY <1>0, <1>8, <2>1 DEF TypeOK, WorkerBegin, Status, RunningState, Job
  <2> QED
    BY <1>0, <1>8, <2>2 DEF TypeOK, WorkerBegin, blockVars, timeVars, schedVars, confVars
<1>9. CASE WorkerLoadBlock
  BY <1>0, <1>9 DEF TypeOK, WorkerLoadBlock, queueVars, blockVars, timeVars, schedVars, confVars
<1>10. ASSUME NEW state \in RunningState, Progress(state) PROVE TypeOK'
  <2>1. item \in Job /\ statuses[item.runID] \in Status
    BY <1>0, <1>10, ActiveRunFacts DEF Progress, WorkerPhase
  <2>2. statuses' \in [RunId -> Status \cup {NoStatus}]
    BY <1>0, <1>10, <2>1 DEF TypeOK, Progress, Status, Job
  <2> QED
    BY <1>0, <1>10, <2>2 DEF TypeOK, Progress, blockVars, workVars, timeVars, schedVars, confVars
<1>11. ASSUME NEW code \in {"", "core_unavailable"} \cup UncertainCode,
              NEW version \in Version \cup {NoVersion}, Finish(code, version)
       PROVE  TypeOK'
  <2> DEFINE uncertain == code \in UncertainCode
             state == IF uncertain THEN "uncertain"
                      ELSE IF code = "" THEN "succeeded" ELSE "failed"
             st   == SetStatus(statuses, item.runID, state, code)
             kept == RetainOne(st, completed, BlockerAfter(code), item.runID)
  <2>1. item \in Job /\ statuses[item.runID] \in Status /\ item.runID \in RunId
    BY <1>0, <1>11, ActiveRunFacts DEF Finish, WorkerPhase
  <2>2. code \in ErrorCode /\ state \in TerminalState
    BY StatusFacts DEF TerminalState
  <2>4. statuses' = kept.statuses /\ completed' = kept.completed
    BY <1>11 DEF Finish
  <2> HIDE DEF state
  <2>3. st \in [RunId -> Status \cup {NoStatus}]
    <3>1. state \in RunningState \cup TerminalState
      BY <2>2
    <3> HIDE DEF st
    <3>2. st = SetStatus(statuses, item.runID, state, code)
      BY DEF st
    <3> QED
      BY <1>0, <2>1, <2>2, <3>1, <3>2, StatusFacts, SetStatusType DEF TypeOK
  <2> HIDE DEF st
  <2>5. Retained(kept, st, IF item.runID = BlockerAfter(code) THEN ToSet(completed)
                           ELSE ToSet(completed) \cup {item.runID})
    BY <1>0, <1>d, <2>1, <2>3, RetainOneFacts DEF TypeOK
  <2> HIDE DEF kept, state, uncertain
  <2>6. statuses' \in [RunId -> Status \cup {NoStatus}] /\ completed' \in Seq(RunId)
    BY <2>4, <2>5 DEF Retained
  <2>7. blocker' \in RunId \cup {NoRun} /\ blockRecord' \in Record \cup {NoRecord}
    BY <1>0, <1>11, <2>1 DEF TypeOK, Finish, BlockerAfter, BlockRecordAfter, Record, BlockCode
  <2>8. activeByOp' \in [Operation -> RunId \cup {NoRun}]
    BY <1>0, <1>11 DEF TypeOK, Finish
  <2>9. /\ item' = NoJob /\ worker' = "check"
        /\ UNCHANGED <<queue, expected, cleared, timeVars, schedVars, confVars, shutdown>>
    BY <1>11 DEF Finish
  <2> QED
    BY <1>0, <2>6, <2>7, <2>8, <2>9 DEF TypeOK, timeVars, schedVars, confVars
<1>12. ASSUME NEW v \in Version, ReconcileAndClear(v) PROVE TypeOK'
  <2>1. CASE MatchesBlock(v)
    <3>1. blocker \in RunId
      BY <1>0, <2>1 DEF TypeOK, MatchesBlock
    <3>2. statuses' = ClearBlock.statuses /\ completed' = ClearBlock.completed
      BY <1>12, <2>1 DEF ReconcileAndClear
    <3>3. ClearBlock.statuses \in [RunId -> Status \cup {NoStatus}] /\ ClearBlock.completed \in Seq(RunId)
      BY <3>1, ClearBlockFacts DEF Retained
    <3>4. /\ blocker' = NoRun /\ blockRecord' = NoRecord /\ cleared' = TRUE /\ worker' = "reconciled"
          /\ UNCHANGED <<queue, activeByOp, item, expected, timeVars, schedVars, confVars, shutdown>>
      BY <1>12, <2>1 DEF ReconcileAndClear
    <3> HIDE DEF ClearBlock
    <3> QED
      BY <1>0, <3>2, <3>3, <3>4 DEF TypeOK, timeVars, schedVars, confVars
  <2>2. CASE ~MatchesBlock(v)
    BY <1>0, <1>12, <2>2 DEF TypeOK, ReconcileAndClear, blockVars, timeVars, schedVars, confVars
  <2> QED
    BY <2>1, <2>2
<1>13. CASE ReconcileInconclusive
  <2>1. /\ worker' = "reconciled" /\ cleared' \in BOOLEAN
        /\ UNCHANGED <<queueVars, blockVars, item, expected, timeVars, schedVars, confVars,
                       shutdown>>
    BY <1>13 DEF ReconcileInconclusive
  <2> QED
    BY <1>0, <2>1 DEF TypeOK, queueVars, blockVars, timeVars, schedVars, confVars
<1>14. CASE FinishReconcile
  <2> DEFINE st == SetStatus(statuses, item.runID,
                             IF cleared THEN "succeeded" ELSE "failed",
                             IF cleared THEN "" ELSE "reconcile_failed")
             kept == RetainOne(st, completed, blocker, item.runID)
  <2>1. item \in Job /\ statuses[item.runID] \in Status /\ item.runID \in RunId
    BY <1>0, <1>14, ActiveRunFacts DEF FinishReconcile, WorkerPhase
  <2>2. st \in [RunId -> Status \cup {NoStatus}]
    <3> DEFINE state == IF cleared THEN "succeeded" ELSE "failed"
               code  == IF cleared THEN "" ELSE "reconcile_failed"
    <3>1. state \in RunningState \cup TerminalState /\ code \in ErrorCode
      BY StatusFacts
    <3>2. st = SetStatus(statuses, item.runID, state, code)
      OBVIOUS
    <3> HIDE DEF state, code, st
    <3> QED
      BY <1>0, <2>1, <3>1, <3>2, StatusFacts, SetStatusType DEF TypeOK
  <2>3. statuses' = kept.statuses /\ completed' = kept.completed
    BY <1>14 DEF FinishReconcile
  <2> HIDE DEF st
  <2>4. Retained(kept, st, IF item.runID = blocker THEN ToSet(completed)
                           ELSE ToSet(completed) \cup {item.runID})
    BY <1>0, <1>d, <2>1, <2>2, RetainOneFacts DEF TypeOK
  <2> HIDE DEF kept
  <2>5. statuses' \in [RunId -> Status \cup {NoStatus}] /\ completed' \in Seq(RunId)
    BY <2>3, <2>4 DEF Retained
  <2>6. activeByOp' \in [Operation -> RunId \cup {NoRun}] /\ worker' \in {"waking", "check"}
    BY <1>0, <1>14 DEF TypeOK, FinishReconcile, AfterReconcile
  <2>7. /\ item' = NoJob /\ expected' = NoRecord
        /\ UNCHANGED <<queue, blockVars, cleared, timeVars, schedVars, confVars, shutdown>>
    BY <1>14 DEF FinishReconcile
  <2> QED
    BY <1>0, <2>5, <2>6, <2>7 DEF TypeOK, blockVars, timeVars, schedVars, confVars
<1>15. CASE WorkerWake
  BY <1>0, <1>15 DEF TypeOK, WorkerWake, queueVars, blockVars, timeVars, confVars
<1>16. CASE SchedulerCompute
  <2>1. NextDeadline \in Nat
    BY <1>0, NextDeadlineFacts DEF TypeOK
  <2> QED
    BY <1>0, <1>16, <2>1 DEF TypeOK, SchedulerCompute, queueVars, blockVars, workVars,
                             timeVars, confVars
<1>17. CASE SchedulerStop \/ SchedulerWoken \/ SchedulerTimer
  <2>1. CASE SchedulerStop
    BY <1>0, <2>1 DEF TypeOK, SchedulerStop, queueVars, blockVars, workVars, timeVars, confVars
  <2>2. CASE SchedulerWoken
    <3>1. /\ wakeScheduler' \in BOOLEAN /\ scheduler' = "compute"
          /\ UNCHANGED <<queueVars, blockVars, workVars, timeVars, wakePending, armed,
                         fireTime, confVars, shutdown>>
      BY <2>2 DEF SchedulerWoken
    <3> QED
      BY <1>0, <3>1 DEF TypeOK, queueVars, blockVars, workVars, timeVars, confVars
  <2>3. CASE SchedulerTimer
    BY <1>0, <2>3 DEF TypeOK, SchedulerTimer, queueVars, blockVars, workVars, timeVars, confVars
  <2> QED
    BY <1>17, <2>1, <2>2, <2>3
<1>18. CASE FireExpired
  <2>1. PICK ops \in Seq(Operation) : EnqueueAll(ops) /\ Distinct(ops)
    BY <1>18, FireExpiredFacts
  <2>2. PICK ids : EnqueuedUnder(ids, ops)
    BY <1>0, <2>1, EnqueueAllFacts
  <2>3. worker' \in {worker, "check"}
    BY <2>1 DEF EnqueueAll, Woken
  <2>4. deadlines' \in [Scheduled -> Nat]
    <3> SUFFICES ASSUME NEW op \in Scheduled PROVE deadlines'[op] \in Nat
      BY <1>18 DEF FireExpired
    <3>1. deadlines[op] \in Nat /\ settings[op] \in Nat /\ fireTime \in Nat
      BY <1>0 DEF TypeOK
    <3>2. CASE op \notin Expired \/ Refused(op) \/ settings[op] = 0
      BY <1>18, <3>1, <3>2 DEF FireExpired, NoTime
    <3>3. CASE op \in Expired /\ ~Refused(op) /\ settings[op] # 0
      <4>1. deadlines'[op] = AdvancedDeadline(deadlines[op], settings[op], fireTime)
        BY <1>18, <3>3 DEF FireExpired
      <4>2. deadlines[op] <= fireTime
        BY <3>3 DEF Expired
      <4> QED
        BY <3>1, <3>3, <4>1, <4>2, AdvancedDeadlineFacts
    <3> QED
      BY <3>2, <3>3
  <2>5. /\ scheduler' = "compute" /\ fireTime' = 0
        /\ UNCHANGED <<completed, blockVars, item, expected, cleared, now,
                       wakeScheduler, wakePending, armed, confVars, shutdown>>
    BY <1>18 DEF FireExpired
  <2> QED
    BY <1>0, <2>2, <2>3, <2>4, <2>5 DEF TypeOK, EnqueuedUnder, blockVars, confVars
<1>19. CASE Tick
  BY <1>0, <1>19 DEF TypeOK, Tick, queueVars, blockVars, workVars, schedVars, confVars
<1>20. CASE UNCHANGED vars
  BY <1>0, <1>20 DEF TypeOK, vars, queueVars, blockVars, workVars, timeVars, schedVars, confVars
<1> QED
  BY <1>1, <1>2, <1>3, <1>4, <1>5, <1>6, <1>7, <1>8, <1>9, <1>10, <1>11, <1>12, <1>13,
     <1>14, <1>15, <1>16, <1>17, <1>18, <1>19, <1>20 DEF Next, Worker, Scheduler, Host

---------------------------------------------------------------------------
(* One run per operation *)

\* The worker holds a job exactly at the points where its code does.
LEMMA WorkerPhaseStep == IInv /\ [Next]_vars => WorkerPhase'
<1> SUFFICES ASSUME IInv, [Next]_vars PROVE WorkerPhase'
  OBVIOUS
<1>0. WorkerPhase
  BY DEF IInv
<1>1. ASSUME UNCHANGED item, worker' \in {worker, Woken(worker)} PROVE WorkerPhase'
  BY <1>0, <1>1 DEF WorkerPhase, Woken
<1>2. ASSUME NEW op \in Triggers, Enqueue(op) PROVE WorkerPhase'
  BY <1>1, <1>2 DEF Enqueue, EnqueueAll
<1>3. CASE FireExpired
  <2>1. PICK ops : EnqueueAll(ops)
    BY <1>3, FireExpiredFacts
  <2> QED
    BY <1>1, <1>3, <2>1 DEF FireExpired, EnqueueAll
<1>4. ASSUME NEW next \in Settings, Configure(next) PROVE WorkerPhase'
  BY <1>1, <1>4 DEF Configure, workVars
<1>5. CASE ConfigureWake \/ ShutdownJoin \/ SchedulerCompute \/ SchedulerStop
           \/ SchedulerWoken \/ SchedulerTimer \/ Tick \/ UNCHANGED vars
  BY <1>1, <1>5 DEF ConfigureWake, ShutdownJoin, SchedulerCompute, SchedulerStop,
     SchedulerWoken, SchedulerTimer, Tick, vars, workVars
<1>6. CASE Shutdown
  BY <1>1, <1>6 DEF Shutdown
<1>7. CASE WorkerStop \/ WorkerSleep \/ WorkerWake
  BY <1>0, <1>7 DEF WorkerPhase, WorkerStop, WorkerSleep, WorkerWake
<1>8. CASE WorkerDequeue
  <2>1. item' # NoJob
    <3>1. \A job \in Job : job # NoJob
      BY DEF Job, NoJob, Operation, AutoPull, MetadataSync, ModelInfo, Reconcile
    <3> QED
      BY <1>8, <3>1, ActiveRunFacts DEF WorkerDequeue
  <2> QED
    BY <1>8, <2>1 DEF WorkerPhase, WorkerDequeue
<1>9. CASE WorkerBegin
  BY <1>0, <1>9 DEF WorkerPhase, WorkerBegin
<1>10. CASE WorkerLoadBlock \/ ReconcileInconclusive
  BY <1>0, <1>10 DEF WorkerPhase, WorkerLoadBlock, ReconcileInconclusive
<1>11. ASSUME NEW state \in RunningState, Progress(state) PROVE WorkerPhase'
  BY <1>1, <1>11 DEF Progress, workVars
<1>12. ASSUME NEW code, NEW version, Finish(code, version) PROVE WorkerPhase'
  BY <1>12 DEF WorkerPhase, Finish
<1>13. ASSUME NEW v \in Version, ReconcileAndClear(v) PROVE WorkerPhase'
  BY <1>0, <1>13 DEF WorkerPhase, ReconcileAndClear
<1>14. CASE FinishReconcile
  BY <1>14 DEF WorkerPhase, FinishReconcile, AfterReconcile
<1> QED
  BY <1>2, <1>3, <1>4, <1>5, <1>6, <1>7, <1>8, <1>9, <1>10, <1>11, <1>12, <1>13, <1>14
     DEF Next, Worker, Scheduler, Host

\* Accepting operations that have no run keeps one run per operation.
LEMMA EnqueueKeepsOneRun ==
  ASSUME IInv, NEW ops \in Seq(Operation), NEW ids, EnqueuedUnder(ids, ops), Distinct(ops),
         \A i \in 1..Len(ops) : activeByOp[ops[i]] = NoRun,
         UNCHANGED item
  PROVE  OneRunPerOperation'
<1> DEFINE n == Len(queue)
           m == Len(ops)
<1>0. /\ n \in Nat /\ m \in Nat
      /\ DOMAIN queue = 1..n /\ DOMAIN ops = 1..m /\ DOMAIN queue' = 1..(n + m)
  BY LenProperties DEF IInv, TypeOK, EnqueuedUnder
<1>a. \A i \in 1..m : queue'[n + i] = [runID |-> ids[i], operation |-> ops[i]]
  BY DEF EnqueuedUnder
<1>1. \A i \in 1..n : queue'[i] = queue[i]
  BY DEF EnqueuedUnder
<1>2. ASSUME NEW k \in 1..(n + m), k - n \in 1..m
      PROVE  /\ queue'[k].runID = ids[k - n]
             /\ queue'[k].operation = ops[k - n] /\ ops[k - n] \in ToSet(ops)
  <2>1. k = n + (k - n) /\ k - n \in DOMAIN ops
    BY <1>0, <1>2
  <2>2. queue'[k] = [runID |-> ids[k - n], operation |-> ops[k - n]]
    BY <1>a, <1>2, <2>1
  <2> QED
    BY <2>1, <2>2 DEF ToSet
<1>3. \A i \in 1..m : ops[i] \in Operation /\ ids[i] \in RunId /\ activeByOp'[ops[i]] = ids[i]
  BY ElementOfSeq DEF EnqueuedUnder
<1>4. \A op \in Operation : op \notin ToSet(ops) => activeByOp'[op] = activeByOp[op]
  BY DEF EnqueuedUnder
<1>5. \A i \in 1..n : queue[i] \in Job /\ queue[i].operation \in Operation
                      /\ activeByOp[queue[i].operation] = queue[i].runID
                      /\ queue[i].runID # NoRun /\ queue[i].operation # item.operation
  BY <1>0, ActiveRunFacts, RunAssumption DEF IInv, OneRunPerOperation, Job
<1>6. \A i \in 1..n : queue[i].operation \notin ToSet(ops)
  BY <1>0, <1>5 DEF ToSet
<1>7. \A k \in 1..(n + m) : k \in 1..n \/ k - n \in 1..m
  BY <1>0
<1>8. \A i \in 1..m : ops[i] # item.operation
  <2>1. item # NoJob => item \in Job /\ activeByOp[item.operation] = item.runID /\ item.runID # NoRun
    BY ActiveRunFacts, RunAssumption DEF IInv, OneRunPerOperation, Job
  <2>2. NoJob.operation \notin Operation
    BY DEF NoJob, Operation, AutoPull, MetadataSync, ModelInfo, Reconcile
  <2> QED
    BY <1>3, <2>1, <2>2
<1>9. ASSUME NEW i \in 1..(n + m)
      PROVE  /\ activeByOp'[queue'[i].operation] = queue'[i].runID
             /\ queue'[i].operation # item'.operation
  <2>1. CASE i \in 1..n
    BY <2>1, <1>1, <1>4, <1>5, <1>6
  <2>2. CASE i - n \in 1..m
    BY <2>2, <1>2, <1>3, <1>8
  <2> QED
    BY <2>1, <2>2, <1>7
<1>10. ASSUME NEW i \in 1..(n + m), NEW j \in 1..(n + m), i # j
       PROVE  queue'[i].operation # queue'[j].operation
  <2>1. \A k \in 1..(n + m) :
          \/ k \in 1..n /\ queue'[k].operation = queue[k].operation
          \/ k - n \in 1..m /\ queue'[k].operation = ops[k - n] /\ ops[k - n] \in ToSet(ops)
    BY <1>1, <1>2, <1>7
  <2>2. CASE i \in 1..n /\ j \in 1..n
    BY <2>2, <1>0, <1>1, <1>10 DEF IInv, OneRunPerOperation
  <2>3. CASE i - n \in 1..m /\ j - n \in 1..m
    <3>1. i - n # j - n /\ i \notin 1..n /\ j \notin 1..n
      BY <2>3, <1>0, <1>10
    <3> QED
      BY <2>1, <3>1, <1>0 DEF Distinct
  <2>4. CASE ~(i \in 1..n <=> j \in 1..n)
    BY <2>1, <2>4, <1>6
  <2> QED
    BY <2>2, <2>3, <2>4, <1>7
<1>11. item' # NoJob => activeByOp'[item'.operation] = item'.runID
  <2>1. item # NoJob => item.operation \in Operation /\ item.operation \notin ToSet(ops)
    BY <1>0, <1>8, ActiveRunFacts DEF ToSet, Job
  <2> QED
    BY <2>1, <1>4 DEF IInv, OneRunPerOperation
<1>12. ASSUME NEW op \in Operation, activeByOp'[op] # NoRun
       PROVE  item'.operation = op \/ \E i \in 1..(n + m) : queue'[i].operation = op
  <2>1. CASE op \in ToSet(ops)
    <3>1. PICK i \in 1..m : ops[i] = op
      BY <2>1, <1>0 DEF ToSet
    <3>2. n + i \in 1..(n + m)
      BY <1>0
    <3>3. queue'[n + i] = [runID |-> ids[i], operation |-> ops[i]]
      BY <1>a
    <3>4. queue'[n + i].operation = op
      BY <3>1, <3>3
    <3> QED
      BY <3>2, <3>4
  <2>2. CASE op \notin ToSet(ops)
    <3>1. item.operation = op \/ \E i \in 1..n : queue[i].operation = op
      BY <2>2, <1>0, <1>4, <1>12 DEF IInv, OneRunPerOperation
    <3>2. \A i \in 1..n : i \in 1..(n + m)
      BY <1>0
    <3> QED
      BY <3>1, <3>2, <1>1
  <2> QED
    BY <2>1, <2>2
<1> QED
  BY <1>0, <1>9, <1>10, <1>11, <1>12 DEF OneRunPerOperation

\* Every step keeps one run per operation.
LEMMA OneRunStep == IInv /\ [Next]_vars => OneRunPerOperation'
<1> SUFFICES ASSUME IInv, [Next]_vars PROVE OneRunPerOperation'
  OBVIOUS
<1>0. /\ OneRunPerOperation /\ WorkerPhase
      /\ queue \in Seq(Job) /\ Len(queue) \in Nat /\ DOMAIN queue = 1..Len(queue)
      /\ activeByOp \in [Operation -> RunId \cup {NoRun}]
  BY LenProperties DEF IInv, TypeOK
<1>n. NoJob.operation \notin Operation
  BY DEF NoJob, Operation, AutoPull, MetadataSync, ModelInfo, Reconcile
<1>1. ASSUME UNCHANGED <<queue, activeByOp, item>> PROVE OneRunPerOperation'
  BY <1>0, <1>1 DEF OneRunPerOperation
<1>2. ASSUME NEW op \in Triggers, Enqueue(op) PROVE OneRunPerOperation'
  <2>1. op \in Operation
    BY TriggersAssumption
  <2> DEFINE ops == <<op>>
  <2>2. ops \in Seq(Operation) /\ Distinct(ops) /\ Len(ops) = 1 /\ EnqueueAll(ops) /\ ops[1] = op
    BY <1>2, <2>1, EnqueueFacts
  <2>3. activeByOp[op] = NoRun /\ item' = item
    BY <1>2 DEF Enqueue, Accepted
  <2> HIDE DEF ops
  <2>4. PICK ids : EnqueuedUnder(ids, ops)
    BY <2>2, EnqueueAllFacts DEF IInv
  <2>5. \A i \in 1..Len(ops) : activeByOp[ops[i]] = NoRun
    BY <2>2, <2>3
  <2> QED
    BY <2>2, <2>3, <2>4, <2>5, EnqueueKeepsOneRun
<1>3. CASE FireExpired
  <2>1. PICK ops \in Seq(Operation) :
          /\ EnqueueAll(ops) /\ Distinct(ops)
          /\ \A i \in 1..Len(ops) : ops[i] \in Expired /\ Accepted(ops[i])
    BY <1>3, FireExpiredFacts
  <2>2. PICK ids : EnqueuedUnder(ids, ops)
    BY <2>1, EnqueueAllFacts DEF IInv
  <2>3. \A i \in 1..Len(ops) : activeByOp[ops[i]] = NoRun
    BY <2>1 DEF Accepted
  <2>4. UNCHANGED item
    BY <1>3 DEF FireExpired
  <2> QED
    BY <2>1, <2>2, <2>3, <2>4, EnqueueKeepsOneRun
<1>4. CASE Shutdown
  <2>1. /\ queue' = <<>> /\ item' = item
        /\ activeByOp' = [op \in Operation |->
                            IF \E i \in DOMAIN queue : queue[i].operation = op
                            THEN NoRun ELSE activeByOp[op]]
    BY <1>4 DEF Shutdown
  <2>2. DOMAIN queue' = {}
    BY <2>1
  <2>3. item # NoJob => item.operation \in Operation
    BY ActiveRunFacts DEF Job
  <2>4. item' # NoJob => activeByOp'[item'.operation] = item'.runID
    BY <1>0, <2>1, <2>3 DEF OneRunPerOperation
  <2>5. \A op \in Operation : activeByOp'[op] # NoRun => item'.operation = op
    BY <1>0, <2>1 DEF OneRunPerOperation
  <2> QED
    BY <2>2, <2>4, <2>5 DEF OneRunPerOperation
<1>5. CASE WorkerDequeue
  <2>1. PICK i \in 1..Len(queue) : item' = queue[i] /\ queue' = RemoveAt(queue, i)
    BY <1>0, <1>5 DEF WorkerDequeue
  <2>2. activeByOp' = activeByOp /\ item = NoJob
    BY <1>0, <1>5 DEF WorkerDequeue, WorkerPhase
  <2> DEFINE n == Len(queue) - 1
             old(j) == IF j < i THEN j ELSE j + 1
  <2>3. queue' \in Seq(Job) /\ Len(queue') = n /\ DOMAIN queue' = 1..n
    BY <1>0, <2>1, RemoveAtType, RemoveAtElements, LenProperties
  <2>4. \A j \in 1..n : queue'[j] = queue[old(j)]
    BY <1>0, <2>1, RemoveAtElements
  <2>5. \A j \in 1..n : old(j) \in DOMAIN queue /\ old(j) # i
    BY <1>0
  <2>6. \A j, k \in 1..n : j # k => old(j) # old(k)
    BY <1>0
  <2>7. \A j \in DOMAIN queue : j # i => \E k \in 1..n : old(k) = j
    <3> TAKE j \in DOMAIN queue
    <3>1. CASE j < i
      BY <3>1, <1>0
    <3>2. CASE j > i
      <4>1. j - 1 \in 1..n /\ old(j - 1) = j
        BY <3>2, <1>0
      <4> QED
        BY <4>1
    <3> QED
      BY <3>1, <3>2, <1>0
  <2> HIDE DEF n, old
  <2>8. \A j \in DOMAIN queue : /\ queue[j].operation \in Operation
                                /\ activeByOp[queue[j].operation] = queue[j].runID
    BY <1>0, ActiveRunFacts DEF OneRunPerOperation, Job
  <2>9. \A j, k \in 1..n : j # k => queue'[j].operation # queue'[k].operation
    BY <1>0, <2>4, <2>5, <2>6 DEF OneRunPerOperation
  <2>10. \A j \in 1..n : /\ activeByOp'[queue'[j].operation] = queue'[j].runID
                         /\ queue'[j].operation # item'.operation
    BY <1>0, <2>1, <2>2, <2>4, <2>5, <2>8 DEF OneRunPerOperation
  <2>11. activeByOp'[item'.operation] = item'.runID
    BY <1>0, <2>1, <2>2, <2>8
  <2>12. \A op \in Operation : activeByOp'[op] # NoRun =>
           item'.operation = op \/ \E j \in 1..n : queue'[j].operation = op
    <3> SUFFICES ASSUME NEW op \in Operation, activeByOp[op] # NoRun, item'.operation # op
                 PROVE  \E j \in 1..n : queue'[j].operation = op
      BY <2>2
    <3>1. PICK j \in DOMAIN queue : queue[j].operation = op
      BY <1>0, <1>n, <2>2 DEF OneRunPerOperation
    <3>2. j # i
      BY <2>1, <3>1
    <3> QED
      BY <2>4, <2>7, <3>1, <3>2
  <2> QED
    BY <2>3, <2>9, <2>10, <2>11, <2>12 DEF OneRunPerOperation
<1>6. ASSUME item # NoJob, item' = NoJob, queue' = queue,
             activeByOp' = [activeByOp EXCEPT ![item.operation] = NoRun]
      PROVE  OneRunPerOperation'
  <2>1. \A i \in DOMAIN queue : queue[i].operation \in Operation /\ queue[i].operation # item.operation
    BY <1>0, ActiveRunFacts DEF OneRunPerOperation, Job
  <2>2. \A op \in Operation \ {item.operation} : activeByOp'[op] = activeByOp[op]
    BY <1>0, <1>6
  <2>3. item.operation \in Operation => activeByOp'[item.operation] = NoRun
    BY <1>0, <1>6
  <2> QED
    BY <1>0, <1>6, <1>n, <2>1, <2>2, <2>3 DEF OneRunPerOperation
<1>7. ASSUME NEW code, NEW version, Finish(code, version) PROVE OneRunPerOperation'
  BY <1>0, <1>6, <1>7 DEF Finish, WorkerPhase
<1>8. CASE FinishReconcile
  BY <1>0, <1>6, <1>8 DEF FinishReconcile, WorkerPhase
<1>9. ASSUME NEW next \in Settings, Configure(next) PROVE OneRunPerOperation'
  BY <1>1, <1>9 DEF Configure, queueVars, workVars
<1>10. ASSUME NEW state \in RunningState, Progress(state) PROVE OneRunPerOperation'
  BY <1>1, <1>10 DEF Progress, workVars
<1>11. ASSUME NEW v \in Version, ReconcileAndClear(v) PROVE OneRunPerOperation'
  BY <1>1, <1>11 DEF ReconcileAndClear
<1>12. CASE ConfigureWake \/ ShutdownJoin \/ SchedulerCompute \/ SchedulerStop
            \/ SchedulerWoken \/ SchedulerTimer \/ Tick \/ UNCHANGED vars
  BY <1>1, <1>12 DEF ConfigureWake, ShutdownJoin, SchedulerCompute, SchedulerStop,
     SchedulerWoken, SchedulerTimer, Tick, vars, queueVars, workVars
<1>13. CASE WorkerStop \/ WorkerSleep \/ WorkerBegin \/ WorkerLoadBlock
            \/ ReconcileInconclusive \/ WorkerWake
  BY <1>1, <1>13 DEF WorkerStop, WorkerSleep, WorkerBegin, WorkerLoadBlock,
     ReconcileInconclusive, WorkerWake, queueVars
<1> QED
  BY <1>2, <1>3, <1>4, <1>5, <1>7, <1>8, <1>9, <1>10, <1>11, <1>12, <1>13
     DEF Next, Worker, Scheduler, Host

---------------------------------------------------------------------------
(* Blocked writes *)

\* Every step keeps the gate: no write in the worker's hands while there is a
\* blocker.
LEMMA GateStep == IInv /\ [Next]_vars => NoWriteWhileBlocked'
<1> SUFFICES ASSUME IInv, [Next]_vars PROVE NoWriteWhileBlocked'
  OBVIOUS
<1>0. NoWriteWhileBlocked
  BY DEF IInv
<1>n. ~isConfigWriteOperation(NoJob.operation)
  BY DEF isConfigWriteOperation, NoJob, AutoPull, MetadataSync
<1>1. ASSUME UNCHANGED <<blocker, item>> PROVE NoWriteWhileBlocked'
  BY <1>0, <1>1 DEF NoWriteWhileBlocked
<1>2. ASSUME item' = NoJob PROVE NoWriteWhileBlocked'
  BY <1>n, <1>2 DEF NoWriteWhileBlocked
<1>3. ASSUME NEW op \in Triggers, Enqueue(op) PROVE NoWriteWhileBlocked'
  BY <1>1, <1>3 DEF Enqueue, blockVars
<1>4. CASE FireExpired \/ Shutdown \/ ConfigureWake \/ ShutdownJoin \/ SchedulerCompute
           \/ SchedulerStop \/ SchedulerWoken \/ SchedulerTimer \/ Tick \/ UNCHANGED vars
  BY <1>1, <1>4 DEF FireExpired, Shutdown, ConfigureWake, ShutdownJoin, SchedulerCompute,
     SchedulerStop, SchedulerWoken, SchedulerTimer, Tick, vars, blockVars, workVars
<1>5. ASSUME NEW next \in Settings, Configure(next) PROVE NoWriteWhileBlocked'
  BY <1>1, <1>5 DEF Configure, blockVars, workVars
<1>6. CASE WorkerStop \/ WorkerSleep \/ WorkerBegin \/ WorkerLoadBlock
           \/ ReconcileInconclusive \/ WorkerWake
  BY <1>1, <1>6 DEF WorkerStop, WorkerSleep, WorkerBegin, WorkerLoadBlock,
     ReconcileInconclusive, WorkerWake, blockVars
<1>7. CASE WorkerDequeue
  BY <1>7 DEF WorkerDequeue, runnable, NoWriteWhileBlocked, blockVars
<1>8. ASSUME NEW state \in RunningState, Progress(state) PROVE NoWriteWhileBlocked'
  BY <1>1, <1>8 DEF Progress, blockVars, workVars
<1>9. ASSUME NEW code, NEW version, Finish(code, version) PROVE NoWriteWhileBlocked'
  BY <1>2, <1>9 DEF Finish
<1>10. ASSUME NEW v \in Version, ReconcileAndClear(v) PROVE NoWriteWhileBlocked'
  BY <1>0, <1>10 DEF ReconcileAndClear, NoWriteWhileBlocked, blockVars
<1>11. CASE FinishReconcile
  BY <1>2, <1>11 DEF FinishReconcile
<1> QED
  BY <1>3, <1>4, <1>5, <1>6, <1>7, <1>8, <1>9, <1>10, <1>11 DEF Next, Worker, Scheduler, Host

---------------------------------------------------------------------------
(* The ledger of runs and the blocker's record *)

\* What the invariant says of the blocker.
LEMMA BlockerFacts ==
  ASSUME IInv, blocker # NoRun
  PROVE  /\ blocker \in Live /\ blocker \in RunId
         /\ blocker \notin ToSet(completed) /\ blocker \notin Active
BY DEF IInv, Ledger, Live

\* The effects of a step on the ledger, one for each kind of step.
LedgerAfter == Ledger' /\ BlockerAgreesWithRecord'

\* A step that keeps every run's place and the blocker's status.
LEMMA LedgerUntouched ==
  ASSUME IInv, UNCHANGED <<activeByOp, completed, blocker, blockRecord>>,
         statuses' \in [RunId -> Status \cup {NoStatus}],
         \A id \in RunId : statuses'[id] = NoStatus <=> statuses[id] = NoStatus,
         blocker # NoRun => statuses'[blocker] = statuses[blocker]
  PROVE  LedgerAfter
<1>1. Live' = Live
  BY DEF Live
<1>2. Active' = Active
  BY DEF Active
<1>3. ToSet(completed') = ToSet(completed) /\ Distinct(completed')
  BY DEF IInv, Ledger
<1>4. Ledger'
  BY <1>1, <1>2, <1>3 DEF IInv, Ledger
<1>5. BlockerAgreesWithRecord'
  BY DEF IInv, BlockerAgreesWithRecord
<1> QED
  BY <1>4, <1>5 DEF LedgerAfter

\* Accepting operations adds new runs to the active ones.
LEMMA LedgerEnqueue ==
  ASSUME IInv, NEW ops \in Seq(Operation), NEW ids, EnqueuedUnder(ids, ops), Distinct(ops),
         \A i \in 1..Len(ops) : activeByOp[ops[i]] = NoRun,
         UNCHANGED <<completed, blocker, blockRecord>>
  PROVE  LedgerAfter
<1>0. /\ ids \in Seq(RunId) /\ DOMAIN ids = 1..Len(ops) /\ DOMAIN ops = 1..Len(ops)
      /\ Len(ops) \in Nat
  BY LenProperties DEF EnqueuedUnder
<1>1. /\ \A i \in 1..Len(ops) : /\ ids[i] \in RunId /\ ids[i] \notin Live
                                /\ ids[i] # NoRun
                                /\ ops[i] \in Operation
                                /\ statuses'[ids[i]] # NoStatus
                                /\ activeByOp'[ops[i]] = ids[i]
      /\ \A op \in Operation : op \notin ToSet(ops) => activeByOp'[op] = activeByOp[op]
      /\ \A id \in RunId : id \notin ToSet(ids) => statuses'[id] = statuses[id]
  <2>1. \A i \in 1..Len(ops) : ids[i] \in RunId /\ ops[i] \in Operation
    BY <1>0, ElementOfSeq DEF EnqueuedUnder
  <2>2. \A i \in 1..Len(ops) : /\ statuses[ids[i]] = NoStatus
                               /\ statuses'[ids[i]] = NewStatus(ops[i])
                               /\ activeByOp'[ops[i]] = ids[i]
    BY DEF EnqueuedUnder
  <2>3. \A i \in 1..Len(ops) : /\ ids[i] \notin Live /\ ids[i] # NoRun
                               /\ statuses'[ids[i]] # NoStatus
    BY <2>1, <2>2, NewStatusType, RunAssumption DEF Live
  <2> QED
    BY <2>1, <2>2, <2>3 DEF EnqueuedUnder
<1>2. \A i \in DOMAIN ids : ids[i] \in ToSet(ids)
  BY DEF ToSet
<1>3. \A id \in ToSet(ids) : \E i \in 1..Len(ops) : ids[i] = id
  BY <1>0 DEF ToSet
<1>4. \A op \in ToSet(ops) : \E i \in 1..Len(ops) : ops[i] = op
  BY <1>0 DEF ToSet
<1>5. Live' = Live \cup ToSet(ids)
  BY <1>0, <1>1, <1>2, <1>3 DEF Live
<1>6. Active' = Active \cup ToSet(ids)
  <2>1. \A op \in Operation :
          IF op \in ToSet(ops) THEN activeByOp[op] = NoRun /\ activeByOp'[op] \in ToSet(ids)
          ELSE activeByOp'[op] = activeByOp[op]
    BY <1>0, <1>1, <1>2, <1>4
  <2>2. \A id \in ToSet(ids) : id # NoRun /\ \E op \in Operation : activeByOp'[op] = id
    BY <1>1, <1>3
  <2> QED
    BY <2>1, <2>2 DEF Active
<1>7. ToSet(completed) \cap ToSet(ids) = {} /\ (blocker # NoRun => blocker \notin ToSet(ids))
  <2>1. ToSet(completed) \subseteq Live
    BY DEF IInv, Ledger
  <2> QED
    BY <1>1, <1>3, <2>1, BlockerFacts
<1>8. \A op, other \in Operation :
        op # other /\ activeByOp'[op] # NoRun => activeByOp'[op] # activeByOp'[other]
  <2> SUFFICES ASSUME NEW op \in Operation, NEW other \in Operation, op # other,
                      activeByOp'[op] # NoRun
               PROVE  activeByOp'[op] # activeByOp'[other]
    OBVIOUS
  <2>1. \A o \in Operation : o \notin ToSet(ops) => activeByOp'[o] \in Active \cup {NoRun}
    BY <1>1 DEF Active
  <2>2. \A o \in ToSet(ops) : activeByOp'[o] \notin Active \cup {NoRun}
    <3>1. Active \subseteq Live
      BY DEF IInv, Ledger
    <3> QED
      BY <1>1, <1>4, <3>1
  <2>3. CASE op \notin ToSet(ops) /\ other \notin ToSet(ops)
    BY <2>3, <1>1 DEF IInv, Ledger
  <2>4. CASE op \in ToSet(ops) /\ other \in ToSet(ops)
    <3>1. PICK i \in 1..Len(ops) : ops[i] = op
      BY <2>4, <1>4
    <3>2. PICK j \in 1..Len(ops) : ops[j] = other
      BY <2>4, <1>4
    <3>3. ids[i] # ids[j]
      BY <3>1, <3>2, <1>0 DEF EnqueuedUnder, Distinct
    <3> QED
      BY <3>1, <3>2, <3>3, <1>1
  <2>5. CASE ~(op \in ToSet(ops) <=> other \in ToSet(ops))
    BY <2>1, <2>2, <2>5
  <2> QED
    BY <2>3, <2>4, <2>5
<1>9. blocker \notin ToSet(ids)
  BY <1>1, <1>3, <1>7
<1>10. Ledger'
  BY <1>5, <1>6, <1>7, <1>8, <1>9 DEF IInv, Ledger
<1>11. BlockerAgreesWithRecord'
  BY <1>1, <1>9, BlockerFacts DEF IInv, BlockerAgreesWithRecord
<1> QED
  BY <1>10, <1>11 DEF LedgerAfter

\* A run that ends leaves the active ones.
LEMMA ActiveAfterEnd ==
  ASSUME IInv, item # NoJob, activeByOp' = [activeByOp EXCEPT ![item.operation] = NoRun]
  PROVE  /\ Active' = Active \ {item.runID}
         /\ \A op, other \in Operation :
              op # other /\ activeByOp'[op] # NoRun => activeByOp'[op] # activeByOp'[other]
<1>1. /\ item.operation \in Operation /\ activeByOp[item.operation] = item.runID
      /\ item.runID # NoRun
      /\ activeByOp \in [Operation -> RunId \cup {NoRun}]
  BY ActiveRunFacts, RunAssumption DEF IInv, OneRunPerOperation, TypeOK, Job
<1>2. \A op \in Operation :
        activeByOp'[op] = IF op = item.operation THEN NoRun ELSE activeByOp[op]
  BY <1>1
<1>3. \A op \in Operation \ {item.operation} : activeByOp[op] # item.runID
  BY <1>1 DEF IInv, Ledger
<1>4. Active' = Active \ {item.runID}
  BY <1>1, <1>2, <1>3 DEF Active
<1>5. \A op, other \in Operation :
        op # other /\ activeByOp'[op] # NoRun => activeByOp'[op] # activeByOp'[other]
  BY <1>2 DEF IInv, Ledger
<1> QED
  BY <1>4, <1>5

\* The worker's run ends: it moves from the active runs to the retained ones, or it
\* becomes the blocker.
LEMMA LedgerEnd ==
  ASSUME IInv, item # NoJob,
         activeByOp' = [activeByOp EXCEPT ![item.operation] = NoRun],
         NEW state \in RunningState \cup TerminalState, NEW code \in ErrorCode,
         \/ blocker' = blocker /\ blockRecord' = blockRecord
         \/ /\ blocker = NoRun /\ blocker' = item.runID
            /\ state = "uncertain" /\ blockRecord'.id = item.runID /\ blockRecord'.code = code,
         LET r == RetainOne(SetStatus(statuses, item.runID, state, code), completed,
                            blocker', item.runID)
         IN  statuses' = r.statuses /\ completed' = r.completed
  PROVE  LedgerAfter
<1> DEFINE id == item.runID
           st == SetStatus(statuses, id, state, code)
           r  == RetainOne(st, completed, blocker', id)
           finished == IF id = blocker' THEN ToSet(completed) ELSE ToSet(completed) \cup {id}
<1>1. /\ id \in RunId /\ id \in Active /\ statuses[id] \in Status /\ id # NoRun
      /\ id # blocker /\ id \notin ToSet(completed)
  BY ActiveRunFacts, RunAssumption
<1>2. /\ completed \in Seq(RunId) /\ Distinct(completed) /\ Len(completed) <= RetainLimit
      /\ statuses \in [RunId -> Status \cup {NoStatus}]
  BY DEF IInv, TypeOK, Ledger
<1>3. /\ st \in [RunId -> Status \cup {NoStatus}]
      /\ st[id] = [statuses[id] EXCEPT !.state = state, !.code = code]
      /\ \A other \in RunId \ {id} : st[other] = statuses[other]
  <2>1. statuses[id] # NoStatus
    BY <1>1, StatusFacts
  <2>2. st \in [RunId -> Status \cup {NoStatus}]
    BY <1>1, <1>2, <2>1, SetStatusType
  <2>3. st = [statuses EXCEPT ![id] = [statuses[id] EXCEPT !.state = state, !.code = code]]
    BY <1>1, <1>2 DEF SetStatus
  <2> HIDE DEF st, id
  <2> QED
    BY <1>1, <1>2, <2>2, <2>3
<1>4. st[id] \in Status /\ st[id].state = state /\ st[id].code = code
  BY <1>1, <1>3 DEF Status
<1>5. statuses' = r.statuses /\ completed' = r.completed
  OBVIOUS
<1> HIDE DEF st
<1>6. Retained(r, st, finished)
  BY <1>1, <1>2, <1>3, RetainOneFacts
<1> HIDE DEF r, id
<1>7. PICK gone \in SUBSET finished :
        /\ ToSet(completed') = finished \ gone
        /\ statuses' = [other \in RunId |-> IF other \in gone THEN NoStatus ELSE st[other]]
  BY <1>5, <1>6 DEF Retained
<1>8. Distinct(completed') /\ Len(completed') <= RetainLimit
  BY <1>5, <1>6 DEF Retained
<1>9. /\ Active' = Active \ {id}
      /\ \A op, other \in Operation :
           op # other /\ activeByOp'[op] # NoRun => activeByOp'[op] # activeByOp'[other]
  BY ActiveAfterEnd DEF id
<1>10. Live' = Live \ gone
  <2>1. \A other \in RunId : st[other] # NoStatus <=> statuses[other] # NoStatus
    BY <1>1, <1>3, <1>4, StatusFacts
  <2> QED
    BY <1>7, <2>1 DEF Live
<1>11. /\ Live = ToSet(completed) \cup Active \cup ({blocker} \ {NoRun})
       /\ ToSet(completed) \cap Active = {}
       /\ blocker \notin ToSet(completed) \cup Active
  BY DEF IInv, Ledger
<1>12. CASE blocker' = blocker /\ blockRecord' = blockRecord
  <2>1. finished = ToSet(completed) \cup {id}
    BY <1>1, <1>12
  <2>2. Ledger'
    BY <1>1, <1>7, <1>8, <1>9, <1>10, <1>11, <1>12, <2>1 DEF Ledger
  <2>3. blocker # NoRun => statuses'[blocker] = statuses[blocker]
    BY <1>1, <1>3, <1>7, <1>11, <2>1, BlockerFacts
  <2>4. BlockerAgreesWithRecord'
    BY <1>12, <2>3 DEF IInv, BlockerAgreesWithRecord
  <2> QED
    BY <2>2, <2>4 DEF LedgerAfter
<1>13. CASE /\ blocker = NoRun /\ blocker' = id
            /\ state = "uncertain" /\ blockRecord'.id = id /\ blockRecord'.code = code
  <2>1. finished = ToSet(completed)
    BY <1>13
  <2>2. Ledger'
    BY <1>1, <1>7, <1>8, <1>9, <1>10, <1>11, <1>13, <2>1 DEF Ledger
  <2>3. statuses'[id] = st[id]
    BY <1>1, <1>3, <1>7, <2>1
  <2>4. BlockerAgreesWithRecord'
    BY <1>1, <1>4, <1>13, <2>3 DEF BlockerAgreesWithRecord
  <2> QED
    BY <2>2, <2>4 DEF LedgerAfter
<1> QED
  BY <1>12, <1>13 DEF id

\* Shutdown moves the queued runs to the retained ones.
LEMMA LedgerShutdown == ASSUME IInv, Shutdown PROVE LedgerAfter
<1> DEFINE ids    == [i \in DOMAIN queue |-> queue[i].runID]
           failed == [id \in RunId |->
                        IF id \in ToSet(ids)
                        THEN [statuses[id] EXCEPT !.state = "failed",
                                                  !.code = "not_yet_implemented"]
                        ELSE statuses[id]]
           kept   == Retain(failed, completed, ids)
<1>1. /\ ids \in Seq(RunId) /\ ToSet(ids) \subseteq Active
      /\ Distinct(completed \o ids)
      /\ ToSet(completed \o ids) = ToSet(completed) \cup ToSet(ids)
      /\ failed \in [RunId -> Status \cup {NoStatus}]
      /\ \A id \in RunId : failed[id] = NoStatus <=> statuses[id] = NoStatus
  BY ShutdownFacts
<1>2. statuses' = kept.statuses /\ completed' = kept.completed
  BY DEF Shutdown
<1>3. \A id \in RunId : id \notin ToSet(ids) => failed[id] = statuses[id]
  OBVIOUS
<1>4. \A i \in DOMAIN queue : queue[i].runID \in ToSet(ids)
  BY DEF ToSet
<1>5. \A id \in ToSet(ids) : \E i \in DOMAIN queue : queue[i].runID = id
  BY DEF ToSet
<1>6. /\ completed \in Seq(RunId)
      /\ Live = ToSet(completed) \cup Active \cup ({blocker} \ {NoRun})
      /\ ToSet(completed) \cap Active = {}
      /\ blocker \notin ToSet(completed) \cup Active
  BY DEF IInv, TypeOK, Ledger
<1> HIDE DEF ids, failed
<1>7. Retained(kept, failed, ToSet(completed) \cup ToSet(ids))
  <2>1. Retained(kept, failed, ToSet(completed \o ids))
    BY <1>1, <1>6, RetainFacts
  <2> HIDE DEF kept
  <2> QED
    BY <1>1, <2>1
<1> HIDE DEF kept
<1>8. PICK gone \in SUBSET (ToSet(completed) \cup ToSet(ids)) :
        /\ ToSet(completed') = (ToSet(completed) \cup ToSet(ids)) \ gone
        /\ statuses' = [id \in RunId |-> IF id \in gone THEN NoStatus ELSE failed[id]]
  BY <1>2, <1>7 DEF Retained
<1>9. Distinct(completed') /\ Len(completed') <= RetainLimit
  BY <1>2, <1>7 DEF Retained
<1>10. /\ UNCHANGED <<blocker, blockRecord>>
       /\ \A op \in Operation : activeByOp'[op] =
            IF \E i \in DOMAIN queue : queue[i].operation = op THEN NoRun ELSE activeByOp[op]
  BY DEF Shutdown, blockVars
<1>11. \A i \in DOMAIN queue : /\ queue[i].operation \in Operation
                               /\ activeByOp[queue[i].operation] = queue[i].runID
                               /\ queue[i].runID # NoRun
  BY ActiveRunFacts, RunAssumption DEF IInv, OneRunPerOperation, Job
<1>12. \A op, other \in Operation :
         op # other /\ activeByOp[op] # NoRun => activeByOp[op] # activeByOp[other]
  BY DEF IInv, Ledger
<1>13. \A op \in Operation :
         activeByOp'[op] = IF activeByOp[op] \in ToSet(ids) THEN NoRun ELSE activeByOp[op]
  <2> TAKE op \in Operation
  <2>1. CASE \E i \in DOMAIN queue : queue[i].operation = op
    BY <2>1, <1>4, <1>10, <1>11
  <2>2. CASE ~\E i \in DOMAIN queue : queue[i].operation = op
    <3>1. activeByOp[op] \notin ToSet(ids)
      <4> SUFFICES ASSUME NEW i \in DOMAIN queue, queue[i].runID = activeByOp[op] PROVE FALSE
        BY <1>5
      <4> QED
        BY <2>2, <1>11, <1>12
    <3> QED
      BY <2>2, <3>1, <1>10
  <2> QED
    BY <2>1, <2>2
<1>14. Active' = Active \ ToSet(ids)
  BY <1>13 DEF Active
<1>15. \A op, other \in Operation :
         op # other /\ activeByOp'[op] # NoRun => activeByOp'[op] # activeByOp'[other]
  BY <1>12, <1>13
<1>16. Live' = Live \ gone
  BY <1>1, <1>8 DEF Live
<1>17. Ledger'
  BY <1>1, <1>6, <1>8, <1>9, <1>10, <1>14, <1>15, <1>16 DEF Ledger
<1>18. blocker # NoRun => statuses'[blocker] = statuses[blocker]
  BY <1>1, <1>3, <1>6, <1>8, BlockerFacts
<1>19. BlockerAgreesWithRecord'
  BY <1>10, <1>18 DEF IInv, BlockerAgreesWithRecord
<1> QED
  BY <1>17, <1>19 DEF LedgerAfter

\* A conclusive reconcile removes the blocker.
LEMMA LedgerClear ==
  ASSUME IInv, blocker # NoRun, blocker' = NoRun, blockRecord' = NoRecord,
         statuses' = ClearBlock.statuses, completed' = ClearBlock.completed,
         UNCHANGED activeByOp
  PROVE  LedgerAfter
<1>1. /\ blocker \in RunId /\ blocker \notin ToSet(completed) \cup Active
      /\ Live = ToSet(completed) \cup Active \cup {blocker}
      /\ ToSet(completed) \cap Active = {}
  BY BlockerFacts DEF IInv, Ledger
<1>2. PICK gone \in SUBSET (ToSet(completed) \cup {blocker}) :
        /\ ToSet(completed') = (ToSet(completed) \cup {blocker}) \ gone
        /\ statuses' = [id \in RunId |-> IF id \in gone THEN NoStatus ELSE statuses[id]]
  BY <1>1, ClearBlockFacts
<1>3. Distinct(completed') /\ Len(completed') <= RetainLimit
  BY <1>1, ClearBlockFacts
<1>4. Active' = Active
  BY DEF Active
<1>5. Live' = Live \ gone
  BY <1>2 DEF Live
<1>6. NoRun \notin ToSet(completed') \cup Active'
  <2>1. NoRun \notin Active
    BY DEF Active
  <2>2. NoRun \notin ToSet(completed)
    <3>1. ToSet(completed) \subseteq RunId
      BY ElementOfSeq, LenProperties DEF IInv, TypeOK, ToSet
    <3> QED
      BY <3>1, RunAssumption
  <2> QED
    BY <1>2, <1>4, <2>1, <2>2
<1>7. Ledger'
  <2>1. \A op, other \in Operation :
          op # other /\ activeByOp'[op] # NoRun => activeByOp'[op] # activeByOp'[other]
    BY DEF IInv, Ledger
  <2> QED
    BY <1>1, <1>2, <1>3, <1>4, <1>5, <1>6, <2>1 DEF Ledger
<1>8. BlockerAgreesWithRecord'
  BY DEF BlockerAgreesWithRecord
<1> QED
  BY <1>7, <1>8 DEF LedgerAfter

\* Every step keeps the status map accounted for.
LEMMA LedgerStep == IInv /\ [Next]_vars => LedgerAfter
<1> SUFFICES ASSUME IInv, [Next]_vars PROVE LedgerAfter
  OBVIOUS
<1>0. TypeOK' /\ WorkerPhase /\ statuses \in [RunId -> Status \cup {NoStatus}]
  BY TypeStep DEF IInv, TypeOK
<1>t. statuses' \in [RunId -> Status \cup {NoStatus}]
  BY <1>0 DEF TypeOK
<1>1. ASSUME NEW op \in Triggers, Enqueue(op) PROVE LedgerAfter
  <2>1. op \in Operation
    BY TriggersAssumption
  <2> DEFINE ops == <<op>>
  <2>2. ops \in Seq(Operation) /\ Distinct(ops) /\ Len(ops) = 1 /\ EnqueueAll(ops) /\ ops[1] = op
    BY <1>1, <2>1, EnqueueFacts
  <2>3. activeByOp[op] = NoRun /\ UNCHANGED <<completed, blocker, blockRecord>>
    BY <1>1 DEF Enqueue, Accepted, blockVars
  <2> HIDE DEF ops
  <2>4. PICK ids : EnqueuedUnder(ids, ops)
    BY <2>2, EnqueueAllFacts DEF IInv
  <2>5. \A i \in 1..Len(ops) : activeByOp[ops[i]] = NoRun
    BY <2>2, <2>3
  <2> QED
    BY <2>2, <2>3, <2>4, <2>5, LedgerEnqueue
<1>2. CASE FireExpired
  <2>1. PICK ops \in Seq(Operation) :
          /\ EnqueueAll(ops) /\ Distinct(ops)
          /\ \A i \in 1..Len(ops) : ops[i] \in Expired /\ Accepted(ops[i])
    BY <1>2, FireExpiredFacts
  <2>2. PICK ids : EnqueuedUnder(ids, ops)
    BY <2>1, EnqueueAllFacts DEF IInv
  <2>3. \A i \in 1..Len(ops) : activeByOp[ops[i]] = NoRun
    BY <2>1 DEF Accepted
  <2>4. UNCHANGED <<completed, blocker, blockRecord>>
    BY <1>2 DEF FireExpired, blockVars
  <2> QED
    BY <2>1, <2>2, <2>3, <2>4, LedgerEnqueue
<1>3. CASE Shutdown
  BY <1>3, LedgerShutdown
<1>4. ASSUME UNCHANGED <<statuses, activeByOp, completed, blocker, blockRecord>>
      PROVE  LedgerAfter
  BY <1>t, <1>4, LedgerUntouched
<1>5. ASSUME NEW next \in Settings, Configure(next) PROVE LedgerAfter
  BY <1>4, <1>5 DEF Configure, queueVars, blockVars
<1>6. CASE ConfigureWake \/ ShutdownJoin \/ SchedulerCompute \/ SchedulerStop
           \/ SchedulerWoken \/ SchedulerTimer \/ Tick \/ UNCHANGED vars
  BY <1>4, <1>6 DEF ConfigureWake, ShutdownJoin, SchedulerCompute, SchedulerStop,
     SchedulerWoken, SchedulerTimer, Tick, vars, queueVars, blockVars
<1>7. CASE WorkerStop \/ WorkerSleep \/ WorkerDequeue \/ WorkerLoadBlock
           \/ ReconcileInconclusive \/ WorkerWake
  BY <1>4, <1>7 DEF WorkerStop, WorkerSleep, WorkerDequeue, WorkerLoadBlock,
     ReconcileInconclusive, WorkerWake, queueVars, blockVars
<1>8. ASSUME item # NoJob, NEW state, statuses' = [statuses EXCEPT ![item.runID].state = state],
             UNCHANGED <<activeByOp, completed, blocker, blockRecord>>
      PROVE  LedgerAfter
  <2>1. /\ item.runID \in RunId /\ statuses[item.runID] \in Status
        /\ item.runID # blocker /\ statuses[item.runID] # NoStatus
    BY <1>8, ActiveRunFacts, StatusFacts
  <2>2. statuses'[item.runID].operation = statuses[item.runID].operation
    BY <1>0, <1>8, <2>1 DEF Status
  <2>3. statuses'[item.runID] # NoStatus
    <3>1. statuses[item.runID].operation \in Operation
      BY <2>1 DEF Status
    <3>2. NoStatus.operation \notin Operation
      BY DEF NoStatus, Operation, AutoPull, MetadataSync, ModelInfo, Reconcile
    <3> QED
      BY <2>2, <3>1, <3>2
  <2>4. \A id \in RunId \ {item.runID} : statuses'[id] = statuses[id]
    BY <1>0, <1>8
  <2>5. blocker # NoRun => statuses'[blocker] = statuses[blocker]
    BY <2>1, <2>4, BlockerFacts
  <2> QED
    BY <1>t, <1>8, <2>1, <2>3, <2>4, <2>5, LedgerUntouched
<1>9. CASE WorkerBegin
  BY <1>0, <1>8, <1>9 DEF WorkerBegin, WorkerPhase, blockVars
<1>10. ASSUME NEW state \in RunningState, Progress(state) PROVE LedgerAfter
  BY <1>0, <1>8, <1>10 DEF Progress, WorkerPhase, blockVars
<1>11. ASSUME NEW code \in {"", "core_unavailable"} \cup UncertainCode,
              NEW version \in Version \cup {NoVersion}, Finish(code, version)
       PROVE  LedgerAfter
  <2> DEFINE state == IF code \in UncertainCode THEN "uncertain"
                      ELSE IF code = "" THEN "succeeded" ELSE "failed"
             r == RetainOne(SetStatus(statuses, item.runID, state, code), completed,
                            BlockerAfter(code), item.runID)
  <2>1. /\ item # NoJob /\ activeByOp' = [activeByOp EXCEPT ![item.operation] = NoRun]
        /\ blocker' = BlockerAfter(code) /\ blockRecord' = BlockRecordAfter(code, version)
        /\ code \in UncertainCode => isConfigWriteOperation(item.operation)
    BY <1>0, <1>11 DEF Finish, WorkerPhase
  <2>2. statuses' = r.statuses /\ completed' = r.completed
    BY <1>11 DEF Finish
  <2>3. state \in RunningState \cup TerminalState /\ code \in ErrorCode
    BY StatusFacts
  <2>4. \/ blocker' = blocker /\ blockRecord' = blockRecord
        \/ /\ blocker = NoRun /\ blocker' = item.runID
           /\ state = "uncertain" /\ blockRecord'.id = item.runID /\ blockRecord'.code = code
    <3>1. CASE code \in UncertainCode
      BY <2>1, <3>1 DEF BlockerAfter, BlockRecordAfter, IInv, NoWriteWhileBlocked
    <3>2. CASE code \notin UncertainCode
      BY <2>1, <3>2 DEF BlockerAfter, BlockRecordAfter
    <3> QED
      BY <3>1, <3>2
  <2> HIDE DEF state
  <2>5. LET q == RetainOne(SetStatus(statuses, item.runID, state, code), completed,
                           blocker', item.runID)
        IN  statuses' = q.statuses /\ completed' = q.completed
    BY <2>1, <2>2
  <2> HIDE DEF r
  <2> QED
    BY <2>1, <2>3, <2>4, <2>5, LedgerEnd
<1>12. ASSUME NEW v \in Version, ReconcileAndClear(v) PROVE LedgerAfter
  <2>1. CASE MatchesBlock(v)
    <3>1. /\ statuses' = ClearBlock.statuses /\ completed' = ClearBlock.completed
          /\ blocker' = NoRun /\ blockRecord' = NoRecord /\ blocker # NoRun
          /\ UNCHANGED activeByOp
      BY <1>12, <2>1 DEF ReconcileAndClear, MatchesBlock
    <3> QED
      BY <3>1, LedgerClear
  <2>2. CASE ~MatchesBlock(v)
    BY <1>4, <1>12, <2>2 DEF ReconcileAndClear, blockVars
  <2> QED
    BY <2>1, <2>2
<1>13. CASE FinishReconcile
  <2> DEFINE state == IF cleared THEN "succeeded" ELSE "failed"
             code  == IF cleared THEN "" ELSE "reconcile_failed"
             r == RetainOne(SetStatus(statuses, item.runID, state, code), completed,
                            blocker, item.runID)
  <2>1. /\ item # NoJob /\ activeByOp' = [activeByOp EXCEPT ![item.operation] = NoRun]
        /\ blocker' = blocker /\ blockRecord' = blockRecord
    BY <1>0, <1>13 DEF FinishReconcile, WorkerPhase, blockVars
  <2>2. statuses' = r.statuses /\ completed' = r.completed
    BY <1>13 DEF FinishReconcile
  <2>3. state \in RunningState \cup TerminalState /\ code \in ErrorCode
    BY StatusFacts
  <2> HIDE DEF state, code
  <2>4. LET q == RetainOne(SetStatus(statuses, item.runID, state, code), completed,
                           blocker', item.runID)
        IN  statuses' = q.statuses /\ completed' = q.completed
    BY <2>1, <2>2
  <2> HIDE DEF r
  <2> QED
    BY <2>1, <2>3, <2>4, LedgerEnd
<1> QED
  BY <1>1, <1>2, <1>3, <1>5, <1>6, <1>7, <1>9, <1>10, <1>11, <1>12, <1>13
     DEF Next, Worker, Scheduler, Host

---------------------------------------------------------------------------
(* The theorems *)

\* New starts in the invariant.
LEMMA InitIInv == Init => IInv
<1> SUFFICES ASSUME Init PROVE IInv
  OBVIOUS
<1>1. blocker \in RunId /\ blocker # NoRun
  BY RunAssumption DEF Init
<1>2. /\ statuses = [id \in RunId |->
           IF id = blocker
           THEN [operation |-> Reconcile, state |-> "blocked",
                 code |-> "startup_reconcile_required"]
           ELSE NoStatus]
      /\ blockRecord = [id |-> blocker, code |-> "startup_reconcile_required",
                        version |-> NoVersion]
  BY DEF Init
<1>3. statuses[blocker] \in Status /\ statuses[blocker] # NoStatus
  <2>1. statuses[blocker].state = "blocked" /\ statuses[blocker] \in Status
    BY <1>1, <1>2 DEF Status, ErrorCode, BlockCode, Operation
  <2> QED
    BY <2>1, StatusFacts
<1>4. statuses \in [RunId -> Status \cup {NoStatus}]
  <2>1. \A id \in RunId : statuses[id] \in Status \cup {NoStatus}
    BY <1>2, <1>3
  <2> QED
    BY <1>2, <2>1
<1>5. blockRecord \in Record
  BY <1>1, <1>2 DEF Record, BlockCode
<1>6. TypeOK
  <2>1. settings \in [Scheduled -> Nat] /\ deadlines \in [Scheduled -> Nat]
    BY DEF Init, NoTime
  <2>2. activeByOp \in [Operation -> RunId \cup {NoRun}]
    BY DEF Init
  <2>3. queue \in Seq(Job) /\ completed \in Seq(RunId)
    BY DEF Init
  <2>4. /\ configured = FALSE /\ worker = "check" /\ item = NoJob /\ expected = NoRecord
        /\ cleared = FALSE /\ now = 0 /\ wakeScheduler = FALSE /\ wakePending = FALSE
        /\ scheduler = "compute" /\ armed = 0 /\ fireTime = 0 /\ shutdown = "no"
    BY DEF Init, NoTime
  <2> QED
    BY <1>1, <1>4, <1>5, <2>1, <2>2, <2>3, <2>4 DEF TypeOK
<1>7. WorkerPhase
  BY DEF Init, WorkerPhase, NoJob
<1>8. OneRunPerOperation
  BY DEF Init, OneRunPerOperation, NoJob
<1>9. Live = {blocker} /\ Active = {} /\ ToSet(completed) = {}
  BY <1>1, <1>2, <1>3 DEF Init, Live, Active, ToSet
<1>10. Distinct(completed) /\ Len(completed) <= RetainLimit
  BY BoundAssumption DEF Init, Distinct
<1>11. Ledger
  BY <1>1, <1>9, <1>10 DEF Init, Ledger
<1>12. BlockerAgreesWithRecord
  BY <1>1, <1>2 DEF BlockerAgreesWithRecord
<1>13. NoWriteWhileBlocked
  BY DEF Init, NoWriteWhileBlocked, isConfigWriteOperation, NoJob, AutoPull, MetadataSync
<1> QED
  BY <1>6, <1>7, <1>8, <1>11, <1>12, <1>13 DEF IInv

\* The invariant holds for ever.
THEOREM Invariance == Spec => []IInv
<1>1. IInv /\ [Next]_vars => IInv'
  BY TypeStep, WorkerPhaseStep, OneRunStep, LedgerStep, GateStep DEF IInv, LedgerAfter
<1> QED
  BY InitIInv, <1>1, PTL DEF Spec

\* Every variable keeps its type through every interleaving of host calls, worker and
\* scheduler.
THEOREM TypeCorrect == Spec => []TypeOK
<1>1. IInv => TypeOK
  BY DEF IInv
<1> QED
  BY Invariance, <1>1, PTL

\* At most one queued or running run per operation (enqueueLocked, fireExpired, worker).
THEOREM OneRunTheorem == Spec => []OneRunPerOperation
<1>1. IInv => OneRunPerOperation
  BY DEF IInv
<1> QED
  BY Invariance, <1>1, PTL

\* No config write runs while an earlier write's outcome is in doubt.
THEOREM GateTheorem == Spec => []NoWriteWhileBlocked
<1>1. IInv => NoWriteWhileBlocked
  BY DEF IInv
<1> QED
  BY Invariance, <1>1, PTL

\* The blocker, its record and its status name the same doubt: a reconcile always has
\* the evidence it must match.
THEOREM BlockerTheorem == Spec => []BlockerAgreesWithRecord
<1>1. IInv => BlockerAgreesWithRecord
  BY DEF IInv
<1> QED
  BY Invariance, <1>1, PTL

\* The status map holds the retained, active and blocking runs and nothing else.
THEOREM AccountingTheorem == Spec => []StatusesAccountedFor
<1>1. ASSUME IInv PROVE StatusesAccountedFor
  <2>1. completed \in Seq(RunId) /\ Len(completed) \in Nat /\ DOMAIN completed = 1..Len(completed)
    BY <1>1, LenProperties DEF IInv, TypeOK
  <2>2. Len(completed) = Cardinality(ToSet(completed))
    <3> DEFINE n == Len(completed)
    <3>1. completed \in Bijection(1..n, ToSet(completed))
      <4>1. completed \in [1..n -> ToSet(completed)]
        BY <2>1, LenProperties DEF ToSet
      <4>2. \A i, j \in 1..n : completed[i] = completed[j] => i = j
        BY <1>1, <2>1 DEF IInv, Ledger, Distinct
      <4>3. \A id \in ToSet(completed) : \E i \in 1..n : completed[i] = id
        BY <2>1 DEF ToSet
      <4> QED
        BY <4>1, <4>2, <4>3, Fun_IsBij
    <3>2. ExistsBijection(1..n, ToSet(completed))
      BY <3>1 DEF ExistsBijection
    <3> QED
      BY <2>1, <3>2, FS_CountingElements
  <2> QED
    BY <1>1, <2>2 DEF IInv, Ledger, Live, Active, StatusesAccountedFor
<1> QED
  BY Invariance, <1>1, PTL

\* A blocker disappears only through a reconcile run that was started on this very
\* record: never through another outcome, a shutdown or a reconfigure.
THEOREM UnblockTheorem == Spec => OnlyItsReconcileUnblocks
<1> DEFINE P == blocker # NoRun /\ blocker' # blocker =>
                  /\ blocker' = NoRun
                  /\ item.operation = Reconcile
                  /\ expected = blockRecord
<1>1. ASSUME IInv, [Next]_vars PROVE P
  <2>0. WorkerPhase /\ NoWriteWhileBlocked
    BY <1>1 DEF IInv
  <2>1. ASSUME blocker' = blocker PROVE P
    BY <2>1
  <2>2. ASSUME NEW op \in Triggers, Enqueue(op) PROVE P
    BY <2>1, <2>2 DEF Enqueue, blockVars
  <2>3. ASSUME NEW next \in Settings, Configure(next) PROVE P
    BY <2>1, <2>3 DEF Configure, blockVars
  <2>4. ASSUME NEW state \in RunningState, Progress(state) PROVE P
    BY <2>1, <2>4 DEF Progress, blockVars
  <2>5. CASE FireExpired \/ Shutdown \/ ConfigureWake \/ ShutdownJoin \/ SchedulerCompute
             \/ SchedulerStop \/ SchedulerWoken \/ SchedulerTimer \/ Tick \/ UNCHANGED vars
    BY <2>1, <2>5 DEF FireExpired, Shutdown, ConfigureWake, ShutdownJoin, SchedulerCompute,
       SchedulerStop, SchedulerWoken, SchedulerTimer, Tick, vars, blockVars
  <2>6. CASE WorkerStop \/ WorkerSleep \/ WorkerDequeue \/ WorkerBegin \/ WorkerLoadBlock
             \/ ReconcileInconclusive \/ FinishReconcile \/ WorkerWake
    BY <2>1, <2>6 DEF WorkerStop, WorkerSleep, WorkerDequeue, WorkerBegin, WorkerLoadBlock,
       ReconcileInconclusive, FinishReconcile, WorkerWake, blockVars
  <2>7. ASSUME NEW code, NEW version, Finish(code, version) PROVE P
    <3>1. blocker' = BlockerAfter(code)
          /\ (code \in UncertainCode => isConfigWriteOperation(item.operation))
      BY <2>7 DEF Finish
    <3> QED
      BY <2>0, <3>1 DEF BlockerAfter, NoWriteWhileBlocked
  <2>8. ASSUME NEW v \in Version, ReconcileAndClear(v) PROVE P
    <3>1. item.operation = Reconcile
      BY <2>0, <2>8 DEF ReconcileAndClear, WorkerPhase
    <3>2. CASE MatchesBlock(v)
      BY <2>8, <3>1, <3>2 DEF ReconcileAndClear, MatchesBlock
    <3>3. CASE ~MatchesBlock(v)
      BY <2>1, <2>8, <3>3 DEF ReconcileAndClear, blockVars
    <3> QED
      BY <3>2, <3>3
  <2> QED
    BY <1>1, <2>2, <2>3, <2>4, <2>5, <2>6, <2>7, <2>8 DEF Next, Worker, Scheduler, Host
<1>2. IInv /\ [Next]_vars => [P]_vars
  BY <1>1
<1> QED
  BY Invariance, <1>2, PTL DEF Spec, OnlyItsReconcileUnblocks

\* The worker goroutine never sleeps on a job it could take: every step that makes a
\* job runnable, or stops the service, wakes it.
THEOREM WorkerWakeupTheorem == Spec => []WorkerWakeupNotLost
<1>1. Init => WorkerWakeupNotLost
  BY DEF Init, WorkerWakeupNotLost
<1>2. ASSUME IInv, WorkerWakeupNotLost, [Next]_vars PROVE WorkerWakeupNotLost'
  <2>1. ASSUME UNCHANGED <<worker, queue, blocker, shutdown>> PROVE WorkerWakeupNotLost'
    BY <1>2, <2>1 DEF WorkerWakeupNotLost, runnable, stopped
  <2>2. ASSUME worker' # "asleep" PROVE WorkerWakeupNotLost'
    BY <2>2 DEF WorkerWakeupNotLost
  <2>3. ASSUME NEW ops \in Seq(Operation), EnqueueAll(ops), Distinct(ops),
               UNCHANGED <<blocker, shutdown>>
        PROVE  WorkerWakeupNotLost'
    <3>1. CASE ops = <<>>
      <4>1. PICK ids : EnqueuedUnder(ids, ops)
        BY <1>2, <2>3, EnqueueAllFacts DEF IInv
      <4>2. /\ DOMAIN queue' = DOMAIN queue
            /\ \A i \in DOMAIN queue : queue'[i] = queue[i]
        <5>1. /\ queue' \in Seq(Job) /\ queue \in Seq(Job) /\ Len(ops) = 0
              /\ Len(queue') = Len(queue) + Len(ops)
              /\ \A i \in 1..Len(queue) : queue'[i] = queue[i]
          BY <1>2, <3>1, <4>1 DEF IInv, TypeOK, EnqueuedUnder
        <5>2. Len(queue) \in Nat /\ DOMAIN queue = 1..Len(queue) /\ DOMAIN queue' = 1..Len(queue')
          BY <5>1, LenProperties
        <5> QED
          BY <5>1, <5>2
      <4>3. worker' = worker
        BY <2>3, <3>1 DEF EnqueueAll
      <4> QED
        BY <1>2, <2>3, <4>2, <4>3 DEF WorkerWakeupNotLost, runnable, stopped
    <3>2. CASE ops # <<>>
      BY <2>2, <2>3, <3>2 DEF EnqueueAll, Woken
    <3> QED
      BY <3>1, <3>2
  <2>4. ASSUME NEW op \in Triggers, Enqueue(op) PROVE WorkerWakeupNotLost'
    BY <2>3, <2>4, EnqueueFacts, TriggersAssumption DEF Enqueue, blockVars
  <2>5. CASE FireExpired
    BY <2>3, <2>5, FireExpiredFacts DEF FireExpired, blockVars
  <2>6. ASSUME NEW next \in Settings, Configure(next) PROVE WorkerWakeupNotLost'
    BY <2>1, <2>6 DEF Configure, queueVars, blockVars, workVars
  <2>7. ASSUME NEW state \in RunningState, Progress(state) PROVE WorkerWakeupNotLost'
    BY <2>1, <2>7 DEF Progress, blockVars, workVars
  <2>8. CASE ConfigureWake \/ ShutdownJoin \/ SchedulerCompute \/ SchedulerStop
             \/ SchedulerWoken \/ SchedulerTimer \/ Tick \/ UNCHANGED vars
    <3>1. CASE ShutdownJoin
      BY <2>2, <3>1 DEF ShutdownJoin, workVars
    <3>2. CASE ~ShutdownJoin
      BY <2>1, <2>8, <3>2 DEF ConfigureWake, SchedulerCompute, SchedulerStop, SchedulerWoken,
         SchedulerTimer, Tick, vars, queueVars, blockVars, workVars
    <3> QED
      BY <3>1, <3>2
  <2>9. CASE Shutdown
    BY <2>2, <2>9 DEF Shutdown, Woken
  <2>10. CASE WorkerSleep
    BY <2>10 DEF WorkerSleep, WorkerWakeupNotLost, runnable, stopped, queueVars, blockVars
  <2>11. CASE WorkerStop \/ WorkerDequeue \/ WorkerBegin \/ WorkerLoadBlock
              \/ ReconcileInconclusive \/ FinishReconcile \/ WorkerWake
    BY <2>2, <2>11 DEF WorkerStop, WorkerDequeue, WorkerBegin, WorkerLoadBlock,
       ReconcileInconclusive, FinishReconcile, AfterReconcile, WorkerWake
  <2>12. ASSUME NEW code, NEW version, Finish(code, version) PROVE WorkerWakeupNotLost'
    BY <2>2, <2>12 DEF Finish
  <2>13. ASSUME NEW v \in Version, ReconcileAndClear(v) PROVE WorkerWakeupNotLost'
    BY <2>2, <2>13 DEF ReconcileAndClear
  <2> QED
    BY <1>2, <2>4, <2>5, <2>6, <2>7, <2>8, <2>9, <2>10, <2>11, <2>12, <2>13
       DEF Next, Worker, Scheduler, Host
<1> QED
  BY <1>1, <1>2, Invariance, PTL DEF Spec

---------------------------------------------------------------------------
(* The abstract specification *)

\* The empty record holds no code.
LEMMA NoDoubtRecord ==
  /\ NoRecord.code = ""
  /\ BlockerAgreesWithRecord /\ blocker = NoRun => blockRecord = NoRecord
<1>1. NoRecord.code = ""
  BY DEF NoRecord
<1>2. BlockerAgreesWithRecord /\ blocker = NoRun => blockRecord = NoRecord
  BY DEF BlockerAgreesWithRecord
<1> QED
  BY <1>1, <1>2

\* Every behaviour of the queue is one of WriterGate: the Writer starts in doubt,
\* a write starts only in no doubt, and only a reconcile run settles a doubt.
THEOREM GateRefinement == Spec => ImplementsGate
<1>1. Init => Gate!Init
  BY DEF Init, Gate!Init, GatePhase, NoJob, isConfigWriteOperation, AutoPull, MetadataSync, Reconcile
<1>2. ASSUME IInv, [Next]_vars PROVE [Gate!Next]_(Gate!vars)
  <2>1. ASSUME UNCHANGED <<item, blockRecord>> PROVE [Gate!Next]_(Gate!vars)
    BY <2>1 DEF Gate!vars, GatePhase
  <2>2. CASE WorkerDequeue
    <3>1. item = NoJob /\ UNCHANGED blockRecord
      BY <1>2, <2>2 DEF IInv, WorkerPhase, WorkerDequeue, blockVars
    <3>2. GatePhase = "idle"
      BY <3>1 DEF GatePhase, NoJob, isConfigWriteOperation, AutoPull, MetadataSync, Reconcile
    <3>3. PICK i \in DOMAIN queue : runnable(queue[i]) /\ item' = queue[i]
      BY <2>2 DEF WorkerDequeue
    <3>4. CASE isConfigWriteOperation(item'.operation)
      <4>1. blockRecord.code = ""
        <5>1. blocker = NoRun
          BY <3>3, <3>4 DEF runnable
        <5> QED
          BY <1>2, <5>1, NoDoubtRecord DEF IInv
      <4>2. GatePhase' = "writing"
        BY <3>4 DEF GatePhase
      <4> QED
        BY <3>1, <3>2, <4>1, <4>2 DEF Gate!Next, Gate!BeginWrite
    <3>5. CASE ~isConfigWriteOperation(item'.operation)
      <4>1. GatePhase' \in {"idle", "reconciling"}
        BY <3>5 DEF GatePhase
      <4> QED
        BY <3>1, <3>2, <4>1 DEF Gate!Next, Gate!BeginReconcile, Gate!vars
    <3> QED
      BY <3>4, <3>5
  <2>3. ASSUME NEW code \in {"", "core_unavailable"} \cup UncertainCode,
               NEW version \in Version \cup {NoVersion}, Finish(code, version)
        PROVE  [Gate!Next]_(Gate!vars)
    <3>1. /\ item' = NoJob
          /\ item.operation # Reconcile
          /\ code \in UncertainCode => isConfigWriteOperation(item.operation)
          /\ blockRecord' = BlockRecordAfter(code, version)
      BY <1>2, <2>3 DEF Finish, IInv, WorkerPhase
    <3>2. GatePhase' = "idle"
      BY <3>1 DEF GatePhase, NoJob, isConfigWriteOperation, AutoPull, MetadataSync, Reconcile
    <3>3. CASE isConfigWriteOperation(item.operation)
      <4>1. GatePhase = "writing"
        BY <3>3 DEF GatePhase
      <4>2. blockRecord.code = ""
        <5>1. blocker = NoRun
          BY <1>2, <3>3 DEF IInv, NoWriteWhileBlocked
        <5> QED
          BY <1>2, <5>1, NoDoubtRecord DEF IInv
      <4>3. blockRecord'.code \in UncertainCode \cup {""}
        BY <3>1, <4>2 DEF BlockRecordAfter
      <4> QED
        BY <3>2, <4>1, <4>3 DEF Gate!Next, Gate!EndWrite
    <3>4. CASE ~isConfigWriteOperation(item.operation)
      BY <3>1, <3>2, <3>4 DEF GatePhase, BlockRecordAfter, Gate!vars
    <3> QED
      BY <3>3, <3>4
  <2>4. ASSUME NEW v \in Version, ReconcileAndClear(v) PROVE [Gate!Next]_(Gate!vars)
    <3>1. item.operation = Reconcile /\ UNCHANGED item
      BY <1>2, <2>4 DEF ReconcileAndClear, IInv, WorkerPhase
    <3>2. blockRecord'.code \in {blockRecord.code, ""}
      <4>1. blockRecord' = NoRecord \/ UNCHANGED blockVars
        BY <2>4 DEF ReconcileAndClear
      <4> QED
        BY <4>1, NoDoubtRecord DEF blockVars
    <3>3. GatePhase = "reconciling" /\ GatePhase' = "reconciling"
      BY <3>1 DEF GatePhase, isConfigWriteOperation, AutoPull, MetadataSync, Reconcile
    <3> QED
      BY <3>2, <3>3 DEF Gate!Next, Gate!Reconcile
  <2>5. CASE FinishReconcile
    <3>1. item.operation = Reconcile /\ item' = NoJob /\ UNCHANGED blockRecord
      BY <1>2, <2>5 DEF FinishReconcile, IInv, WorkerPhase, blockVars
    <3>2. GatePhase = "reconciling" /\ GatePhase' = "idle"
      BY <3>1 DEF GatePhase, NoJob, isConfigWriteOperation, AutoPull, MetadataSync, Reconcile
    <3> QED
      BY <3>1, <3>2 DEF Gate!Next, Gate!Reconcile
  <2>6. CASE Shutdown
    BY <2>1, <2>6 DEF Shutdown, blockVars
  <2>7. CASE WorkerStop \/ WorkerSleep \/ WorkerBegin \/ WorkerLoadBlock
             \/ ReconcileInconclusive \/ WorkerWake
    BY <2>1, <2>7 DEF WorkerStop, WorkerSleep, WorkerBegin, WorkerLoadBlock,
       ReconcileInconclusive, WorkerWake, blockVars
  <2>8. CASE ConfigureWake \/ ShutdownJoin \/ SchedulerCompute \/ SchedulerStop
             \/ SchedulerWoken \/ SchedulerTimer \/ FireExpired \/ Tick \/ UNCHANGED vars
    BY <2>1, <2>8 DEF ConfigureWake, ShutdownJoin, SchedulerCompute, SchedulerStop,
       SchedulerWoken, SchedulerTimer, FireExpired, Tick, vars, blockVars, workVars
  <2>9. ASSUME NEW op \in Triggers, Enqueue(op) PROVE [Gate!Next]_(Gate!vars)
    BY <2>1, <2>9 DEF Enqueue, blockVars
  <2>10. ASSUME NEW next \in Settings, Configure(next) PROVE [Gate!Next]_(Gate!vars)
    BY <2>1, <2>10 DEF Configure, blockVars, workVars
  <2>11. ASSUME NEW state \in RunningState, Progress(state) PROVE [Gate!Next]_(Gate!vars)
    BY <2>1, <2>11 DEF Progress, blockVars, workVars
  <2> QED
    BY <1>2, <2>2, <2>3, <2>4, <2>5, <2>6, <2>7, <2>8, <2>9, <2>10, <2>11
       DEF Next, Worker, Scheduler, Host
<1> QED
  BY <1>1, <1>2, Invariance, PTL DEF Spec, ImplementsGate, Gate!Spec

---------------------------------------------------------------------------
(* The scheduler: it never sleeps past a deadline, and deadlines follow the *)
(* schedule that is in force.                                               *)

\* A deadline that the scheduler has to wait for.
Open(op) == deadlines[op] # NoTime /\ ~Refused(op)

\* The timer fires in time for an operation.
InTime(op) == armed # NoTime /\ armed <= deadlines[op]

\* Somebody has told the scheduler to look again, or is about to.
Told == wakeScheduler \/ wakePending \/ cleared

\* Only operations with an interval have a deadline.
OnSchedule ==
  \A op \in Scheduled : deadlines[op] # NoTime => configured /\ settings[op] # 0

\* What a reconcile cleared is announced before the worker takes another job.
ClearingIsTold == cleared => worker \in {"reconciled", "waking"}

\* SchedulerWakeupNotLost, one operation at a time.
InTimeOrTold ==
  scheduler = "select" => Told \/ \A op \in Scheduled : Open(op) => InTime(op)

Schedule == OnSchedule /\ ClearingIsTold /\ InTimeOrTold

-----------------------------------------------------------------------------
(* The earliest deadline, and the next point of a schedule *)

\* NextDeadline is the earliest of the open deadlines, NoTime when there is none.
LEMMA EarliestDeadline ==
  ASSUME deadlines \in [Scheduled -> Nat]
  PROVE  /\ \A op \in Scheduled : Open(op) => NextDeadline # NoTime /\ NextDeadline <= deadlines[op]
         /\ NextDeadline # NoTime => \E op \in Scheduled : Open(op) /\ NextDeadline = deadlines[op]
<1> DEFINE open == {deadlines[op] : op \in {o \in Scheduled : deadlines[o] # NoTime /\ ~Refused(o)}}
<1>1. NextDeadline = IF open = {} THEN NoTime
                     ELSE CHOOSE t \in open : \A u \in open : t <= u
  BY DEF NextDeadline
<1>2. \A op \in Scheduled : Open(op) => deadlines[op] \in open
  BY DEF Open
<1>3. \A t \in open : t # NoTime /\ \E op \in Scheduled : Open(op) /\ t = deadlines[op]
  BY DEF Open
<1>4. open \in SUBSET {deadlines[AutoPull], deadlines[MetadataSync], deadlines[ModelInfo]}
  BY DEF Scheduled
<1>5. deadlines[AutoPull] \in Nat /\ deadlines[MetadataSync] \in Nat /\ deadlines[ModelInfo] \in Nat
  BY DEF Scheduled
<1> HIDE DEF open
<1>6. CASE open = {}
  BY <1>1, <1>2, <1>6
<1>7. CASE open # {}
  <2>1. \E t \in open : \A u \in open : t <= u
    BY <1>4, <1>5, <1>7, EarliestOfThree
  <2>2. NextDeadline \in open /\ \A u \in open : NextDeadline <= u
    BY <1>1, <1>7, <2>1
  <2> QED
    BY <1>2, <1>3, <2>2
<1> QED
  BY <1>6, <1>7

\* A multiple of an interval leaves no remainder.
LEMMA MultipleRemainder ==
  ASSUME NEW i \in Nat \ {0}, NEW k \in Nat
  PROVE  (i * k) % i = 0
<1> DEFINE a == i * k
           q == a \div i
           r == a % i
<1>1. a \in Nat
  OBVIOUS
<1> HIDE DEF a
<1>2. q \in Nat /\ r \in Nat /\ r < i /\ a = i * q + r
  BY <1>1, SMTT(30)
<1> HIDE DEF q, r
<1>3. i * (k - q) = r
  BY <1>2 DEF a
<1>4. CASE k = q
  BY <1>3, <1>4, <1>2 DEF r, a
<1>5. CASE k > q
  <2>1. k - q \in Nat \ {0}
    BY <1>2, <1>5
  <2>2. \A n \in Nat \ {0} : i * n >= i
    OBVIOUS
  <2> QED
    BY <1>2, <1>3, <2>1, <2>2
<1>6. CASE k < q
  <2>1. q - k \in Nat \ {0} /\ i * (q - k) = 0 - r
    BY <1>2, <1>3, <1>6
  <2>2. \A n \in Nat \ {0} : i * n >= i
    OBVIOUS
  <2> QED
    BY <1>2, <2>1, <2>2
<1> QED
  BY <1>2, <1>4, <1>5, <1>6

\* A deadline advances by whole intervals.
LEMMA AdvanceIsOnSchedule ==
  ASSUME NEW d \in Nat, NEW i \in Nat \ {0}, NEW t \in Nat, d <= t
  PROVE  (AdvancedDeadline(d, i, t) - d) % i = 0
<1> DEFINE k == ((t - d) \div i) + 1
<1>1. k \in Nat
  BY SMTT(30)
<1>2. AdvancedDeadline(d, i, t) = d + i * k
  BY DEF AdvancedDeadline
<1> HIDE DEF k
<1>3. i * k \in Nat
  BY <1>1
<1>4. AdvancedDeadline(d, i, t) - d = i * k
  BY <1>2, <1>3
<1> QED
  BY <1>1, <1>4, MultipleRemainder

\* A firing leaves every expired operation that is not held back with a run: an active
\* one of before, or the one it admits.
LEMMA FiringAdmits ==
  ASSUME TypeOK, FireExpired, NEW op \in Expired, ~Refused(op)
  PROVE  activeByOp'[op] # NoRun
<1> DEFINE admitted == {o \in Expired : Accepted(o)}
           n == Cardinality(admitted)
<1>1. PICK ops \in [1..n -> admitted] :
        EnqueueAll(ops) /\ \A i, j \in 1..n : i # j => ops[i] # ops[j]
  BY DEF FireExpired
<1>2. n \in Nat /\ IsFiniteSet(admitted)
  BY ScheduledFinite DEF Expired
<1>3. admitted \subseteq Operation /\ op \in Operation
  BY DEF Expired, Scheduled, Operation
<1>4. op \in admitted <=> activeByOp[op] = NoRun
  BY DEF Accepted
<1>5. n = Cardinality(admitted)
  OBVIOUS
<1> HIDE DEF n, admitted
<1>6. ops \in Seq(Operation) /\ DOMAIN ops = 1..n /\ Len(ops) = n
  <2>1. ops \in [1..n -> Operation]
    BY <1>1, <1>3
  <2> QED
    BY <2>1, <1>2, SeqDef, LenProperties
<1>7. Distinct(ops)
  BY <1>1, <1>6 DEF Distinct
<1>8. PICK ids : EnqueuedUnder(ids, ops)
  BY <1>1, <1>6, <1>7, EnqueueAllFacts
<1>9. CASE \E i \in 1..n : ops[i] = op
  <2>1. PICK i \in 1..n : ops[i] = op
    BY <1>9
  <2>2. ids \in Seq(RunId) /\ Len(ids) = n /\ activeByOp'[op] = ids[i]
    BY <1>6, <1>8, <2>1 DEF EnqueuedUnder
  <2>3. ids[i] \in RunId
    BY <2>2, ElementOfSeq
  <2> QED
    BY <2>2, <2>3, RunAssumption
<1>10. CASE ~ \E i \in 1..n : ops[i] = op
  <2>1. op \notin ToSet(ops)
    BY <1>6, <1>10 DEF ToSet
  <2>2. activeByOp'[op] = activeByOp[op]
    BY <1>3, <1>8, <2>1 DEF EnqueuedUnder
  <2>3. op \notin admitted
    <3>1. ops \in Injection(1..n, admitted)
      BY <1>1, Fun_IsInj
    <3>2. IsFiniteSet(1..n) /\ Cardinality(1..n) = n
      BY <1>2, FS_Interval
    <3>3. ops \in Surjection(1..n, admitted)
      BY <1>2, <1>5, <3>1, <3>2, FS_Injection
    <3>4. \A o \in admitted : \E i \in 1..n : ops[i] = o
      BY <3>3 DEF Surjection
    <3> QED
      BY <1>10, <3>4
  <2> QED
    BY <1>4, <2>2, <2>3
<1> QED
  BY <1>9, <1>10

-----------------------------------------------------------------------------
(* The invariant *)

\* Deadlines and what governs them are left alone.
LEMMA OnScheduleKept ==
  ASSUME OnSchedule, UNCHANGED <<deadlines, configured, settings>>
  PROVE  OnSchedule'
BY DEF OnSchedule

\* The scheduler waits on, no deadline opens, and no announcement is taken back.
LEMMA InTimeKept ==
  ASSUME InTimeOrTold, UNCHANGED <<scheduler, armed, deadlines>>, Told => Told',
         \A op \in Scheduled : Refused(op) => Refused(op)'
  PROVE  InTimeOrTold'
BY DEF InTimeOrTold, Open, InTime

\* Steps of host and worker that touch neither the blocker nor the schedule.
LEMMA ScheduleQuiet ==
  ASSUME Schedule, UNCHANGED <<deadlines, configured, settings, scheduler, armed,
                               blocker, wakeScheduler, wakePending, cleared>>,
         cleared => worker' \in {"reconciled", "waking"}
  PROVE  Schedule'
<1>1. OnSchedule'
  BY OnScheduleKept DEF Schedule
<1>2. InTimeOrTold'
  BY InTimeKept DEF Schedule, Told, Refused
<1> QED
  BY <1>1, <1>2 DEF Schedule, ClearingIsTold

\* The steps of the worker keep the schedule: one that ends a doubt tells the scheduler.
LEMMA ScheduleWorker ==
  ASSUME IInv, Schedule, Worker
  PROVE  Schedule'
<1>0. ClearingIsTold /\ OnSchedule /\ InTimeOrTold /\ NoWriteWhileBlocked
  BY DEF Schedule, IInv
<1>1. CASE WorkerStop \/ WorkerSleep \/ WorkerDequeue \/ WorkerBegin \/ WorkerLoadBlock
  <2>1. /\ UNCHANGED <<deadlines, configured, settings, scheduler, armed,
                       blocker, wakeScheduler, wakePending, cleared>>
        /\ worker \in {"check", "starting", "loading"}
    BY <1>1 DEF WorkerStop, WorkerSleep, WorkerDequeue, WorkerBegin, WorkerLoadBlock,
       queueVars, blockVars, timeVars, schedVars, confVars
  <2> QED
    BY <1>0, <2>1, ScheduleQuiet DEF ClearingIsTold
<1>2. ASSUME NEW code, NEW version, Finish(code, version)
      PROVE  Schedule'
  <2>1. /\ UNCHANGED <<deadlines, configured, settings, scheduler, armed,
                       wakeScheduler, wakePending, cleared>>
        /\ worker = "executing"
        /\ blocker' = BlockerAfter(code)
        /\ code \in UncertainCode => isConfigWriteOperation(item.operation)
    BY <1>2 DEF Finish, timeVars, schedVars, confVars
  <2>2. ~cleared /\ ~cleared'
    BY <1>0, <2>1 DEF ClearingIsTold
  <2>3. \A op \in Scheduled : Refused(op) => Refused(op)'
    BY <1>0, <2>1 DEF BlockerAfter, NoWriteWhileBlocked, Refused
  <2>4. InTimeOrTold'
    BY <1>0, <2>1, <2>3, InTimeKept DEF Told
  <2> QED
    BY <1>0, <2>1, <2>2, <2>4, OnScheduleKept DEF Schedule, ClearingIsTold
<1>3. ASSUME NEW v \in Version, ReconcileAndClear(v)
      PROVE  Schedule'
  <2>1. /\ UNCHANGED <<deadlines, configured, settings, scheduler, armed,
                       wakeScheduler, wakePending>>
        /\ worker = "reconciling" /\ worker' = "reconciled"
        /\ cleared' \/ blocker' = blocker
    BY <1>3 DEF ReconcileAndClear, blockVars, timeVars, schedVars, confVars
  <2>2. ~cleared
    BY <1>0, <2>1 DEF ClearingIsTold
  <2>3. InTimeOrTold'
    <3>1. CASE cleared'
      BY <3>1 DEF InTimeOrTold, Told
    <3>2. CASE blocker' = blocker
      BY <1>0, <2>1, <2>2, <3>2, InTimeKept DEF Told, Refused
    <3> QED
      BY <2>1, <3>1, <3>2
  <2> QED
    BY <1>0, <2>1, <2>3, OnScheduleKept DEF Schedule, ClearingIsTold
<1>4. CASE ReconcileInconclusive
  <2>1. /\ UNCHANGED <<deadlines, configured, settings, scheduler, armed,
                       blocker, wakeScheduler, wakePending>>
        /\ worker = "reconciling" /\ ~cleared'
    BY <1>4 DEF ReconcileInconclusive, blockVars, timeVars, schedVars, confVars
  <2>2. ~cleared
    BY <1>0, <2>1 DEF ClearingIsTold
  <2>3. InTimeOrTold'
    BY <1>0, <2>1, <2>2, InTimeKept DEF Told, Refused
  <2> QED
    BY <1>0, <2>1, <2>3, OnScheduleKept DEF Schedule, ClearingIsTold
<1>5. CASE FinishReconcile
  <2>1. /\ UNCHANGED <<deadlines, configured, settings, scheduler, armed,
                       blocker, wakeScheduler, wakePending, cleared>>
        /\ cleared => worker' = "waking"
    BY <1>5 DEF FinishReconcile, AfterReconcile, blockVars, timeVars, schedVars, confVars
  <2> QED
    BY <2>1, ScheduleQuiet
<1>6. CASE WorkerWake
  <2>1. /\ UNCHANGED <<deadlines, configured, settings>>
        /\ wakeScheduler' /\ ~cleared'
    BY <1>6 DEF WorkerWake, timeVars, confVars
  <2> QED
    BY <1>0, <2>1, OnScheduleKept DEF Schedule, ClearingIsTold, InTimeOrTold, Told
<1> QED
  BY <1>1, <1>2, <1>3, <1>4, <1>5, <1>6 DEF Worker

\* The steps of the scheduler keep the schedule: it arms its timer to the earliest
\* deadline before it waits.
LEMMA ScheduleScheduler ==
  ASSUME IInv, Schedule, Scheduler
  PROVE  Schedule'
<1>0. ClearingIsTold /\ OnSchedule /\ TypeOK
  BY DEF Schedule, IInv
<1>1. CASE SchedulerCompute
  <2>1. /\ UNCHANGED <<deadlines, configured, settings, blocker, worker, cleared>>
        /\ armed' = NextDeadline
    BY <1>1 DEF SchedulerCompute, blockVars, workVars, timeVars, confVars
  <2>2. \A op \in Scheduled : Open(op) => NextDeadline # NoTime /\ NextDeadline <= deadlines[op]
    BY <1>0, EarliestDeadline DEF TypeOK
  <2>3. \A op \in Scheduled : Open(op)' => InTime(op)'
    BY <2>1, <2>2 DEF Open, InTime, Refused
  <2> QED
    BY <1>0, <2>1, <2>3, OnScheduleKept DEF Schedule, ClearingIsTold, InTimeOrTold
<1>2. CASE SchedulerStop \/ SchedulerWoken \/ SchedulerTimer
  <2>1. /\ UNCHANGED <<deadlines, configured, settings, worker, cleared>>
        /\ scheduler' # "select"
    BY <1>2 DEF SchedulerStop, SchedulerWoken, SchedulerTimer, workVars, timeVars, confVars
  <2> QED
    BY <1>0, <2>1, OnScheduleKept DEF Schedule, ClearingIsTold, InTimeOrTold
<1>3. CASE FireExpired
  <2>1. PICK ops \in Seq(Operation) : EnqueueAll(ops)
    BY <1>3, FireExpiredFacts
  <2>2. /\ UNCHANGED <<configured, settings, cleared>>
        /\ scheduler' # "select"
        /\ worker' \in {worker, Woken(worker)}
    BY <1>3, <2>1 DEF FireExpired, EnqueueAll, confVars
  <2>3. \A op \in Scheduled : deadlines'[op] # NoTime =>
          deadlines[op] # NoTime /\ (settings[op] # 0 \/ deadlines'[op] = deadlines[op])
    BY <1>3 DEF FireExpired, Expired
  <2>4. OnSchedule'
    BY <1>0, <2>2, <2>3 DEF OnSchedule
  <2> QED
    BY <1>0, <2>2, <2>4 DEF Schedule, ClearingIsTold, InTimeOrTold, Woken
<1> QED
  BY <1>1, <1>2, <1>3 DEF Scheduler

\* The host's calls keep the schedule: a reconfigure announces itself.
LEMMA ScheduleHost ==
  ASSUME IInv, Schedule, Host
  PROVE  Schedule'
<1>0. ClearingIsTold /\ OnSchedule /\ InTimeOrTold
  BY DEF Schedule
<1>1. ASSUME NEW op \in Triggers, Enqueue(op)
      PROVE  Schedule'
  <2>1. /\ UNCHANGED <<deadlines, configured, settings, scheduler, armed,
                       blocker, wakeScheduler, wakePending, cleared>>
        /\ worker' \in {worker, Woken(worker)}
    BY <1>1 DEF Enqueue, EnqueueAll, blockVars, timeVars, schedVars, confVars
  <2> QED
    BY <1>0, <2>1, ScheduleQuiet DEF ClearingIsTold, Woken
<1>2. ASSUME NEW next \in Settings, Configure(next)
      PROVE  Schedule'
  <2>1. /\ settings' = next /\ configured' /\ wakePending'
        /\ \A op \in Scheduled : deadlines'[op] = UpdatedDeadline(op, next)
        /\ UNCHANGED <<worker, cleared>>
    BY <1>2 DEF Configure, workVars
  <2>2. OnSchedule'
    BY <2>1 DEF OnSchedule, UpdatedDeadline
  <2> QED
    BY <1>0, <2>1, <2>2 DEF Schedule, ClearingIsTold, InTimeOrTold, Told
<1>3. CASE ConfigureWake
  <2>1. /\ UNCHANGED <<deadlines, configured, settings, worker, cleared>>
        /\ wakeScheduler'
    BY <1>3 DEF ConfigureWake, workVars, timeVars, confVars
  <2> QED
    BY <1>0, <2>1, OnScheduleKept DEF Schedule, ClearingIsTold, InTimeOrTold, Told
<1>4. CASE Shutdown
  <2>1. /\ UNCHANGED <<deadlines, configured, settings, scheduler, armed,
                       blocker, wakeScheduler, wakePending, cleared>>
        /\ worker' = Woken(worker)
    BY <1>4 DEF Shutdown, blockVars, timeVars, schedVars, confVars
  <2> QED
    BY <1>0, <2>1, ScheduleQuiet DEF ClearingIsTold, Woken
<1>5. CASE ShutdownJoin
  <2>1. UNCHANGED <<deadlines, configured, settings, scheduler, armed, worker,
                    blocker, wakeScheduler, wakePending, cleared>>
    BY <1>5 DEF ShutdownJoin, blockVars, workVars, timeVars, schedVars, confVars
  <2> QED
    BY <1>0, <2>1, ScheduleQuiet DEF ClearingIsTold
<1> QED
  BY <1>1, <1>2, <1>3, <1>4, <1>5 DEF Host

LEMMA ScheduleStep == IInv /\ Schedule /\ [Next]_vars => Schedule'
<1> SUFFICES ASSUME IInv, Schedule, [Next]_vars
             PROVE  Schedule'
  OBVIOUS
<1>1. CASE Tick \/ UNCHANGED vars \/ \E state \in RunningState : Progress(state)
  <2>1. UNCHANGED <<deadlines, configured, settings, scheduler, armed, worker,
                    blocker, wakeScheduler, wakePending, cleared>>
    BY <1>1 DEF Tick, Progress, vars, blockVars, workVars, timeVars, schedVars, confVars
  <2> QED
    BY <2>1, ScheduleQuiet DEF Schedule, ClearingIsTold
<1> QED
  BY <1>1, ScheduleWorker, ScheduleScheduler, ScheduleHost DEF Next

\* Deadlines, the scheduler's timer and its wake-ups fit together in every state.
THEOREM ScheduleInvariance == Spec => []Schedule
<1>1. Init => Schedule
  BY DEF Init, Schedule, OnSchedule, ClearingIsTold, InTimeOrTold, NoTime
<1> QED
  BY <1>1, Invariance, ScheduleStep, PTL DEF Spec

-----------------------------------------------------------------------------
(* The properties *)

\* The scheduler never waits with its timer off or set past the earliest deadline,
\* unless a wake-up is in its channel or on its way (wake, nextDeadline): no reconfigure
\* and no cleared doubt is overslept.
THEOREM SchedulerWakeupTheorem == Spec => []SchedulerWakeupNotLost
<1>1. ASSUME IInv, Schedule
      PROVE  SchedulerWakeupNotLost
  <2>1. deadlines \in [Scheduled -> Nat]
    BY <1>1 DEF IInv, TypeOK
  <2>2. NextDeadline # NoTime => \E op \in Scheduled : Open(op) /\ NextDeadline = deadlines[op]
    BY <2>1, EarliestDeadline
  <2> QED
    BY <1>1, <2>2 DEF Schedule, ClearingIsTold, InTimeOrTold, Told, InTime, SchedulerWakeupNotLost
<1> QED
  BY <1>1, Invariance, ScheduleInvariance, PTL

\* Unless a reconfigure changes the schedule, a deadline moves only in the firing that
\* leaves its operation with a run, and by whole intervals to the first point after the
\* firing (fireExpired, advanceDeadline).
THEOREM DeadlineTheorem == Spec => DeadlineMovesWithAdmission
<1> DEFINE Moves(op) ==
      configured /\ settings' = settings /\ deadlines'[op] # deadlines[op] =>
        /\ blocker = NoRun \/ ~isConfigWriteOperation(op)
        /\ activeByOp'[op] # NoRun
        /\ fireTime < deadlines'[op] /\ deadlines'[op] <= fireTime + settings[op]
        /\ (deadlines'[op] - deadlines[op]) % settings[op] = 0
<1>1. ASSUME IInv, Schedule, [Next]_vars, NEW op \in Scheduled
      PROVE  Moves(op)
  <2>0. TypeOK /\ OnSchedule
    BY <1>1 DEF IInv, Schedule
  <2>1. ASSUME deadlines' = deadlines PROVE Moves(op)
    BY <2>1
  <2>2. CASE FireExpired
    <3>1. CASE op \in Expired /\ ~Refused(op)
      <4>1. /\ deadlines[op] \in Nat /\ fireTime \in Nat /\ settings[op] \in Nat \ {0}
            /\ deadlines[op] <= fireTime
        BY <2>0, <3>1 DEF TypeOK, OnSchedule, Expired
      <4>2. deadlines'[op] = AdvancedDeadline(deadlines[op], settings[op], fireTime)
        BY <2>2, <3>1, <4>1 DEF FireExpired
      <4>3. /\ fireTime < deadlines'[op]
            /\ deadlines'[op] <= fireTime + settings[op]
        BY <4>1, <4>2, AdvancedDeadlineFacts
      <4>4. (deadlines'[op] - deadlines[op]) % settings[op] = 0
        BY <4>1, <4>2, AdvanceIsOnSchedule
      <4>5. activeByOp'[op] # NoRun
        BY <2>0, <2>2, <3>1, FiringAdmits
      <4> QED
        BY <3>1, <4>3, <4>4, <4>5 DEF Refused
    <3>2. CASE op \notin Expired \/ Refused(op)
      BY <2>2, <3>2 DEF FireExpired
    <3> QED
      BY <3>1, <3>2
  <2>3. ASSUME NEW next \in Settings, Configure(next)
        PROVE  Moves(op)
    <3>1. ASSUME configured, settings' = settings
          PROVE  deadlines'[op] = deadlines[op]
      <4>1. next = settings /\ deadlines'[op] = UpdatedDeadline(op, next)
        BY <2>3, <3>1 DEF Configure
      <4> QED
        BY <2>0, <3>1, <4>1 DEF UpdatedDeadline, OnSchedule
    <3> QED
      BY <3>1
  <2>4. CASE Worker \/ Tick \/ UNCHANGED vars \/ \E state \in RunningState : Progress(state)
    <3>1. deadlines' = deadlines
      BY <2>4 DEF Worker, WorkerStop, WorkerSleep, WorkerDequeue, WorkerBegin, WorkerLoadBlock,
         Finish, ReconcileAndClear, ReconcileInconclusive, FinishReconcile, WorkerWake, Tick,
         Progress, vars, timeVars
    <3> QED
      BY <2>1, <3>1
  <2>5. CASE SchedulerCompute \/ SchedulerStop \/ SchedulerWoken \/ SchedulerTimer
             \/ ConfigureWake \/ Shutdown \/ ShutdownJoin
             \/ \E trigger \in Triggers : Enqueue(trigger)
    <3>1. deadlines' = deadlines
      BY <2>5 DEF SchedulerCompute, SchedulerStop, SchedulerWoken, SchedulerTimer,
         ConfigureWake, Shutdown, ShutdownJoin, Enqueue, timeVars
    <3> QED
      BY <2>1, <3>1
  <2> HIDE DEF Moves
  <2> QED
    BY <1>1, <2>2, <2>3, <2>4, <2>5 DEF Next, Scheduler, Host
<1>2. IInv /\ Schedule /\ [Next]_vars => [\A op \in Scheduled : Moves(op)]_vars
  BY <1>1
<1> QED
  BY <1>2, Invariance, ScheduleInvariance, PTL DEF Spec, DeadlineMovesWithAdmission

=============================================================================
