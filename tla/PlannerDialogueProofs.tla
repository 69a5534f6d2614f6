----------------------- MODULE PlannerDialogueProofs -----------------------
(***************************************************************************)
(* Proofs about PlannerDialogue, for any configurations, limits and number *)
(* of dialogues: its limits hold, a refusal has a cause, plans overlap only*)
(* when the older one was begun late, and a proposal is whole.             *)
(*                                                                         *)
(* Identities are the heart of it: no two dialogues ever hold the same     *)
(* attempt or request, so that what the planner awaits can be awaited by   *)
(* one of them only, however late the calls of the others come.            *)
(***************************************************************************)
EXTENDS PlannerDialogue, SequenceTheorems, TLAPS

\* Where a dialogue is, and what its call has then.
CallInOrder(d) ==
  /\ calls[d].at = "entered" => calls[d].attempt # 0
  /\ calls[d].at \in {"sent", "begun", "entered"} => calls[d].reply = NoReply
  /\ calls[d].continuation # NoContinuation => calls[d].continuation.request # 0
  /\ calls[d].continuation = NoContinuation => ~ calls[d].more
  /\ calls[d].reply.kind = "fetch" => calls[d].reply.next.request # 0
  /\ d > dialogue => calls[d] = NoCall

InOrder ==
  /\ phase # "idle" => dialogue \in Dialogue
  /\ phase = "fetching" => /\ pages < maxProviderPages
                           /\ calls[dialogue].at = "returned"
                           /\ calls[dialogue].reply.kind = "fetch"
  /\ \A d \in Dialogue : CallInOrder(d)

Shape == TypeOK /\ InOrder

\* The attempts and requests a dialogue holds.
Ids(call) ==
  {call.attempt, call.continuation.attempt, call.continuation.request,
   call.reply.next.attempt, call.reply.next.request} \ {0}

\* A continuation whose request is awaited is one of the current attempt.
OfCurrent(c) == c.request = pendingRequest /\ pendingRequest # 0 => c.attempt = currentAttempt

Identities ==
  /\ currentAttempt <= lastID /\ pendingRequest <= lastID
  /\ \A d \in Dialogue : \A id \in Ids(calls[d]) : id <= lastID
  /\ \A d, e \in Dialogue : d # e => Ids(calls[d]) \cap Ids(calls[e]) = {}
  /\ \A d \in Dialogue : OfCurrent(calls[d].continuation) /\ OfCurrent(calls[d].reply.next)

-----------------------------------------------------------------------------
\* A continuation asks for the page that follows those it has.
Follows(c, cfg, d) ==
  /\ c.index \in DOMAIN Targets[cfg]
  /\ \E index \in [DOMAIN c.results -> DOMAIN Targets[cfg]] :
       /\ Walk(c.results, index, cfg, d)
       /\ \/ c.page = 1 /\ c.index = IF c.results = <<>> THEN 1
                                     ELSE index[Len(c.results)] + 1
          \/ /\ c.results # <<>> /\ c.index = index[Len(c.results)]
             /\ c.page = c.results[Len(c.results)].page + 1

\* What was noted under the configuration in force is about it.
CallInForce(call, d) ==
  /\ call.generation <= generation
  /\ call.generation = generation => call.config = config
  /\ \A c \in {call.continuation, call.reply.next} :
       /\ c.generation <= generation
       /\ c.generation = generation => Follows(c, config, d)

InForce == \A d \in Dialogue : CallInForce(calls[d], d)

-----------------------------------------------------------------------------
\* The planner awaits the page a continuation is for.
Awaits(c) ==
  /\ configured /\ generation = c.generation
  /\ currentAttempt = c.attempt /\ c.attempt # 0 /\ pendingRequest = c.request

\* The planner is where the dialogue believes it is.
InStep(call) ==
  LET c == call.continuation
  IN  /\ call.at # "none" /\ call.reply.kind # "refused"
      /\ call.at \in {"begun", "entered"} => configured /\ call.generation = generation
      /\ call.at \in {"sent", "begun"} /\ c # NoContinuation => Awaits(c)
      /\ call.at = "entered" =>
           /\ currentAttempt = call.attempt /\ pendingRequest = 0
           /\ c # NoContinuation => c.generation = call.generation /\ c.attempt = call.attempt
      /\ call.at \in {"returning", "returned"} /\ call.reply.kind = "fetch"
           => Awaits(call.reply.next)

Fence ==
  /\ ~ disturbed /\ phase \in {"calling", "fetching"} => InStep(calls[dialogue])
  /\ RefusalHasCause

\* A plan that was not begun late is its Writer's business still.
InHand ==
  \A d \in Dialogue :
    Running(d) /\ ~ calls[d].late =>
      d = dialogue /\ (phase \in {"calling", "asking"} \/ stalled)

-----------------------------------------------------------------------------
(* What each step does to the call it is about. *)

\* Only the call of dialogue d changes.
Only(d) == /\ calls' \in [Dialogue -> Call]
           /\ \A e \in Dialogue : e # d => calls'[e] = calls[e]

\* A call keeps what it brings, and what its handler has noted.
Brings(new, old) == new.continuation = old.continuation /\ new.more = old.more
Notes(new, old) == /\ new.generation = old.generation /\ new.config = old.config
                   /\ new.late = old.late

LEMMA ContinuationFields ==
  /\ NoContinuation \in Continuation
  /\ \A c \in Continuation :
       /\ c.generation \in Nat /\ c.attempt \in Nat /\ c.index \in Nat /\ c.page \in Nat
       /\ c.request \in Nat /\ c.results \in Seq(Page)
<1>1. <<>> \in Seq(Page)
  OBVIOUS
<1> QED
  BY <1>1 DEF NoContinuation, Continuation, ID

LEMMA ReplyFields ==
  /\ NoReply \in Reply /\ NoReply.kind = "none" /\ NoReply.next = NoContinuation
  /\ \A kind \in {"refused", "invalid", "unauthorized"} :
       /\ Error(kind) \in Reply
       /\ Error(kind).kind = kind /\ Error(kind).next = NoContinuation
  /\ \A c \in Continuation, kind \in {"fetch", "final"} :
       [kind |-> kind, next |-> c] \in Reply
  /\ \A r \in Reply :
       /\ r.kind \in {"none", "fetch", "final", "refused", "invalid", "unauthorized"}
       /\ r.next \in Continuation
  BY ContinuationFields DEF NoReply, Reply, Error

LEMMA CallFields ==
  \A c \in Call :
    /\ c.at \in {"none", "sent", "begun", "entered", "returning", "returned"}
    /\ c.continuation \in Continuation /\ c.more \in BOOLEAN /\ c.generation \in Nat
    /\ c.config \in Config /\ c.attempt \in Nat /\ c.reply \in Reply /\ c.late \in BOOLEAN
  BY ContinuationFields DEF Call, ID

LEMMA CallTypes ==
  ASSUME TypeOK, NEW d \in Dialogue
  PROVE  /\ calls[d] \in Call
         /\ calls[d].continuation \in Continuation /\ calls[d].reply \in Reply
         /\ calls[d].reply.next \in Continuation
<1>1. calls[d] \in Call
  BY DEF TypeOK
<1> QED
  BY <1>1, CallFields, ReplyFields

\* The values a call takes.
LEMMA CallUpdates ==
  ASSUME NEW call \in Call, NEW reply \in Reply, NEW n \in Nat, NEW g \in Nat,
         NEW c \in Config, NEW late \in BOOLEAN
  PROVE  /\ [call EXCEPT !.at = "begun", !.generation = g, !.config = c, !.late = late]
              \in Call
         /\ [call EXCEPT !.at = "returning", !.reply = reply] \in Call
         /\ [call EXCEPT !.at = "returned", !.reply = reply] \in Call
         /\ [call EXCEPT !.at = "entered", !.attempt = n] \in Call
         /\ [call EXCEPT !.at = "returned"] \in Call
         /\ [call EXCEPT !.at = "none"] \in Call
  BY DEF Call, ID

LEMMA NoCallFields ==
  /\ NoCall \in Call /\ NoCall.at = "none" /\ NoCall.continuation = NoContinuation
  /\ NoCall.reply = NoReply /\ NoCall.attempt = 0 /\ NoCall.generation = 0
  /\ ~ NoCall.more /\ ~ NoCall.late
<1>1. (CHOOSE c \in Config : TRUE) \in Config
  BY ConfigAssumption
<1> QED
  BY <1>1, ContinuationFields, ReplyFields DEF NoCall, Call, ID

LEMMA SentFields ==
  ASSUME NEW c \in Continuation, NEW more \in BOOLEAN, NEW d \in Dialogue, TypeOK,
         Send(d, c, more)
  PROVE  /\ Only(d)
         /\ calls'[d].at = "sent" /\ calls'[d].continuation = c /\ calls'[d].more = more
         /\ calls'[d].reply = NoReply /\ calls'[d].attempt = 0 /\ calls'[d].generation = 0
         /\ ~ calls'[d].late
<1> DEFINE x == [NoCall EXCEPT !.at = "sent", !.more = more, !.continuation = c]
<1>1. x \in Call /\ x.at = "sent" /\ x.continuation = c /\ x.more = more
      /\ x.reply = NoReply /\ x.attempt = 0 /\ x.generation = 0 /\ ~ x.late
  BY NoCallFields DEF Call
<1>2. calls \in [Dialogue -> Call] /\ calls' = [calls EXCEPT ![d] = x]
  BY DEF TypeOK, Send
<1> QED
  BY <1>1, <1>2 DEF Only

LEMMA BeginFacts ==
  ASSUME TypeOK, NEW d \in Dialogue, Begin(d)
  PROVE  /\ Only(d) /\ calls[d].at = "sent"
         /\ Brings(calls'[d], calls[d]) /\ calls'[d].attempt = calls[d].attempt
         /\ \/ /\ configured /\ calls'[d].at = "begun" /\ calls'[d].generation = generation
               /\ calls'[d].config = config /\ calls'[d].late = Abandoned(d)
               /\ calls'[d].reply = calls[d].reply
            \/ /\ calls'[d].at = "returned" /\ calls'[d].reply = Error("unauthorized")
               /\ Notes(calls'[d], calls[d])
         /\ UNCHANGED <<plannerVars, lastID, writerVars, disturbed>>
<1>1. calls \in [Dialogue -> Call] /\ calls[d] \in Call /\ generation \in Nat /\ config \in Config
      /\ Abandoned(d) \in BOOLEAN
  BY DEF TypeOK, Abandoned
<1> DEFINE x == [calls[d] EXCEPT !.at = "begun", !.generation = generation,
                                 !.config = config, !.late = Abandoned(d)]
           y == [calls[d] EXCEPT !.at = "returned", !.reply = Error("unauthorized")]
<1>2. x \in Call /\ y \in Call
  BY <1>1, CallUpdates, ReplyFields
<1>3. /\ x.at = "begun" /\ x.generation = generation /\ x.config = config
      /\ x.late = Abandoned(d) /\ x.reply = calls[d].reply
      /\ Brings(x, calls[d]) /\ x.attempt = calls[d].attempt
  BY <1>1 DEF Call, Brings
<1>4. /\ y.at = "returned" /\ y.reply = Error("unauthorized")
      /\ Brings(y, calls[d]) /\ y.attempt = calls[d].attempt /\ Notes(y, calls[d])
  BY <1>1 DEF Call, Brings, Notes
<1>5. calls' = [calls EXCEPT ![d] = IF configured THEN x ELSE y]
  BY DEF Begin
<1> HIDE DEF x, y
<1>6. Only(d) /\ calls'[d] = IF configured THEN x ELSE y
  BY <1>1, <1>2, <1>5 DEF Only
<1> QED
  BY <1>3, <1>4, <1>6 DEF Begin

\* A handler that answers keeps all else of its call.
LEMMA AnswerFacts ==
  ASSUME TypeOK, NEW d \in Dialogue, NEW reply \in Reply, Answer(d, reply)
  PROVE  /\ Only(d) /\ calls'[d].at = "returning" /\ calls'[d].reply = reply
         /\ Brings(calls'[d], calls[d]) /\ Notes(calls'[d], calls[d])
         /\ calls'[d].attempt = calls[d].attempt
<1>1. calls \in [Dialogue -> Call] /\ calls[d] \in Call
  BY DEF TypeOK
<1> DEFINE x == [calls[d] EXCEPT !.at = "returning", !.reply = reply]
<1>2. x \in Call
  BY <1>1, CallUpdates, ConfigAssumption
<1>3. /\ x.at = "returning" /\ x.reply = reply /\ Brings(x, calls[d]) /\ Notes(x, calls[d])
      /\ x.attempt = calls[d].attempt
  BY <1>1 DEF Call, Brings, Notes
<1>4. calls' = [calls EXCEPT ![d] = x]
  BY <1>1 DEF Answer
<1> HIDE DEF x
<1> QED
  BY <1>1, <1>2, <1>3, <1>4 DEF Only

LEMMA EnteredFacts ==
  ASSUME TypeOK, NEW d \in Dialogue, NEW attempt \in Nat, Entered(d, attempt)
  PROVE  /\ Only(d) /\ calls'[d].at = "entered" /\ calls'[d].attempt = attempt
         /\ Brings(calls'[d], calls[d]) /\ Notes(calls'[d], calls[d])
         /\ calls'[d].reply = calls[d].reply
<1>1. calls \in [Dialogue -> Call] /\ calls[d] \in Call
  BY DEF TypeOK
<1> DEFINE x == [calls[d] EXCEPT !.at = "entered", !.attempt = attempt]
<1>2. x \in Call
  BY <1>1, CallUpdates, ConfigAssumption, ReplyFields
<1>3. /\ x.at = "entered" /\ x.attempt = attempt /\ Brings(x, calls[d]) /\ Notes(x, calls[d])
      /\ x.reply = calls[d].reply
  BY <1>1 DEF Call, Brings, Notes
<1>4. calls' = [calls EXCEPT ![d] = x]
  BY <1>1 DEF Entered
<1> HIDE DEF x
<1> QED
  BY <1>1, <1>2, <1>3, <1>4 DEF Only

\* Return and Vanish only say where the call is.
LEMMA PassesFacts ==
  ASSUME TypeOK, NEW d \in Dialogue, Return(d) \/ Vanish(d)
  PROVE  /\ Only(d)
         /\ \/ calls[d].at = "returning" /\ calls'[d].at = "returned"
            \/ calls[d].at = "sent" /\ calls'[d].at = "none" /\ Abandoned(d)
         /\ Brings(calls'[d], calls[d]) /\ Notes(calls'[d], calls[d])
         /\ calls'[d].attempt = calls[d].attempt /\ calls'[d].reply = calls[d].reply
         /\ UNCHANGED <<plannerVars, lastID, writerVars, disturbed>>
<1>1. calls \in [Dialogue -> Call] /\ calls[d] \in Call
  BY DEF TypeOK
<1> DEFINE x == [calls[d] EXCEPT !.at = "returned"]
           y == [calls[d] EXCEPT !.at = "none"]
<1>2. x \in Call /\ y \in Call
  BY <1>1, CallUpdates, ConfigAssumption, ReplyFields
<1>3. /\ x.at = "returned" /\ Brings(x, calls[d]) /\ Notes(x, calls[d])
      /\ x.attempt = calls[d].attempt /\ x.reply = calls[d].reply
  BY <1>1 DEF Call, Brings, Notes
<1>4. /\ y.at = "none" /\ Brings(y, calls[d]) /\ Notes(y, calls[d])
      /\ y.attempt = calls[d].attempt /\ y.reply = calls[d].reply
  BY <1>1 DEF Call, Brings, Notes
<1>5. \/ Return(d) /\ calls' = [calls EXCEPT ![d] = x]
      \/ Vanish(d) /\ calls' = [calls EXCEPT ![d] = y]
  BY <1>1 DEF Return, Vanish, EndPlan
<1> HIDE DEF x, y
<1>6. ASSUME NEW z \in Call, calls' = [calls EXCEPT ![d] = z]
      PROVE  Only(d) /\ calls'[d] = z
  BY <1>1, <1>6 DEF Only
<1>7. CASE Return(d) /\ calls' = [calls EXCEPT ![d] = x]
  <2>1. Only(d) /\ calls'[d] = x
    BY <1>2, <1>6, <1>7
  <2> QED
    BY <1>3, <1>7, <2>1 DEF Return
<1>8. CASE Vanish(d) /\ calls' = [calls EXCEPT ![d] = y]
  <2>1. Only(d) /\ calls'[d] = y
    BY <1>2, <1>6, <1>8
  <2> QED
    BY <1>4, <1>8, <2>1 DEF Vanish
<1> QED
  BY <1>5, <1>7, <1>8

LEMMA StartAttemptFacts ==
  ASSUME TypeOK, NEW d \in Dialogue, StartAttempt(d)
  PROVE  /\ Only(d) /\ calls[d].at = "begun" /\ calls[d].continuation = NoContinuation
         /\ Brings(calls'[d], calls[d]) /\ Notes(calls'[d], calls[d])
         /\ \/ /\ fence(calls[d].generation) /\ lastID' = lastID + 1
               /\ currentAttempt' = lastID' /\ pendingRequest' = 0
               /\ calls'[d].at = "entered" /\ calls'[d].attempt = lastID'
               /\ calls'[d].reply = calls[d].reply
               /\ disturbed' = (disturbed \/ d # dialogue)
            \/ /\ ~ fence(calls[d].generation)
               /\ calls'[d].at = "returning" /\ calls'[d].reply = Error("refused")
               /\ calls'[d].attempt = calls[d].attempt
               /\ UNCHANGED <<currentAttempt, pendingRequest, lastID, disturbed>>
         /\ UNCHANGED <<configured, generation, config, writerVars>>
<1>1. CASE fence(calls[d].generation) /\ Entered(d, lastID') /\ lastID' = lastID + 1
  <2>1. lastID' \in Nat
    BY <1>1 DEF TypeOK
  <2>2. /\ Only(d) /\ calls'[d].at = "entered" /\ calls'[d].attempt = lastID'
        /\ Brings(calls'[d], calls[d]) /\ Notes(calls'[d], calls[d])
        /\ calls'[d].reply = calls[d].reply
    BY <1>1, <2>1, EnteredFacts
  <2> QED
    BY <1>1, <2>2 DEF StartAttempt
<1>2. CASE ~ fence(calls[d].generation) /\ Answer(d, Error("refused"))
  <2>1. /\ Only(d) /\ calls'[d].at = "returning" /\ calls'[d].reply = Error("refused")
        /\ Brings(calls'[d], calls[d]) /\ Notes(calls'[d], calls[d])
        /\ calls'[d].attempt = calls[d].attempt
    BY <1>2, AnswerFacts, ReplyFields
  <2> QED
    BY <1>2, <2>1 DEF StartAttempt
<1> QED
  BY <1>1, <1>2 DEF StartAttempt, Refuse

LEMMA ConsumeStepFacts ==
  ASSUME TypeOK, NEW d \in Dialogue, ConsumeStep(d)
  PROVE  /\ Only(d) /\ calls[d].at = "begun" /\ calls[d].continuation # NoContinuation
         /\ Brings(calls'[d], calls[d]) /\ Notes(calls'[d], calls[d])
         /\ \/ /\ consumePlannerStep(calls[d].continuation.request, calls[d].generation)
               /\ pendingRequest' = 0
               /\ calls'[d].at = "entered" /\ calls'[d].attempt = currentAttempt
               /\ calls'[d].reply = calls[d].reply
            \/ /\ ~ consumePlannerStep(calls[d].continuation.request, calls[d].generation)
               /\ calls'[d].at = "returning" /\ calls'[d].reply = Error("refused")
               /\ calls'[d].attempt = calls[d].attempt
               /\ pendingRequest' = pendingRequest
         /\ UNCHANGED <<configured, generation, config, currentAttempt, lastID, writerVars,
                        disturbed>>
<1> DEFINE consume == consumePlannerStep(calls[d].continuation.request, calls[d].generation)
<1>1. CASE consume /\ Entered(d, currentAttempt)
  <2>1. currentAttempt \in Nat
    BY DEF TypeOK, ID
  <2>2. /\ Only(d) /\ calls'[d].at = "entered" /\ calls'[d].attempt = currentAttempt
        /\ Brings(calls'[d], calls[d]) /\ Notes(calls'[d], calls[d])
        /\ calls'[d].reply = calls[d].reply
    BY <1>1, <2>1, EnteredFacts
  <2> QED
    BY <1>1, <2>2 DEF ConsumeStep
<1>2. CASE ~ consume /\ Answer(d, Error("refused"))
  <2>1. /\ Only(d) /\ calls'[d].at = "returning" /\ calls'[d].reply = Error("refused")
        /\ Brings(calls'[d], calls[d]) /\ Notes(calls'[d], calls[d])
        /\ calls'[d].attempt = calls[d].attempt
    BY <1>2, AnswerFacts, ReplyFields
  <2> QED
    BY <1>2, <2>1 DEF ConsumeStep
<1> QED
  BY <1>1, <1>2 DEF ConsumeStep, Refuse

-----------------------------------------------------------------------------
(* The plan. *)

TakesContinuation(d) ==
  calls[d].continuation # NoContinuation => validContinuationState(calls[d])

\* The continuation of a plan that asks for a page.
Asked(d, request) ==
  [generation |-> calls[d].generation, attempt |-> calls[d].attempt,
   index |-> NextPage(d)[1], page |-> NextPage(d)[2], request |-> request,
   results |-> Results(d)]

LEMMA NextPageTypes ==
  ASSUME TypeOK, NEW d \in Dialogue
  PROVE  NextPage(d)[1] \in Nat /\ NextPage(d)[2] \in Nat
<1>1. calls[d].continuation \in Continuation
  BY CallTypes
<1> QED
  BY <1>1, ContinuationFields DEF NextPage

LEMMA ResultsTypes ==
  ASSUME TypeOK, NEW d \in Dialogue, TakesContinuation(d)
  PROVE  Results(d) \in Seq(Page)
<1> DEFINE c == calls[d].continuation
           cfg == calls[d].config
           page == [target |-> Targets[cfg][c.index], page |-> c.page, dialogue |-> d]
<1>1. c \in Continuation /\ cfg \in Config
  BY CallTypes, CallFields
<1>2. CASE c = NoContinuation
  BY <1>2 DEF Results
<1>3. CASE c # NoContinuation
  <2>1. c.index \in DOMAIN Targets[cfg]
    BY <1>3 DEF TakesContinuation, validContinuationState
  <2>2. Targets[cfg][c.index] \in Target
    BY <1>1, <2>1 DEF Target
  <2>3. page \in Page
    BY <1>1, <2>2, ContinuationFields DEF Page
  <2>4. Results(d) = Append(c.results, page)
    BY <1>3 DEF Results
  <2> QED
    BY <1>1, <2>3, <2>4, ContinuationFields, AppendProperties
<1> QED
  BY <1>2, <1>3

LEMMA AskedTypes ==
  ASSUME TypeOK, NEW d \in Dialogue, TakesContinuation(d), NEW request \in Nat
  PROVE  Asked(d, request) \in Continuation
<1>1. calls[d].generation \in Nat /\ calls[d].attempt \in Nat
  BY CallTypes, CallFields
<1> QED
  BY <1>1, NextPageTypes, ResultsTypes DEF Asked, Continuation, ID

LEMMA ProposedTypes ==
  ASSUME NEW results \in Seq(Page)
  PROVE  LET c == [NoContinuation EXCEPT !.results = results]
         IN  /\ c \in Continuation /\ c.results = results
             /\ c.generation = 0 /\ c.attempt = 0 /\ c.request = 0
  BY DEF NoContinuation, Continuation, ID

\* How a plan ends, and what becomes of the attempt.
PlanFailed(d) ==
  /\ \E kind \in {"refused", "invalid"} :
       /\ calls'[d].reply = Error(kind)
       /\ kind = "refused" => ~ TakesContinuation(d)
  /\ abandonPlannerAttempt(calls[d].attempt, calls[d].generation)
  /\ lastID' = lastID
PlanSuperseded(d) ==
  /\ calls'[d].reply = Error("refused")
  /\ ~ registerPlannerStep(calls[d].attempt, calls[d].generation)
  /\ TakesContinuation(d)
  /\ lastID' \in {lastID, lastID + 1} /\ UNCHANGED <<currentAttempt, pendingRequest>>
PlanAsked(d) ==
  /\ registerPlannerStep(calls[d].attempt, calls[d].generation)
  /\ TakesContinuation(d) /\ NextPage(d)[1] \in DOMAIN Targets[calls[d].config]
  /\ calls'[d].reply = [kind |-> "fetch", next |-> Asked(d, lastID')]
  /\ lastID' = lastID + 1 /\ pendingRequest' = lastID' /\ UNCHANGED currentAttempt
PlanProposed(d) ==
  /\ completePlannerAttempt(calls[d].attempt, calls[d].generation)
  /\ TakesContinuation(d) /\ NextPage(d)[1] \notin DOMAIN Targets[calls[d].config]
  /\ calls'[d].reply = [kind |-> "final",
                        next |-> [NoContinuation EXCEPT !.results = Results(d)]]
  /\ currentAttempt' = 0 /\ UNCHANGED <<pendingRequest, lastID>>

LEMMA PlanFacts ==
  ASSUME TypeOK, NEW d \in Dialogue, Plan(d)
  PROVE  /\ Only(d) /\ calls[d].at = "entered" /\ calls'[d].at = "returning"
         /\ Brings(calls'[d], calls[d]) /\ Notes(calls'[d], calls[d])
         /\ calls'[d].attempt = calls[d].attempt
         /\ PlanFailed(d) \/ PlanSuperseded(d) \/ PlanAsked(d) \/ PlanProposed(d)
         /\ UNCHANGED <<configured, generation, config, writerVars, disturbed>>
<1> DEFINE call == calls[d]
           Answered(reply) ==
             /\ Only(d) /\ calls'[d].at = "returning" /\ calls'[d].reply = reply
             /\ Brings(calls'[d], calls[d]) /\ Notes(calls'[d], calls[d])
             /\ calls'[d].attempt = calls[d].attempt
           inquiry == [kind |-> "fetch", next |-> Asked(d, lastID')]
           proposed == [kind |-> "final",
                        next |-> [NoContinuation EXCEPT !.results = Results(d)]]
<1>1. \A reply \in Reply : Answer(d, reply) => Answered(reply)
  BY AnswerFacts
<1>2. /\ calls[d].at = "entered"
      /\ UNCHANGED <<configured, generation, config, writerVars, disturbed>>
  BY DEF Plan
<1>3. \/ \E kind \in {"refused", "invalid"} :
            /\ Answer(d, Error(kind)) /\ (kind = "refused" => ~ TakesContinuation(d))
            /\ abandonPlannerAttempt(call.attempt, call.generation) /\ lastID' = lastID
      \/ /\ TakesContinuation(d) /\ NextPage(d)[1] \in DOMAIN Targets[call.config]
         /\ lastID' = lastID + 1 /\ UNCHANGED currentAttempt
         /\ \/ /\ registerPlannerStep(call.attempt, call.generation)
               /\ pendingRequest' = lastID' /\ Answer(d, inquiry)
            \/ /\ ~ registerPlannerStep(call.attempt, call.generation)
               /\ Answer(d, Error("refused")) /\ UNCHANGED pendingRequest
      \/ /\ TakesContinuation(d) /\ NextPage(d)[1] \notin DOMAIN Targets[call.config]
         /\ UNCHANGED <<pendingRequest, lastID>>
         /\ \/ /\ completePlannerAttempt(call.attempt, call.generation)
               /\ currentAttempt' = 0 /\ Answer(d, proposed)
            \/ /\ ~ completePlannerAttempt(call.attempt, call.generation)
               /\ Answer(d, Error("refused")) /\ UNCHANGED currentAttempt
  BY DEF Plan, Asked, TakesContinuation, Refuse
<1> HIDE DEF Answered, inquiry, proposed
<1>4. CASE \E kind \in {"refused", "invalid"} :
             /\ Answer(d, Error(kind)) /\ (kind = "refused" => ~ TakesContinuation(d))
             /\ abandonPlannerAttempt(call.attempt, call.generation) /\ lastID' = lastID
  <2>1. PICK kind \in {"refused", "invalid"} :
          /\ Answer(d, Error(kind)) /\ (kind = "refused" => ~ TakesContinuation(d))
          /\ abandonPlannerAttempt(call.attempt, call.generation) /\ lastID' = lastID
    BY <1>4
  <2>2. Answered(Error(kind))
    BY <1>1, <2>1, ReplyFields
  <2>3. PlanFailed(d)
    BY <2>1, <2>2 DEF PlanFailed, Answered
  <2> QED
    BY <1>2, <2>2, <2>3 DEF Answered
<1>5. CASE /\ TakesContinuation(d) /\ NextPage(d)[1] \in DOMAIN Targets[call.config]
           /\ lastID' = lastID + 1 /\ UNCHANGED currentAttempt
           /\ registerPlannerStep(call.attempt, call.generation)
           /\ pendingRequest' = lastID' /\ Answer(d, inquiry)
  <2>1. lastID' \in Nat
    BY <1>5 DEF TypeOK
  <2>2. Answered(inquiry)
    BY <1>1, <1>5, <2>1, AskedTypes, ReplyFields DEF inquiry
  <2>3. PlanAsked(d)
    BY <1>5, <2>2 DEF PlanAsked, Answered, inquiry
  <2> QED
    BY <1>2, <2>2, <2>3 DEF Answered
<1>6. CASE /\ TakesContinuation(d) /\ NextPage(d)[1] \notin DOMAIN Targets[call.config]
           /\ UNCHANGED <<pendingRequest, lastID>>
           /\ completePlannerAttempt(call.attempt, call.generation)
           /\ currentAttempt' = 0 /\ Answer(d, proposed)
  <2>1. Answered(proposed)
    BY <1>1, <1>6, ResultsTypes, ProposedTypes, ReplyFields DEF proposed
  <2>2. PlanProposed(d)
    BY <1>6, <2>1 DEF PlanProposed, Answered, proposed
  <2> QED
    BY <1>2, <2>1, <2>2 DEF Answered
<1>7. CASE /\ TakesContinuation(d) /\ Answer(d, Error("refused"))
           /\ ~ registerPlannerStep(call.attempt, call.generation)
           /\ lastID' \in {lastID, lastID + 1} /\ UNCHANGED <<currentAttempt, pendingRequest>>
  <2>1. Answered(Error("refused"))
    BY <1>1, <1>7, ReplyFields
  <2>2. PlanSuperseded(d)
    BY <1>7, <2>1 DEF PlanSuperseded, Answered
  <2> QED
    BY <1>2, <2>1, <2>2 DEF Answered
<1> QED
  BY <1>3, <1>4, <1>5, <1>6, <1>7 DEF registerPlannerStep, completePlannerAttempt

-----------------------------------------------------------------------------
(* Types and the order of a call. *)

LEMMA Bounds ==
  /\ maxProviderPages \in Nat /\ maxProviderBytes \in Nat /\ MaxDialogues \in Nat
  /\ MaxGeneration \in Nat /\ Size \subseteq Nat
  BY LimitAssumption

LEMMA InitShape == Init => Shape
<1> SUFFICES ASSUME Init PROVE Shape
  OBVIOUS
<1>1. calls = [d \in Dialogue |-> NoCall] /\ NoCall \in Call
  BY NoCallFields DEF Init
<1>2. MaxGeneration \in Nat \ {0} /\ MaxDialogues \in Nat
  BY LimitAssumption
<1>3. TypeOK
  <2>1. calls \in [Dialogue -> Call]
    BY <1>1
  <2>2. generation \in 1 .. MaxGeneration /\ dialogue \in 0 .. MaxDialogues
    BY <1>2 DEF Init
  <2>3. pages \in 0 .. maxProviderPages /\ bytes \in 0 .. maxProviderBytes
    BY Bounds DEF Init
  <2> QED
    BY <2>1, <2>2, <2>3 DEF Init, TypeOK, ID, Outcome
<1>4. InOrder
  BY <1>1, NoCallFields, ReplyFields DEF Init, InOrder, CallInOrder
<1> QED
  BY <1>3, <1>4 DEF Shape

LEMMA TypesKept ==
  ASSUME Shape, [Next]_vars PROVE TypeOK'
<1>0. TypeOK /\ InOrder
  BY DEF Shape
<1>1. ASSUME NEW c \in Config, Configure(c) PROVE TypeOK'
  <2>1. generation' \in 1 .. MaxGeneration
    BY <1>0, <1>1, Bounds DEF TypeOK, Configure
  <2> QED
    BY <1>0, <1>1, <2>1 DEF TypeOK, Configure, ForgetAttempt, writerVars, loopVars, ID
<1>2. CASE Shutdown
  BY <1>0, <1>2 DEF TypeOK, Shutdown, ForgetAttempt, writerVars, loopVars, ID
<1>3. ASSUME NEW d \in Dialogue, Begin(d) PROVE TypeOK'
  <2>1. Only(d) /\ UNCHANGED <<plannerVars, lastID, writerVars, disturbed>>
    BY <1>0, <1>3, BeginFacts
  <2> QED
    BY <1>0, <2>1 DEF TypeOK, Only, plannerVars, writerVars, loopVars
<1>4. ASSUME NEW d \in Dialogue, StartAttempt(d) PROVE TypeOK'
  <2>1. /\ Only(d)
        /\ \/ /\ lastID' = lastID + 1 /\ currentAttempt' = lastID' /\ pendingRequest' = 0
              /\ disturbed' = (disturbed \/ d # dialogue)
           \/ UNCHANGED <<currentAttempt, pendingRequest, lastID, disturbed>>
        /\ UNCHANGED <<configured, generation, config, writerVars>>
    BY <1>0, <1>4, StartAttemptFacts
  <2>2. /\ lastID' \in Nat /\ currentAttempt' \in ID /\ pendingRequest' \in ID
        /\ pendingRequest' # 0 => currentAttempt' # 0
    BY <1>0, <2>1 DEF TypeOK, ID
  <2>3. disturbed' \in BOOLEAN
    BY <1>0, <2>1 DEF TypeOK
  <2> QED
    BY <1>0, <2>1, <2>2, <2>3 DEF TypeOK, Only, writerVars, loopVars
<1>5. ASSUME NEW d \in Dialogue, ConsumeStep(d) PROVE TypeOK'
  <2>1. /\ Only(d) /\ pendingRequest' \in {0, pendingRequest}
        /\ UNCHANGED <<configured, generation, config, currentAttempt, lastID, writerVars,
                       disturbed>>
    BY <1>0, <1>5, ConsumeStepFacts
  <2>2. pendingRequest' \in ID /\ (pendingRequest' # 0 => currentAttempt' # 0)
    BY <1>0, <2>1 DEF TypeOK, ID
  <2> QED
    BY <1>0, <2>1, <2>2 DEF TypeOK, Only, writerVars, loopVars
<1>6. ASSUME NEW d \in Dialogue, Plan(d) PROVE TypeOK'
  <2>1. /\ Only(d) /\ calls[d].at = "entered"
        /\ PlanFailed(d) \/ PlanSuperseded(d) \/ PlanAsked(d) \/ PlanProposed(d)
        /\ UNCHANGED <<configured, generation, config, writerVars, disturbed>>
    BY <1>0, <1>6, PlanFacts
  <2>2. calls[d].attempt # 0
    BY <1>0, <2>1 DEF InOrder, CallInOrder
  <2>3. /\ lastID' \in Nat /\ currentAttempt' \in ID /\ pendingRequest' \in ID
        /\ pendingRequest' # 0 => currentAttempt' # 0
    <3>1. lastID \in Nat /\ currentAttempt \in Nat /\ pendingRequest \in Nat
          /\ (pendingRequest # 0 => currentAttempt # 0)
      BY <1>0 DEF TypeOK, ID
    <3>2. CASE PlanFailed(d)
      BY <3>1, <3>2 DEF PlanFailed, abandonPlannerAttempt, ForgetAttempt, ID
    <3>3. CASE PlanSuperseded(d)
      BY <3>1, <3>3 DEF PlanSuperseded, ID
    <3>4. CASE PlanAsked(d)
      BY <2>2, <3>1, <3>4 DEF PlanAsked, registerPlannerStep, ID
    <3>5. CASE PlanProposed(d)
      BY <3>1, <3>5 DEF PlanProposed, completePlannerAttempt, ID
    <3> QED
      BY <2>1, <3>2, <3>3, <3>4, <3>5
  <2> QED
    BY <1>0, <2>1, <2>3 DEF TypeOK, Only, writerVars, loopVars
<1>7. ASSUME NEW d \in Dialogue, Return(d) \/ Vanish(d) PROVE TypeOK'
  <2>1. Only(d) /\ UNCHANGED <<plannerVars, lastID, writerVars, disturbed>>
    BY <1>0, <1>7, PassesFacts
  <2> QED
    BY <1>0, <2>1 DEF TypeOK, Only, plannerVars, writerVars, loopVars
<1>8. CASE StartDialogue
  <2>1. dialogue' \in 0 .. MaxDialogues /\ dialogue' \in Dialogue
    BY <1>0, <1>8, Bounds DEF TypeOK, StartDialogue, Dialogue
  <2>2. Only(dialogue')
    BY <1>0, <1>8, <2>1, SentFields, ContinuationFields DEF StartDialogue
  <2>3. pages' \in 0 .. maxProviderPages /\ bytes' \in 0 .. maxProviderBytes
    BY <1>8, Bounds DEF StartDialogue
  <2> QED
    BY <1>0, <1>8, <2>1, <2>2, <2>3 DEF TypeOK, StartDialogue, Only, plannerVars, Outcome
<1>9. CASE Receive
  <2>1. /\ dialogue \in Dialogue /\ calls[dialogue].reply \in Reply
        /\ calls[dialogue].reply.next \in Continuation
    BY <1>0, <1>9, CallTypes DEF InOrder, Receive
  <2>2. <<calls[dialogue].reply.next.index, calls[dialogue].reply.next.page>> \in Nat \X Nat
    BY <2>1, ContinuationFields
  <2>3. asked' \subseteq Nat \X Nat
    BY <1>0, <1>9, <2>2 DEF TypeOK, Receive
  <2>4. phase' \in {"idle", "calling", "fetching", "asking"} /\ outcome' \in Outcome
    <3>1. /\ outcome \in Outcome
          /\ calls[dialogue].reply.kind \in {"fetch", "final"} \cup Outcome
      BY <1>0, <2>1, ReplyFields DEF TypeOK, Outcome
    <3>2. {"proposed", "provider_fetch_invalid"} \subseteq Outcome
      BY DEF Outcome
    <3> QED
      BY <1>9, <3>1, <3>2 DEF Receive, End
  <2> QED
    BY <1>0, <1>9, <2>3, <2>4 DEF TypeOK, Receive, plannerVars
<1>10. CASE FetchFails \/ GiveUp \/ AskStatus \/ Reconcile
  BY <1>0, <1>10
     DEF TypeOK, FetchFails, GiveUp, AskStatus, Reconcile, End, plannerVars, loopVars, Outcome
<1>11. ASSUME NEW size \in Size, NEW more \in BOOLEAN, FetchPage(size, more) PROVE TypeOK'
  <2>1. /\ dialogue \in Dialogue /\ calls[dialogue].reply.next \in Continuation
        /\ pages < maxProviderPages
    BY <1>0, <1>11, CallTypes DEF InOrder, FetchPage
  <2>2. calls' \in [Dialogue -> Call]
    <3>1. CASE calls' = calls
      BY <1>0, <3>1 DEF TypeOK
    <3>2. CASE Send(dialogue, calls[dialogue].reply.next, more)
      BY <1>0, <2>1, <3>2, SentFields DEF Only
    <3> QED
      BY <1>11, <3>1, <3>2 DEF FetchPage
  <2>3. pages' \in 0 .. maxProviderPages /\ bytes' \in 0 .. maxProviderBytes
    <3>1. pages \in 0 .. maxProviderPages /\ bytes \in 0 .. maxProviderBytes /\ size \in Nat
      BY <1>0, Bounds DEF TypeOK
    <3> QED
      BY <1>11, <2>1, <3>1, Bounds DEF FetchPage, TooLarge
  <2>4. phase' \in {"idle", "calling", "fetching", "asking"} /\ outcome' \in Outcome
    BY <1>0, <1>11 DEF TypeOK, FetchPage, End, Outcome
  <2> QED
    BY <1>0, <1>11, <2>2, <2>3, <2>4 DEF TypeOK, FetchPage, plannerVars
<1>12. CASE UNCHANGED vars
  BY <1>0, <1>12 DEF TypeOK, vars, plannerVars, writerVars, loopVars
<1> QED
  BY <1>1, <1>2, <1>3, <1>4, <1>5, <1>6, <1>7, <1>8, <1>9, <1>10, <1>11, <1>12
     DEF Next, Handle, Converse

LEMMA OrderKept ==
  ASSUME Shape, [Next]_vars PROVE InOrder'
<1>0. TypeOK /\ InOrder
  BY DEF Shape
\* The dialogue and its phase stay, and so does every call but the one of d.
<1>A. ASSUME NEW d \in Dialogue, Only(d), UNCHANGED writerVars, CallInOrder(d)',
             phase = "fetching" /\ d = dialogue =>
               calls'[d].at = "returned" /\ calls'[d].reply.kind = "fetch"
      PROVE  InOrder'
  <2>1. \A e \in Dialogue : CallInOrder(e)'
    BY <1>0, <1>A DEF InOrder, CallInOrder, Only, writerVars
  <2> QED
    BY <1>0, <1>A, <2>1 DEF InOrder, Only, writerVars, loopVars
<1>B. ASSUME calls' = calls, dialogue' = dialogue, dialogue \in Dialogue \/ phase' = "idle",
             phase' # "fetching" \/ UNCHANGED <<phase, pages>>
      PROVE  InOrder'
  BY <1>0, <1>B DEF InOrder, CallInOrder
<1>1. ASSUME NEW c \in Config, Configure(c) PROVE InOrder'
  BY <1>0, <1>1, <1>B DEF Configure, writerVars, loopVars, InOrder
<1>2. CASE Shutdown
  BY <1>0, <1>2, <1>B DEF Shutdown, writerVars, loopVars, InOrder
<1>3. ASSUME NEW d \in Dialogue, Begin(d) PROVE InOrder'
  <2>1. /\ Only(d) /\ calls[d].at = "sent" /\ Brings(calls'[d], calls[d])
        /\ calls'[d].at # "entered"
        /\ \/ calls'[d].reply = calls[d].reply
           \/ calls'[d].reply = Error("unauthorized") /\ calls'[d].at = "returned"
        /\ UNCHANGED writerVars
    BY <1>0, <1>3, BeginFacts
  <2>2. CallInOrder(d)'
    BY <1>0, <2>1, ReplyFields, NoCallFields DEF InOrder, CallInOrder, Brings, writerVars
  <2> QED
    BY <1>0, <1>A, <2>1, <2>2 DEF InOrder
<1>4. ASSUME NEW d \in Dialogue, StartAttempt(d) PROVE InOrder'
  <2>1. /\ Only(d) /\ calls[d].at = "begun" /\ Brings(calls'[d], calls[d])
        /\ \/ /\ calls'[d].at = "entered" /\ calls'[d].attempt = lastID + 1
              /\ calls'[d].reply = calls[d].reply
           \/ calls'[d].at = "returning" /\ calls'[d].reply = Error("refused")
        /\ UNCHANGED writerVars
    BY <1>0, <1>4, StartAttemptFacts
  <2>2. lastID + 1 # 0
    BY <1>0 DEF TypeOK
  <2>3. CallInOrder(d)'
    BY <1>0, <2>1, <2>2, ReplyFields, NoCallFields
       DEF InOrder, CallInOrder, Brings, writerVars
  <2> QED
    BY <1>0, <1>A, <2>1, <2>3 DEF InOrder
<1>5. ASSUME NEW d \in Dialogue, ConsumeStep(d) PROVE InOrder'
  <2>1. /\ Only(d) /\ calls[d].at = "begun" /\ Brings(calls'[d], calls[d])
        /\ \/ /\ calls'[d].at = "entered" /\ calls'[d].reply = calls[d].reply
              /\ calls'[d].attempt = currentAttempt /\ currentAttempt # 0
           \/ calls'[d].at = "returning" /\ calls'[d].reply = Error("refused")
        /\ UNCHANGED writerVars
    BY <1>0, <1>5, ConsumeStepFacts DEF consumePlannerStep
  <2>2. CallInOrder(d)'
    BY <1>0, <2>1, ReplyFields, NoCallFields DEF InOrder, CallInOrder, Brings, writerVars
  <2> QED
    BY <1>0, <1>A, <2>1, <2>2 DEF InOrder
<1>6. ASSUME NEW d \in Dialogue, Plan(d) PROVE InOrder'
  <2>1. /\ Only(d) /\ calls[d].at = "entered" /\ calls'[d].at = "returning"
        /\ Brings(calls'[d], calls[d])
        /\ PlanFailed(d) \/ PlanSuperseded(d) \/ PlanAsked(d) \/ PlanProposed(d)
        /\ UNCHANGED writerVars
    BY <1>0, <1>6, PlanFacts
  <2>2. calls'[d].reply.kind = "fetch" => calls'[d].reply.next.request # 0
    <3>1. CASE PlanFailed(d) \/ PlanSuperseded(d)
      BY <3>1, ReplyFields DEF PlanFailed, PlanSuperseded
    <3>2. CASE PlanAsked(d)
      BY <1>0, <3>2 DEF PlanAsked, Asked, TypeOK
    <3>3. CASE PlanProposed(d)
      BY <3>3 DEF PlanProposed
    <3> QED
      BY <2>1, <3>1, <3>2, <3>3
  <2>3. CallInOrder(d)'
    BY <1>0, <2>1, <2>2, NoCallFields DEF InOrder, CallInOrder, Brings, writerVars
  <2> QED
    BY <1>0, <1>A, <2>1, <2>3 DEF InOrder
<1>7. ASSUME NEW d \in Dialogue, Return(d) \/ Vanish(d) PROVE InOrder'
  <2>1. /\ Only(d) /\ calls[d].at \in {"returning", "sent"} /\ Brings(calls'[d], calls[d])
        /\ calls'[d].at \in {"none", "returned"} /\ calls'[d].reply = calls[d].reply
        /\ UNCHANGED writerVars
    BY <1>0, <1>7, PassesFacts
  <2>2. CallInOrder(d)'
    BY <1>0, <2>1, NoCallFields DEF InOrder, CallInOrder, Brings, writerVars
  <2> QED
    BY <1>0, <1>A, <2>1, <2>2 DEF InOrder
<1>8. CASE StartDialogue
  <2>1. dialogue' \in Dialogue /\ dialogue' > dialogue /\ phase' = "calling"
        /\ dialogue \in Nat
    BY <1>0, <1>8, Bounds DEF TypeOK, StartDialogue, Dialogue
  <2>2. /\ Only(dialogue') /\ calls'[dialogue'].at = "sent"
        /\ calls'[dialogue'].continuation = NoContinuation
        /\ calls'[dialogue'].reply = NoReply /\ ~ calls'[dialogue'].more
    BY <1>0, <1>8, <2>1, SentFields, ContinuationFields DEF StartDialogue
  <2>3. \A e \in Dialogue : CallInOrder(e)'
    <3> SUFFICES ASSUME NEW e \in Dialogue PROVE CallInOrder(e)'
      OBVIOUS
    <3>1. CASE e = dialogue'
      <4>1. ~ e > dialogue'
        BY <2>1, <3>1, Bounds DEF Dialogue
      <4> QED
        BY <2>1, <2>2, <3>1, <4>1, ReplyFields DEF CallInOrder
    <3>2. CASE e # dialogue'
      <4>1. calls'[e] = calls[e] /\ CallInOrder(e) /\ (e > dialogue' => e > dialogue)
        BY <1>0, <2>1, <2>2, <3>2 DEF InOrder, Only, Dialogue
      <4> QED
        BY <4>1 DEF CallInOrder
    <3> QED
      BY <3>1, <3>2
  <2> QED
    BY <2>1, <2>3 DEF InOrder
<1>9. CASE Receive
  <2>1. dialogue \in Dialogue /\ calls' = calls /\ dialogue' = dialogue /\ pages' = pages
    BY <1>0, <1>9 DEF Receive, InOrder
  <2>2. phase' = "fetching" => /\ pages < maxProviderPages /\ calls[dialogue].at = "returned"
                               /\ calls[dialogue].reply.kind = "fetch"
    <3>1. pages \in Nat /\ maxProviderPages \in Nat
      BY <1>0, Bounds DEF TypeOK
    <3> QED
      BY <1>9, <3>1 DEF Receive, End
  <2> QED
    BY <1>0, <2>1, <2>2 DEF InOrder, CallInOrder
<1>10. CASE FetchFails \/ GiveUp \/ AskStatus \/ Reconcile
  <2>1. /\ calls' = calls /\ dialogue' = dialogue
        /\ dialogue \in Dialogue \/ phase' = "idle"
        /\ phase' # "fetching" \/ UNCHANGED <<phase, pages>>
    BY <1>0, <1>10 DEF InOrder, FetchFails, GiveUp, AskStatus, Reconcile, End, loopVars
  <2> QED
    BY <1>B, <2>1
<1>11. ASSUME NEW size \in Size, NEW more \in BOOLEAN, FetchPage(size, more) PROVE InOrder'
  <2>1. /\ dialogue \in Dialogue /\ calls[dialogue].reply.next \in Continuation
        /\ calls[dialogue].reply.next.request # 0 /\ dialogue' = dialogue
    BY <1>0, <1>11, CallTypes DEF InOrder, CallInOrder, FetchPage
  <2>2. CASE calls' = calls /\ phase' = "idle"
    BY <1>B, <2>1, <2>2
  <2>3. CASE phase' = "calling" /\ Send(dialogue, calls[dialogue].reply.next, more)
    <3>1. /\ Only(dialogue) /\ calls'[dialogue].at = "sent"
          /\ calls'[dialogue].continuation = calls[dialogue].reply.next
          /\ calls'[dialogue].reply = NoReply
      BY <1>0, <2>1, <2>3, SentFields
    <3>2. calls[dialogue].reply.next # NoContinuation
      BY <2>1 DEF NoContinuation
    <3>3. CallInOrder(dialogue)'
      <4>1. ~ dialogue > dialogue
        BY <2>1, Bounds DEF Dialogue
      <4> QED
        BY <2>1, <3>1, <3>2, <4>1, ReplyFields DEF CallInOrder
    <3>4. \A e \in Dialogue : CallInOrder(e)'
      BY <1>0, <2>1, <3>1, <3>3 DEF InOrder, CallInOrder, Only
    <3> QED
      BY <2>1, <2>3, <3>4 DEF InOrder
  <2> QED
    BY <1>11, <2>2, <2>3 DEF FetchPage, End
<1>12. CASE UNCHANGED vars
  BY <1>0, <1>12, <1>B DEF InOrder, vars, writerVars, loopVars
<1> QED
  BY <1>1, <1>2, <1>3, <1>4, <1>5, <1>6, <1>7, <1>8, <1>9, <1>10, <1>11, <1>12
     DEF Next, Handle, Converse

\* Shape holds in every reachable state.
THEOREM ShapeInvariance == Spec => []Shape
<1>1. Shape /\ [Next]_vars => Shape'
  BY TypesKept, OrderKept DEF Shape
<1> QED
  BY <1>1, InitShape, PTL DEF Spec

\* Every variable of the dialogue keeps its range: no dialogue fetches more pages or
\* bytes than the Writer allows, and only a current attempt awaits a request.
THEOREM DialogueTypeCorrect == Spec => []TypeOK
<1>1. Shape => TypeOK
  BY DEF Shape
<1> QED
  BY <1>1, ShapeInvariance, PTL

-----------------------------------------------------------------------------
(* Identities. *)

LEMMA IdTypes ==
  ASSUME TypeOK
  PROVE  /\ lastID \in Nat /\ currentAttempt \in Nat /\ pendingRequest \in Nat
         /\ \A d \in Dialogue :
              /\ Ids(calls[d]) \subseteq Nat
              /\ calls[d].attempt \in Nat
              /\ \A c \in {calls[d].continuation, calls[d].reply.next} :
                   c.attempt \in Nat /\ c.request \in Nat
<1>1. lastID \in Nat /\ currentAttempt \in Nat /\ pendingRequest \in Nat
  BY DEF TypeOK, ID
<1>2. ASSUME NEW d \in Dialogue
      PROVE  /\ calls[d].attempt \in Nat
             /\ \A c \in {calls[d].continuation, calls[d].reply.next} :
                  c.attempt \in Nat /\ c.request \in Nat
  BY CallTypes, CallFields, ContinuationFields
<1> QED
  BY <1>1, <1>2 DEF Ids

\* The call of d takes no identity but its own and fresh ones, and the planner
\* awaits what it did, nothing or something fresh.
LEMMA IdentitiesStep ==
  ASSUME TypeOK, Identities, NEW d \in Dialogue, Only(d),
         lastID' \in Nat, lastID' >= lastID,
         currentAttempt' <= lastID', pendingRequest' <= lastID',
         \A id \in Ids(calls'[d]) : id \in Ids(calls[d]) \/ id \in lastID + 1 .. lastID',
         \/ pendingRequest' = 0
         \/ UNCHANGED <<currentAttempt, pendingRequest>>
         \/ pendingRequest' \in lastID + 1 .. lastID',
         OfCurrent(calls[d].continuation)', OfCurrent(calls[d].reply.next)'
  PROVE  Identities'
<1>0. /\ lastID \in Nat /\ currentAttempt \in Nat /\ pendingRequest \in Nat
      /\ \A e \in Dialogue : Ids(calls[e]) \subseteq Nat
  BY IdTypes
<1>1. ASSUME NEW e \in Dialogue, e # d
      PROVE  /\ calls'[e] = calls[e]
             /\ \A id \in Ids(calls[e]) : id \in Nat /\ id <= lastID /\ id \notin Ids(calls[d])
  BY <1>0, <1>1 DEF Only, Identities
<1>2. ASSUME NEW e \in Dialogue PROVE \A id \in Ids(calls'[e]) : id <= lastID'
  <2>1. CASE e = d
    <3> SUFFICES ASSUME NEW id \in Ids(calls'[d]) PROVE id <= lastID'
      BY <2>1
    <3>1. CASE id \in Ids(calls[d])
      BY <1>0, <3>1 DEF Identities
    <3>2. CASE id \in lastID + 1 .. lastID'
      BY <1>0, <3>2
    <3> QED
      BY <3>1, <3>2
  <2>2. CASE e # d
    BY <1>0, <1>1, <2>2
  <2> QED
    BY <2>1, <2>2
<1>3. ASSUME NEW e \in Dialogue, e # d PROVE Ids(calls'[d]) \cap Ids(calls'[e]) = {}
  <2> SUFFICES ASSUME NEW id \in Ids(calls'[d]), id \in Ids(calls[e]) PROVE FALSE
    BY <1>1, <1>3
  <2>1. id \in Nat /\ id <= lastID /\ id \notin Ids(calls[d])
    BY <1>1, <1>3
  <2> QED
    BY <1>0, <2>1
<1>4. ASSUME NEW e \in Dialogue, NEW f \in Dialogue, e # f
      PROVE  Ids(calls'[e]) \cap Ids(calls'[f]) = {}
  <2>1. CASE e = d \/ f = d
    BY <1>3, <1>4, <2>1
  <2>2. CASE e # d /\ f # d
    BY <1>1, <1>4, <2>2 DEF Identities
  <2> QED
    BY <2>1, <2>2
<1>5. ASSUME NEW e \in Dialogue
      PROVE  OfCurrent(calls[e].continuation)' /\ OfCurrent(calls[e].reply.next)'
  <2>1. CASE e # d
    <3> SUFFICES ASSUME NEW c \in {calls[e].continuation, calls[e].reply.next},
                        c.request = pendingRequest', pendingRequest' # 0
                 PROVE  c.attempt = currentAttempt'
      BY <1>1, <2>1 DEF OfCurrent
    <3>1. c.request \in Nat /\ c.request <= lastID
      <4>1. c.request \in Ids(calls[e])
        BY DEF Ids
      <4> QED
        BY <1>1, <2>1, <4>1
    <3>2. UNCHANGED <<currentAttempt, pendingRequest>>
      BY <1>0, <3>1
    <3> QED
      BY <3>2 DEF Identities, OfCurrent
  <2> QED
    BY <2>1
<1> QED
  BY <1>2, <1>4, <1>5 DEF Identities

LEMMA IdentitiesKept ==
  ASSUME Shape, Identities, [Next]_vars PROVE Identities'
<1>0. TypeOK /\ InOrder
  BY DEF Shape
<1>T. /\ lastID \in Nat /\ currentAttempt \in Nat /\ pendingRequest \in Nat
      /\ currentAttempt <= lastID /\ pendingRequest <= lastID
      /\ \A d \in Dialogue : /\ OfCurrent(calls[d].continuation)
                             /\ OfCurrent(calls[d].reply.next)
  BY <1>0, IdTypes DEF Identities
<1>A. ASSUME calls' = calls, lastID' = lastID, currentAttempt' <= lastID,
             \/ pendingRequest' = 0
             \/ UNCHANGED <<currentAttempt, pendingRequest>>
      PROVE  Identities'
  BY <1>T, <1>A DEF Identities, OfCurrent
<1>1. ASSUME NEW c \in Config, Configure(c) PROVE Identities'
  BY <1>T, <1>A, <1>1 DEF Configure, ForgetAttempt
<1>2. CASE Shutdown
  BY <1>T, <1>A, <1>2 DEF Shutdown, ForgetAttempt
<1>3. ASSUME NEW d \in Dialogue, Begin(d) PROVE Identities'
  <2>1. /\ Only(d) /\ calls'[d].continuation = calls[d].continuation
        /\ calls'[d].attempt = calls[d].attempt
        /\ calls'[d].reply \in {calls[d].reply, Error("unauthorized")}
        /\ UNCHANGED <<currentAttempt, pendingRequest, lastID>>
    BY <1>0, <1>3, BeginFacts DEF Brings, plannerVars
  <2>2. calls'[d].reply.next \in {calls[d].reply.next, NoContinuation}
    BY <2>1, ReplyFields
  <2>3. Ids(calls'[d]) \subseteq Ids(calls[d])
    BY <2>1, <2>2 DEF Ids, NoContinuation
  <2>4. OfCurrent(calls[d].continuation)' /\ OfCurrent(calls[d].reply.next)'
    BY <1>T, <2>1, <2>2 DEF OfCurrent, NoContinuation
  <2> QED
    BY <1>0, <1>T, <2>1, <2>3, <2>4, IdentitiesStep
<1>4. ASSUME NEW d \in Dialogue, StartAttempt(d) PROVE Identities'
  <2>0. /\ Only(d) /\ calls'[d].continuation = calls[d].continuation
    BY <1>0, <1>4, StartAttemptFacts DEF Brings
  <2>1. CASE /\ lastID' = lastID + 1 /\ currentAttempt' = lastID' /\ pendingRequest' = 0
             /\ calls'[d].attempt = lastID' /\ calls'[d].reply = calls[d].reply
    <3>1. \A id \in Ids(calls'[d]) : id \in Ids(calls[d]) \/ id \in lastID + 1 .. lastID'
      BY <1>T, <2>0, <2>1 DEF Ids
    <3>2. OfCurrent(calls[d].continuation)' /\ OfCurrent(calls[d].reply.next)'
      BY <2>1 DEF OfCurrent
    <3>3. lastID' \in Nat /\ lastID' >= lastID
      BY <1>T, <2>1
    <3>4. currentAttempt' <= lastID' /\ pendingRequest' <= lastID' /\ pendingRequest' = 0
      BY <1>T, <2>1
    <3> QED
      BY <1>0, <2>0, <3>1, <3>2, <3>3, <3>4, IdentitiesStep
  <2>2. CASE /\ calls'[d].reply = Error("refused") /\ calls'[d].attempt = calls[d].attempt
             /\ UNCHANGED <<currentAttempt, pendingRequest, lastID>>
    <3>1. calls'[d].reply.next = NoContinuation
      BY <2>2, ReplyFields
    <3>2. Ids(calls'[d]) \subseteq Ids(calls[d])
      BY <2>0, <2>2, <3>1 DEF Ids, NoContinuation
    <3>3. OfCurrent(calls[d].continuation)' /\ OfCurrent(calls[d].reply.next)'
      BY <1>T, <2>0, <2>2, <3>1 DEF OfCurrent, NoContinuation
    <3> QED
      BY <1>0, <1>T, <2>0, <2>2, <3>2, <3>3, IdentitiesStep
  <2> QED
    BY <1>0, <1>4, <2>1, <2>2, StartAttemptFacts
<1>5. ASSUME NEW d \in Dialogue, ConsumeStep(d) PROVE Identities'
  <2>0. /\ Only(d) /\ calls'[d].continuation = calls[d].continuation
        /\ UNCHANGED <<currentAttempt, lastID>>
        /\ calls[d].continuation.request # 0
    BY <1>0, <1>5, ConsumeStepFacts DEF Brings, InOrder, CallInOrder
  <2>1. CASE /\ consumePlannerStep(calls[d].continuation.request, calls[d].generation)
             /\ pendingRequest' = 0 /\ calls'[d].attempt = currentAttempt
             /\ calls'[d].reply = calls[d].reply
    <3>1. currentAttempt = calls[d].continuation.attempt
      BY <1>T, <2>0, <2>1 DEF consumePlannerStep, OfCurrent
    <3>2. Ids(calls'[d]) \subseteq Ids(calls[d])
      BY <2>0, <2>1, <3>1 DEF Ids
    <3>3. OfCurrent(calls[d].continuation)' /\ OfCurrent(calls[d].reply.next)'
      BY <2>1 DEF OfCurrent
    <3>4. pendingRequest' <= lastID' /\ pendingRequest' = 0 /\ currentAttempt' <= lastID'
          /\ lastID' \in Nat /\ lastID' >= lastID
      BY <1>T, <2>0, <2>1
    <3> QED
      BY <1>0, <2>0, <3>2, <3>3, <3>4, IdentitiesStep
  <2>2. CASE /\ calls'[d].reply = Error("refused") /\ calls'[d].attempt = calls[d].attempt
             /\ pendingRequest' = pendingRequest
    <3>1. calls'[d].reply.next = NoContinuation
      BY <2>2, ReplyFields
    <3>2. Ids(calls'[d]) \subseteq Ids(calls[d])
      BY <2>0, <2>2, <3>1 DEF Ids, NoContinuation
    <3>3. OfCurrent(calls[d].continuation)' /\ OfCurrent(calls[d].reply.next)'
      BY <1>T, <2>0, <2>2, <3>1 DEF OfCurrent, NoContinuation
    <3> QED
      BY <1>0, <1>T, <2>0, <2>2, <3>2, <3>3, IdentitiesStep
  <2> QED
    BY <1>0, <1>5, <2>1, <2>2, ConsumeStepFacts
<1>6. ASSUME NEW d \in Dialogue, Plan(d) PROVE Identities'
  <2>0. /\ Only(d) /\ calls'[d].continuation = calls[d].continuation
        /\ calls'[d].attempt = calls[d].attempt
        /\ PlanFailed(d) \/ PlanSuperseded(d) \/ PlanAsked(d) \/ PlanProposed(d)
    BY <1>0, <1>6, PlanFacts DEF Brings
  <2>1. CASE \/ PlanFailed(d) \/ PlanSuperseded(d)
             \/ PlanProposed(d) /\ calls'[d].reply.next.attempt = 0
                                /\ calls'[d].reply.next.request = 0
    <3>1. calls'[d].reply.next.attempt = 0 /\ calls'[d].reply.next.request = 0
      BY <2>1, ReplyFields DEF PlanFailed, PlanSuperseded, NoContinuation
    <3>2. Ids(calls'[d]) \subseteq Ids(calls[d])
      BY <2>0, <3>1 DEF Ids
    <3>3. /\ lastID' \in Nat /\ lastID' >= lastID
          /\ currentAttempt' <= lastID' /\ pendingRequest' <= lastID'
          /\ pendingRequest' = 0 \/ UNCHANGED <<currentAttempt, pendingRequest>>
      BY <1>T, <2>1 DEF PlanFailed, PlanSuperseded, PlanProposed, abandonPlannerAttempt,
                        ForgetAttempt, completePlannerAttempt
    <3>4. OfCurrent(calls[d].continuation)' /\ OfCurrent(calls[d].reply.next)'
      BY <1>T, <2>0, <3>1, <3>3 DEF OfCurrent
    <3> QED
      BY <1>0, <2>0, <3>2, <3>3, <3>4, IdentitiesStep
  <2>2. CASE PlanAsked(d)
    <3>1. /\ calls'[d].reply.next.attempt = calls[d].attempt
          /\ calls'[d].reply.next.request = lastID'
          /\ lastID' = lastID + 1 /\ pendingRequest' = lastID'
          /\ currentAttempt' = currentAttempt /\ currentAttempt = calls[d].attempt
      BY <2>2 DEF PlanAsked, Asked, registerPlannerStep
    <3>2. \A id \in Ids(calls'[d]) : id \in Ids(calls[d]) \/ id \in lastID + 1 .. lastID'
      BY <1>T, <2>0, <3>1 DEF Ids
    <3>3. /\ lastID' \in Nat /\ lastID' >= lastID
          /\ currentAttempt' <= lastID' /\ pendingRequest' <= lastID'
          /\ pendingRequest' \in lastID + 1 .. lastID'
      BY <1>T, <3>1
    <3>4. OfCurrent(calls[d].reply.next)'
      BY <3>1 DEF OfCurrent
    <3>5. OfCurrent(calls[d].continuation)'
      <4>1. calls[d].continuation.request <= lastID
        <5>1. calls[d].continuation.request \in Nat
          BY <1>0, IdTypes
        <5> QED
          BY <1>T, <5>1 DEF Identities, Ids
      <4>2. calls[d].continuation.request \in Nat
        BY <1>0, IdTypes
      <4> QED
        BY <1>T, <2>0, <3>1, <4>1, <4>2 DEF OfCurrent
    <3> QED
      BY <1>0, <2>0, <3>2, <3>3, <3>4, <3>5, IdentitiesStep
  <2>3. PlanProposed(d) =>
          calls'[d].reply.next.attempt = 0 /\ calls'[d].reply.next.request = 0
    <3> SUFFICES ASSUME PlanProposed(d)
                 PROVE  calls'[d].reply.next.attempt = 0 /\ calls'[d].reply.next.request = 0
      OBVIOUS
    <3>1. calls'[d].reply.next = [NoContinuation EXCEPT !.results = Results(d)]
      BY DEF PlanProposed
    <3> QED
      BY <3>1 DEF NoContinuation
  <2> QED
    BY <2>0, <2>1, <2>2, <2>3
<1>7. ASSUME NEW d \in Dialogue, Return(d) \/ Vanish(d) PROVE Identities'
  <2>1. /\ Only(d) /\ calls'[d].continuation = calls[d].continuation
        /\ calls'[d].attempt = calls[d].attempt /\ calls'[d].reply = calls[d].reply
        /\ UNCHANGED <<currentAttempt, pendingRequest, lastID>>
    BY <1>0, <1>7, PassesFacts DEF Brings, plannerVars
  <2>2. Ids(calls'[d]) \subseteq Ids(calls[d])
    BY <2>1 DEF Ids
  <2>3. OfCurrent(calls[d].continuation)' /\ OfCurrent(calls[d].reply.next)'
    BY <1>T, <2>1 DEF OfCurrent
  <2> QED
    BY <1>0, <1>T, <2>1, <2>2, <2>3, IdentitiesStep
<1>8. CASE StartDialogue
  <2>1. dialogue' \in Dialogue
    BY <1>0, <1>8, Bounds DEF TypeOK, StartDialogue, Dialogue
  <2>2. PICK d \in Dialogue : d = dialogue'
    BY <2>1
  <2>3. /\ Only(d) /\ calls'[d].continuation = NoContinuation
        /\ calls'[d].reply = NoReply /\ calls'[d].attempt = 0
        /\ UNCHANGED <<currentAttempt, pendingRequest, lastID>>
    BY <1>0, <1>8, <2>2, SentFields, ContinuationFields DEF StartDialogue, plannerVars
  <2>4. Ids(calls'[d]) = {}
    BY <2>3, ReplyFields DEF Ids, NoContinuation
  <2>5. OfCurrent(calls[d].continuation)' /\ OfCurrent(calls[d].reply.next)'
    BY <2>3, ReplyFields DEF OfCurrent, NoContinuation
  <2> QED
    BY <1>0, <1>T, <2>3, <2>4, <2>5, IdentitiesStep
<1>9. CASE Receive \/ FetchFails \/ GiveUp \/ AskStatus \/ Reconcile
  BY <1>T, <1>A, <1>9
     DEF Receive, FetchFails, GiveUp, AskStatus, Reconcile, plannerVars
<1>10. ASSUME NEW size \in Size, NEW more \in BOOLEAN, FetchPage(size, more)
       PROVE  Identities'
  <2>1. /\ dialogue \in Dialogue /\ calls[dialogue].reply.next \in Continuation
        /\ UNCHANGED <<currentAttempt, pendingRequest, lastID>>
    BY <1>0, <1>10, CallTypes DEF InOrder, FetchPage, plannerVars
  <2>2. CASE calls' = calls
    <3>1. currentAttempt' <= lastID
      BY <1>T, <2>1
    <3> QED
      BY <1>A, <2>1, <2>2, <3>1
  <2>3. CASE Send(dialogue, calls[dialogue].reply.next, more)
    <3>1. PICK d \in Dialogue : d = dialogue
      BY <2>1
    <3>2. /\ Only(d) /\ calls'[d].continuation = calls[d].reply.next
          /\ calls'[d].reply = NoReply /\ calls'[d].attempt = 0
      BY <1>0, <2>1, <2>3, <3>1, SentFields
    <3>3. Ids(calls'[d]) \subseteq Ids(calls[d])
      BY <3>2, ReplyFields DEF Ids, NoContinuation
    <3>4. OfCurrent(calls[d].continuation)' /\ OfCurrent(calls[d].reply.next)'
      BY <1>T, <2>1, <3>2, ReplyFields DEF OfCurrent, NoContinuation
    <3> QED
      BY <1>0, <1>T, <2>1, <3>2, <3>3, <3>4, IdentitiesStep
  <2> QED
    BY <1>10, <2>2, <2>3 DEF FetchPage
<1>11. CASE UNCHANGED vars
  BY <1>T, <1>A, <1>11 DEF vars, plannerVars
<1> QED
  BY <1>1, <1>2, <1>3, <1>4, <1>5, <1>6, <1>7, <1>8, <1>9, <1>10, <1>11
     DEF Next, Handle, Converse

-----------------------------------------------------------------------------
(* Overlaps. *)

LEMMA InHandKept ==
  ASSUME Shape, InHand, [Next]_vars PROVE InHand'
<1>0. TypeOK /\ InOrder
  BY DEF Shape
\* The steps of a handler keep the Writer where it is.
<1>A. ASSUME NEW d \in Dialogue, Only(d), UNCHANGED writerVars,
             Running(d)' /\ ~ calls'[d].late =>
               d = dialogue /\ (phase \in {"calling", "asking"} \/ stalled)
      PROVE  InHand'
  BY <1>A DEF InHand, Only, Running, writerVars
<1>B. ASSUME NEW d \in Dialogue, Only(d), UNCHANGED writerVars,
             calls[d].at \in {"begun", "entered", "returning"},
             calls'[d].late = calls[d].late
      PROVE  InHand'
  BY <1>A, <1>B DEF InHand, Running
<1>1. ASSUME NEW c \in Config, Configure(c) PROVE InHand'
  BY <1>1 DEF InHand, Running, Configure, writerVars
<1>2. CASE Shutdown
  BY <1>2 DEF InHand, Running, Shutdown, writerVars
<1>3. ASSUME NEW d \in Dialogue, Begin(d) PROVE InHand'
  <2>1. /\ Only(d) /\ UNCHANGED writerVars
        /\ calls'[d].late = Abandoned(d) \/ calls'[d].at = "returned"
    BY <1>0, <1>3, BeginFacts
  <2> QED
    BY <1>A, <2>1 DEF Running, Abandoned
<1>4. ASSUME NEW d \in Dialogue, StartAttempt(d) PROVE InHand'
  BY <1>0, <1>4, <1>B, StartAttemptFacts DEF Notes
<1>5. ASSUME NEW d \in Dialogue, ConsumeStep(d) PROVE InHand'
  BY <1>0, <1>5, <1>B, ConsumeStepFacts DEF Notes
<1>6. ASSUME NEW d \in Dialogue, Plan(d) PROVE InHand'
  BY <1>0, <1>6, <1>B, PlanFacts DEF Notes
<1>7. ASSUME NEW d \in Dialogue, Return(d) \/ Vanish(d) PROVE InHand'
  BY <1>0, <1>7, <1>A, PassesFacts DEF Running
<1>8. CASE StartDialogue
  <2>1. dialogue' \in Dialogue
    BY <1>0, <1>8, Bounds DEF TypeOK, StartDialogue, Dialogue
  <2>2. Only(dialogue') /\ calls'[dialogue'].at = "sent"
    BY <1>0, <1>8, <2>1, SentFields, ContinuationFields DEF StartDialogue
  <2>3. phase = "idle" /\ ~ stalled
    BY <1>8 DEF StartDialogue
  <2> QED
    BY <2>2, <2>3 DEF InHand, Running, Only
<1>9. CASE Receive
  BY <1>9 DEF InHand, Running, Receive
<1>10. CASE FetchFails
  BY <1>10 DEF InHand, Running, FetchFails
<1>11. CASE GiveUp
  BY <1>11 DEF InHand, Running, GiveUp
<1>12. CASE AskStatus
  BY <1>12 DEF InHand, Running, AskStatus, PlanMayRun, ActivePlan, End
<1>13. CASE Reconcile
  BY <1>13 DEF InHand, Running, Reconcile, PlanMayRun, ActivePlan
<1>14. ASSUME NEW size \in Size, NEW more \in BOOLEAN, FetchPage(size, more) PROVE InHand'
  <2>1. /\ dialogue \in Dialogue /\ calls[dialogue].reply.next \in Continuation
        /\ calls[dialogue].at = "returned"
        /\ UNCHANGED <<dialogue, stalled>>
    BY <1>0, <1>14, CallTypes DEF InOrder, FetchPage
  <2>2. CASE calls' = calls
    BY <1>14, <2>1, <2>2 DEF InHand, Running, FetchPage
  <2>3. CASE Send(dialogue, calls[dialogue].reply.next, more)
    <3>1. Only(dialogue) /\ calls'[dialogue].at = "sent"
      BY <1>0, <2>1, <2>3, SentFields
    <3> QED
      BY <1>14, <2>1, <3>1 DEF InHand, Running, FetchPage, Only
  <2> QED
    BY <1>14, <2>2, <2>3 DEF FetchPage
<1>15. CASE UNCHANGED vars
  BY <1>15 DEF InHand, Running, vars, writerVars
<1> QED
  BY <1>1, <1>2, <1>3, <1>4, <1>5, <1>6, <1>7, <1>8, <1>9, <1>10, <1>11, <1>12, <1>13,
     <1>14, <1>15 DEF Next, Handle, Converse

\* Two plans run side by side only if the older one began after its Writer had given
\* it up.
THEOREM OverlapTheorem == Spec => []OverlapsAreLate
<1>1. Init => InHand
  BY NoCallFields DEF Init, InHand, Running
<1>2. Shape /\ InHand /\ [Next]_vars => InHand'
  BY InHandKept
<1>3. Shape /\ InHand => OverlapsAreLate
  <2> SUFFICES ASSUME Shape, InHand, NEW d \in Dialogue, NEW e \in Dialogue,
                      d < e, Running(d), Running(e)
               PROVE  calls[d].late
    BY DEF OverlapsAreLate
  <2>1. ~ e > dialogue
    BY NoCallFields DEF Shape, InOrder, CallInOrder, Running
  <2>2. d # dialogue
    BY <2>1, Bounds DEF Shape, TypeOK, Dialogue
  <2> QED
    BY <2>2 DEF InHand
<1> QED
  BY <1>1, <1>2, <1>3, ShapeInvariance, PTL DEF Spec

-----------------------------------------------------------------------------
(* Proposals. *)

LEMMA InForceTypes ==
  ASSUME TypeOK
  PROVE  /\ generation \in Nat /\ generation # 0 /\ config \in Config
         /\ \A d \in Dialogue :
              /\ calls[d].generation \in Nat /\ calls[d].config \in Config
              /\ \A c \in {calls[d].continuation, calls[d].reply.next} :
                   c \in Continuation /\ c.generation \in Nat
<1>1. generation \in Nat /\ generation # 0 /\ config \in Config
  BY Bounds DEF TypeOK
<1>2. ASSUME NEW d \in Dialogue
      PROVE  /\ calls[d].generation \in Nat /\ calls[d].config \in Config
             /\ \A c \in {calls[d].continuation, calls[d].reply.next} :
                  c \in Continuation /\ c.generation \in Nat
  BY CallTypes, CallFields, ContinuationFields
<1> QED
  BY <1>1, <1>2

LEMMA NoContinuationInForce ==
  ASSUME TypeOK, NEW d \in Dialogue
  PROVE  /\ NoContinuation.generation <= generation
         /\ ~ NoContinuation.generation = generation
  BY InForceTypes DEF NoContinuation

\* A page more, and the pages are still the first ones of the configuration.
LEMMA FollowsResults ==
  ASSUME NEW cfg \in Config, NEW d \in Dialogue, NEW c \in Continuation, Follows(c, cfg, d),
         NEW page \in Page,
         page = [target |-> Targets[cfg][c.index], page |-> c.page, dialogue |-> d]
  PROVE  LET results == Append(c.results, page)
         IN  \E index \in [DOMAIN results -> DOMAIN Targets[cfg]] :
               /\ Walk(results, index, cfg, d) /\ results # <<>>
               /\ index[Len(results)] = c.index /\ results[Len(results)].page = c.page
<1> DEFINE old == c.results
           results == Append(old, page)
           n == Len(old)
<1>1. PICK index \in [DOMAIN old -> DOMAIN Targets[cfg]] :
        /\ Walk(old, index, cfg, d)
        /\ \/ c.page = 1 /\ c.index = IF old = <<>> THEN 1 ELSE index[Len(old)] + 1
           \/ /\ old # <<>> /\ c.index = index[Len(old)]
              /\ c.page = old[Len(old)].page + 1
  BY DEF Follows
<1>2. old \in Seq(Page) /\ n \in Nat /\ DOMAIN old = 1 .. n
  BY ContinuationFields, LenProperties
<1>3. /\ Len(results) = n + 1 /\ DOMAIN results = 1 .. n + 1
      /\ \A i \in 1 .. n : results[i] = old[i]
      /\ results[n + 1] = page /\ results # <<>>
  <2>1. results \in Seq(Page) /\ results # <<>> /\ Len(results) = n + 1
        /\ \A i \in 1 .. n : results[i] = old[i]
        /\ results[n + 1] = page
    BY <1>2, AppendProperties
  <2> QED
    BY <2>1, LenProperties
<1>4. (old = <<>>) <=> n = 0
  BY <1>2, EmptySeq
<1> DEFINE next == [i \in 1 .. n + 1 |-> IF i = n + 1 THEN c.index ELSE index[i]]
<1>5. c.index \in DOMAIN Targets[cfg]
  BY DEF Follows
<1>6. next \in [DOMAIN results -> DOMAIN Targets[cfg]]
  BY <1>1, <1>2, <1>3, <1>5
<1>7. /\ next[n + 1] = c.index
      /\ \A i \in 1 .. n : next[i] = index[i]
  BY <1>2
<1> HIDE DEF results, next
<1>8. Walk(results, next, cfg, d)
  <2> SUFFICES ASSUME NEW i \in 1 .. n + 1
               PROVE  /\ results[i].dialogue = d /\ results[i].target = Targets[cfg][next[i]]
                      /\ \/ /\ results[i].page = 1
                            /\ next[i] = IF i = 1 THEN 1 ELSE next[i - 1] + 1
                         \/ /\ i > 1 /\ results[i].page = results[i - 1].page + 1
                            /\ next[i] = next[i - 1]
    BY <1>3 DEF Walk
  <2>1. CASE i = n + 1
    <3>1. results[i].dialogue = d /\ results[i].target = Targets[cfg][next[i]]
          /\ results[i].page = c.page /\ next[i] = c.index
      BY <1>3, <1>7, <2>1
    <3>2. CASE n = 0
      BY <1>1, <1>4, <2>1, <3>1, <3>2
    <3>3. CASE n # 0
      <4>1. i # 1 /\ i > 1 /\ i - 1 = n /\ n \in 1 .. n
        BY <1>2, <2>1, <3>3
      <4>2. results[i - 1] = old[n] /\ next[i - 1] = index[n]
        BY <1>3, <1>7, <4>1
      <4> QED
        BY <1>1, <1>4, <3>1, <3>3, <4>1, <4>2
    <3> QED
      BY <3>2, <3>3
  <2>2. CASE i # n + 1
    <3>1. i \in 1 .. n /\ i \in DOMAIN old
      BY <1>2, <2>2
    <3>2. results[i] = old[i] /\ next[i] = index[i]
      BY <1>3, <1>7, <3>1
    <3>3. i > 1 => results[i - 1] = old[i - 1] /\ next[i - 1] = index[i - 1]
      <4>1. i > 1 => i - 1 \in 1 .. n
        BY <1>2, <3>1
      <4> QED
        BY <1>3, <1>7, <4>1
    <3>4. i = 1 \/ i > 1
      BY <3>1
    <3> QED
      BY <1>1, <3>1, <3>2, <3>3, <3>4 DEF Walk
  <2> QED
    BY <2>1, <2>2
<1> QED
  BY <1>3, <1>6, <1>7, <1>8 DEF results

LEMMA InForceStep ==
  ASSUME TypeOK, InForce, NEW d \in Dialogue, Only(d), UNCHANGED <<generation, config>>,
         CallInForce(calls'[d], d)
  PROVE  InForce'
<1>1. ASSUME NEW e \in Dialogue PROVE CallInForce(calls'[e], e)
  BY DEF InForce, Only
<1>2. ASSUME NEW e \in Dialogue PROVE CallInForce(calls[e], e)'
  BY <1>1 DEF CallInForce
<1> QED
  BY <1>2 DEF InForce

\* What a handler has noted, or what there was before.
LEMMA InForceSame ==
  ASSUME TypeOK, InForce, NEW d \in Dialogue, Only(d), UNCHANGED <<generation, config>>,
         \/ /\ calls'[d].generation = calls[d].generation
            /\ calls'[d].config = calls[d].config
         \/ calls'[d].generation = generation /\ calls'[d].config = config
         \/ calls'[d].generation = 0,
         calls'[d].continuation \in
           {calls[d].continuation, calls[d].reply.next, NoContinuation},
         calls'[d].reply.next \in {calls[d].reply.next, NoContinuation}
  PROVE  InForce'
<1>1. CallInForce(calls[d], d)
  BY DEF InForce
<1>2. generation \in Nat /\ generation # 0
  BY InForceTypes
<1>3. /\ calls'[d].generation <= generation
      /\ calls'[d].generation = generation => calls'[d].config = config
  BY <1>1, <1>2 DEF CallInForce
<1>4. \A c \in {calls[d].continuation, calls[d].reply.next, NoContinuation} :
        /\ c.generation <= generation
        /\ c.generation = generation => Follows(c, config, d)
  BY <1>1, NoContinuationInForce DEF CallInForce
<1>5. CallInForce(calls'[d], d)
  BY <1>3, <1>4 DEF CallInForce
<1> QED
  BY <1>5, InForceStep

\* The page of a continuation that is taken.
LEMMA ResultsFollow ==
  ASSUME TypeOK, InForce, NEW d \in Dialogue, TakesContinuation(d),
         calls[d].generation = generation, calls[d].continuation # NoContinuation
  PROVE  /\ calls[d].config = config
         /\ calls[d].continuation.index \in DOMAIN Targets[config]
         /\ \E index \in [DOMAIN Results(d) -> DOMAIN Targets[config]] :
              /\ Walk(Results(d), index, config, d) /\ Results(d) # <<>>
              /\ index[Len(Results(d))] = calls[d].continuation.index
              /\ Results(d)[Len(Results(d))].page = calls[d].continuation.page
<1> DEFINE c == calls[d].continuation
           page == [target |-> Targets[config][c.index], page |-> c.page, dialogue |-> d]
<1>1. CallInForce(calls[d], d)
  BY DEF InForce
<1>2. calls[d].config = config
  BY <1>1 DEF CallInForce
<1>3. c.generation = generation /\ c.index \in DOMAIN Targets[config]
  BY <1>2 DEF TakesContinuation, validContinuationState
<1>4. Follows(c, config, d)
  BY <1>1, <1>3 DEF CallInForce
<1>5. c \in Continuation /\ config \in Config
  BY InForceTypes
<1>6. page \in Page
  <2>1. Targets[config][c.index] \in Target
    BY <1>3, <1>5 DEF Target
  <2> QED
    BY <1>5, <2>1, ContinuationFields DEF Page
<1>7. Results(d) = Append(c.results, page)
  BY <1>2 DEF Results
<1> HIDE DEF page
<1>8. \E index \in [DOMAIN Append(c.results, page) -> DOMAIN Targets[config]] :
        /\ Walk(Append(c.results, page), index, config, d) /\ Append(c.results, page) # <<>>
        /\ index[Len(Append(c.results, page))] = c.index
        /\ Append(c.results, page)[Len(Append(c.results, page))].page = c.page
  BY <1>4, <1>5, <1>6, FollowsResults DEF page
<1> QED
  BY <1>2, <1>3, <1>7, <1>8

LEMMA AskedFollows ==
  ASSUME Shape, InForce, NEW d \in Dialogue, TakesContinuation(d),
         calls[d].generation = generation, NextPage(d)[1] \in DOMAIN Targets[calls[d].config],
         NEW request
  PROVE  Follows(Asked(d, request), config, d)
<1> DEFINE c == calls[d].continuation
           following == Asked(d, request)
<1>0. TypeOK /\ InOrder
  BY DEF Shape
<1>1. calls[d].config = config
  BY DEF InForce, CallInForce
<1>2. /\ following.index = NextPage(d)[1] /\ following.page = NextPage(d)[2]
      /\ following.results = Results(d)
  BY DEF Asked
<1>3. following.index \in DOMAIN Targets[config]
  BY <1>1, <1>2
<1> HIDE DEF following
<1> SUFFICES Follows(following, config, d)
  BY DEF following
<1>4. CASE c = NoContinuation
  <2>1. following.results = <<>>
    BY <1>2, <1>4 DEF Results
  <2>2. ~ calls[d].more
    BY <1>0, <1>4 DEF InOrder, CallInOrder
  <2>3. following.index = 1 /\ following.page = 1
    BY <1>2, <1>4, <2>2 DEF NextPage, NoContinuation
  <2> DEFINE index == [i \in {} |-> 1]
  <2>4. /\ DOMAIN following.results = {} /\ index \in [DOMAIN following.results -> DOMAIN Targets[config]]
    BY <2>1
  <2>5. Walk(following.results, index, config, d)
    BY <2>4 DEF Walk
  <2> HIDE DEF index
  <2> SUFFICES \E x \in [DOMAIN following.results -> DOMAIN Targets[config]] :
                 Walk(following.results, x, config, d)
    BY <1>3, <2>1, <2>3 DEF Follows
  <2> QED
    BY <2>4, <2>5
<1>5. CASE c # NoContinuation
  <2>1. PICK index \in [DOMAIN following.results -> DOMAIN Targets[config]] :
          /\ Walk(following.results, index, config, d) /\ following.results # <<>>
          /\ index[Len(following.results)] = c.index
          /\ following.results[Len(following.results)].page = c.page
    BY <1>0, <1>2, <1>5, ResultsFollow
  <2>2. \/ following.index = c.index /\ following.page = c.page + 1
        \/ following.index = c.index + 1 /\ following.page = 1
    BY <1>2 DEF NextPage
  <2>3. \/ /\ following.page = 1
           /\ following.index = IF following.results = <<>> THEN 1
                            ELSE index[Len(following.results)] + 1
        \/ /\ following.results # <<>> /\ following.index = index[Len(following.results)]
           /\ following.page = following.results[Len(following.results)].page + 1
    BY <2>1, <2>2
  <2> QED
    BY <1>3, <2>1, <2>3 DEF Follows
<1> QED
  BY <1>4, <1>5

LEMMA InForceKept ==
  ASSUME Shape, InForce, [Next]_vars PROVE InForce'
<1>0. TypeOK /\ InOrder
  BY DEF Shape
<1>A. ASSUME UNCHANGED <<calls, generation, config>> PROVE InForce'
  BY <1>A DEF InForce, CallInForce
<1>1. ASSUME NEW c \in Config, Configure(c) PROVE InForce'
  <2>1. calls' = calls /\ generation' = generation + 1 /\ generation \in Nat
    BY <1>0, <1>1, InForceTypes DEF Configure
  <2>2. ASSUME NEW d \in Dialogue PROVE CallInForce(calls[d], d)'
    <3>1. /\ calls[d].generation <= generation /\ calls[d].generation \in Nat
          /\ \A x \in {calls[d].continuation, calls[d].reply.next} :
               x.generation <= generation /\ x.generation \in Nat
      BY <1>0, InForceTypes DEF InForce, CallInForce
    <3> QED
      BY <2>1, <3>1 DEF CallInForce
  <2> QED
    BY <2>2 DEF InForce
<1>2. CASE Shutdown
  BY <1>A, <1>2 DEF Shutdown
<1>3. ASSUME NEW d \in Dialogue, Begin(d) PROVE InForce'
  <2>1. /\ Only(d) /\ UNCHANGED <<generation, config>>
        /\ \/ /\ calls'[d].generation = calls[d].generation
              /\ calls'[d].config = calls[d].config
           \/ calls'[d].generation = generation /\ calls'[d].config = config
        /\ calls'[d].continuation = calls[d].continuation
        /\ calls'[d].reply \in {calls[d].reply, Error("unauthorized")}
    BY <1>0, <1>3, BeginFacts DEF Brings, Notes, plannerVars
  <2> QED
    BY <1>0, <2>1, ReplyFields, InForceSame
<1>4. ASSUME NEW d \in Dialogue, StartAttempt(d) PROVE InForce'
  <2>1. /\ Only(d) /\ UNCHANGED <<generation, config>> /\ Notes(calls'[d], calls[d])
        /\ calls'[d].continuation = calls[d].continuation
        /\ calls'[d].reply \in {calls[d].reply, Error("refused")}
    BY <1>0, <1>4, StartAttemptFacts DEF Brings
  <2> QED
    BY <1>0, <2>1, ReplyFields, InForceSame DEF Notes
<1>5. ASSUME NEW d \in Dialogue, ConsumeStep(d) PROVE InForce'
  <2>1. /\ Only(d) /\ UNCHANGED <<generation, config>> /\ Notes(calls'[d], calls[d])
        /\ calls'[d].continuation = calls[d].continuation
        /\ calls'[d].reply \in {calls[d].reply, Error("refused")}
    BY <1>0, <1>5, ConsumeStepFacts DEF Brings
  <2> QED
    BY <1>0, <2>1, ReplyFields, InForceSame DEF Notes
<1>6. ASSUME NEW d \in Dialogue, Plan(d) PROVE InForce'
  <2>0. /\ Only(d) /\ UNCHANGED <<generation, config>> /\ Notes(calls'[d], calls[d])
        /\ calls'[d].continuation = calls[d].continuation
        /\ PlanFailed(d) \/ PlanSuperseded(d) \/ PlanAsked(d) \/ PlanProposed(d)
    BY <1>0, <1>6, PlanFacts DEF Brings
  <2>1. CASE PlanFailed(d) \/ PlanSuperseded(d)
    <3>1. calls'[d].reply.next = NoContinuation
      BY <2>1, ReplyFields DEF PlanFailed, PlanSuperseded
    <3> QED
      BY <1>0, <2>0, <3>1, InForceSame DEF Notes
  \* A plan for a configuration of the past may get no further.
  <2>2. CASE PlanAsked(d) \/ PlanProposed(d)
    <3> DEFINE next == calls'[d].reply.next
    <3>1. /\ next.generation <= generation
          /\ next.generation = generation => Follows(next, config, d)
      <4>1. CASE PlanAsked(d)
        <5>1. next = Asked(d, lastID') /\ TakesContinuation(d)
              /\ NextPage(d)[1] \in DOMAIN Targets[calls[d].config]
          BY <4>1 DEF PlanAsked
        <5>2. next.generation = calls[d].generation
          BY <5>1 DEF Asked
        <5>3. calls[d].generation <= generation
          BY DEF InForce, CallInForce
        <5> QED
          BY <5>1, <5>2, <5>3, AskedFollows
      <4>2. CASE PlanProposed(d)
        <5>1. next.generation = 0
          BY <4>2 DEF PlanProposed, NoContinuation
        <5> QED
          BY <1>0, <5>1, InForceTypes
      <4> QED
        BY <2>2, <4>1, <4>2
    <3>2. CallInForce(calls'[d], d)
      BY <2>0, <3>1 DEF InForce, CallInForce, Notes
    <3> QED
      BY <1>0, <2>0, <3>2, InForceStep
  <2> QED
    BY <2>0, <2>1, <2>2
<1>7. ASSUME NEW d \in Dialogue, Return(d) \/ Vanish(d) PROVE InForce'
  <2>1. /\ Only(d) /\ UNCHANGED <<generation, config>> /\ Notes(calls'[d], calls[d])
        /\ calls'[d].continuation = calls[d].continuation
        /\ calls'[d].reply = calls[d].reply
    BY <1>0, <1>7, PassesFacts DEF Brings, plannerVars
  <2> QED
    BY <1>0, <2>1, InForceSame DEF Notes
<1>8. CASE StartDialogue
  <2>1. dialogue' \in Dialogue
    BY <1>0, <1>8, Bounds DEF TypeOK, StartDialogue, Dialogue
  <2>2. PICK d \in Dialogue : d = dialogue'
    BY <2>1
  <2>3. /\ Only(d) /\ UNCHANGED <<generation, config>> /\ calls'[d].generation = 0
        /\ calls'[d].continuation = NoContinuation /\ calls'[d].reply = NoReply
    BY <1>0, <1>8, <2>2, SentFields, ContinuationFields DEF StartDialogue, plannerVars
  <2> QED
    BY <1>0, <2>3, ReplyFields, InForceSame
<1>9. CASE Receive \/ FetchFails \/ GiveUp \/ AskStatus \/ Reconcile
  BY <1>A, <1>9 DEF Receive, FetchFails, GiveUp, AskStatus, Reconcile, plannerVars
<1>10. ASSUME NEW size \in Size, NEW more \in BOOLEAN, FetchPage(size, more) PROVE InForce'
  <2>1. /\ dialogue \in Dialogue /\ calls[dialogue].reply.next \in Continuation
        /\ UNCHANGED <<generation, config>>
    BY <1>0, <1>10, CallTypes DEF InOrder, FetchPage, plannerVars
  <2>2. CASE calls' = calls
    BY <1>A, <2>1, <2>2
  <2>3. CASE Send(dialogue, calls[dialogue].reply.next, more)
    <3>1. PICK d \in Dialogue : d = dialogue
      BY <2>1
    <3>2. /\ Only(d) /\ calls'[d].generation = 0
          /\ calls'[d].continuation = calls[d].reply.next /\ calls'[d].reply = NoReply
      BY <1>0, <2>1, <2>3, <3>1, SentFields
    <3> QED
      BY <1>0, <2>1, <3>2, ReplyFields, InForceSame
  <2> QED
    BY <1>10, <2>2, <2>3 DEF FetchPage
<1>11. CASE UNCHANGED vars
  BY <1>A, <1>11 DEF vars, plannerVars
<1> QED
  BY <1>1, <1>2, <1>3, <1>4, <1>5, <1>6, <1>7, <1>8, <1>9, <1>10, <1>11
     DEF Next, Handle, Converse

\* Only the plan of a call answers it with a proposal.
LEMMA OnlyPlansPropose ==
  ASSUME Shape, [Next]_vars, NEW d \in Dialogue, calls[d].at = "entered",
         calls'[d].reply.kind = "final"
  PROVE  PlanProposed(d)
<1>0. TypeOK /\ InOrder
  BY DEF Shape
<1>1. calls'[d] # calls[d]
  BY <1>0, ReplyFields DEF InOrder, CallInOrder
<1>2. ASSUME NEW e \in Dialogue, Only(e) PROVE e = d
  BY <1>1, <1>2 DEF Only
<1>3. ASSUME NEW e \in Dialogue,
             Begin(e) \/ StartAttempt(e) \/ ConsumeStep(e) \/ Return(e) \/ Vanish(e)
      PROVE  FALSE
  <2>1. Only(e) /\ calls[e].at # "entered"
    BY <1>0, <1>3, BeginFacts, StartAttemptFacts, ConsumeStepFacts, PassesFacts
  <2> QED
    BY <1>2, <2>1
<1>4. ASSUME NEW e \in Dialogue, Plan(e) PROVE PlanProposed(d)
  <2>1. /\ Only(e)
        /\ PlanFailed(e) \/ PlanSuperseded(e) \/ PlanAsked(e) \/ PlanProposed(e)
    BY <1>0, <1>4, PlanFacts
  <2>2. e = d
    BY <1>2, <2>1
  <2> QED
    BY <2>1, <2>2, ReplyFields DEF PlanFailed, PlanSuperseded, PlanAsked
<1>5. ~ StartDialogue
  <2> SUFFICES ASSUME StartDialogue PROVE FALSE
    OBVIOUS
  <2>1. dialogue' \in Dialogue /\ dialogue' > dialogue
    BY <1>0, Bounds DEF TypeOK, StartDialogue, Dialogue
  <2>2. Only(dialogue') /\ calls[dialogue'] = NoCall
    BY <1>0, <2>1, SentFields, ContinuationFields
       DEF StartDialogue, InOrder, CallInOrder
  <2> QED
    BY <1>2, <2>1, <2>2, NoCallFields
<1>6. ASSUME NEW size \in Size, NEW more \in BOOLEAN, FetchPage(size, more) PROVE FALSE
  <2>1. /\ dialogue \in Dialogue /\ calls[dialogue].reply.next \in Continuation
        /\ calls[dialogue].at = "returned"
    BY <1>0, <1>6, CallTypes DEF InOrder, FetchPage
  <2>2. Send(dialogue, calls[dialogue].reply.next, more)
    BY <1>1, <1>6 DEF FetchPage
  <2> QED
    BY <1>0, <1>2, <2>1, <2>2, SentFields
<1>7. calls' # calls
  BY <1>1
<1> QED
  BY <1>3, <1>4, <1>5, <1>6, <1>7
     DEF Next, Handle, Converse, vars, Configure, Shutdown, Receive, FetchFails, GiveUp,
         AskStatus, Reconcile

LEMMA ProposedIsWhole ==
  ASSUME Shape, InForce, NEW d \in Dialogue, PlanProposed(d)
  PROVE  /\ configured /\ calls[d].config = config
         /\ Whole(calls'[d].reply.next.results, config, d)
<1> DEFINE c == calls[d].continuation
           results == Results(d)
<1>0. TypeOK /\ InOrder
  BY DEF Shape
<1>1. /\ configured /\ calls[d].generation = generation
      /\ TakesContinuation(d) /\ NextPage(d)[1] \notin DOMAIN Targets[calls[d].config]
  BY DEF PlanProposed, completePlannerAttempt, fence
<1>2. calls[d].config = config
  BY <1>1 DEF InForce, CallInForce
<1>3. calls'[d].reply.next.results = results
  <2>1. calls'[d].reply.next = [NoContinuation EXCEPT !.results = results]
    BY DEF PlanProposed
  <2> QED
    BY <2>1 DEF NoContinuation
<1>4. /\ Targets[config] \in Seq(Target) /\ Len(Targets[config]) \in Nat
      /\ DOMAIN Targets[config] = 1 .. Len(Targets[config])
  BY <1>0, InForceTypes, ConfigAssumption, LenProperties
<1> HIDE DEF results
<1>5. CASE c = NoContinuation
  <2>1. results = <<>>
    BY <1>5 DEF Results, results
  <2>2. ~ calls[d].more
    BY <1>0, <1>5 DEF InOrder, CallInOrder
  <2>3. NextPage(d)[1] = 1
    BY <1>5, <2>2 DEF NextPage, NoContinuation
  <2>4. Targets[config] = <<>>
    BY <1>1, <1>2, <1>4, <2>3, EmptySeq
  <2> DEFINE index == [i \in {} |-> 1]
  <2>5. /\ DOMAIN results = {} /\ index \in [DOMAIN results -> DOMAIN Targets[config]]
    BY <2>1
  <2>6. Walk(results, index, config, d)
    BY <2>5 DEF Walk
  <2> HIDE DEF index
  <2>7. Whole(results, config, d)
    BY <2>1, <2>4, <2>5, <2>6 DEF Whole
  <2> QED
    BY <1>1, <1>2, <1>3, <2>7
<1>6. CASE c # NoContinuation
  <2>1. c.index \in DOMAIN Targets[config]
    BY <1>0, <1>1, <1>6, ResultsFollow
  <2>2. PICK index \in [DOMAIN results -> DOMAIN Targets[config]] :
          /\ Walk(results, index, config, d) /\ results # <<>>
          /\ index[Len(results)] = c.index
    BY <1>0, <1>1, <1>6, ResultsFollow DEF results
  <2>3. NextPage(d)[1] \in {c.index, c.index + 1}
    BY DEF NextPage
  <2>4. c.index = Len(Targets[config])
    BY <1>1, <1>2, <1>4, <2>1, <2>3
  <2>5. Whole(results, config, d)
    BY <2>2, <2>4 DEF Whole
  <2> QED
    BY <1>1, <1>2, <1>3, <2>5
<1> QED
  BY <1>5, <1>6

\* A proposal is computed from every catalog of the configuration in force when it is
\* made, in order and with all pages, all fetched in its own dialogue.
THEOREM ProposalTheorem == Spec => ProposalIsWhole
<1>1. Init => InForce
  <2> SUFFICES ASSUME Init, NEW d \in Dialogue PROVE CallInForce(calls[d], d)
    BY DEF InForce
  <2>1. calls[d] = NoCall /\ generation = 1
    BY DEF Init
  <2> QED
    BY <2>1, NoCallFields, ReplyFields DEF CallInForce, NoContinuation
<1>2. Shape /\ InForce /\ [Next]_vars => InForce'
  BY InForceKept
<1>3. Shape /\ InForce /\ [Next]_vars =>
        [\A d \in Dialogue :
           calls[d].at = "entered" /\ calls'[d].reply.kind = "final" =>
             /\ configured /\ calls[d].config = config
             /\ Whole(calls'[d].reply.next.results, config, d)]_vars
  BY OnlyPlansPropose, ProposedIsWhole
<1> QED
  BY <1>1, <1>2, <1>3, ShapeInvariance, PTL DEF Spec, ProposalIsWhole

-----------------------------------------------------------------------------
(* Refusals. *)

\* A step of another dialogue's handler leaves what the present one relies on: it can
\* only touch an attempt or a request that is its own.
LEMMA Elsewhere ==
  ASSUME Shape, Identities, Fence, NEW d \in Dialogue, d # dialogue, Only(d),
         UNCHANGED <<writerVars, configured, generation>>,
         disturbed' = disturbed,
         \/ UNCHANGED <<currentAttempt, pendingRequest>>
         \/ /\ currentAttempt' = currentAttempt
            /\ pendingRequest = calls[d].continuation.request /\ pendingRequest # 0
         \/ currentAttempt = calls[d].attempt /\ currentAttempt # 0
  PROVE  Fence'
<1> DEFINE call == calls[dialogue]
<1>0. TypeOK /\ InOrder
  BY DEF Shape
<1>1. /\ dialogue' = dialogue /\ phase' = phase /\ outcome' = outcome
  BY DEF writerVars
<1>2. ASSUME ~ disturbed, phase \in {"calling", "fetching"} PROVE InStep(calls[dialogue])'
  <2>1. dialogue \in Dialogue /\ calls'[dialogue] = call
    BY <1>0, <1>2 DEF InOrder, Only
  <2>2. InStep(call)
    BY <1>2 DEF Fence
  <2>3. call.at = "entered" => call.attempt # 0
    BY <1>0, <2>1 DEF InOrder, CallInOrder
  <2>4. Ids(call) \cap Ids(calls[d]) = {}
    BY <2>1 DEF Identities
  <2>5. CASE UNCHANGED <<currentAttempt, pendingRequest>>
    BY <1>1, <2>1, <2>2, <2>5 DEF InStep, Awaits
  <2>6. CASE /\ currentAttempt' = currentAttempt
             /\ pendingRequest = calls[d].continuation.request /\ pendingRequest # 0
    <3>1. pendingRequest \in Ids(calls[d])
      BY <2>6 DEF Ids
    <3>2. ~ Awaits(call.continuation) /\ ~ Awaits(call.reply.next)
      BY <2>4, <2>6, <3>1 DEF Awaits, Ids
    <3> QED
      BY <1>1, <2>1, <2>2, <2>6, <3>2 DEF InStep
  <2>7. CASE currentAttempt = calls[d].attempt /\ currentAttempt # 0
    <3>1. currentAttempt \in Ids(calls[d])
      BY <2>7 DEF Ids
    <3>2. ~ Awaits(call.continuation) /\ ~ Awaits(call.reply.next)
      BY <2>4, <3>1 DEF Awaits, Ids
    <3>3. call.at # "entered"
      BY <2>2, <2>3, <2>4, <3>1 DEF InStep, Ids
    <3> QED
      BY <1>1, <2>1, <2>2, <3>2, <3>3 DEF InStep
  <2> QED
    BY <2>5, <2>6, <2>7
<1> QED
  BY <1>1, <1>2 DEF Fence, RefusalHasCause

\* A step of its own.
LEMMA Here ==
  ASSUME Shape, Fence, UNCHANGED writerVars, disturbed \in BOOLEAN, disturbed => disturbed',
         ~ disturbed /\ phase \in {"calling", "fetching"} /\ InStep(calls[dialogue])
           => InStep(calls[dialogue])'
  PROVE  Fence'
  BY DEF Fence, RefusalHasCause, writerVars

LEMMA FenceKept ==
  ASSUME Shape, Identities, InForce, Fence, [Next]_vars PROVE Fence'
<1>0. TypeOK /\ InOrder /\ disturbed \in BOOLEAN
  BY DEF Shape, TypeOK
<1>1. ASSUME NEW c \in Config, Configure(c) PROVE Fence'
  BY <1>1 DEF Configure, Fence, RefusalHasCause
<1>2. CASE Shutdown
  BY <1>2 DEF Shutdown, Fence, RefusalHasCause
<1>3. ASSUME NEW d \in Dialogue, Begin(d) PROVE Fence'
  <2>0. /\ Only(d) /\ UNCHANGED <<plannerVars, writerVars>> /\ disturbed' = disturbed
    BY <1>0, <1>3, BeginFacts
  <2>1. CASE d # dialogue
    BY <2>0, <2>1, Elsewhere DEF plannerVars
  <2>2. CASE d = dialogue
    <3> SUFFICES ASSUME InStep(calls[d]) PROVE InStep(calls[d])'
      BY <1>0, <2>0, <2>2, Here DEF writerVars
    <3>1. /\ calls[d].at = "sent" /\ calls'[d].continuation = calls[d].continuation
          /\ \/ /\ configured /\ calls'[d].at = "begun"
                /\ calls'[d].generation = generation /\ calls'[d].reply = calls[d].reply
             \/ calls'[d].at = "returned" /\ calls'[d].reply.kind = "unauthorized"
      BY <1>0, <1>3, BeginFacts, ReplyFields DEF Brings
    <3> QED
      BY <2>0, <3>1 DEF InStep, Awaits, plannerVars
  <2> QED
    BY <2>1, <2>2
<1>4. ASSUME NEW d \in Dialogue, StartAttempt(d) PROVE Fence'
  <2>0. /\ Only(d) /\ UNCHANGED <<configured, generation, writerVars>>
        /\ calls[d].at = "begun" /\ calls[d].continuation = NoContinuation
        /\ calls'[d].continuation = calls[d].continuation
        /\ calls'[d].generation = calls[d].generation
    BY <1>0, <1>4, StartAttemptFacts DEF Brings, Notes
  <2>1. CASE d # dialogue
    <3>1. CASE disturbed'
      BY <2>0, <3>1 DEF Fence, RefusalHasCause
    <3>2. CASE ~ disturbed'
      <4>1. disturbed' = disturbed /\ UNCHANGED <<currentAttempt, pendingRequest>>
        BY <1>0, <1>4, <2>1, <3>2, StartAttemptFacts
      <4> QED
        BY <2>0, <2>1, <4>1, Elsewhere
    <3> QED
      BY <3>1, <3>2
  <2>2. CASE d = dialogue
    <3>1. disturbed => disturbed'
      BY <1>0, <1>4, StartAttemptFacts
    <3> SUFFICES ASSUME InStep(calls[d]) PROVE InStep(calls[d])'
      BY <1>0, <2>0, <2>2, <3>1, Here DEF writerVars
    <3>2. configured /\ calls[d].generation = generation
      BY <2>0 DEF InStep
    <3>3. /\ currentAttempt' = lastID' /\ pendingRequest' = 0
          /\ calls'[d].at = "entered" /\ calls'[d].attempt = lastID'
          /\ calls'[d].reply = calls[d].reply
      BY <1>0, <1>4, <3>2, StartAttemptFacts DEF fence
    <3> QED
      BY <2>0, <3>2, <3>3 DEF InStep
  <2> QED
    BY <2>1, <2>2
<1>5. ASSUME NEW d \in Dialogue, ConsumeStep(d) PROVE Fence'
  <2>0. /\ Only(d) /\ UNCHANGED <<configured, generation, writerVars>>
        /\ disturbed' = disturbed /\ currentAttempt' = currentAttempt
        /\ calls[d].at = "begun" /\ calls[d].continuation # NoContinuation
        /\ calls'[d].continuation = calls[d].continuation
        /\ calls'[d].generation = calls[d].generation
    BY <1>0, <1>5, ConsumeStepFacts DEF Brings, Notes
  <2>1. CASE d # dialogue
    <3>1. calls[d].continuation.request # 0
      BY <1>0, <2>0 DEF InOrder, CallInOrder
    <3>2. \/ pendingRequest' = pendingRequest
          \/ pendingRequest = calls[d].continuation.request
      BY <1>0, <1>5, ConsumeStepFacts DEF consumePlannerStep
    <3> QED
      BY <2>0, <2>1, <3>1, <3>2, Elsewhere
  <2>2. CASE d = dialogue
    <3> SUFFICES ASSUME InStep(calls[d]) PROVE InStep(calls[d])'
      BY <1>0, <2>0, <2>2, Here DEF writerVars
    <3>1. configured /\ calls[d].generation = generation /\ Awaits(calls[d].continuation)
      BY <2>0 DEF InStep
    <3>2. consumePlannerStep(calls[d].continuation.request, calls[d].generation)
      BY <3>1 DEF consumePlannerStep, fence, Awaits
    <3>3. /\ pendingRequest' = 0 /\ calls'[d].at = "entered"
          /\ calls'[d].attempt = currentAttempt /\ calls'[d].reply = calls[d].reply
      BY <1>0, <1>5, <3>2, ConsumeStepFacts
    <3> QED
      BY <2>0, <3>1, <3>3 DEF InStep, Awaits
  <2> QED
    BY <2>1, <2>2
<1>6. ASSUME NEW d \in Dialogue, Plan(d) PROVE Fence'
  <2>0. /\ Only(d) /\ UNCHANGED <<configured, generation, writerVars>>
        /\ disturbed' = disturbed
        /\ calls[d].at = "entered" /\ calls'[d].at = "returning"
        /\ PlanFailed(d) \/ PlanSuperseded(d) \/ PlanAsked(d) \/ PlanProposed(d)
    BY <1>0, <1>6, PlanFacts
  <2>1. calls[d].attempt # 0
    BY <1>0, <2>0 DEF InOrder, CallInOrder
  <2>2. CASE d # dialogue
    <3>1. \/ UNCHANGED <<currentAttempt, pendingRequest>>
          \/ currentAttempt = calls[d].attempt /\ currentAttempt # 0
      BY <2>0, <2>1 DEF PlanFailed, PlanSuperseded, PlanAsked, PlanProposed,
                        abandonPlannerAttempt, registerPlannerStep, completePlannerAttempt
    <3> QED
      BY <2>0, <2>2, <3>1, Elsewhere
  <2>3. CASE d = dialogue
    <3> SUFFICES ASSUME InStep(calls[d]) PROVE InStep(calls[d])'
      BY <1>0, <2>0, <2>3, Here DEF writerVars
    <3>1. /\ configured /\ calls[d].generation = generation
          /\ currentAttempt = calls[d].attempt /\ pendingRequest = 0
          /\ calls[d].continuation # NoContinuation =>
               /\ calls[d].continuation.generation = calls[d].generation
               /\ calls[d].continuation.attempt = calls[d].attempt
      BY <2>0 DEF InStep
    <3>2. registerPlannerStep(calls[d].attempt, calls[d].generation)
      BY <3>1 DEF registerPlannerStep, fence
    <3>3. TakesContinuation(d)
      BY <3>1 DEF TakesContinuation, validContinuationState, InForce, CallInForce, Follows
    <3>4. CASE PlanFailed(d)
      <4>1. calls'[d].reply.kind = "invalid"
        BY <3>3, <3>4, ReplyFields DEF PlanFailed
      <4> QED
        BY <2>0, <4>1 DEF InStep
    <3>5. ~ PlanSuperseded(d)
      BY <3>2 DEF PlanSuperseded
    <3>6. CASE PlanAsked(d)
      <4>1. /\ calls'[d].reply.kind = "fetch"
            /\ calls'[d].reply.next.generation = generation
            /\ calls'[d].reply.next.attempt = currentAttempt
            /\ calls'[d].reply.next.request = lastID'
            /\ pendingRequest' = lastID' /\ currentAttempt' = currentAttempt
        BY <3>1, <3>6 DEF PlanAsked, Asked
      <4> QED
        BY <2>0, <2>1, <3>1, <4>1 DEF InStep, Awaits
    <3>7. CASE PlanProposed(d)
      BY <2>0, <3>7 DEF InStep, PlanProposed
    <3> QED
      BY <2>0, <3>4, <3>5, <3>6, <3>7
  <2> QED
    BY <2>2, <2>3
<1>7. ASSUME NEW d \in Dialogue, Return(d) \/ Vanish(d) PROVE Fence'
  <2>0. /\ Only(d) /\ UNCHANGED <<plannerVars, writerVars>> /\ disturbed' = disturbed
        /\ calls'[d].continuation = calls[d].continuation
        /\ calls'[d].reply = calls[d].reply
        /\ \/ calls[d].at = "returning" /\ calls'[d].at = "returned"
           \/ calls[d].at = "sent" /\ Abandoned(d)
    BY <1>0, <1>7, PassesFacts DEF Brings
  <2>1. CASE d # dialogue
    BY <2>0, <2>1, Elsewhere DEF plannerVars
  <2>2. CASE d = dialogue
    <3> SUFFICES ASSUME phase \in {"calling", "fetching"}, InStep(calls[d])
                 PROVE  InStep(calls[d])'
      BY <1>0, <2>0, <2>2, Here DEF writerVars
    <3>1. calls[d].at = "returning" /\ calls'[d].at = "returned"
      BY <1>0, <2>0, <2>2 DEF Abandoned, InOrder
    <3> QED
      BY <2>0, <3>1 DEF InStep, Awaits, plannerVars
  <2> QED
    BY <2>1, <2>2
<1>8. CASE StartDialogue
  <2>1. dialogue' \in Dialogue
    BY <1>0, <1>8, Bounds DEF TypeOK, StartDialogue, Dialogue
  <2>2. /\ calls'[dialogue'].at = "sent" /\ calls'[dialogue'].reply = NoReply
        /\ calls'[dialogue'].continuation = NoContinuation
    BY <1>0, <1>8, <2>1, SentFields, ContinuationFields DEF StartDialogue
  <2>3. InStep(calls[dialogue])'
    BY <2>2, ReplyFields DEF InStep
  <2> QED
    BY <1>8, <2>3 DEF StartDialogue, Fence, RefusalHasCause
<1>9. CASE Receive
  <2>1. RefusalHasCause'
    BY <1>9 DEF Receive, End, Fence, RefusalHasCause, InStep
  <2>2. InStep(calls[dialogue]) => InStep(calls[dialogue])'
    BY <1>9 DEF Receive, InStep, Awaits, plannerVars
  <2>3. phase = "calling" /\ disturbed' = disturbed
    BY <1>9 DEF Receive
  <2> QED
    BY <2>1, <2>2, <2>3 DEF Fence
<1>10. CASE FetchFails \/ GiveUp \/ AskStatus
  BY <1>10 DEF FetchFails, GiveUp, AskStatus, End, Fence, RefusalHasCause
<1>11. CASE Reconcile
  <2>1. InStep(calls[dialogue]) => InStep(calls[dialogue])'
    BY <1>11 DEF Reconcile, InStep, Awaits, plannerVars
  <2> QED
    BY <1>11, <2>1 DEF Reconcile, Fence, RefusalHasCause
<1>12. ASSUME NEW size \in Size, NEW more \in BOOLEAN, FetchPage(size, more) PROVE Fence'
  <2>1. /\ dialogue \in Dialogue /\ calls[dialogue].reply.next \in Continuation
        /\ calls[dialogue].at = "returned" /\ calls[dialogue].reply.kind = "fetch"
        /\ UNCHANGED <<plannerVars, dialogue, disturbed>>
    BY <1>0, <1>12, CallTypes DEF InOrder, FetchPage
  <2>2. CASE phase' = "idle" /\ outcome' = "provider_catalog_too_large"
    BY <2>1, <2>2 DEF Fence, RefusalHasCause
  <2>3. CASE /\ Send(dialogue, calls[dialogue].reply.next, more)
             /\ UNCHANGED outcome /\ phase = "fetching"
    <3>1. /\ calls'[dialogue].at = "sent" /\ calls'[dialogue].reply = NoReply
          /\ calls'[dialogue].continuation = calls[dialogue].reply.next
      BY <1>0, <2>1, <2>3, SentFields
    <3>2. InStep(calls[dialogue]) => InStep(calls[dialogue])'
      BY <2>1, <3>1, ReplyFields DEF InStep, Awaits, plannerVars
    <3> QED
      BY <2>1, <2>3, <3>2 DEF Fence, RefusalHasCause
  <2> QED
    BY <1>12, <2>2, <2>3 DEF FetchPage, End
<1>13. CASE UNCHANGED vars
  <2>1. /\ UNCHANGED <<configured, generation, currentAttempt, pendingRequest>>
        /\ UNCHANGED <<calls, dialogue, phase, outcome, disturbed>>
    BY <1>13 DEF vars, plannerVars, writerVars
  <2>2. InStep(calls[dialogue]) => InStep(calls[dialogue])'
    BY <2>1 DEF InStep, Awaits
  <2> QED
    BY <2>1, <2>2 DEF Fence, RefusalHasCause
<1> QED
  BY <1>1, <1>2, <1>3, <1>4, <1>5, <1>6, <1>7, <1>8, <1>9, <1>10, <1>11, <1>12, <1>13
     DEF Next, Handle, Converse

\* The planner refuses a dialogue as stale only if it was reconfigured or shut down
\* meanwhile, or an abandoned first call began a newer attempt.
THEOREM RefusalTheorem == Spec => []RefusalHasCause
<1>1. Init => Identities /\ InForce /\ Fence
  <2> SUFFICES ASSUME Init PROVE Identities /\ InForce /\ Fence
    OBVIOUS
  <2>1. /\ \A d \in Dialogue : calls[d] = NoCall
        /\ generation = 1 /\ currentAttempt = 0 /\ pendingRequest = 0 /\ lastID = 0
        /\ phase = "idle" /\ outcome = "none"
    BY DEF Init
  <2>2. NoCall.continuation = NoContinuation /\ NoCall.reply.next = NoContinuation
    BY NoCallFields, ReplyFields
  <2>3. Ids(NoCall) = {}
    BY <2>2, NoCallFields DEF Ids, NoContinuation
  <2>4. Identities
    BY <2>1, <2>2, <2>3 DEF Identities, OfCurrent
  <2>5. InForce
    BY <2>1, <2>2, NoCallFields DEF InForce, CallInForce, NoContinuation
  <2> QED
    BY <2>1, <2>4, <2>5 DEF Fence, RefusalHasCause
<1>2. Shape /\ Identities /\ InForce /\ Fence /\ [Next]_vars
        => Identities' /\ InForce' /\ Fence'
  BY IdentitiesKept, InForceKept, FenceKept
<1>3. Fence => RefusalHasCause
  BY DEF Fence
<1> QED
  BY <1>1, <1>2, <1>3, ShapeInvariance, PTL DEF Spec
=============================================================================
