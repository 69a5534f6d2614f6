-------------------------- MODULE PlannerDialogue --------------------------
(***************************************************************************)
(* How the Writer gets a proposal out of a planner that may fetch nothing  *)
(* itself (HTTPPlanner.PlanWithProgress of planner.go against service.go   *)
(* and management.go of a planner, which are the same file twice, and the  *)
(* planDecoded of both).                                                   *)
(*                                                                         *)
(* The Writer calls the planner with the config.  The planner answers with *)
(* a proposal, or with the next page it needs and a continuation.  The     *)
(* Writer fetches the page and calls again with both, until the proposal   *)
(* comes or a limit is reached.  The planner keeps no dialogue: only which *)
(* attempt is current and which request it awaits, so that one that was    *)
(* replaced, or whose configuration was, cannot go on.                     *)
(*                                                                         *)
(* A call that fails at the transport is abandoned, not undone: it may     *)
(* have been running, it may begin only afterwards, or never.  Then the    *)
(* Writer asks whether a plan is active, and blocks writes if so.          *)
(*                                                                         *)
(* All dialogues plan for the same config file: another one would only add *)
(* refusals.  An operator with a suffix is a mutated form of the one below *)
(* it.                                                                     *)
(***************************************************************************)
EXTENDS Integers, Sequences, FiniteSets

CONSTANTS
  Config,           \* the configurations of the planner
  Targets,          \* the catalogs each one fetches, in order
  Paged,            \* the catalogs that come in pages, which Claude's do
  Size,             \* how large a page may be
  maxProviderPages, \* the Writer's limit on the pages of a dialogue
  maxClaudePages,   \* the planner's limit on the pages of one catalog
  maxProviderBytes, \* the Writer's limit on their total size
  MaxDialogues,     \* bound on the dialogues
  MaxGeneration     \* bound on the configurations in force

Target == UNION {{Targets[c][i] : i \in DOMAIN Targets[c]} : c \in Config}

ASSUME ConfigAssumption ==
  /\ Config # {} /\ \A c \in Config : Targets[c] \in Seq(Target)
  /\ Paged \subseteq Target
ASSUME LimitAssumption ==
  /\ Size \subseteq Nat /\ maxProviderPages \in Nat /\ maxClaudePages \in Nat
  /\ maxProviderBytes \in Nat /\ MaxDialogues \in Nat /\ MaxGeneration \in Nat \ {0}

Dialogue == 1 .. MaxDialogues

\* An attempt or a request, 0 for the empty string.
ID == Nat

\* A page that was asked for, and by which dialogue.
Page == [target : Target, page : Nat, dialogue : Dialogue]

\* What the planner has the Writer keep for it: the page it asked for, by which
\* request of which attempt, and the pages it has.
Continuation ==
  [generation : Nat, attempt : ID, index : Nat, page : Nat, request : ID,
   results : Seq(Page)]
NoContinuation ==
  [generation |-> 0, attempt |-> 0, index |-> 0, page |-> 0, request |-> 0,
   results |-> <<>>]

\* The answers of a planner.  On the wire "refused", by the fence around attempts,
\* and "invalid", for what is wrong with a catalog, are one error code.
Reply == [kind : {"none", "fetch", "final", "refused", "invalid", "unauthorized"},
          next : Continuation \cup {NoContinuation}]
NoReply == [kind |-> "none", next |-> NoContinuation]
Error(kind) == [kind |-> kind, next |-> NoContinuation]

\* One call: how far it is, what it brings, and what its handler has noted.
Call == [at : {"none", "sent", "begun", "entered", "returning", "returned"},
         continuation : Continuation \cup {NoContinuation}, more : BOOLEAN,
         generation : Nat, config : Config, attempt : ID, reply : Reply, late : BOOLEAN]

\* How a dialogue may end.
Outcome ==
  {"none", "proposed", "refused", "invalid", "unauthorized", "provider_fetch_invalid",
   "provider_fetch_failed", "provider_catalog_too_large", "planner_stalled",
   "loopback_timeout"}

VARIABLES
  \* the planner
  configured, generation, config, currentAttempt, pendingRequest,
  \* the calls, by dialogue: one has at most one call at a time
  calls,
  lastID,    \* the last attempt or request identity handed out
  \* the Writer
  dialogue,  \* the dialogue it is in or has had last
  phase,     \* idle, calling, fetching a page, or asking for the status
  pages, bytes, asked,
  outcome,   \* of the dialogue
  stalled,   \* whether writes are blocked by planner_stalled
  disturbed  \* ghost: what else may have made the planner refuse this dialogue

plannerVars == <<configured, generation, config, currentAttempt, pendingRequest>>
loopVars    == <<pages, bytes, asked>>
writerVars  == <<dialogue, phase, loopVars, outcome, stalled>>
vars == <<plannerVars, calls, lastID, writerVars, disturbed>>

Abandoned(d) == d # dialogue \/ phase # "calling"
Running(d)   == calls[d].at \in {"begun", "entered", "returning"}

\* WorkerStatus.ActivePlan: activePlans > 0.
ActivePlan == \E d \in Dialogue : Running(d)

-----------------------------------------------------------------------------
(* The planner's fence: the operations of service.go, each under its mutex. *)

fence(g) == configured /\ generation = g

completePlannerAttempt_unfenced(attempt, g) == currentAttempt \in {0, attempt}

\* Whether an attempt may finish.
completePlannerAttempt(attempt, g) ==
  fence(g) /\ currentAttempt = attempt /\ pendingRequest = 0

\* Whether an attempt may await its next page.
registerPlannerStep(attempt, g) ==
  fence(g) /\ currentAttempt = attempt /\ pendingRequest = 0

consumePlannerStep_any(request, g) == fence(g) /\ currentAttempt # 0

\* Whether a page is the one awaited.
consumePlannerStep(request, g) ==
  fence(g) /\ currentAttempt # 0 /\ pendingRequest = request

ForgetAttempt == currentAttempt' = 0 /\ pendingRequest' = 0

\* An attempt that failed is forgotten, unless another one has replaced it.
abandonPlannerAttempt(attempt, g) ==
  IF generation = g /\ currentAttempt = attempt
    THEN ForgetAttempt
    ELSE UNCHANGED <<currentAttempt, pendingRequest>>

Configure(c) ==
  /\ generation < MaxGeneration
  /\ configured' = TRUE /\ config' = c /\ generation' = generation + 1
  /\ ForgetAttempt
  /\ disturbed' = TRUE
  /\ UNCHANGED <<calls, lastID, writerVars>>

Shutdown ==
  /\ configured
  /\ configured' = FALSE /\ ForgetAttempt
  /\ disturbed' = TRUE
  /\ UNCHANGED <<generation, config, calls, lastID, writerVars>>

-----------------------------------------------------------------------------
(* A call of the plan route: management.go.                                *)

\* beginAuthorizedPlan: from here on the plan is active, with the configuration in
\* force now.
Begin(d) ==
  /\ calls[d].at = "sent"
  /\ calls' = [calls EXCEPT ![d] =
       IF configured
         THEN [@ EXCEPT !.at = "begun", !.generation = generation, !.config = config,
                        !.late = Abandoned(d)]
         ELSE [@ EXCEPT !.at = "returned", !.reply = Error("unauthorized")]]
  /\ UNCHANGED <<plannerVars, lastID, writerVars, disturbed>>

Answer(d, reply) == calls' = [calls EXCEPT ![d].at = "returning", ![d].reply = reply]
Refuse(d) == Answer(d, Error("refused"))
Entered(d, attempt) ==
  calls' = [calls EXCEPT ![d].at = "entered", ![d].attempt = attempt]

\* startPlannerAttempt, for a call without a page: it replaces any current attempt.
StartAttempt(d) ==
  /\ calls[d].at = "begun" /\ calls[d].continuation = NoContinuation
  /\ \/ /\ fence(calls[d].generation)
        /\ lastID' = lastID + 1
        /\ currentAttempt' = lastID' /\ pendingRequest' = 0
        /\ Entered(d, lastID')
        /\ disturbed' = (disturbed \/ d # dialogue)
     \/ /\ ~ fence(calls[d].generation)
        /\ Refuse(d)
        /\ UNCHANGED <<currentAttempt, pendingRequest, lastID, disturbed>>
  /\ UNCHANGED <<configured, generation, config, writerVars>>

\* A call with a page.
ConsumeStep(d) ==
  LET request == calls[d].continuation.request
  IN  /\ calls[d].at = "begun" /\ calls[d].continuation # NoContinuation
      /\ \/ /\ consumePlannerStep(request, calls[d].generation)
            /\ pendingRequest' = 0
            /\ Entered(d, currentAttempt)
         \/ /\ ~ consumePlannerStep(request, calls[d].generation)
            /\ Refuse(d)
            /\ UNCHANGED pendingRequest
      /\ UNCHANGED <<configured, generation, config, currentAttempt, lastID, writerVars,
                     disturbed>>

\* The continuation is one of this attempt, under this configuration.
validContinuationState(call) ==
  /\ call.continuation.generation = call.generation
  /\ call.continuation.attempt = call.attempt
  /\ call.continuation.index \in DOMAIN Targets[call.config]

\* The pages the planner has once it has read the one the call brings.
Results(d) ==
  LET c == calls[d].continuation
  IN  IF c = NoContinuation THEN <<>>
      ELSE Append(c.results, [target |-> Targets[calls[d].config][c.index],
                              page |-> c.page, dialogue |-> d])

\* The page to ask for next, as <<index, page>>: another one of a catalog that says it
\* has more, or the first of the next catalog.
NextPage(d) ==
  LET c == calls[d].continuation
  IN  IF calls[d].more THEN <<c.index, c.page + 1>> ELSE <<c.index + 1, 1>>

\* planDecoded and what executePlan makes of its result.  The plan itself reads only
\* the handler's copy of the configuration.
Plan(d) ==
  LET call == calls[d]
      next == NextPage(d)
      Fail(kind) == /\ Answer(d, Error(kind))
                    /\ abandonPlannerAttempt(call.attempt, call.generation)
                    /\ UNCHANGED lastID
  IN
  /\ call.at = "entered"
  /\ \/ \* a continuation that is not this attempt's
        /\ call.continuation # NoContinuation /\ ~ validContinuationState(call)
        /\ Fail("refused")
     \/ \* a catalog or a credential that does not do, or too many pages of one
        \* catalog
        Fail("invalid")
     \/ \* the next page
        /\ call.continuation # NoContinuation => validContinuationState(call)
        /\ next[1] \in DOMAIN Targets[call.config] /\ next[2] <= maxClaudePages
        /\ lastID' = lastID + 1
        /\ IF registerPlannerStep(call.attempt, call.generation)
             THEN /\ pendingRequest' = lastID'
                  /\ Answer(d, [kind |-> "fetch",
                                next |-> [generation |-> call.generation,
                                          attempt |-> call.attempt, index |-> next[1],
                                          page |-> next[2], request |-> lastID',
                                          results |-> Results(d)]])
             ELSE Refuse(d) /\ UNCHANGED pendingRequest
        /\ UNCHANGED currentAttempt
     \/ \* the proposal
        /\ call.continuation # NoContinuation => validContinuationState(call)
        /\ next[1] \notin DOMAIN Targets[call.config]
        /\ IF completePlannerAttempt(call.attempt, call.generation)
             THEN /\ currentAttempt' = 0
                  /\ Answer(d, [kind |-> "final",
                                next |-> [NoContinuation EXCEPT !.results = Results(d)]])
             ELSE Refuse(d) /\ UNCHANGED currentAttempt
        /\ UNCHANGED <<pendingRequest, lastID>>
  /\ UNCHANGED <<configured, generation, config, writerVars, disturbed>>

EndPlan_final(d) ==
  calls' = [calls EXCEPT ![d].at = IF calls[d].reply.kind = "refused" THEN @ ELSE "returned"]

\* endPlan, and the response is on its way.
EndPlan(d) == calls' = [calls EXCEPT ![d].at = "returned"]

Return(d) ==
  /\ calls[d].at = "returning"
  /\ EndPlan(d)
  /\ UNCHANGED <<plannerVars, lastID, writerVars, disturbed>>

\* An abandoned request may never reach the planner.
Vanish(d) ==
  /\ calls[d].at = "sent" /\ Abandoned(d)
  /\ calls' = [calls EXCEPT ![d].at = "none"]
  /\ UNCHANGED <<plannerVars, lastID, writerVars, disturbed>>

-----------------------------------------------------------------------------
(* The Writer: planner.go.                                                 *)

NoCall == [at |-> "none", continuation |-> NoContinuation, more |-> FALSE,
           generation |-> 0, config |-> CHOOSE c \in Config : TRUE, attempt |-> 0,
           reply |-> NoReply, late |-> FALSE]

\* Client.Do on the plan route.
Send(d, continuation, more) ==
  calls' = [calls EXCEPT ![d] = [NoCall EXCEPT !.at = "sent", !.more = more,
                                               !.continuation = continuation]]

\* A run asks for a proposal; none does while writes are blocked.
StartDialogue ==
  /\ phase = "idle" /\ ~ stalled /\ dialogue < MaxDialogues
  /\ dialogue' = dialogue + 1 /\ phase' = "calling"
  /\ pages' = 0 /\ bytes' = 0 /\ asked' = {} /\ outcome' = "none"
  /\ Send(dialogue', NoContinuation, FALSE)
  /\ disturbed' = FALSE
  /\ UNCHANGED <<plannerVars, lastID, stalled>>

End(result) == phase' = "idle" /\ outcome' = result

\* The planner answers.  It is an error to ask for a page again, or for one too many.
Receive ==
  LET reply == calls[dialogue].reply
      page  == <<reply.next.index, reply.next.page>>
  IN
  /\ phase = "calling" /\ calls[dialogue].at = "returned"
  /\ \/ /\ reply.kind \notin {"fetch", "final"}
        /\ End(reply.kind)
        /\ UNCHANGED asked
     \/ /\ reply.kind = "final"
        /\ End("proposed")
        /\ UNCHANGED asked
     \/ /\ reply.kind = "fetch"
        /\ IF pages >= maxProviderPages \/ page \in asked
             THEN End("provider_fetch_invalid") /\ UNCHANGED asked
             ELSE phase' = "fetching" /\ asked' = asked \cup {page} /\ UNCHANGED outcome
  /\ UNCHANGED <<plannerVars, calls, lastID, dialogue, pages, bytes, stalled, disturbed>>

TooLarge_page(size) == size > maxProviderBytes

\* The limit is on the pages together.
TooLarge(size) == size > maxProviderBytes - bytes

\* The relay delivers the page, and the Writer calls the planner with it.
FetchPage(size, more) ==
  LET next == calls[dialogue].reply.next
      call == calls[dialogue]
  IN
  /\ phase = "fetching"
  /\ \/ /\ TooLarge(size)
        /\ End("provider_catalog_too_large")
        /\ UNCHANGED <<calls, pages, bytes>>
     \/ /\ ~ TooLarge(size)
        /\ more => Targets[call.config][next.index] \in Paged
        /\ bytes' = bytes + size /\ pages' = pages + 1
        /\ phase' = "calling"
        /\ Send(dialogue, next, more)
        /\ UNCHANGED outcome
  /\ UNCHANGED <<plannerVars, lastID, dialogue, asked, stalled, disturbed>>

\* It does not: the planner goes on awaiting the page.
FetchFails ==
  /\ phase = "fetching"
  /\ End("provider_fetch_failed")
  /\ UNCHANGED <<plannerVars, calls, lastID, dialogue, loopVars, stalled, disturbed>>

\* The call fails or its deadline passes.
GiveUp ==
  /\ phase = "calling" /\ phase' = "asking"
  /\ UNCHANGED <<plannerVars, calls, lastID, dialogue, loopVars, outcome, stalled, disturbed>>

PlanMayRun_trusting == FALSE

\* What the Writer must fear from the planner's answer for its status.
PlanMayRun == ~ configured \/ ActivePlan

\* It asks whether the plan is still active.  No answer counts as yes.
AskStatus ==
  /\ phase = "asking"
  /\ \/ End("planner_stalled") /\ stalled' = TRUE
     \/ ~ PlanMayRun /\ End("loopback_timeout") /\ UNCHANGED stalled
  /\ UNCHANGED <<plannerVars, calls, lastID, dialogue, loopVars, disturbed>>

\* A reconcile that finds no active plan unblocks the writes.
Reconcile ==
  /\ stalled /\ ~ PlanMayRun
  /\ stalled' = FALSE
  /\ UNCHANGED <<plannerVars, calls, lastID, dialogue, phase, loopVars, outcome, disturbed>>

-----------------------------------------------------------------------------
Init ==
  /\ configured = TRUE /\ generation = 1 /\ config \in Config
  /\ currentAttempt = 0 /\ pendingRequest = 0 /\ lastID = 0
  /\ calls = [d \in Dialogue |-> NoCall]
  /\ dialogue = 0 /\ phase = "idle" /\ pages = 0 /\ bytes = 0 /\ asked = {}
  /\ outcome = "none" /\ stalled = FALSE /\ disturbed = FALSE

Handle(d) ==
  Begin(d) \/ StartAttempt(d) \/ ConsumeStep(d) \/ Plan(d) \/ Return(d)

Converse ==
  \/ Receive \/ FetchFails \/ GiveUp \/ AskStatus
  \/ \E size \in Size, more \in BOOLEAN : FetchPage(size, more)

Next ==
  \/ \E c \in Config : Configure(c)
  \/ Shutdown
  \/ \E d \in Dialogue : Handle(d) \/ Vanish(d)
  \/ StartDialogue \/ Converse \/ Reconcile

\* A handler that has begun runs to its end, every request has a deadline, and the
\* operator reconciles a blocked Writer.
Fairness ==
  /\ \A d \in Dialogue : WF_vars(StartAttempt(d) \/ ConsumeStep(d) \/ Plan(d) \/ Return(d))
  /\ WF_vars(Converse) /\ WF_vars(Reconcile)

Spec == Init /\ [][Next]_vars /\ Fairness

-----------------------------------------------------------------------------
\* Types, and with them the limits of one dialogue on pages and on the bytes of all
\* catalogs together; and that only a current attempt awaits a request.
TypeOK ==
  /\ configured \in BOOLEAN /\ generation \in 1 .. MaxGeneration /\ config \in Config
  /\ currentAttempt \in ID /\ pendingRequest \in ID /\ lastID \in Nat
  /\ calls \in [Dialogue -> Call]
  /\ dialogue \in 0 .. MaxDialogues
  /\ phase \in {"idle", "calling", "fetching", "asking"}
  /\ pendingRequest # 0 => currentAttempt # 0
  /\ pages \in 0 .. maxProviderPages /\ bytes \in 0 .. maxProviderBytes
  /\ asked \subseteq Nat \X Nat
  /\ outcome \in Outcome /\ stalled \in BOOLEAN /\ disturbed \in BOOLEAN

\* Page i of results is of catalog index[i] of the configuration.  The catalogs come in
\* their order, each from its first page on, all fetched in dialogue d.
Walk(results, index, c, d) ==
  \A i \in DOMAIN results :
    /\ results[i].dialogue = d /\ results[i].target = Targets[c][index[i]]
    /\ \/ results[i].page = 1 /\ index[i] = IF i = 1 THEN 1 ELSE index[i - 1] + 1
       \/ i > 1 /\ results[i].page = results[i - 1].page + 1 /\ index[i] = index[i - 1]

\* They are all catalogs of the configuration.
Whole(results, c, d) ==
  \E index \in [DOMAIN results -> DOMAIN Targets[c]] :
    /\ Walk(results, index, c, d)
    /\ IF results = <<>> THEN Targets[c] = <<>> ELSE index[Len(results)] = Len(Targets[c])

\* A proposal is computed from every catalog of the configuration in force when it is
\* made, with all pages fetched in its own dialogue, whatever was reconfigured,
\* abandoned or begun late (service.go:82-110, management.go:54-89).
ProposalIsWhole ==
  [][\A d \in Dialogue :
       calls[d].at = "entered" /\ calls'[d].reply.kind = "final" =>
         /\ configured /\ calls[d].config = config
         /\ Whole(calls'[d].reply.next.results, config, d)]_vars

\* The planner refuses a dialogue as stale only if it was reconfigured or shut down
\* meanwhile, or an abandoned first call began a newer attempt: in particular, late
\* calls with pages of an earlier dialogue harm no later one (service.go:82-90).
RefusalHasCause == outcome = "refused" => disturbed

\* Two plans run side by side only if the older one began when its Writer had already
\* given it up: the status the Writer asks for, and the block, keep any other apart
\* (planner.go:160-170).
OverlapsAreLate ==
  \A d, e \in Dialogue : d < e /\ Running(d) /\ Running(e) => calls[d].late

\* Writes blocked by planner_stalled do not stay blocked when the operator
\* reconciles and the planner is configured (management.go:40, planner.go:160-165).
StallEnds == stalled /\ configured ~> ~ stalled \/ ~ configured
=============================================================================
