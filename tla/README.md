# Formal model of the four-plugin config writers

This directory is a TLA+ development beside the code of `cpa-plugin-mono`: modules
that model its components, TLC configurations that check them on small instances, and
proofs of their main theorems for every value of the constants. Every definition is
translated from the Go source; `PROJECT.json` names the lines each one stands for.

## 1. The system

CPA Core is a proxy with one YAML config file. Four plugins run inside its process and
keep parts of that file up to date. Only one of them writes it.

| Part | Source | State it keeps | Operations |
|---|---|---|---|
| **sync-config-write**, the Writer: queue, scheduler, blocker | `service.go`, `management.go`, `protocol.go` | queue, active run per operation, statuses, retained runs, blocker and block record, deadlines, wake-up channel, stop flag | trigger, Configure, timer tick, run, finish, clear the block, Shutdown |
| Writer: executor, commit engine, reconcile | `executor.go`, `commit_engine.go`, `reconcile.go`, `commit_protocol.go`, `runtime_config.go` | locals of the run in progress | GET, ask a planner, check the version, note statuses, PUT, read back, poll for convergence; verify and clear |
| Writer: planner dialogue and relay | `planner.go`, `provider_relay.go`, `loopback.go` | progression keys, pages, bytes | call a planner, fetch a page for it, ask for its status |
| Writer: structural ownership | `ownership.go` | none | compare a proposal with the config, node by node |
| Writer: catalog refresh | `model_info.go` | locals | GET, fetch the catalog, GET again, post it |
| **auto-pull-models**: membership planner | `service.go`, `management.go`, `planner.go`, `yaml.go`, `filter.go`, `auth.go`, `config.go` | configuration generation, current attempt, pending request, active plans | plan (first call and continuations), status, Configure, Shutdown |
| **model-metadata-sync**: metadata planner | the same files, and `metadata.go` | the same | the same |
| **model-info**: catalog cache | `service.go`, `management.go`, `catalog.go` | last catalog, tickets, generation | ingest, read, Configure, Shutdown |
| CPA Core (not in this repository) | | config file, running plugin instances | GET, unconditional PUT, asynchronous reconfigure, restart |
| plugin entry points (`cmd/`), Makefiles, `integration/` | | | cgo glue, build, a test driver |

How they interact. A trigger or a timer puts an operation into the Writer's queue, at most
one run per operation. The worker goroutine takes one job at a time. A write run GETs the
file, sends it to the planner that owns the operation, fetches for the planner whatever
provider pages it asks for, checks that the file is still the one planned for, checks that
the proposal changes only what the planner owns, PUTs it with a fresh sync epoch in every
plugin's subtree, reads it back, and waits until every plugin reports that it runs the new
subtree. Core's PUT has no precondition and its reloads are asynchronous. When the Writer
cannot tell what became of a run, it leaves a *blocker*: no write starts until a reconcile
run has found evidence that settles the doubt. The process starts with a blocker.

What is hard about it: the worker, the scheduler and the request handlers share a mutex, a
condition variable and a one-place channel; requests time out while the handler at the
other end goes on; the operator edits the file at any moment; plugins are replaced or
reload late; the process restarts and forgets; and a plan made by one plugin must pass,
through a YAML encoder, the check of another. `PROJECT.json` lists these hazards at their
lines, with the properties that would catch them going wrong.

## 2. The modules

| Module | Models | Composition |
|---|---|---|
| `WriterGate` | the Writer's promise about doubt, as an abstract specification | |
| `WriterService` | queue, worker, scheduler, blocker, shutdown | refines `WriterGate` |
| `ConfigCommit` | executor, commit engine and reconcile, against Core, its plugins, the operator | refines `WriterGate` |
| `PlannerDialogue` | one planner plugin and the Writer's page loop | |
| `CatalogRefresh` | the Writer's refresh and the model-info cache | |
| `MetadataPrecedence` | what a metadata sync does to one model, over many syncs | |
| `ProposalOwnership` | what the planners propose and what the Writer accepts | |
| `FetchDescriptor` | the rules for one catalog request, as a planner and as the Writer's relay have them | |
| `ProviderCatalogs` | what the planners read: catalogs and their own configuration | |
| `ProviderFetch` | how one attempt of either planner fetches what it plans from | extends the two above |
| `WriterServiceProofs`, `ConfigCommitProofs`, `PlannerDialogueProofs`, `CatalogRefreshProofs`, `MetadataPrecedenceProofs`, `ProposalOwnershipProofs`, `ProviderFetchProofs`, `FetchCourseProofs` | theorems | extend their component |
| `MC*` | values for the constants of one component | extend their component |

`WriterGate` is what the queue and the commit engine have in common: the Writer does one
thing at a time, starts in doubt, starts a write only in no doubt, a write may leave one,
only a reconcile removes one. `WriterService` takes the outcome of a run as a choice;
`ConfigCommit` computes it. Each is shown to implement the gate, so that the choice that
the one leaves open is the choice that the other makes.

Operators with a suffix (`RetriesDoubt`, `Fills_replace`) are mutated forms of the one they
are named after. No specification uses them; they are there to see that a property
fails when the code is changed in that way.

### WriterService
State: the fields of `Service`, each under its Go name, with program counters for the
worker, the scheduler, a `Configure` and the `Shutdown`. Each action is one critical section of the mutex, or
one channel operation. `now` moves by `Tick`. Identifiers are fresh members of `RunId`.

* `Enqueue`, `Configure`/`ConfigureWake`, `Shutdown`/`ShutdownJoin`: the host's calls.
* `WorkerSleep` ... `WorkerWake`: the loop of `worker`. `Progress` and `Finish` are the
  callbacks of the executor; `ReconcileAndClear` is the production executor's atomic clear.
* `SchedulerCompute` ... `FireExpired`: the loop of `scheduler`. `fireExpired` reads the
  clock before it locks, and so does the model. `Configure` reads it before too (`service.go:125`), the model inside
  the critical section: the deadlines it sets are then later, and no property compares them with the time of the call.

Left out: identities, attempt numbers and timestamps in a status; `finishReconcile`
(350-368) and `ClearBlockForReconcileProof`, which only executors other than the
production one reach. One `Configure` is in flight at a time (the host serialises them).
The early returns for a missing status (333-334, 374) are not modelled: the
proved invariant `StatusesAccountedFor` says that they are never taken.

### ConfigCommit
A config file is `[edit, settings, epoch, comments]`: the last operator edit in it, the last
edit of plugin settings, the epoch of the last PUT (which stands for what that PUT brought)
and how comments are indented. Its version is all of it; the hash of a
plugin's subtree is its settings and epoch. The encoder indents comments and Core moves
them back (`Persisted`), which is why the engine compares with a normalised form.

One action is one request, with its answer or without. A request that is not answered may have been
served or not; an unanswered PUT may have landed, may land later (`LatePut`) or never. Core
reloads the plugins one by one (`Reload`), replaces instances (`Replace`), restarts with
everything in memory lost (`Restart`). `plans` counts the handlers at work in a planner,
abandoned ones included. The status tests of a reconcile are folded into the request that
brings each status. `at`, `puts`, `quiet` and `late.judged` are history variables that only
properties read.

Reading the code for this module showed: `ExpectedHashes` of a block is never used
by a reconcile, which derives hashes from the file; the branch of `reconcile.go:86` on
`Restarted` is dead, since only the startup block sets it and that block carries no
earlier statuses; `reconcile.go:55-57` cannot be reached with the codes that blocks have.

### PlannerDialogue
The planner's side is the attempt fence: `generation`, `currentAttempt`, `pendingRequest`,
and the handler as begin / enter / plan / return, each under the mutex. The Writer's side
is the loop over pages, with the two page limits, the byte budget and the set of
progression keys. What a plan fetches is a sequence of targets per configuration; a Claude
target has pages. A call that the Writer gives up may run on, begin late, or vanish. Both
planners have this code, so one is modelled. All dialogues plan from the same snapshot
version. `Refuse` and invalid requests share a wire code and are told apart only by
`disturbed`, a history variable.

### CatalogRefresh
A refresh is five requests; an ingest at model-info takes a ticket when it is authorized
and needs the newest ticket and the same generation when it commits. An ingest may
arrive or finish after its Writer gave up. An edit never restores earlier content: the
version is a hash of the content, and the code cannot see content that changed and changed back.

### MetadataPrecedence
One model stands for all models and one channel for all channels: the code treats
each on its own. A value is a token that names its origin. Sources are given in their
configured order, and the loop over sources is stated as *the first source that
supplies the field*, with the exception for modelparams.dev. The catalogs do not change within
a behaviour: the question is what repeated syncs do. Lists of tried sources and the
wording of reasons are left out.

### ProposalOwnership
A document is channels, models and fields, each with the style a YAML parser
gives its node: block or flow, plain or quoted. Everything else of a channel or of the file
is one token. `indirect` stands for anchors, aliases and merge keys. Two of the six owned
keys stand for all. `Encoded` is what encoding and parsing again do to the style of
a tree the planner has built (yaml.v3, external). A proposal is the planner's own, or any
of `Documents`. A proposal equal to the file byte for byte is accepted without validation
(`commit_engine.go:173`). A metadata run patches one channel; more channels add
conjuncts of the same form. Comments do not move.

### FetchDescriptor, ProviderCatalogs and ProviderFetch
The rules for a request are written twice: a planner derives the request from the
snapshot (`locateSnapshotChannel`, `snapshotCatalogHeaders`, `nextFetch`), and the Writer, which has
the same snapshot, derives what the request may be
(`validateFetchDescriptorForOperation`). `FetchDescriptor` has both, each from its own
source file. `ProviderCatalogs` is pure too: what a catalog document comes to, what becomes
of a limit too large for an int, which configuration `parseConfig` refuses, which keys the strict JSON decoder takes
(`ExactKeys`: no two that are equal in upper case).

`ProviderFetch` is the state machine: one attempt, from the first call to the proposal or the
refusal. `Start` and `Continue` are the calls of the planner: the latter reads its own
continuation back and checks it. `ListAuths`, `GetRuntime`, `GetPhysical` and `Resolve` find one
credential in three calls of the host. What the credentials were resolved for comes
next: to read a body (`Consume`), to ask for another (`Emit`), to give the proposal (`Finish`).
`Validate` is the Writer's decision on the request, `Fetch` is Core, which fills in the token of a credential and brings
a body. `ChangeAuth` changes a credential of the host between any two of these. The two planners differ: auto-pull checks the credential of the
current channel again when a page returns, model-metadata-sync those of every channel it has bound, and
only the latter fetches public catalogs and puts the entries it has into the continuation.

A string is abstract where only its kind matters: a pattern is the set of ids it matches, a URL a host, whether a path
and a bare question mark follow, and a length. What else a check looks at in a string is a constant:

* `Word` (trimmed and in lower case) and `Upper`. The modalities of OpenAI catalogs and of models.dev stay as they came, as in
  `decodeOpenAIItem`, and `bare` tells a list that is there and empty from one that is missing: `validUpstreamState` compares with
  `reflect.DeepEqual`.
* `Size`, `MaxURL`, `MaxHeaderValue`, `MaxHeaders`: the Writer's limits, of which the planners know nothing. Names of headers
  are short. Whether the count of headers (16) is kept is not asked: the safe names are fewer.
* `OddIndex`: credentials whose index is too long or has a control character. `Unsettled`: Claude prefixes that the planner and
  the Writer, which trims once more, read differently.
* `MaxDesired`: what auto-pull takes back for a channel.
* `Sought(id, name)`: the name of modelparams.dev is one under which a model is looked up. The code takes the first that is found;
  the model takes the levels of each, so it may see a cause of refusal where there is none, and never the reverse.
* `again` in a document: the planner reads what it kept of a public catalog as it did at first
  (`validModelparamsCatalog`, `validModelsdevCatalog`). By the code it does, but for keys that Unicode folds together only in
  upper case and for a list that nests as deep as is let through and is wrapped once more.

`readable` in an entry is whether `snapshotModels` takes the models, which a channel meets when it is planned (`planner.go:284`),
after its fetches. `fetched` is a history variable: which credential Core really used. The page
and byte limits and the fence around attempts are those of `PlannerDialogue`.

## 3. What TLC checks

| Run | Question | Bounds | Result |
|---|---|---|---|
| `writer_queue` | do the queue, the blocker and retention keep their books, and does the queue implement the gate | 5 run ids, 1 retained run, all operations, no schedule | holds, about 80 s |
| `writer_schedule` | do deadlines, the timer and the wake-ups agree | 4 run ids, clock to 3, two schedules and reconfigures between them | holds, about 100 s |
| `writer_liveness` | does everything accepted, due or asked to stop come to its end | 4 run ids, clock to 1, two writes that fall due together | holds, about 200 s |
| `commit_safety` | replay, lost edits, false alarms; do success, doubt and clearing mean what they say | 2 plugins, 2 edits, 2 runs, 1 retry, 3 instances, 1 restart | holds, 4.8M states |
| `commit_liveness` | does every run end, does a runtime doubt clear | 1 edit, 1 run, 2 instances | holds |
| `metadata_sync` | do four syncs settle, and which field may drift | every set of fields of a model, up to two sources, one override | holds |
| `planner_dialogue` | the attempt fence, the limits, the stall | 2 dialogues, 2 configurations, 3 pages, 4 units of bytes | holds |
| `catalog_refresh` | which catalog the cache holds | 3 refreshes, 2 edits, 2 generations | holds |
| `ownership` | what is committed, and why the Writer refuses its own planners | lists of up to two models of seven shapes, two other channels | holds |
| `membership_accepted` | does the Writer take a correct membership plan | the same | **violated**, see 6 |
| `provider_fetch` | is every channel planned from its own catalog, and whose credential fetched what; why does a planner refuse its own continuation, and the Writer a request of a planner | eleven scenarios with 2 credentials and 2 changes of them; some fifty more, with odd snapshots and catalogs, without changes | holds, 1.1M states |
| `own_continuation` | does a planner go on from its own continuation | one channel with its own and a public catalog, no changes | **violated**, see 6 |

Why the bounds are enough. *Queue:* five identifiers give one active run to each of the four
operations and one for the blocker; with one retained run the next finished run evicts the
last, so identifiers come back and the run goes on without end. *Schedule:* clock 3 lets an
interval of 1 be missed more than once, so advancing by whole intervals differs from
counting from now. *Commit:* a late PUT of the first run can land in the
second; two edits are needed to lose one that was made during the plan; three instances let a
plugin be replaced both before and after its sequence number is noted; the second plugin is a planner and stands for
every worker, as the engine treats all but the Writer's own alike. *Dialogue:*
two dialogues are the least in which a late call meets a newer attempt. *Metadata:* four
syncs are one more than the property of the third needs. *Ownership:* two models show
order and duplicates; a second channel shows what a plan for the first one cannot mend.
*Provider:* two credentials are what it takes for one to be taken for the other, and two changes let
one be replaced and come back. Credentials change in the scenarios about fetching, with four plain catalogs of each kind at most; the
scenarios about requests and continuations have all catalogs and credentials that stay, since the rules do not read them
(`MCInit` and `MCNext` in `MCProviderFetch` bound the two in this way). These vary one thing at a time (base, headers, credential form,
sources, overrides, disabled and duplicate entries, names that differ in case), because a rule looks at one thing at a time. The
greatest int is 7, so that the one limit above it that is let through can be written; a long header fits once and not
twice, a large one not at all; one model is as many as auto-pull takes back.

Runs whose cfg says `CHECK_DEADLOCK FALSE` stop when a bound is used up or after
the shutdown, when nothing need happen any more.

### Properties

* **Queue.** `OneRunPerOperation`, `StatusesAccountedFor` (statuses are exactly retained,
  active and blocking runs), `BlockerAgreesWithRecord`, `OnlyItsReconcileUnblocks` (what clears
  the blocker is a reconcile of the record that stands), `WorkerWakeupNotLost`,
  `ImplementsGate`. Schedule: `SchedulerWakeupNotLost` (a waiting scheduler with a wrong timer has a wake-up
  coming), `DeadlineMovesWithAdmission` (a refused tick stays due, an admitted one moves by
  whole intervals). Liveness: `AcceptedRunsEnd` (a reconcile that is accepted ends; a
  write ends or waits behind a block), `DueWritesAreAdmitted`, `ShutdownReturns`.
* **Commit.** `AtMostOnePut`, `EditsLostOnlyInWindow` (an edit is lost only between the
  version check and the PUT, Core's documented gap), `VerdictsAreConverged` (success and a
  cleared block mean that every plugin runs the file that stands), `UnjudgedPutIsBlocked`,
  `RuntimeDoubtHasEvidence`, `ImplementsGate`; `RunsEnd`, `RuntimeDoubtClears`.
* **Dialogue.** `ProposalIsWhole` (all pages of all catalogs of the current configuration,
  all of one dialogue), `RefusalHasCause`, `OverlapsAreLate`,
  `StallEnds`.
* **Catalog.** `SuccessIsCached`, `LatestIngestWins`.
* **Metadata.** `OnlyOutputLimitDrifts`, `SettlesAfterTwoSyncs`.
* **Ownership.** `OnlyOwnedChange` (for arbitrary proposals), `RefusalsAreExplained` (the
  complete list of reasons for which a planner's own proposal is refused).
* **Provider.** `RefusalsHaveCause` (for which reasons the Writer refuses a planner's request, or the planner its own
  continuation, among the checks that are modelled), `ProposalCoversChannels` (each channel is planned
  from its own catalog, and from the public catalogs it is configured for), `CredentialsHold` (which
  change of a credential can leave a catalog of another credential in a proposal).

### Fairness

* `WriterService`: the worker and the enabled steps of the scheduler are goroutines that the
  runtime schedules (weak). The branches of the scheduler's `select` are strongly fair: Go
  chooses among ready cases at random, so a case that is ready again and again is taken. An
  executor ends, because every request it makes has a deadline. The clock, triggers and
  reconfigures are not fair.
* `ConfigCommit`: each request ends, with an answer or at its deadline, and the convergence
  timeout fires. `RecoverySpec` adds what the operator and Core must do for a doubt to
  clear: the operator goes on triggering reconciles, Core finishes reloads, planner
  handlers return, and requests that are repeated for ever do not all fail (strong).
  `RunsEnd` holds without these.
* `PlannerDialogue`: a handler that has begun ends, each call has a deadline, and the operator
  reconciles a stalled Writer.

## 4. What is proved

TLAPS checks the following for every value of the constants.

`WriterServiceProofs`, from the named assumptions on the constants (identifiers are not the
null values, settings are schedules, the retention limit is positive). `IInv` is the inductive invariant:

    TypeOK /\ WorkerPhase /\ OneRunPerOperation /\ Ledger
      /\ BlockerAgreesWithRecord /\ NoWriteWhileBlocked

`OneRunPerOperation` alone is not inductive: that `finish` resets the right entry
depends on what the worker holds at each point (`WorkerPhase`). `Ledger` is
`StatusesAccountedFor` in an inductive form: the three groups of runs are disjoint, and two
operations never share a run; without it, finishing one run might drop another one's status.
One lemma per conjunct, one step
per action. From `IInv` follow the type invariant, `OneRunPerOperation`,
`NoWriteWhileBlocked`, `BlockerAgreesWithRecord`, `StatusesAccountedFor`,
`OnlyItsReconcileUnblocks`, `WorkerWakeupNotLost`, and the refinement `Spec => ImplementsGate`: the
initial state maps to the gate's, each step to a step of the gate or a stutter.

Its last part, on the scheduler, adds `Schedule == OnSchedule /\ ClearingIsTold /\ InTimeOrTold`: only operations with an interval
have a deadline; what a reconcile cleared is announced before the worker takes another job; while the scheduler
waits, its timer is in time for every open deadline, or somebody has told it or is about to. With `IInv` they are
inductive and give `SchedulerWakeupNotLost`. `DeadlineMovesWithAdmission` follows step by step: a firing
offers as many operations as there are to admit, so it offers each of them, and a multiple of an interval
leaves no remainder.

`MetadataPrecedenceProofs`. Every operator acts on each field alone; `FieldWise` states a
sync as a function of one field, and the lemmas `SecondSync` and `ThirdSync` follow a value through the
next sync. `IInv == TypeOK /\ ReportMatchesModel /\ History`, where `History` says what a
model looks like after one and after two syncs: the action properties are not invariants
of the present model alone, but of how it came about. Proved: types, the truth of
the report (`ReportMatchesModel`), no catalog replaces a context or input limit
(`CatalogsOnlyFillLimits`), `OnlyOutputLimitDrifts`, `SettlesAfterTwoSyncs`.

`ConfigCommitProofs`, from the assumptions on the plugins and the bounds. Every safety property of the run
`commit_safety` is a theorem. `Shape == TypeOK /\ StepInRange /\ AtWork` is inductive alone: types, what
the locals of a run are at each step of it, and that a request in flight belongs to the run at work. Each of the
others adds one idea to it:

* `AtMostOnePut`, `ImplementsGate`, `UnjudgedPutIsBlocked` need only where in
  the run a PUT can be sent and what a run leaves behind, which is `Shape`.
* `EditsLostOnlyInWindow` needs `EditOrder`: no content, in the file, in the snapshot or in a lost PUT, holds an edit
  that was not made, and between the version check and the PUT the snapshot has the edits that were there at the check.
* `RuntimeDoubtHasEvidence` needs `Evidence`: no epoch is from the future
  (`EpochOrder`), statuses noted before a PUT are of the instances there are or of older ones (`SeenIn`), and an instance
  that runs the PUT has been reconfigured since (`ReconfiguredIn`).
* `VerdictsAreConverged` needs `Verdict`: without a write since the last GET that counts, the plugins
  that a round of statuses has passed run the file, and those that did still do.

`PlannerDialogueProofs`, from the assumption that there is at least one generation (`MaxGeneration`). Every safety
property of the run `planner_dialogue` is a theorem. `Shape == TypeOK /\ InOrder` is inductive alone: types, the
limits on pages and bytes, and what a call holds at each point of it. On it rest

* `Identities`: what a dialogue holds was handed out, no two dialogues ever hold the same attempt or request, and a
  continuation whose request is awaited is one of the current attempt. With it the `Fence` is inductive: in an undisturbed
  dialogue the planner is always where the Writer believes it is. That is `RefusalHasCause`.
* `InForce`: a continuation noted under the configuration in force asks for the page that follows those it brings, and
  those are a `Walk` over the configured providers from the first page on. So what Plan has at its end is whole
  (`ProposalIsWhole`).
* `InHand`: a plan that was not begun late is the one its Writer waits for or has stalled on (`OverlapsAreLate`).

`CatalogRefreshProofs`: tickets are handed out in order and no two ingests hold the same, hence
`SuccessIsCached` and `LatestIngestWins`.

`ProposalOwnershipProofs`: no induction, but a case analysis over documents. The validation is
followed node by node, from a list of models down to the style of one scalar. `OwnershipTheorem` is for
arbitrary proposals; `RefusalTheorem` says that the list of reasons in `RefusalsAreExplained` is complete for any
documents, catalogs and patches, where the run has seven shapes of a model.

`ProviderFetchProofs`, from the assumptions on the scenarios (configurations and snapshots are sequences of well-formed
records; auto-pull has no public sources and no Codex manifests), the credentials (finitely many names, none of them
empty), the catalogs (a set of documents for each kind, whose items have finitely many names), the words (`text` and `image` are
as they are written) and the limits (the requests for public catalogs keep them, and no credential is odd for having no index). `Shape == Types /\ Progress /\ Checks` is inductive alone: what the step and the
bound credentials are, that what was fetched belongs to channels up to the present one, and which checks are left to
make. From it follows `TypeOK`, with the headers a planner sends. `CredentialsHold` needs two more:

* `Trust`: while a credential has changed once at most, each catalog of its channel was fetched by the identity that is
  bound, or a check of it is still to come and will not find it. What makes it inductive is `Bindings`: a credential that
  has not changed is the one that was bound, and one that is again what was bound was so when it was used. A first change
  therefore finds every page settled.
* `Live`: while nothing has changed since the last catalog, what a lookup has seen of a credential holds, and before the
  proposal each bound one has been seen or is to be checked.

`FetchCourseProofs` has the other two safety properties of the run `provider_fetch`, from the same assumptions. Neither
follows from what one step does: a result was planned many fetches ago, and a request is refused for what was
requested before.

* `Course` says at each point of an attempt what the fetches so far have come to: the channels before the present one are
  planned, in their order, each from what belongs to it (`Plans`, `Whole`); the models in hand are those of the pages
  read of the present catalog; which public catalogs are read, which cursors are remembered and whether more is to
  come (`Knows`, `Due`); pages of one catalog follow one another (`Chain`). It is inductive with `Shape`. The step that takes
  thought is `nextStep`, which plans any number of channels at once (`WholeResult`, `ResultsPlan`,
  `NextCourse`). At the end it gives `ProposalCoversChannels`.
* `Requests` adds that the request on offer is the one of the step, and that those the Writer has let through are
  for catalogs already fetched and, once made, the one of the step (`Seen`), so none is made twice (`RequestIsNew`). With it,
  `ContinuationFits` and `DescriptorFits` compare the two statements of the rules: but for
  the causes named, what `nextFetch` and the encoding of the state write is what the model's `validContinuationState`,
  `validateExactJSONKeys` and `validateFetchDescriptor` let through. This is `RefusalsHaveCause`. It says as much of the
  code as these definitions do: a check that a string of the configuration could fail and that is not among them (section 5) would be another
  cause. `CausesKept` carries a cause from the documents where it is seen to the refusal, across the fetches between.

Its lemmas on operators hold for any argument: `InOrder` lists a finite set in order (`InOrderFacts`), CPA's form of
levels and of modalities is reached in one step (`NormalLevels`, `NormalModalities`), and a catalog that is read has an entry
for each name, in that form and within the limits, but for the exceptions of section 6 (`ReadCatalog`).

Only model-checked: liveness, which rests on fairness and `ENABLED`, and TLAPS treats neither. Every safety property
of the passing runs is a theorem.

## 5. What is not modelled

* Strict JSON decoding of the envelopes (`provider_relay.go` 542-671 and its like in each plugin):
  validation of one value, without state. The exception is the rule on keys that the metadata planner's own continuation may
  break (`validateExactJSONKeys`). Also left out of a continuation: hashes, ids and the byte counts of the attempt, the length limits
  on names and cursors, which the parsers apply too, and bytes that are not UTF-8.
* The settings of the Writer: parsing; the schedules it yields are the constant `Settings` of `WriterService`.
* `parseCatalog` in model-info, and the limits that `Effective` fills in from the context window. Whether a catalog
  parses is a choice in `CatalogRefresh`.
* Of the catalogs the planners read, which of several limits an item has is used (an item has one in the model), and in
  which order the names of a model are looked up (`Sought` is a relation).
* Comments that move when a file is written; anchors and aliases beyond their being refused.
* `cmd/`, the Makefiles and the end-to-end driver: glue.
* The clock of Core, TLS and the loopback transport: a request is answered or not.

Three hazards have no property. A trigger after `Shutdown` (`service.go:568`) is accepted and never run:
the host does not call a plugin it has shut down. A lost PUT may land after a reconcile has judged it
(`reconcile.go:63`): neither Core nor the status tuples could tell. A config that is edited and edited back
between two GETs (`model_info.go:77`) has the same hash: the code cannot see it, and the model assumes that
it does not happen.

## 6. Disagreements between code and documents

1. **A correct membership plan may be refused** (`membership_accepted`).
   `ownership.go:447` accepts a new model only without any style, and line 221 a list only
   in its old style. The encoder writes a model in brackets when the list is in
   brackets (`models: []` is), quotes names such as `@cf/llama`, and writes an emptied list as `[]`. The Writer then answers
   `invalid_request` for the whole run, and again with every retry.
2. **A planner refuses its own continuation** (`own_continuation`).
   `validUpstreamState` (`planner.go:524` of model-metadata-sync) wants the modalities of the entries in a continuation as CPA
   writes them; `decodeOpenAIItem` keeps them as the provider lists them. With a public catalog to fetch after the
   channel's own, a provider that lists image before text, or audio, ends every run with
   `provider_fetch_invalid`. `PLAN/four-plugin-standard-cpa-architecture.md:203` says that a flow of several channels
   goes on under the same attempt, and `model-metadata-sync/README.md:63` that modalities are limited to text and image.

Found by the invariant `RefusalsHaveCause`, whose exceptions name them (`ContinuationCause`, `DescriptorCause`), and without a
run of their own:

* Two models of a catalog whose names differ in case alone, and two cursors of Claude's pages or two models
  of an earlier channel's overrides that do, make the metadata planner refuse its own continuation: they are keys of objects in it, and
  the decoder refuses keys that are equal in upper case (`planner.go:768`). The parsers tell them apart.
* For the same check as in 2, a provider that writes `Text`, or gives an empty list of modalities instead of none.
* An earlier channel that was planned from modelparams.dev levels out of order (`enumLevels` keeps the catalog's order,
  `validPlannedPatches` wants CPA's), or that has an override with an empty list of levels (which JSON drops), makes
  the planner refuse the continuation of a later channel.
* `validCatalogInteger` (`models.go:309` of model-metadata-sync) compares a float64 with `float64(math.MaxInt)`, which is
  2^63. A limit of 9223372036854775807 passes, and `int` makes of it the least integer on amd64, the platform of the Makefiles.
  The planner then refuses its own continuation, which must have no negative limit, when a public catalog follows; when none
  does, it takes the model for one without a limit. `model-metadata-sync/README.md:50` says that malformed data fails closed.
* auto-pull refuses its own continuation when it keeps more than 100,000 models of an earlier channel (`planner.go:237`).
* The Writer limits a URL to 4096 bytes, the value of a header to 4096 and the headers to 16 KiB (`provider_relay.go:145` and `157`); a
  configured base or header may be longer. It refuses an index of a credential of more than 512 bytes or with a control character (141),
  which metadata-sync passes over and auto-pull uses. It refuses a base that ends with a bare `?`, which the planners keep in the URL,
  and a Claude prefix that trimming slashes and spaces a second time changes.
* A Claude base with a path is written by the planner and always refused by the Writer, which `sync-config-write/README.md:22`
  does not say; so is another version of the Anthropic API configured for Anthropic's own host, and an
  empty `Accept` for an OpenAI channel, in metadata syncs only.
* Entries of a gateway with `x-api-key` (`sync-config-write/README.md:25`) cannot be used by the metadata planner, which
  accepts no such header in an entry (`yaml.go:146`).
* Before it uses a body, auto-pull checks the credential of the current channel only, where the architecture document (line 217)
  has all bound ones; `CredentialsHold` states what each planner does guarantee.
* A hundred channels and a public catalog are more fetches than the hundred pages the Writer allows.

Observed while reading:

* `PLAN/four-plugin-standard-cpa-architecture.md:359` says that any timeout after PUT records `persisted_runtime_uncertain`.
  When the PUT itself times out, `commit_engine.go:328` records `commit_verification_failed`.
* `PLAN/auto-pull-models-split-acceptance.md:84` says that a repeated sync is unchanged. An output limit that
  the provider or models.dev supplied counts as preserved in the next sync, and modelparams.dev replaces preserved
  output limits (`metadata.go:85`), so the second sync may write. The third changes nothing: that is proved.
* The architecture document (line 133) says that a restart
  creates fresh deadlines after startup reconciliation; `service.go:147` creates them at the
  first configuration, with the startup blocker in place. They stay due while the blocker stands, so
  the difference is when the first write runs.

* A model that modelparams.dev lists as `vendor-a/glm-x` gives its metadata to the operator's `vendor-b/glm-x` when it is the only
  `glm-x` of that source (`modelsdev.go:190`); `model-metadata-sync/README.md:63` says that identity is never inferred from
  similar names.

## 7. Plan

Done: the inventory; the queue and its scheduler, the commit engine, the dialogue, the catalog refresh, precedence and
ownership with the proofs of their safety properties; the rules for requests, catalogs and
continuations, with the proofs of what holds of the credentials, of what is planned and of what is refused. Order was by weight: the queue and the blocker decide what may run at all, the commit engine what
may be written, the rest what is written.

Next, proofs: that an attempt of `ProviderFetch` is a plan of `PlannerDialogue` (its targets are the catalogs that `Course`
says are fetched, in that order), which would tie the page limits of the one to the configurations of the other.

Next, modelling: `parseCatalog` of model-info; the lookup of a model in the public catalogs; settings and their defaults.
