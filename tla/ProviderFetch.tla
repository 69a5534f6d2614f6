--------------------------- MODULE ProviderFetch ---------------------------
(***************************************************************************)
(* How one attempt of a planner fetches what it plans from (planDecoded,   *)
(* consumeFetch, nextStep, nextFetch, revalidateBoundAuth and resolveAuth  *)
(* of the two planners), and what the Writer lets through                  *)
(* (PlanWithProgress and provider_relay.go).                               *)
(*                                                                         *)
(* Channel after channel, the planner finds the credential of the channel  *)
(* among those of the host, has the Writer fetch the catalog of the        *)
(* channel with it, page by page, and the public catalogs the first time   *)
(* one is needed.  All it knows is in the continuation, which it writes as *)
(* JSON and checks when it comes back.  The host lists its credentials,    *)
(* and tells of one of them in two more calls; they may change between any *)
(* two calls, and while Core uses one.                                     *)
(*                                                                         *)
(* The limits on pages and bytes, and the attempts that replace one        *)
(* another, are in PlannerDialogue; what the catalogs come to in the       *)
(* proposal, in MetadataPrecedence and ProposalOwnership.                  *)
(***************************************************************************)
EXTENDS FetchDescriptor, ProviderCatalogs

CONSTANTS
  Scenario,      \* the operations, with a planner configuration and a snapshot
                 \*   (one that parseConfig refuses gives no behaviour)
  AuthIndex,     \* the names of the credentials of the host
  Auth,          \* what a credential may be
  InitialAuths,  \* the credentials when the attempt begins
  Bodies,        \* the catalogs that may come back, by kind
  MaxDesired,    \* how many models auto-pull takes back for a channel: 100,000
  Sought(_, _),  \* whether a name of modelparams.dev is one a model is looked up by:
                 \*   in any case, and without what precedes a slash
  MaxAuthChanges \* bound on the changes of the credentials

\* What is configured for a channel, and the entry of one in the snapshot.
MetadataSource == [kind : PublicKind, provider : STRING]
Override == [model : STRING, given : BOOLEAN, levels : Seq(STRING)]
Channel ==
  [enabled : BOOLEAN, kind : Kind, label : STRING, base : Base, index : Nat,
   upstreamMeta : BOOLEAN, codex : BOOLEAN, sources : Seq(MetadataSource),
   overrides : SUBSET Override, mode : STRING, matched : SUBSET STRING]

\* named says whether the models of an entry are a list with one name each,
\* readable whether what it says of them has the types it must have.
Entry ==
  [label : STRING, base : Base, disabled : {"no", "yes", "odd"}, direct : BOOLEAN,
   named : BOOLEAN, readable : BOOLEAN, headers : EntryHeaders,
   models : Seq([name : STRING, levels : Seq(STRING)])]

ASSUME ScenarioAssumption ==
  \A s \in Scenario :
    /\ s \in [op : Operation, config : Seq(Channel),
              snapshot : [Kind -> Seq(Entry)]]
    /\ s.op = "auto_pull" =>
         \A c \in DOMAIN s.config : s.config[c].sources = << >> /\ ~s.config[c].codex
ASSUME AuthAssumption ==
  /\ Empty \notin AuthIndex /\ IsFiniteSet(AuthIndex)
  /\ InitialAuths \subseteq [AuthIndex -> Auth]
  /\ MaxAuthChanges \in Nat /\ MaxDesired \in Nat
ASSUME BodiesAssumption ==
  /\ DOMAIN Bodies = CatalogKind \cup PublicKind
  /\ \A kind \in DOMAIN Bodies : \A b \in Bodies[kind] :
       /\ b \in Document
       /\ \A i \in DOMAIN b.items : IsFiniteSet(b.items[i].names)

VARIABLES
  scenario, \* the operation, the configuration of its planner and the snapshot
  auths,    \* the credentials of the host
  changes,  \* how often each one has changed
  pc,       \* where the attempt is
  state,    \* what the planner knows, in its memory or in the continuation
  goal,     \* what it does once the credentials are resolved
  todo,     \* the checks of credentials it has yet to make for that
  lookup,   \* the one it is making
  desc,     \* the request it asks for
  seen,     \* the requests the Writer has let through
  body,     \* the catalog that came back
  fetched,  \* every catalog Core has fetched, and by which credential
  outcome   \* who ended the attempt, and why

plannerVars == <<state, goal, todo, lookup>>
writerVars == <<desc, seen, body, fetched>>
vars == <<scenario, auths, changes, pc, plannerVars, writerVars, outcome>>

op == scenario.op
config == scenario.config
snapshot == scenario.snapshot

NoStep == [kind |-> Empty, channel |-> 0, after |-> Empty, auth |-> Empty]
NoIdentity == [index |-> Empty, path |-> Empty, provider |-> Empty, base |-> NoBase,
               label |-> Empty]
NoCheck == [channel |-> 0, index |-> Empty, identity |-> NoIdentity]
NoLookup == [check |-> NoCheck, left |-> << >>, half |-> FALSE, matches |-> {}]

\* bound has the identity of the credential of each channel (auto-pull keeps none:
\* there it is a note for the properties), upstream the models of the catalog of
\* the current one, results what each planned channel was planned from.
EmptyState ==
  [step |-> NoStep, upstream |-> << >>, modelparams |-> Unread,
   modelsdev |-> Unread, bound |-> << >>, cursors |-> {}, results |-> << >>]

---------------------------------------------------------------------------
(* The order of the fetches.                                               *)

HasSource(spec, kind) == \E i \in DOMAIN spec.sources : spec.sources[i].kind = kind

credentialFetchRequired(spec) ==
  op = "auto_pull" \/ spec.upstreamMeta \/ HasSource(spec, "modelsdev")

\* The ids auto-pull keeps.
filterIDs(ids, spec) ==
  IF spec.mode = "exclude" THEN ids \ spec.matched ELSE ids \cap spec.matched

TooMany(ids) == Cardinality(ids) > MaxDesired

\* The operator gives a model levels of its own.
Overridden(spec, name) == \E o \in spec.overrides : o.model = name /\ o.levels # << >>

\* The entries of modelparams.dev that may be found for a model.
lookupSource(entries, name) == {id \in DOMAIN entries : Sought(id, name)}

\* The levels of modelparams.dev the patches of a channel write: into its models
\* that neither the operator nor the catalog of the channel gives any, unless they
\* have just these.  Those the operator or the catalog gives are in order.
PatchedLevels(st, spec) ==
  LET open == {m \in Range(Located(snapshot, spec).models) :
                 /\ ~Overridden(spec, m.name)
                 /\ ~(/\ spec.upstreamMeta /\ m.name \in DOMAIN st.upstream
                      /\ st.upstream[m.name].levels # << >>)}
      levels(m) == {st.modelparams.entries[id].levels :
                      id \in lookupSource(st.modelparams.entries, m.name)}
  IN  IF ~HasSource(spec, "modelparams") THEN {}
      ELSE UNION {levels(m) \ {<< >>, m.levels} : m \in open}

\* What a channel is planned from.
Result(st, c) ==
  [channel |-> c, overrides |-> config[c].overrides,
   patched |-> IF op = "metadata" THEN PatchedLevels(st, config[c]) ELSE {},
   upstream |-> IF op = "auto_pull"
                THEN Restrict(st.upstream,
                              filterIDs(DOMAIN st.upstream, config[c]))
                ELSE st.upstream,
   modelparams |-> IF HasSource(config[c], "modelparams")
                   THEN st.modelparams ELSE Unread,
   modelsdev |-> IF HasSource(config[c], "modelsdev")
                 THEN st.modelsdev ELSE Unread]

\* The channels of a set are planned, in their order.  What was fetched for the first
\* of them alone is dropped with it.
Results(st, channels) ==
  LET plans == InOrder(channels) IN
  [i \in DOMAIN plans |->
     Result(IF i = 1 THEN st ELSE [st EXCEPT !.upstream = << >>], plans[i])]

PlanAll_KeepsUpstream(st, channels) ==
  [st EXCEPT !.results = @ \o Results(st, channels)]
PlanAll(st, channels) ==
  [st EXCEPT !.results = @ \o Results(st, channels),
             !.upstream = IF channels = {} THEN @ ELSE << >>]

\* The kind of fetch that channel c still needs, if any: that of its own catalog,
\* unless it has begun it, then those of its sources, in their order.  Only then
\* what the snapshot says of its models is read.
Needed(st, c) ==
  LET spec == config[c]
      entered == st.step.kind # Empty /\ st.step.channel = c
      lacking == {i \in DOMAIN spec.sources : ~st[spec.sources[i].kind].ok}
  IN  CASE ~Locatable(snapshot, spec) -> "invalid"
        [] Locatable(snapshot, spec) /\ ~entered /\ credentialFetchRequired(spec) ->
             catalogKind(spec)
        [] OTHER ->
             IF lacking # {} THEN spec.sources[Min(lacking)].kind
             ELSE IF op = "metadata" /\ ~Located(snapshot, spec).readable
             THEN "invalid" ELSE Empty

\* The next fetch, if there is one: the next page of the catalog, or what the
\* first of the channels from this one on still needs that does not have it all.
\* Those before it are planned.
nextStep(st) ==
  LET start == IF st.step.kind = Empty THEN 1 ELSE st.step.channel
      ahead == {c \in DOMAIN config : c >= start /\ config[c].enabled}
      waiting == {c \in ahead : Needed(st, c) # Empty}
      planned == PlanAll(st, {c \in ahead : \A d \in waiting : c < d})
      Step(step) == [st EXCEPT !.step = step, !.results = planned.results,
                               !.upstream = planned.upstream]
  IN  IF st.step.kind = "claude_models" /\ st.step.after # Empty
      THEN [found |-> TRUE, state |-> st]
      ELSE IF waiting = {} THEN [found |-> FALSE, state |-> Step(NoStep)]
      ELSE [found |-> TRUE,
            state |-> Step([NoStep EXCEPT !.kind = Needed(st, Min(waiting)),
                                          !.channel = Min(waiting)])]

\* What a catalog that was read may be, and what it adds.  A page of Claude's that has more
\* models after it must lead on: to a cursor not yet seen.
Readable(st, b) ==
  /\ b.ok
  /\ st.step.kind = "claude_models" =>
       /\ DOMAIN b.entries \cap DOMAIN st.upstream = {}
       /\ b.more => b.cursor \notin st.cursors \cup {Empty, st.step.after}

consumeFetch_KeepsCursors(st, b) ==
  LET kind == st.step.kind IN
  CASE kind = "openai_models" -> [st EXCEPT !.upstream = b.entries]
    [] kind = "claude_models" ->
         [st EXCEPT !.upstream = Joined(b.entries, @),
                    !.step.after = IF b.more THEN b.cursor ELSE Empty,
                    !.cursors = @ \cup {b.cursor}]
    [] OTHER -> [st EXCEPT ![kind] = b]
consumeFetch(st, b) ==
  LET kind == st.step.kind IN
  CASE kind = "openai_models" -> [st EXCEPT !.upstream = b.entries]
    [] kind = "claude_models" ->
         [st EXCEPT !.upstream = Joined(b.entries, @),
                    !.step.after = IF b.more THEN b.cursor ELSE Empty,
                    !.cursors = IF b.more THEN @ \cup {b.cursor} ELSE {}]
    [] OTHER -> [st EXCEPT ![kind] = b]

---------------------------------------------------------------------------
(* The continuation.                                                       *)

\* What JSON keeps of the state.  An operator's levels that are an empty list are
\* left out of it, and come back as none.
RoundTrip(st) ==
  LET Kept(o) == [o EXCEPT !.given = o.given /\ o.levels # << >>]
      Back(r) == [r EXCEPT !.overrides = {Kept(o) : o \in r.overrides}]
  IN  [st EXCEPT !.results = [i \in DOMAIN st.results |-> Back(st.results[i])]]

\* What the names of models and cursors that are keys of the state must be for the
\* planner to read it.
validateExactJSONKeys(st) ==
  /\ ExactKeys(DOMAIN st.upstream)
  /\ ExactKeys(st.cursors)
  /\ \A i \in DOMAIN st.results : ExactKeys({o.model : o \in st.results[i].overrides})

\* Modalities and levels are as CPA writes them, an empty list being none, and
\* limits are not negative.
validUpstreamState(upstream) ==
  \A id \in DOMAIN upstream :
    /\ upstream[id].input = cpaModalities(upstream[id].input) /\ ~upstream[id].bare
    /\ upstream[id].levels = normalizeEfforts(upstream[id].levels)
    /\ upstream[id].limit >= 0

\* The planner reads what it keeps of a public catalog as it did at first.
validPublicCatalog(catalog) == catalog.ok => catalog.again

validPlannedPatches(result) ==
  \A levels \in result.patched :
    levels = normalizeEfforts(levels) /\ levels # << >>

validContinuationState(st) ==
  LET c == st.step.channel
      catalog == st.step.kind \in CatalogKind
  IN  /\ c \in DOMAIN config /\ config[c].enabled
      /\ IF catalog THEN /\ st.step.kind = catalogKind(config[c])
                         /\ credentialFetchRequired(config[c])
         ELSE HasSource(config[c], st.step.kind)
      /\ catalog <=> st.step.auth # Empty
      /\ IF st.step.kind = "claude_models" /\ st.step.after # Empty
         THEN st.step.after \in st.cursors ELSE st.cursors = {}
      /\ op = "metadata" =>
           /\ validateExactJSONKeys(st)
           /\ validUpstreamState(st.upstream)
           /\ validPublicCatalog(st.modelparams) /\ validPublicCatalog(st.modelsdev)
           /\ \A k \in DOMAIN st.bound :
                k <= c /\ config[k].enabled /\ credentialFetchRequired(config[k])
           /\ credentialFetchRequired(config[c]) => c \in DOMAIN st.bound
           /\ catalog => st.bound[c].index = st.step.auth
      /\ \A i \in DOMAIN st.results :
           LET r == st.results[i] IN
           /\ r.channel < c
           /\ \A j \in 1 .. i - 1 : st.results[j].channel # r.channel
           /\ op = "metadata" =>
                /\ r.overrides = config[r.channel].overrides
                /\ validPlannedPatches(r)
                /\ credentialFetchRequired(config[r.channel])
                     => r.channel \in DOMAIN st.bound
           /\ op = "auto_pull" => ~TooMany(DOMAIN r.upstream)
      /\ op = "auto_pull" =>
           \A k \in 1 .. c - 1 : config[k].enabled =>
             \E i \in DOMAIN st.results : st.results[i].channel = k

---------------------------------------------------------------------------
(* The credentials.                                                        *)

Identity(index, auth) ==
  [index |-> index, path |-> auth.path, provider |-> auth.provider,
   base |-> auth.base, label |-> auth.label]

\* A credential to resolve: for which channel, and which one it must be.
Check(c, index, identity) ==
  [channel |-> c, index |-> index, identity |-> identity]

\* The credential of channel c is to be found.
NewCheck(c) == Check(c, Empty, NoIdentity)

\* Every credential that was used, with the identity it had.
revalidateBoundAuth(st) ==
  {Check(c, st.bound[c].index, st.bound[c]) : c \in DOMAIN st.bound}

\* What is resolved before a body is used, a request is made or the proposal is
\* given.  auto-pull resolves the credential of the current channel, and none
\* for the proposal.
ChecksFor_CurrentOnly(st, g) ==
  LET c == st.step.channel IN
  CASE g = "consume" /\ st.step.auth # Empty -> {Check(c, st.step.auth, NoIdentity)}
    [] g = "emit" /\ st.step.kind \in CatalogKind -> {NewCheck(c)}
    [] OTHER -> {}
ChecksFor(st, g) ==
  LET c == st.step.channel
      bound == IF op = "metadata" THEN revalidateBoundAuth(st)
               ELSE IF g = "consume" THEN {Check(c, st.step.auth, NoIdentity)}
               ELSE {}
      new == IF g = "emit" /\ st.step.kind \in CatalogKind THEN {NewCheck(c)}
             ELSE {}
  IN  bound \cup new

\* In the order of the channels, and for a channel a new one last.
IsFirst(check, checks) ==
  /\ check \in checks
  /\ \A other \in checks \ {check} :
       \/ check.channel < other.channel
       \/ check.channel = other.channel /\ other.index = Empty

\* Only metadata-sync passes over an index that the Writer would refuse.
Usable == {a \in AuthIndex : op = "metadata" => a \notin OddIndex}

\* The credentials the host lists that a channel of a kind may use.
Listed(kind) ==
  LET names == SetToSeq({a \in Usable : auths[a].status = "active"
                                          /\ auths[a].provider = kind}) IN
  [i \in DOMAIN names |-> Identity(names[i], auths[names[i]])]

Refuse(who, why) ==
  /\ pc' = "refused" /\ outcome' = <<who, why>>
  /\ UNCHANGED <<scenario, auths, changes, plannerVars, writerVars>>

\* The planner has decided on st, and has credentials to resolve before g.
Prepare(st, g) ==
  /\ pc' = "planning" /\ state' = st /\ goal' = g
  /\ todo' = ChecksFor(st, g) /\ lookup' = NoLookup
  /\ UNCHANGED <<scenario, auths, changes, writerVars, outcome>>

Looking == pc = "planning" /\ lookup.check # NoCheck

ListAuths ==
  /\ pc = "planning" /\ lookup.check = NoCheck
  /\ \E check \in todo :
       /\ IsFirst(check, todo)
       /\ lookup' = [NoLookup EXCEPT
            !.check = check, !.left = Listed(config[check.channel].kind)]
  /\ UNCHANGED <<scenario, auths, changes, pc, state, goal, todo, writerVars,
                 outcome>>

\* A listed credential that is no longer what the list said fails them all.
GetRuntime ==
  /\ Looking /\ lookup.left # << >> /\ ~lookup.half
  /\ LET listed == Head(lookup.left)
         now == auths[listed.index]
     IN  IF /\ now.status = "active"
            /\ now.path = listed.path /\ now.provider = listed.provider
         THEN /\ lookup' = [lookup EXCEPT !.half = TRUE]
              /\ UNCHANGED <<scenario, auths, changes, pc, state, goal, todo,
                             writerVars, outcome>>
         ELSE Refuse("planner", "credential")

\* The base and the label are only in the file.  One that cannot be read as a
\* base is passed over by the metadata planner, and fails auto-pull.  A file of
\* Claude's without a base has that of Anthropic.
GetPhysical ==
  /\ Looking /\ lookup.half
  /\ LET listed == Head(lookup.left)
         now == auths[listed.index]
         found == Identity(listed.index, now)
         spec == config[lookup.check.channel]
         suits == /\ now.base = spec.base
                  /\ spec.kind = "claude" => now.label = spec.label
     IN  IF /\ now.status # "gone"
            /\ now.path = listed.path /\ now.provider = listed.provider
            /\ op = "auto_pull" => now.base # NoBase
         THEN /\ lookup' = [lookup EXCEPT
                   !.half = FALSE, !.left = Tail(@),
                   !.matches = IF suits THEN @ \cup {found} ELSE @]
              /\ UNCHANGED <<scenario, auths, changes, pc, state, goal, todo,
                             writerVars, outcome>>
         ELSE Refuse("planner", "credential")

\* bindChannelAuth: the next page of a catalog needs the identity of the first.
Binds(st, c, identity) ==
  /\ c \in DOMAIN st.bound => st.bound[c] = identity
  /\ \A k \in DOMAIN st.bound : k <= c

\* The bound identities, with that of channel c.
BindTo(bound, c, identity) ==
  [k \in DOMAIN bound \cup {c} |-> IF k = c THEN identity ELSE bound[k]]

\* One credential must match, and be the one asked for.  A new one is bound to
\* its channel.
Resolve ==
  /\ Looking /\ lookup.left = << >>
  /\ LET check == lookup.check
         c == check.channel
         new == goal = "emit" /\ check.index = Empty
     IN  IF \E m \in lookup.matches :
              /\ lookup.matches = {m}
              /\ check.index \in {Empty, m.index}
              /\ check.identity \in {NoIdentity, m}
              /\ new /\ op = "metadata" => Binds(state, c, m)
         THEN LET m == CHOOSE x \in lookup.matches : TRUE IN
              /\ state' = IF new THEN [state EXCEPT !.step.auth = m.index,
                                                    !.bound = BindTo(@, c, m)]
                          ELSE state
              /\ todo' = todo \ {check} /\ lookup' = NoLookup
              /\ UNCHANGED <<scenario, auths, changes, pc, goal, writerVars,
                             outcome>>
         ELSE Refuse("planner", "credential")

\* A call of the host fails.
HostFails == pc = "planning" /\ todo # {} /\ Refuse("planner", "credential")

---------------------------------------------------------------------------
(* The planner, when it has the credentials it needs.                      *)

\* What comes after the fetches so far.
Proceed(st) ==
  LET n == nextStep(st) IN
  IF n.found THEN Prepare(n.state, "emit") ELSE Prepare(n.state, "finish")

Start == pc = "start" /\ Proceed(EmptyState)

\* The Writer calls again, with the continuation and the body.
Continue ==
  /\ pc = "continue"
  /\ IF /\ validContinuationState(state)
        /\ op = "auto_pull" => Locatable(snapshot, config[state.step.channel])
     THEN Prepare(state, "consume")
     ELSE Refuse("planner", "continuation")

Ready(g) == pc = "planning" /\ todo = {} /\ goal = g

Consume ==
  /\ Ready("consume")
  /\ LET b == parseCatalog(op, state.step.kind, body) IN
     IF Readable(state, b) THEN Proceed(consumeFetch(state, b))
     ELSE Refuse("planner", "catalog")

Emit ==
  /\ Ready("emit")
  /\ IF state.step.kind = "invalid" THEN Refuse("planner", "channel")
     ELSE /\ desc' =
               IF state.step.kind \in CatalogKind
               THEN CatalogDescriptor(op, snapshot, config[state.step.channel],
                                      state.step.after, state.step.auth)
               ELSE PublicDescriptor(state.step.kind)
          /\ state' = IF op = "metadata" THEN RoundTrip(state) ELSE state
          /\ pc' = "offered"
          /\ UNCHANGED <<scenario, auths, changes, goal, todo, lookup, seen,
                         body, fetched, outcome>>

Finish ==
  /\ Ready("finish")
  /\ pc' = "proposed" /\ outcome' = <<"planner", "proposal">>
  /\ UNCHANGED <<scenario, auths, changes, plannerVars, writerVars>>

---------------------------------------------------------------------------
(* The Writer, Core and the host.                                          *)

\* No request is made twice.
Validate ==
  /\ pc = "offered"
  /\ IF validateFetchDescriptor(op, snapshot, desc) /\ desc \notin seen
     THEN /\ seen' = seen \cup {desc}
          /\ pc' = "fetching"
          /\ UNCHANGED <<scenario, auths, changes, plannerVars, desc, body,
                         fetched, outcome>>
     ELSE Refuse("writer", "descriptor")

\* Core puts the token the credential has now into the request.
Fetch ==
  /\ pc = "fetching"
  /\ desc.auth # Empty => auths[desc.auth].status # "gone"
  /\ \E b \in Bodies[desc.kind] :
       /\ body' = b
       /\ fetched' = Append(fetched,
            [channel |-> state.step.channel, kind |-> desc.kind, body |-> b,
             by |-> IF desc.auth = Empty THEN NoIdentity
                    ELSE Identity(desc.auth, auths[desc.auth]),
             changes |-> changes])
  /\ pc' = "continue"
  /\ UNCHANGED <<scenario, auths, changes, plannerVars, desc, seen, outcome>>

FetchFails == pc = "fetching" /\ Refuse("writer", "fetch")

\* Another program edits a credential, or Core's view of it changes.
ChangeAuth(a) ==
  /\ pc \notin {"start", "proposed", "refused"}
  /\ FoldFunction(+, 0, changes) < MaxAuthChanges
  /\ \E new \in Auth \ {auths[a]} : auths' = [auths EXCEPT ![a] = new]
  /\ changes' = [changes EXCEPT ![a] = @ + 1]
  /\ UNCHANGED <<scenario, pc, plannerVars, writerVars, outcome>>

Ended == pc \in {"proposed", "refused"} /\ UNCHANGED vars

Init ==
  /\ scenario \in {[s EXCEPT !.config = compiled(@)] :
                    s \in {x \in Scenario : parseConfig(x.op, x.config)}}
  /\ auths \in InitialAuths
  /\ changes = [a \in AuthIndex |-> 0]
  /\ pc = "start" /\ state = EmptyState /\ goal = "none"
  /\ todo = {} /\ lookup = NoLookup
  /\ desc = PublicDescriptor("modelparams") /\ seen = {} /\ body = NoDocument
  /\ fetched = << >> /\ outcome = << >>

Next ==
  \/ Start \/ Continue \/ Consume \/ Emit \/ Finish
  \/ ListAuths \/ GetRuntime \/ GetPhysical \/ Resolve \/ HostFails
  \/ Validate \/ Fetch \/ FetchFails
  \/ \E a \in AuthIndex : ChangeAuth(a)
  \/ Ended

Spec == Init /\ [][Next]_vars

---------------------------------------------------------------------------
(* Properties.                                                             *)

\* Every variable has its type.  In the continuation, a step is one of a channel
\* and a credential is bound to a channel that is configured.
TypeOK ==
  /\ op \in Operation /\ auths \in [AuthIndex -> Auth]
  /\ changes \in [AuthIndex -> Nat]
  /\ pc \in {"start", "planning", "offered", "fetching", "continue",
             "proposed", "refused"}
  /\ goal \in {"none", "consume", "emit", "finish"}
  /\ state.step.channel \in DOMAIN config \cup {0}
  /\ state.step.auth \in AuthIndex \cup {Empty}
  /\ DOMAIN state.bound \subseteq DOMAIN config
  /\ \A c \in DOMAIN state.bound : state.bound[c].index \in AuthIndex
  /\ pc \in {"offered", "fetching", "continue"} => desc.headers \in Headers
  /\ \A i \in DOMAIN fetched : fetched[i].body \in Bodies[fetched[i].kind]

\* The channels whose catalog was fetched before the current one.
Before(c) == {k \in DOMAIN config : k < c /\ config[k].enabled}

\* The catalogs fetched for a channel with its credential.
Pages(c) == {i \in DOMAIN fetched : /\ fetched[i].channel = c
                                    /\ fetched[i].kind \in CatalogKind}

\* Only catalogs of Claude's have pages.
HasMore(page) == page.kind = "claude_models" /\ page.body.more

\* The models of some of the catalogs fetched.
NamesIn(pages) ==
  UNION {UNION {item.names : item \in Range(fetched[i].body.items)} : i \in pages}

\* Modalities CPA would write differently, or a limit no int holds.
Unfit(item) ==
  item.input # cpaModalities(item.input) \/ item.bare \/ item.limit > MaxInt

\* modelparams.dev has the levels of a model in an order that is not CPA's.
OutOfOrder(name) ==
  \E i \in DOMAIN fetched :
    /\ fetched[i].kind = "modelparams"
    /\ \E item \in Range(fetched[i].body.items) :
         /\ Sought(Named(item), name)
         /\ enumLevels(item.levels) # normalizeEfforts(item.levels)

\* Why a planner may refuse the continuation it wrote, read being the pages of the
\* current channel it has read.  metadata-sync: they have models whose names differ
\* in case alone, or their cursors do; one of them is unfit; a public catalog does not
\* read the same again; or the operator's settings of an earlier channel have an
\* empty list of levels, or models whose names differ in case alone, or leave
\* the levels of a model to modelparams.dev, which has them out of order.
\* auto-pull: it keeps too many models of an earlier channel.
ContinuationCause ==
  LET c == state.step.channel
      read == Pages(c) \ {Len(fetched)}
  IN  \/ /\ op = "metadata"
         /\ \/ ~ExactKeys(NamesIn(read))
            \/ /\ desc.kind = "claude_models"
               /\ ~ExactKeys({fetched[i].body.cursor : i \in read})
            \/ \E i \in read :
                 /\ fetched[i].kind = "openai_models"
                 /\ \E item \in Range(fetched[i].body.items) : Unfit(item)
            \/ \E i \in DOMAIN fetched \ {Len(fetched)} :
                 fetched[i].kind \in PublicKind /\ ~fetched[i].body.again
            \/ \E k \in Before(c) :
                 \/ \E o \in config[k].overrides : o.given /\ o.levels = << >>
                 \/ ~ExactKeys({o.model : o \in config[k].overrides})
                 \/ /\ HasSource(config[k], "modelparams")
                    /\ \E m \in Range(Located(snapshot, config[k]).models) :
                         ~Overridden(config[k], m.name) /\ OutOfOrder(m.name)
      \/ /\ op = "auto_pull"
         /\ \E k \in Before(c) : TooMany(filterIDs(NamesIn(Pages(k)), config[k]))

\* Why the Writer may refuse what a planner asks for: a base that ends with a
\* question mark; a Claude base that has a path, or a prefix that a second trim
\* changes; another version of the Anthropic API set for its host; an empty Accept
\* set for an OpenAI channel of metadata-sync; an odd index, which only auto-pull
\* uses; or a URL or headers that are too long.
DescriptorCause ==
  LET spec == config[state.step.channel]
      set == Located(snapshot, spec).headers
  IN  \/ ~WithinLimits(desc)
      \/ /\ desc.kind \in CatalogKind
         /\ \/ spec.base.mark
            \/ spec.kind = "claude" /\ (spec.base.path \/ spec.label \in Unsettled)
            \/ /\ spec.kind = "claude" /\ OnAnthropic(spec.base)
               /\ "anthropic-version" \in DOMAIN set
               /\ set["anthropic-version"] # "fixed"
            \/ /\ spec.kind = "openai" /\ op = "metadata"
               /\ "accept" \in DOMAIN set /\ set["accept"] = Empty
            \/ op = "auto_pull" /\ desc.auth \in OddIndex

\* A planner takes every continuation of its own, and the Writer every request of
\* a planner, but for these causes: what one writes and what it or the other then
\* checks are two statements of the same rules (validContinuationState,
\* validateFetchDescriptorForOperation).
RefusalsHaveCause ==
  /\ outcome = <<"planner", "continuation">> => ContinuationCause
  /\ outcome = <<"writer", "descriptor">> => DescriptorCause

\* A proposal plans every enabled channel once and in order, each from all the
\* pages of its own catalog and of no other's, the last of which has no more
\* after it, and from the public catalogs it names; a public catalog is fetched
\* once for all channels (nextStep, consumeFetch).
ProposalCoversChannels ==
  pc = "proposed" =>
    /\ {r.channel : r \in Range(state.results)}
         = {c \in DOMAIN config : config[c].enabled}
    /\ \A i, j \in DOMAIN state.results :
         i < j => state.results[i].channel < state.results[j].channel
    /\ \A i \in DOMAIN state.results :
         LET r == state.results[i]
             c == r.channel
             ids == NamesIn(Pages(c))
         IN  /\ (Pages(c) # {}) <=> credentialFetchRequired(config[c])
             /\ DOMAIN r.upstream = IF op = "metadata" THEN ids
                                    ELSE filterIDs(ids, config[c])
             /\ \A k \in Pages(c) : (k + 1 \in Pages(c)) <=> HasMore(fetched[k])
             /\ \A kind \in PublicKind : HasSource(config[c], kind) =>
                  \E k \in DOMAIN fetched :
                    /\ fetched[k].kind = kind
                    /\ r[kind] = parseCatalog(op, kind, fetched[k].body)
    /\ \A j, k \in DOMAIN fetched :
         fetched[j].kind \in PublicKind /\ fetched[j].kind = fetched[k].kind
           => j = k

\* A catalog that was fetched with another credential than the planner meant is
\* in no proposal, unless that credential changed and changed back
\* (revalidateBoundAuth after the body comes).  And when nothing changes after
\* the last catalog comes, every credential metadata-sync used is still good when
\* it gives the proposal (revalidateBoundAuth before finishPlan).
CredentialsHold ==
  pc = "proposed" =>
    \A c \in DOMAIN config : \A i \in Pages(c) :
      LET bound == state.bound[c]
          used == fetched[i].by
          last == fetched[Len(fetched)]
      IN  /\ changes[bound.index] < 2 =>
               IF op = "metadata" THEN used = bound ELSE used.base = bound.base
          /\ op = "metadata" /\ last.changes = changes =>
               /\ auths[bound.index].status = "active"
               /\ Identity(bound.index, auths[bound.index]) = bound

\* "multi-page/channel flow registers the next one-time request under the same
\* attempt" (PLAN/four-plugin-standard-cpa-architecture.md:203): a planner goes on
\* from the continuation it gave.
OwnContinuationsAreTaken == outcome # <<"planner", "continuation">>

=============================================================================
