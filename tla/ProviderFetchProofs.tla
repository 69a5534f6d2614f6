------------------------ MODULE ProviderFetchProofs ------------------------
(***************************************************************************)
(* Types, and whose catalog is planned from: TypeOK and CredentialsHold of *)
(* ProviderFetch, for all configurations, credentials and catalogs.        *)
(*                                                                         *)
(* Shape is inductive alone: what the state, the step and a lookup are at  *)
(* each point of an attempt.  Trust adds what is known of a credential     *)
(* that has changed once at most since the attempt began: a catalog was    *)
(* fetched with the identity the planner meant, or that identity is not    *)
(* there any more and a check that is yet to be made will tell.  Live adds *)
(* what a check has seen still holds while nothing changes.                *)
(***************************************************************************)
EXTENDS ProviderFetch, WellFoundedInduction, FiniteSetTheorems,
        SequenceTheorems, TLAPS

(* The configuration never changes. *)
ScenarioShape ==
  /\ op \in Operation
  /\ DOMAIN config \subseteq Nat \ {0}
  /\ \A c \in DOMAIN config :
       /\ config[c].kind \in Kind
       /\ config[c].sources \in Seq(MetadataSource)
       /\ op = "auto_pull" =>
            config[c].kind = "openai" /\ config[c].sources = << >>
  /\ snapshot \in [Kind -> Seq(Entry)]

IsStep(step) ==
  step \in [kind : {step.kind}, channel : {step.channel}, after : {step.after},
           auth : {step.auth}]
IsState(st) ==
  /\ st \in [step : {st.step}, upstream : {st.upstream},
             modelparams : {st.modelparams}, modelsdev : {st.modelsdev},
             bound : {st.bound}, cursors : {st.cursors}, results : {st.results}]
  /\ IsStep(st.step)

(* What a step is, and what it means for the channel it is at. *)
StepShape(step) ==
  /\ step.kind \in {Empty, "invalid"} \cup CatalogKind \cup PublicKind
  /\ step.auth \in Usable \cup {Empty}
  /\ IF step.kind = Empty THEN step.channel = 0 ELSE step.channel \in DOMAIN config
  /\ step.kind \in CatalogKind =>
       /\ step.kind = catalogKind(config[step.channel])
       /\ Locatable(snapshot, config[step.channel])
  /\ step.kind \notin CatalogKind => step.auth = Empty
  /\ step.after # Empty => step.kind = "claude_models"
  /\ op = "auto_pull" => step.kind \notin PublicKind

BoundShape(bound) ==
  /\ bound = [c \in DOMAIN bound |-> bound[c]]
  /\ DOMAIN bound \subseteq DOMAIN config
  /\ \A c \in DOMAIN bound :
       bound[c].index \in Usable /\ bound[c].base = config[c].base

StateShape(st) == IsState(st) /\ StepShape(st.step) /\ BoundShape(st.bound)

(* The credential of the step is the one that is bound to its channel. *)
AuthBound(st) ==
  st.step.kind \in CatalogKind =>
    /\ st.step.channel \in DOMAIN st.bound
    /\ st.step.auth = st.bound[st.step.channel].index

FetchRecord ==
  [channel : DOMAIN config, kind : CatalogKind \cup PublicKind,
   body : UNION {Bodies[k] : k \in CatalogKind \cup PublicKind},
   by : {NoIdentity} \cup {Identity(a, x) : a \in AuthIndex, x \in Auth},
   changes : [AuthIndex -> Nat]]

Planning(g) == pc = "planning" /\ goal = g

(* What was fetched belongs to channels up to the one of the step; the first
   page of a channel's catalog is fetched once. *)
Progress ==
  /\ \A c \in DOMAIN config : Pages(c) # {} => c \in DOMAIN state.bound
  /\ \/ pc \in {"offered", "fetching", "continue"}
     \/ Planning("consume") \/ Planning("emit")
     => /\ state.step.kind # Empty
        /\ \A i \in DOMAIN fetched : fetched[i].channel <= state.step.channel
  /\ \/ pc \in {"offered", "fetching"} \/ Planning("emit")
     => (state.step.kind \in CatalogKind /\ state.step.after = Empty =>
           Pages(state.step.channel) = {})
  /\ \/ pc \in {"offered", "fetching", "continue"} \/ Planning("consume")
     => state.step.kind # "invalid" /\ AuthBound(state)

Types ==
  /\ ScenarioShape
  /\ auths \in [AuthIndex -> Auth] /\ changes \in [AuthIndex -> Nat]
  /\ pc \in {"start", "planning", "offered", "fetching", "continue",
             "proposed", "refused"}
  /\ goal \in {"none", "consume", "emit", "finish"}
  /\ StateShape(state)
  /\ fetched \in Seq(FetchRecord)
  /\ \A i \in DOMAIN fetched : fetched[i].body \in Bodies[fetched[i].kind]
  /\ pc = "start" => state = EmptyState /\ fetched = << >>
  /\ pc \in {"offered", "fetching"} =>
       desc.kind = state.step.kind /\ desc.auth = state.step.auth
  /\ pc \in {"offered", "fetching", "continue"} => desc.headers \in Headers

(* A check is of a bound credential, or finds the one of the step. *)
OfBound(check) ==
  /\ check.channel \in DOMAIN state.bound
  /\ check.index = state.bound[check.channel].index
  /\ op = "metadata" => check.identity = state.bound[check.channel]
  /\ op # "metadata" => goal = "consume"
OfStep(check) ==
  /\ check = NewCheck(state.step.channel)
  /\ goal = "emit" /\ state.step.kind \in CatalogKind

Checks ==
  pc = "planning" =>
    /\ goal # "none"
    /\ \A check \in todo : OfBound(check) \/ OfStep(check)
    /\ goal = "emit" /\ NewCheck(state.step.channel) \notin todo => AuthBound(state)
    /\ lookup \in [check : {lookup.check}, left : {lookup.left},
                   half : BOOLEAN, matches : {lookup.matches}]
    /\ lookup.check = NoCheck => lookup = NoLookup
    /\ lookup.check \in todo \cup {NoCheck}
    /\ lookup.half => lookup.left # << >>
    /\ lookup.left \in Seq({Identity(a, x) : a \in Usable, x \in Auth})
    /\ \A m \in lookup.matches :
         /\ m.index \in Usable
         /\ lookup.check # NoCheck => m.base = config[lookup.check.channel].base

Shape == Types /\ Progress /\ Checks

-----------------------------------------------------------------------------
(* Whether two identities are one to the planner. *)
Same(x, y) == IF op = "metadata" THEN x = y ELSE x.base = y.base

Now(a) == Identity(a, auths[a])

(* The pages of channel c were fetched with its credential, unless that has
   changed twice. *)
Settled(c) ==
  \A i \in Pages(c) :
    changes[state.bound[c].index] < 2 => Same(fetched[i].by, state.bound[c])

(* There is a check of channel c to come. *)
Pending(c) == \E check \in todo : check.channel = c /\ check.index # Empty

(* A credential that has not changed is the one that was bound.  One that has
   changed once and is what was bound was so when it was used. *)
Bindings ==
  \A c \in DOMAIN state.bound :
    /\ changes[state.bound[c].index] = 0 =>
         Now(state.bound[c].index) = state.bound[c]
    /\ Same(Now(state.bound[c].index), state.bound[c]) => Settled(c)

Matches ==
  pc = "planning" =>
    \A m \in lookup.matches :
      /\ changes[m.index] = 0 => Now(m.index) = m
      /\ LET c == lookup.check.channel IN
         c \in DOMAIN state.bound /\ m.index = state.bound[c].index
           /\ Same(m, state.bound[c]) => Settled(c)

Trust ==
  /\ Bindings
  /\ Matches
  /\ pc = "planning" => \A c \in DOMAIN state.bound : Settled(c) \/ Pending(c)
  /\ pc \in {"offered", "fetching", "proposed"} =>
       \A c \in DOMAIN state.bound : Settled(c)
  /\ pc = "continue" =>
       \A c \in DOMAIN state.bound : c = state.step.channel \/ Settled(c)

-----------------------------------------------------------------------------
(* Nothing has changed since the last catalog came. *)
Quiet == fetched # << >> /\ fetched[Len(fetched)].changes = changes

Alive(m) == auths[m.index].status = "active" /\ Now(m.index) = m

Live ==
  /\ \A i \in DOMAIN fetched : \A a \in AuthIndex :
       fetched[i].changes[a] <= changes[a]
  /\ op = "metadata" /\ Quiet =>
       /\ pc = "planning" =>
            /\ \A k \in DOMAIN lookup.left :
                 auths[lookup.left[k].index].status = "active"
            /\ \A m \in lookup.matches : Alive(m)
       /\ Planning("finish") =>
            \A c \in DOMAIN state.bound : Alive(state.bound[c]) \/ Pending(c)
       /\ pc = "proposed" => \A c \in DOMAIN state.bound : Alive(state.bound[c])

-----------------------------------------------------------------------------
(* A credential that can be used is one of the host. *)
LEMMA UsableIndex == Usable \subseteq AuthIndex /\ Empty \notin Usable
BY AuthAssumption DEF Usable

(* A step that is none has no kind. *)
LEMMA EmptyIsNoKind ==
  Empty \notin {"invalid"} \cup CatalogKind \cup PublicKind
BY DEF Empty, CatalogKind, PublicKind

(* The least of some natural numbers is one of them. *)
LEMMA MinInSet ==
  ASSUME NEW S \in SUBSET Nat, S # {}
  PROVE  Min(S) \in S /\ \A n \in S : Min(S) <= n
<1>1. PICK x \in S : \A y \in S : ~(<<y, x>> \in OpToRel(<, Nat))
  BY NatLessThanWellFounded, WFMin, Zenon
<1>2. ASSUME NEW y \in S PROVE ~(y < x)
  <2>1. <<y, x>> \in Nat \X Nat
    OBVIOUS
  <2>2. (<<y, x>>[1] < <<y, x>>[2]) => <<y, x>> \in OpToRel(<, Nat)
    BY <2>1, Zenon DEF OpToRel
  <2> QED BY <1>1, <2>2
<1>3. \A y \in S : x <= y
  BY <1>2
<1> QED BY <1>3 DEF Min

(* A channel needs its own catalog before it is at it, and then its sources. *)
LEMMA NeededShape ==
  ASSUME ScenarioShape, NEW st, NEW c \in DOMAIN config
  PROVE  /\ Needed(st, c) \in {Empty, "invalid"} \cup CatalogKind \cup PublicKind
         /\ Needed(st, c) \in CatalogKind =>
              /\ Needed(st, c) = catalogKind(config[c])
              /\ Locatable(snapshot, config[c])
              /\ ~(st.step.kind # Empty /\ st.step.channel = c)
         /\ op = "auto_pull" => Needed(st, c) \notin PublicKind
<1> DEFINE sources == config[c].sources
           lacking == {i \in DOMAIN sources : ~st[sources[i].kind].ok}
<1>1. sources \in Seq(MetadataSource) /\ (op = "auto_pull" => sources = << >>)
  BY DEF ScenarioShape
<1>2. lacking # {} => sources[Min(lacking)].kind \in PublicKind
  <2>1. lacking \in SUBSET Nat
    BY <1>1
  <2>2. lacking # {} => Min(lacking) \in DOMAIN sources
    BY <2>1, MinInSet
  <2>3. ASSUME NEW i \in DOMAIN sources PROVE sources[i].kind \in PublicKind
    <3>1. sources[i] \in MetadataSource
      BY <1>1
    <3> QED BY <3>1 DEF MetadataSource
  <2> QED BY <2>2, <2>3
<1>3. op = "auto_pull" => lacking = {}
  BY <1>1
<1>4. catalogKind(config[c]) \in CatalogKind
  BY DEF catalogKind, CatalogKind
<1>5. \/ Needed(st, c) = "invalid"
      \/ /\ Needed(st, c) = catalogKind(config[c])
         /\ Locatable(snapshot, config[c])
         /\ ~(st.step.kind # Empty /\ st.step.channel = c)
      \/ Needed(st, c) = IF lacking = {} THEN Empty ELSE sources[Min(lacking)].kind
  BY DEF Needed
<1> QED BY <1>2, <1>3, <1>4, <1>5, EmptyIsNoKind DEF CatalogKind, PublicKind

(* nextStep leaves the bound credentials alone.  Its step is the next page of the
   same catalog, or a new one that does not begin the catalog of a channel again. *)
Follows(st, next) ==
  /\ next.step.kind # Empty
  /\ st.step.channel <= next.step.channel
  /\ \/ next = st /\ st.step.after # Empty
     \/ /\ next.step.after = Empty
        /\ next.step.kind \in CatalogKind /\ st.step.kind # Empty =>
             st.step.channel < next.step.channel

LEMMA NextStep ==
  ASSUME ScenarioShape, NEW st, StateShape(st)
  PROVE  /\ StateShape(nextStep(st).state)
         /\ nextStep(st).state.bound = st.bound
         /\ nextStep(st).found => Follows(st, nextStep(st).state)
<1> DEFINE start == IF st.step.kind = Empty THEN 1 ELSE st.step.channel
           ahead == {c \in DOMAIN config : c >= start /\ config[c].enabled}
           waiting == {c \in ahead : Needed(st, c) # Empty}
           planned == PlanAll(st, {c \in ahead : \A d \in waiting : c < d})
           Step(step) == [st EXCEPT !.step = step, !.results = planned.results,
                                    !.upstream = planned.upstream]
           first == Min(waiting)
           new == [NoStep EXCEPT !.kind = Needed(st, first), !.channel = first]
<1>1. ASSUME NEW step, IsStep(step), StepShape(step)
      PROVE  /\ StateShape(Step(step)) /\ Step(step).bound = st.bound
             /\ Step(step).step = step
  <2> HIDE DEF planned
  <2>1. IsState(Step(step)) /\ Step(step).bound = st.bound /\ Step(step).step = step
    BY <1>1 DEF StateShape, IsState
  <2> QED BY <2>1, <1>1 DEF StateShape
<1>2. IsStep(NoStep) /\ StepShape(NoStep)
  BY EmptyIsNoKind DEF IsStep, StepShape, NoStep
<1>3. waiting \in SUBSET Nat /\ \A c \in waiting :
        c \in DOMAIN config /\ c >= start /\ Needed(st, c) # Empty
  BY DEF ScenarioShape
<1>4. nextStep(st) =
        IF st.step.kind = "claude_models" /\ st.step.after # Empty
        THEN [found |-> TRUE, state |-> st]
        ELSE IF waiting = {} THEN [found |-> FALSE, state |-> Step(NoStep)]
        ELSE [found |-> TRUE, state |-> Step(new)]
  BY Zenon DEF nextStep
<1>5. new \in [kind : {Needed(st, first)}, channel : {first}, after : {Empty},
               auth : {Empty}]
  <2> HIDE DEF first
  <2>1. NoStep \in [kind : {Empty}, channel : {0}, after : {Empty}, auth : {Empty}]
    BY DEF NoStep
  <2> QED BY <2>1
<1>6. st.step.channel \in Nat /\ start \in Nat /\ st.step.channel <= start
  <2>1. st.step.channel \in Nat
    BY DEF StateShape, StepShape, ScenarioShape
  <2>2. st.step.kind = Empty => st.step.channel = 0
    BY DEF StateShape, StepShape
  <2> QED BY <2>1, <2>2
<1> HIDE DEF start, waiting, first, new, Step
<1>7. CASE st.step.kind = "claude_models" /\ st.step.after # Empty
  <2>1. nextStep(st) = [found |-> TRUE, state |-> st]
    BY <1>4, <1>7
  <2>2. st.step.kind # Empty
    BY <1>7, EmptyIsNoKind DEF CatalogKind
  <2>4. st.step.channel <= st.step.channel
    BY <1>6, <2>2
  <2>3. Follows(st, st)
    BY <2>2, <2>4, <1>7, Zenon DEF Follows
  <2> QED BY <2>1, <2>3
<1>8. CASE nextStep(st) = [found |-> FALSE, state |-> Step(NoStep)]
  BY <1>1, <1>2, <1>8
<1>9. CASE waiting # {} /\ nextStep(st) = [found |-> TRUE, state |-> Step(new)]
  <2>1. /\ first \in DOMAIN config /\ first \in Nat /\ first >= start
        /\ Needed(st, first) # Empty
    BY <1>3, <1>9, MinInSet DEF first
  <2>2. IsStep(new) /\ StepShape(new)
    <3>1. IsStep(new)
      BY <1>5 DEF IsStep
    <3>2. /\ new.kind = Needed(st, first) /\ new.channel = first
          /\ new.after = Empty /\ new.auth = Empty
      BY <1>5
    <3>3. /\ Needed(st, first) \in {"invalid"} \cup CatalogKind \cup PublicKind
          /\ Needed(st, first) \in CatalogKind =>
               /\ Needed(st, first) = catalogKind(config[first])
               /\ Locatable(snapshot, config[first])
          /\ op = "auto_pull" => Needed(st, first) \notin PublicKind
      BY <2>1, NeededShape
    <3> QED BY <3>1, <3>2, <3>3, <2>1 DEF StepShape
  <2>3. Needed(st, first) \in CatalogKind /\ st.step.kind # Empty =>
          st.step.channel # first
    BY <2>1, NeededShape
  <2>4. Follows(st, Step(new))
    <3>1. /\ new.kind # Empty /\ new.channel = first /\ new.after = Empty
          /\ new.kind \in CatalogKind /\ st.step.kind # Empty =>
               st.step.channel # first
      BY <1>5, <2>1, <2>3
    <3>2. st.step.channel <= first
      BY <1>6, <2>1
    <3>3. st.step.kind # Empty /\ st.step.channel # first => st.step.channel < first
      BY <1>6, <2>1
    <3>4. Step(new).step = new
      BY <1>1, <2>2
    <3> QED BY <3>1, <3>2, <3>3, <3>4, Zenon DEF Follows
  <2> QED BY <1>1, <1>9, <2>2, <2>4
<1> QED BY <1>4, <1>7, <1>8, <1>9

-----------------------------------------------------------------------------
(* A configuration that was accepted is the same but for the operator's levels. *)
LEMMA InitScenario == Init => ScenarioShape
<1> SUFFICES ASSUME Init PROVE ScenarioShape
  OBVIOUS
<1>1. PICK s \in Scenario : /\ parseConfig(s.op, s.config)
                            /\ scenario = [s EXCEPT !.config = compiled(@)]
  BY DEF Init
<1>2. /\ s \in [op : Operation, config : Seq(Channel),
               snapshot : [Kind -> Seq(Entry)]]
      /\ s.op = "auto_pull" =>
           \A c \in DOMAIN s.config : s.config[c].sources = << >>
  BY ScenarioAssumption
<1>3. /\ op = s.op /\ snapshot = s.snapshot /\ config = compiled(s.config)
      /\ op \in Operation /\ snapshot \in [Kind -> Seq(Entry)]
  BY <1>1, <1>2 DEF op, snapshot, config
<1>4. DOMAIN config = DOMAIN s.config
  BY <1>3 DEF compiled
<1>5. DOMAIN s.config \subseteq Nat \ {0}
  BY <1>2
<1>6. ASSUME NEW c \in DOMAIN config
      PROVE  config[c].kind = s.config[c].kind /\ config[c].sources = s.config[c].sources
  <2>1. config[c] = [s.config[c] EXCEPT !.overrides =
                       {[o EXCEPT !.levels = normalizeEfforts(@)] : o \in @}]
    BY <1>3, <1>4 DEF compiled
  <2>2. s.config[c] \in Channel
    BY <1>2, <1>4
  <2> QED BY <2>1, <2>2 DEF Channel
<1>7. ASSUME NEW c \in DOMAIN config
      PROVE  /\ config[c].kind \in Kind
             /\ config[c].sources \in Seq(MetadataSource)
             /\ op = "auto_pull" =>
                  config[c].kind = "openai" /\ config[c].sources = << >>
  <2>1. s.config[c] \in Channel
    BY <1>2, <1>4
  <2>2. s.config[c].kind \in Kind /\ s.config[c].sources \in Seq(MetadataSource)
    BY <2>1 DEF Channel
  <2>3. s.op = "auto_pull" => s.config[c].kind = "openai"
    BY <1>1, <1>4 DEF parseConfig
  <2> QED BY <1>2, <1>3, <1>4, <1>6, <2>2, <2>3
<1> QED BY <1>3, <1>4, <1>5, <1>7 DEF ScenarioShape

(* An attempt begins with nothing known. *)
LEMMA EmptyStateShape == ScenarioShape => StateShape(EmptyState)
<1> SUFFICES ASSUME ScenarioShape PROVE StateShape(EmptyState)
  OBVIOUS
<1>1. IsState(EmptyState) /\ EmptyState.step = NoStep /\ EmptyState.bound = << >>
  BY DEF IsState, IsStep, EmptyState, NoStep
<1>2. StepShape(NoStep)
  BY EmptyIsNoKind DEF StepShape, NoStep
<1>3. BoundShape(<< >>)
  BY DEF BoundShape
<1> QED BY <1>1, <1>2, <1>3 DEF StateShape

(* Shape holds initially. *)
LEMMA InitShape == Init => Shape
<1> SUFFICES ASSUME Init PROVE Shape
  OBVIOUS
<1>1. ScenarioShape
  BY InitScenario
<1>2. StateShape(state)
  BY <1>1, EmptyStateShape DEF Init
<1>3. fetched = << >> /\ pc = "start" /\ goal = "none" /\ state = EmptyState
  BY DEF Init
<1>4. /\ auths \in [AuthIndex -> Auth] /\ changes \in [AuthIndex -> Nat]
  BY AuthAssumption DEF Init
<1>5. Types
  BY <1>1, <1>2, <1>3, <1>4 DEF Types
<1>6. \A c \in DOMAIN config : Pages(c) = {}
  BY <1>3 DEF Pages
<1>7. Progress
  BY <1>3, <1>6 DEF Progress, Planning
<1>8. Checks
  BY <1>3 DEF Checks
<1> QED BY <1>5, <1>7, <1>8 DEF Shape

-----------------------------------------------------------------------------
(* What a step that leaves the scenario and the catalogs alone does not change. *)
LEMMA SameScenario ==
  ASSUME UNCHANGED scenario
  PROVE  /\ op' = op /\ config' = config /\ snapshot' = snapshot
         /\ ScenarioShape => ScenarioShape'
         /\ Usable' = Usable
BY DEF op, config, snapshot, ScenarioShape, Usable

(* A new state has a shape when the value it is given has it. *)
LEMMA SameState ==
  ASSUME UNCHANGED scenario, NEW st, state' = st
  PROVE  /\ StateShape(st) => StateShape(state)'
         /\ AuthBound(st) => AuthBound(state)'
<1>1. op' = op /\ config' = config /\ snapshot' = snapshot /\ Usable' = Usable
  BY SameScenario
<1>2. IsState(st) => IsState(state)'
  BY DEF IsState, IsStep
<1>3. StepShape(st.step) => StepShape(state.step)'
  BY <1>1 DEF StepShape
<1>4. BoundShape(st.bound) => BoundShape(state.bound)'
  BY <1>1 DEF BoundShape
<1>5. AuthBound(st) => AuthBound(state)'
  BY DEF AuthBound
<1> QED BY <1>2, <1>3, <1>4, <1>5 DEF StateShape

(* The catalogs of a channel are those that were fetched for it. *)
LEMMA SamePages ==
  ASSUME UNCHANGED <<scenario, fetched>>, NEW c
  PROVE  Pages(c)' = Pages(c)
BY DEF Pages

(* A new round of checks begins. *)
LEMMA PrepareShape ==
  ASSUME Shape, NEW st, NEW g \in {"consume", "emit", "finish"}, Prepare(st, g),
         StateShape(st),
         \A c \in DOMAIN config : Pages(c) # {} => c \in DOMAIN st.bound,
         g # "finish" =>
           /\ st.step.kind # Empty
           /\ \A i \in DOMAIN fetched : fetched[i].channel <= st.step.channel,
         g = "emit" =>
           (st.step.kind \in CatalogKind /\ st.step.after = Empty =>
              Pages(st.step.channel) = {}),
         g = "consume" => st.step.kind # "invalid" /\ AuthBound(st)
  PROVE  Shape'
<1> USE DEF Prepare, writerVars
<1>1. /\ UNCHANGED <<scenario, auths, changes, fetched, desc>>
      /\ pc' = "planning" /\ state' = st /\ goal' = g
      /\ todo' = ChecksFor(st, g) /\ lookup' = NoLookup
  OBVIOUS
<1>2. /\ op' = op /\ config' = config /\ snapshot' = snapshot /\ ScenarioShape'
      /\ Usable' = Usable
      /\ \A c : Pages(c)' = Pages(c)
  BY <1>1, SameScenario, SamePages DEF Shape, Types
<1>3. StateShape(state)'
  BY <1>1, SameState
<1>4. Types'
  <2>1. FetchRecord' = FetchRecord
    BY <1>1, <1>2 DEF FetchRecord
  <2> QED BY <1>1, <1>2, <1>3, <2>1 DEF Shape, Types
<1>5. Progress'
  <2>1. AuthBound(st) => AuthBound(state)'
    BY <1>1, SameState
  <2>2. \A c \in DOMAIN config : Pages(c)' # {} => c \in DOMAIN state'.bound
    BY <1>1, <1>2
  <2>3. g # "finish" => /\ state'.step.kind # Empty
                        /\ \A i \in DOMAIN fetched' :
                             fetched'[i].channel <= state'.step.channel
    BY <1>1
  <2>4. g = "emit" /\ state'.step.kind \in CatalogKind /\ state'.step.after = Empty
          => Pages(state.step.channel)' = {}
    <3>1. Pages(state.step.channel)' = Pages(st.step.channel)
      BY <1>1 DEF Pages
    <3> QED BY <1>1, <3>1
  <2> QED BY <1>1, <1>2, <2>1, <2>2, <2>3, <2>4 DEF Progress, Planning
<1>6. Checks'
  <2>1. ASSUME NEW check \in ChecksFor(st, g)
        PROVE  OfBound(check)' \/ OfStep(check)'
    <3>1. CASE op = "metadata" /\ check \in revalidateBoundAuth(st)
      BY <3>1, <1>1, <1>2 DEF revalidateBoundAuth, OfBound, Check
    <3>2. CASE op # "metadata" /\ g = "consume"
               /\ check = Check(st.step.channel, st.step.auth, NoIdentity)
      <4>1. st.step.kind \in CatalogKind
        BY <3>2, EmptyIsNoKind DEF StateShape, StepShape, Shape, Types, ScenarioShape, Operation
      <4> QED BY <3>2, <4>1, <1>1, <1>2 DEF AuthBound, OfBound, Check
    <3>3. CASE g = "emit" /\ st.step.kind \in CatalogKind
               /\ check = NewCheck(st.step.channel)
      BY <3>3, <1>1 DEF OfStep, NewCheck, Check
    <3> QED BY <2>1, <3>1, <3>2, <3>3 DEF ChecksFor
  <2>2. g = "emit" /\ NewCheck(st.step.channel) \notin ChecksFor(st, g)
          => AuthBound(state)'
    BY <1>1 DEF ChecksFor, AuthBound
  <2>3. /\ NoLookup \in [check : {NoCheck}, left : {<< >>}, half : {FALSE},
                         matches : {{}}]
    BY DEF NoLookup
  <2>4. /\ lookup' \in [check : {lookup.check}, left : {lookup.left},
                        half : BOOLEAN, matches : {lookup.matches}]'
        /\ lookup'.check = NoCheck /\ lookup'.half = FALSE
        /\ lookup'.left = << >> /\ lookup'.matches = {}
    BY <1>1, <2>3
  <2>5. NewCheck(state.step.channel)' = NewCheck(st.step.channel)
    BY <1>1 DEF NewCheck, Check
  <2> QED BY <1>1, <2>1, <2>2, <2>4, <2>5 DEF Checks
<1> QED BY <1>4, <1>5, <1>6 DEF Shape

(* An attempt that ends keeps what it knows. *)
LEMMA EndShape ==
  ASSUME Shape, UNCHANGED <<scenario, auths, changes, plannerVars, writerVars>>,
         pc' \in {"proposed", "refused"}
  PROVE  Shape'
<1> USE DEF plannerVars, writerVars
<1>1. /\ op' = op /\ config' = config /\ snapshot' = snapshot /\ ScenarioShape'
      /\ Usable' = Usable
      /\ \A c : Pages(c)' = Pages(c)
  BY SameScenario, SamePages DEF Shape, Types
<1>2. StateShape(state)'
  BY SameState DEF Shape, Types
<1>3. FetchRecord' = FetchRecord
  BY <1>1 DEF FetchRecord
<1>4. Types'
  BY <1>1, <1>2, <1>3 DEF Shape, Types
<1>5. Progress'
  BY <1>1 DEF Shape, Progress, Planning
<1>6. Checks'
  BY DEF Checks
<1> QED BY <1>4, <1>5, <1>6 DEF Shape

(* The channels of what was fetched are natural numbers. *)
LEMMA FetchedChannels ==
  ASSUME Shape
  PROVE  /\ \A i \in DOMAIN fetched : fetched[i] \in FetchRecord
         /\ \A i \in DOMAIN fetched : fetched[i].channel \in DOMAIN config
         /\ DOMAIN config \subseteq Nat
<1>1. fetched \in Seq(FetchRecord) /\ DOMAIN config \subseteq Nat
  BY DEF Shape, Types, ScenarioShape
<1>2. \A i \in DOMAIN fetched : fetched[i] \in FetchRecord
  BY <1>1
<1> QED BY <1>1, <1>2 DEF FetchRecord

(* The next fetch, or the end, is prepared from a state that knows all it fetched. *)
LEMMA ProceedShape ==
  ASSUME Shape, NEW st, Proceed(st), StateShape(st),
         \A c \in DOMAIN config : Pages(c) # {} => c \in DOMAIN st.bound,
         \/ fetched = << >> /\ st.step.kind = Empty
         \/ /\ st.step.kind # Empty
            /\ \A i \in DOMAIN fetched : fetched[i].channel <= st.step.channel
  PROVE  /\ Shape'
         /\ \E next, g : /\ Prepare(next, g) /\ g \in {"emit", "finish"}
                         /\ next.bound = st.bound /\ StateShape(next)
<1> DEFINE next == nextStep(st).state
           g == IF nextStep(st).found THEN "emit" ELSE "finish"
<1>1. /\ StateShape(next) /\ next.bound = st.bound
      /\ nextStep(st).found => Follows(st, next)
  BY NextStep DEF Shape, Types
<1>2. Prepare(next, g)
  BY DEF Proceed
<1>3. \A i \in DOMAIN fetched : fetched[i].channel \in Nat
  BY FetchedChannels
<1>4. st.step.channel \in Nat /\ next.step.channel \in Nat
  <2>1. DOMAIN config \subseteq Nat
    BY FetchedChannels
  <2> QED BY <2>1, <1>1 DEF StateShape, StepShape
<1>5. g # "finish" =>
        /\ next.step.kind # Empty
        /\ \A i \in DOMAIN fetched : fetched[i].channel <= next.step.channel
  <2> SUFFICES ASSUME g # "finish"
               PROVE  /\ next.step.kind # Empty
                      /\ \A i \in DOMAIN fetched :
                           fetched[i].channel <= next.step.channel
    OBVIOUS
  <2>1. next.step.kind # Empty /\ st.step.channel <= next.step.channel
    BY <1>1 DEF Follows
  <2>2. CASE fetched = << >>
    BY <2>1, <2>2
  <2>3. CASE \A i \in DOMAIN fetched : fetched[i].channel <= st.step.channel
    <3> HIDE DEF next
    <3>1. ASSUME NEW i \in DOMAIN fetched
          PROVE  fetched[i].channel <= next.step.channel
      BY <1>3, <1>4, <2>1, <2>3
    <3> QED BY <2>1, <3>1
  <2> QED BY <2>2, <2>3
<1>6. g = "emit" =>
        (next.step.kind \in CatalogKind /\ next.step.after = Empty =>
           Pages(next.step.channel) = {})
  <2> SUFFICES ASSUME nextStep(st).found, next.step.kind \in CatalogKind,
                      next.step.after = Empty
               PROVE  Pages(next.step.channel) = {}
    OBVIOUS
  <2>1. CASE fetched = << >>
    BY <2>1 DEF Pages
  <2>2. CASE /\ st.step.kind # Empty
             /\ \A i \in DOMAIN fetched : fetched[i].channel <= st.step.channel
    <3>1. st.step.channel < next.step.channel
      BY <1>1, <2>2, Zenon DEF Follows
    <3> HIDE DEF next
    <3>2. ASSUME NEW i \in DOMAIN fetched
          PROVE  fetched[i].channel # next.step.channel
      BY <1>3, <1>4, <2>2, <3>1
    <3> QED BY <3>2 DEF Pages
  <2> QED BY <2>1, <2>2
<1> HIDE DEF next
<1>7. g \in {"consume", "emit", "finish"} /\ g # "consume"
  OBVIOUS
<1>8. Shape'
  <2> HIDE DEF g
  <2> QED BY <1>1, <1>2, <1>5, <1>6, <1>7, PrepareShape
<1> QED BY <1>1, <1>2, <1>8

(* Shape is kept by Start. *)
LEMMA StartShape == Shape /\ Start => Shape'
<1> SUFFICES ASSUME Shape, Start PROVE Shape'
  OBVIOUS
<1>1. /\ Proceed(EmptyState) /\ fetched = << >> /\ state = EmptyState
      /\ StateShape(EmptyState)
  BY DEF Start, Shape, Types
<1>2. EmptyState.step.kind = Empty
  BY DEF EmptyState, NoStep
<1>3. \A c \in DOMAIN config : Pages(c) = {}
  BY <1>1 DEF Pages
<1> QED BY <1>1, <1>2, <1>3, ProceedShape

(* Shape is kept by Continue. *)
LEMMA ContinueShape == Shape /\ Continue => Shape'
<1> SUFFICES ASSUME Shape, Continue PROVE Shape'
  OBVIOUS
<1>1. CASE Prepare(state, "consume")
  <2>1. StateShape(state) /\ pc = "continue"
    BY DEF Continue, Shape, Types
  <2>2. /\ \A c \in DOMAIN config : Pages(c) # {} => c \in DOMAIN state.bound
        /\ state.step.kind # Empty
        /\ \A i \in DOMAIN fetched : fetched[i].channel <= state.step.channel
        /\ state.step.kind # "invalid" /\ AuthBound(state)
    BY <2>1 DEF Shape, Progress
  <2> QED BY <1>1, <2>1, <2>2, PrepareShape
<1>2. CASE Refuse("planner", "continuation")
  BY <1>2, EndShape DEF Refuse
<1> QED BY <1>1, <1>2 DEF Continue

(* A catalog that is read changes neither the bound credentials nor where the step
   is. *)
LEMMA ConsumeFetch ==
  ASSUME ScenarioShape, NEW st, StateShape(st), NEW b,
         st.step.kind \in CatalogKind \cup PublicKind
  PROVE  /\ StateShape(consumeFetch(st, b))
         /\ consumeFetch(st, b).bound = st.bound
         /\ consumeFetch(st, b).step.kind = st.step.kind
         /\ consumeFetch(st, b).step.channel = st.step.channel
<1> DEFINE next == consumeFetch(st, b)
<1>1. CASE st.step.kind = "openai_models"
  <2>1. next = [st EXCEPT !.upstream = b.entries]
    BY <1>1 DEF consumeFetch
  <2>2. IsState(next) /\ next.bound = st.bound /\ next.step = st.step
    BY <2>1 DEF StateShape, IsState
  <2> QED BY <2>2 DEF StateShape
<1>2. CASE st.step.kind = "claude_models"
  <2> DEFINE after == IF b.more THEN b.cursor ELSE Empty
             cursors == IF b.more THEN st.cursors \cup {b.cursor} ELSE {}
             upstream == Joined(b.entries, st.upstream)
  <2>1. next = [st EXCEPT !.upstream = upstream, !.step.after = after,
                          !.cursors = cursors]
    BY <1>2 DEF consumeFetch
  <2> HIDE DEF after, cursors, upstream
  <2>2. /\ next \in [step : {next.step}, upstream : {next.upstream},
                   modelparams : {next.modelparams}, modelsdev : {next.modelsdev},
                   bound : {next.bound}, cursors : {next.cursors},
                   results : {next.results}]
        /\ next.bound = st.bound /\ next.step = [st.step EXCEPT !.after = after]
    BY <2>1 DEF StateShape, IsState
  <2>3. /\ IsStep(next.step) /\ next.step.kind = st.step.kind
        /\ next.step.channel = st.step.channel /\ next.step.auth = st.step.auth
    BY <2>2 DEF StateShape, IsState, IsStep
  <2>4. StepShape(next.step)
    <3> HIDE DEF next
    <3> QED BY <1>2, <2>3 DEF StateShape, StepShape
  <2> QED BY <2>2, <2>3, <2>4 DEF StateShape, IsState
<1>3. CASE st.step.kind \in PublicKind
  <2>1. next = [st EXCEPT ![st.step.kind] = b]
    BY <1>3 DEF consumeFetch, PublicKind
  <2>2. IsState(next) /\ next.bound = st.bound /\ next.step = st.step
    BY <1>3, <2>1 DEF StateShape, IsState, PublicKind
  <2> QED BY <2>2 DEF StateShape
<1> QED BY <1>1, <1>2, <1>3 DEF CatalogKind

(* Shape is kept by Consume. *)
LEMMA ConsumeShape == Shape /\ Consume => Shape'
<1> SUFFICES ASSUME Shape, Consume PROVE Shape'
  OBVIOUS
<1> DEFINE b == parseCatalog(op, state.step.kind, body)
           st == consumeFetch(state, b)
<1>1. CASE Proceed(st)
  <2>1. Planning("consume") /\ StateShape(state)
    BY DEF Consume, Ready, Planning, Shape, Types
  <2>2. /\ \A c \in DOMAIN config : Pages(c) # {} => c \in DOMAIN state.bound
        /\ state.step.kind # Empty
        /\ \A i \in DOMAIN fetched : fetched[i].channel <= state.step.channel
        /\ state.step.kind # "invalid"
    BY <2>1 DEF Shape, Progress
  <2>3. state.step.kind \in CatalogKind \cup PublicKind
    BY <2>1, <2>2 DEF StateShape, StepShape
  <2>4. /\ StateShape(st) /\ st.bound = state.bound
        /\ st.step.kind = state.step.kind /\ st.step.channel = state.step.channel
    BY <2>1, <2>3, ConsumeFetch DEF Shape, Types
  <2> HIDE DEF st
  <2> QED BY <1>1, <2>2, <2>4, ProceedShape
<1>2. CASE Refuse("planner", "catalog")
  BY <1>2, EndShape DEF Refuse
<1> QED BY <1>1, <1>2 DEF Consume

-----------------------------------------------------------------------------
(* The credentials, as a list tells of them. *)
Identities == {Identity(a, x) : a \in Usable, x \in Auth}

(* A listed credential is one of the host. *)
LEMMA IdentityFields ==
  ASSUME NEW m \in Identities
  PROVE  m.index \in Usable
BY DEF Identities, Identity

(* The list has active credentials only. *)
LEMMA ListedShape ==
  ASSUME auths \in [AuthIndex -> Auth], NEW kind
  PROVE  /\ Listed(kind) \in Seq(Identities)
         /\ \A i \in DOMAIN Listed(kind) :
              auths[Listed(kind)[i].index].status = "active"
<1> DEFINE S == {a \in Usable : auths[a].status = "active"
                                /\ auths[a].provider = kind}
           names == SetToSeq(S)
<1>1. IsFiniteSet(S)
  <2>1. S \subseteq AuthIndex
    BY UsableIndex
  <2> QED BY <2>1, AuthAssumption, FS_Subset, Zenon
<1>2. Cardinality(S) \in Nat /\ names \in [1..Cardinality(S) -> S]
  <2>1. Cardinality(S) \in Nat /\ ExistsBijection(1..Cardinality(S), S)
    BY <1>1, FS_CardinalityType, Zenon
  <2>2. \E f \in [1..Cardinality(S) -> S] : IsInjective(f)
    BY <2>1, Zenon DEF ExistsBijection, Bijection, Injection
  <2> QED BY <2>1, <2>2, Zenon DEF SetToSeq
<1>3. \A a \in S : a \in Usable /\ auths[a].status = "active"
  OBVIOUS
<1>4. Listed(kind) = [i \in DOMAIN names |-> Identity(names[i], auths[names[i]])]
  BY Zenon DEF Listed
<1> HIDE DEF S, names
<1>5. ASSUME NEW i \in DOMAIN names
      PROVE  /\ names[i] \in Usable /\ auths[names[i]] \in Auth
             /\ auths[names[i]].status = "active"
  BY <1>2, <1>3, <1>5, UsableIndex
<1>6. ASSUME NEW i \in DOMAIN names
      PROVE  /\ Identity(names[i], auths[names[i]]) \in Identities
             /\ Identity(names[i], auths[names[i]]).index = names[i]
  BY <1>5, <1>6 DEF Identities, Identity
<1>7. DOMAIN names = 1..Cardinality(S)
  BY <1>2
<1>8. Listed(kind) \in [1..Cardinality(S) -> Identities]
  BY <1>4, <1>6, <1>7
<1>9. Listed(kind) \in Seq(Identities)
  BY <1>2, <1>8
<1> QED BY <1>4, <1>5, <1>6, <1>9

(* A step of a lookup. *)
LEMMA LookupShape ==
  ASSUME Shape, pc = "planning",
         UNCHANGED <<scenario, auths, changes, pc, state, goal, todo, writerVars>>,
         lookup' \in [check : {lookup'.check}, left : {lookup'.left},
                      half : BOOLEAN, matches : {lookup'.matches}],
         lookup'.check \in todo, lookup'.check # NoCheck,
         lookup'.half => lookup'.left # << >>,
         lookup'.left \in Seq(Identities),
         \A m \in lookup'.matches :
           /\ m.index \in Usable
           /\ m.base = config[lookup'.check.channel].base
  PROVE  Shape'
<1> USE DEF writerVars
<1>1. /\ op' = op /\ config' = config /\ snapshot' = snapshot /\ ScenarioShape'
      /\ Usable' = Usable
      /\ \A c : Pages(c)' = Pages(c)
  BY SameScenario, SamePages DEF Shape, Types
<1>2. StateShape(state)' /\ (AuthBound(state) => AuthBound(state)')
  BY SameState DEF Shape, Types
<1>3. FetchRecord' = FetchRecord
  BY <1>1 DEF FetchRecord
<1>4. Types'
  BY <1>1, <1>2, <1>3 DEF Shape, Types
<1>5. Progress'
  BY <1>1, <1>2 DEF Shape, Progress, Planning
<1>6. Checks'
  <2>1. \A check : (OfBound(check) => OfBound(check)') /\ (OfStep(check) => OfStep(check)')
    BY <1>1 DEF OfBound, OfStep, NewCheck, Check
  <2>2. NewCheck(state.step.channel)' = NewCheck(state.step.channel)
    BY DEF NewCheck, Check
  <2>3. goal # "none" /\ \A check \in todo : OfBound(check) \/ OfStep(check)
    BY DEF Shape, Checks
  <2>4. goal = "emit" /\ NewCheck(state.step.channel) \notin todo => AuthBound(state)
    BY DEF Shape, Checks
  <2> QED BY <1>1, <1>2, <2>1, <2>2, <2>3, <2>4 DEF Checks, Identities
<1> QED BY <1>4, <1>5, <1>6 DEF Shape

(* A check is of a channel that is configured. *)
LEMMA ChecksAreSome ==
  ASSUME Shape, pc = "planning", NEW check \in todo
  PROVE  check # NoCheck /\ check.channel \in DOMAIN config
<1>1. OfBound(check) \/ OfStep(check)
  BY DEF Shape, Checks
<1>2. ScenarioShape /\ StepShape(state.step) /\ BoundShape(state.bound)
  BY DEF Shape, Types, StateShape
<1>3. check.channel \in DOMAIN config
  BY <1>1, <1>2, EmptyIsNoKind
     DEF OfBound, OfStep, NewCheck, Check, StepShape, BoundShape
<1>4. NoCheck.channel = 0 /\ 0 \notin DOMAIN config
  BY <1>2 DEF NoCheck, ScenarioShape
<1> QED BY <1>3, <1>4

(* Shape is kept by ListAuths. *)
LEMMA ListAuthsShape == Shape /\ ListAuths => Shape'
<1> SUFFICES ASSUME Shape, ListAuths PROVE Shape'
  OBVIOUS
<1>1. PICK check \in todo : lookup' = [NoLookup EXCEPT
            !.check = check, !.left = Listed(config[check.channel].kind)]
  BY DEF ListAuths
<1> DEFINE left == Listed(config[check.channel].kind)
<1>2. left \in Seq(Identities)
  BY ListedShape DEF Shape, Types
<1>3. check # NoCheck
  BY ChecksAreSome DEF ListAuths
<1> HIDE DEF left
<1>4. lookup' \in [check : {check}, left : {left}, half : {FALSE}, matches : {{}}]
  <2>1. NoLookup \in [check : {NoCheck}, left : {<< >>}, half : {FALSE},
                      matches : {{}}]
    BY DEF NoLookup
  <2> QED BY <1>1, <2>1 DEF left
<1>5. /\ lookup'.check = check /\ lookup'.left = left /\ lookup'.half = FALSE
      /\ lookup'.matches = {}
  BY <1>4
<1> QED BY <1>2, <1>3, <1>4, <1>5, LookupShape DEF ListAuths

(* Shape is kept by GetRuntime. *)
LEMMA GetRuntimeShape == Shape /\ GetRuntime => Shape'
<1> SUFFICES ASSUME Shape, GetRuntime PROVE Shape'
  OBVIOUS
<1>1. CASE Refuse("planner", "credential")
  BY <1>1, EndShape DEF Refuse
<1>2. CASE /\ lookup' = [lookup EXCEPT !.half = TRUE]
           /\ UNCHANGED <<scenario, auths, changes, pc, state, goal, todo,
                          writerVars, outcome>>
  <2>1. /\ lookup \in [check : {lookup.check}, left : {lookup.left},
                       half : BOOLEAN, matches : {lookup.matches}]
        /\ lookup.check \in todo /\ lookup.check # NoCheck /\ lookup.left # << >>
        /\ lookup.left \in Seq(Identities)
        /\ \A m \in lookup.matches :
             m.index \in Usable /\ m.base = config[lookup.check.channel].base
    BY DEF GetRuntime, Looking, Shape, Checks, Identities
  <2>2. lookup' \in [check : {lookup.check}, left : {lookup.left}, half : {TRUE},
                     matches : {lookup.matches}]
    BY <1>2, <2>1
  <2>3. /\ lookup'.check = lookup.check /\ lookup'.left = lookup.left
        /\ lookup'.matches = lookup.matches /\ lookup'.half = TRUE
    BY <2>2
  <2> QED BY <1>2, <2>1, <2>2, <2>3, LookupShape DEF GetRuntime, Looking
<1> QED BY <1>1, <1>2 DEF GetRuntime

(* What a physical look finds. *)
Suits(now) ==
  LET spec == config[lookup.check.channel] IN
  /\ now.base = spec.base
  /\ spec.kind = "claude" => now.label = spec.label

(* A physical look takes the first of the list, and adds it when it suits. *)
LEMMA GetPhysicalFinds ==
  ASSUME Shape, GetPhysical, ~Refuse("planner", "credential")
  PROVE  LET listed == Head(lookup.left)
             found == Identity(listed.index, auths[listed.index])
         IN  /\ UNCHANGED <<scenario, auths, changes, pc, state, goal, todo,
                            writerVars, outcome>>
             /\ lookup'.check = lookup.check /\ lookup.check # NoCheck
             /\ lookup'.left = Tail(lookup.left) /\ lookup'.half = FALSE
             /\ lookup.left # << >> /\ lookup.left \in Seq(Identities)
             /\ lookup'.left \in Seq(Identities)
             /\ lookup' \in [check : {lookup'.check}, left : {lookup'.left},
                             half : BOOLEAN, matches : {lookup'.matches}]
             /\ listed \in Identities
             /\ lookup'.matches = IF Suits(auths[listed.index])
                                  THEN lookup.matches \cup {found}
                                  ELSE lookup.matches
<1> DEFINE listed == Head(lookup.left)
           found == Identity(listed.index, auths[listed.index])
           matches == IF Suits(auths[listed.index])
                      THEN lookup.matches \cup {found} ELSE lookup.matches
<1>1. /\ lookup \in [check : {lookup.check}, left : {lookup.left},
                     half : BOOLEAN, matches : {lookup.matches}]
      /\ lookup.check # NoCheck /\ lookup.left # << >>
      /\ lookup.left \in Seq(Identities)
  BY DEF GetPhysical, Looking, Shape, Checks, Identities
<1>2. listed \in Identities /\ Tail(lookup.left) \in Seq(Identities)
  BY <1>1
<1>3. /\ lookup' = [lookup EXCEPT !.half = FALSE, !.left = Tail(@),
                                  !.matches = matches]
      /\ UNCHANGED <<scenario, auths, changes, pc, state, goal, todo,
                     writerVars, outcome>>
  BY DEF GetPhysical, Suits
<1> HIDE DEF matches, listed
<1>4. lookup' \in [check : {lookup.check}, left : {Tail(lookup.left)}, half : {FALSE},
                   matches : {matches}]
  BY <1>1, <1>3
<1>5. /\ lookup'.check = lookup.check /\ lookup'.left = Tail(lookup.left)
      /\ lookup'.matches = matches /\ lookup'.half = FALSE
  BY <1>4
<1>6. lookup' \in [check : {lookup'.check}, left : {lookup'.left},
                   half : BOOLEAN, matches : {lookup'.matches}]
  BY <1>4, <1>5
<1> QED BY <1>1, <1>2, <1>3, <1>5, <1>6 DEF matches, listed

(* Shape is kept by GetPhysical. *)
LEMMA GetPhysicalShape == Shape /\ GetPhysical => Shape'
<1> SUFFICES ASSUME Shape, GetPhysical PROVE Shape'
  OBVIOUS
<1>1. CASE Refuse("planner", "credential")
  BY <1>1, EndShape DEF Refuse
<1>2. CASE ~Refuse("planner", "credential")
  <2> DEFINE listed == Head(lookup.left)
             found == Identity(listed.index, auths[listed.index])
  <2>1. /\ lookup.check \in todo /\ pc = "planning"
        /\ \A m \in lookup.matches :
             m.index \in Usable
               /\ (lookup.check # NoCheck => m.base = config[lookup.check.channel].base)
    BY DEF GetPhysical, Looking, Shape, Checks
  <2>2. /\ UNCHANGED <<scenario, auths, changes, pc, state, goal, todo, writerVars>>
        /\ lookup'.check = lookup.check /\ lookup.check # NoCheck
        /\ lookup'.half = FALSE /\ lookup'.left \in Seq(Identities)
        /\ lookup' \in [check : {lookup'.check}, left : {lookup'.left},
                        half : BOOLEAN, matches : {lookup'.matches}]
        /\ listed \in Identities
        /\ lookup'.matches = IF Suits(auths[listed.index])
                             THEN lookup.matches \cup {found} ELSE lookup.matches
    BY <1>2, GetPhysicalFinds
  <2>3. found.index = listed.index /\ found.base = auths[listed.index].base
    BY DEF Identity
  <2>4. listed.index \in Usable
    BY <2>2, IdentityFields
  <2>5. ASSUME NEW m \in lookup'.matches
        PROVE  m.index \in Usable /\ m.base = config[lookup'.check.channel].base
    <3> HIDE DEF listed, found
    <3> QED BY <2>1, <2>2, <2>3, <2>4, <2>5 DEF Suits
  <2> HIDE DEF listed, found
  <2> QED BY <2>1, <2>2, <2>5, LookupShape
<1> QED BY <1>1, <1>2

-----------------------------------------------------------------------------
(* A credential that is found is bound to its channel. *)
IsNew(check) == goal = "emit" /\ check.index = Empty

(* A check that succeeds has found one credential. *)
LEMMA ResolveFinds ==
  ASSUME Shape, Resolve, ~Refuse("planner", "credential")
  PROVE  \E m :
           LET check == lookup.check
               c == check.channel
               new == IsNew(check)
           IN  /\ UNCHANGED <<scenario, auths, changes, pc, goal, writerVars, outcome>>
               /\ lookup.matches = {m} /\ check.index \in {Empty, m.index}
               /\ check.identity \in {NoIdentity, m}
               /\ new /\ op = "metadata" => Binds(state, c, m)
               /\ check \in todo /\ pc = "planning"
               /\ todo' = todo \ {check} /\ lookup' = NoLookup
               /\ state' = IF new THEN [state EXCEPT !.step.auth = m.index,
                                                     !.bound = BindTo(@, c, m)]
                           ELSE state
<1>1. lookup.check \in todo /\ pc = "planning"
  BY DEF Resolve, Looking, Shape, Checks
<1>2. \E m \in lookup.matches :
        /\ lookup.matches = {m}
        /\ lookup.check.index \in {Empty, m.index}
        /\ lookup.check.identity \in {NoIdentity, m}
        /\ IsNew(lookup.check) /\ op = "metadata" => Binds(state, lookup.check.channel, m)
  BY Zenon DEF Resolve, IsNew
<1>3. PICK m \in lookup.matches :
        /\ lookup.matches = {m}
        /\ lookup.check.index \in {Empty, m.index}
        /\ lookup.check.identity \in {NoIdentity, m}
        /\ IsNew(lookup.check) /\ op = "metadata" => Binds(state, lookup.check.channel, m)
  BY <1>2
<1>4. (CHOOSE x \in lookup.matches : TRUE) = m
  BY <1>3
<1>5. /\ state' = IF IsNew(lookup.check)
                  THEN [state EXCEPT !.step.auth = m.index,
                                     !.bound = BindTo(@, lookup.check.channel, m)]
                  ELSE state
      /\ todo' = todo \ {lookup.check} /\ lookup' = NoLookup
      /\ UNCHANGED <<scenario, auths, changes, pc, goal, writerVars, outcome>>
  BY <1>2, <1>4, Zenon DEF Resolve, IsNew
<1> QED BY <1>1, <1>3, <1>5, Zenon

(* A new check is that of the step; the others are of bound credentials. *)
LEMMA CheckIsNew ==
  ASSUME Shape, pc = "planning", NEW check \in todo
  PROVE  /\ IsNew(check) => OfStep(check)
         /\ ~IsNew(check) => OfBound(check)
         /\ OfBound(check) => check.index \in Usable /\ check.index # Empty
<1>1. OfBound(check) \/ OfStep(check)
  BY DEF Shape, Checks
<1>2. OfBound(check) => check.index \in Usable /\ check.index # Empty
  BY UsableIndex DEF Shape, Types, StateShape, BoundShape, OfBound
<1>3. OfStep(check) => IsNew(check)
  BY DEF OfStep, IsNew, NewCheck, Check
<1> QED BY <1>1, <1>2, <1>3 DEF IsNew

(* The state after a new credential was bound to the channel of the step. *)
LEMMA BoundState ==
  ASSUME StateShape(state), NEW m, NEW c, state.step.kind \in CatalogKind,
         state' = [state EXCEPT !.step.auth = m.index, !.bound = BindTo(@, c, m)]
  PROVE  /\ IsState(state')
         /\ state'.bound = BindTo(state.bound, c, m)
         /\ state'.step.auth = m.index /\ state'.step.kind = state.step.kind
         /\ state'.step.channel = state.step.channel
         /\ state'.step.after = state.step.after
<1> DEFINE bound == BindTo(state.bound, c, m)
<1>1. state' = [state EXCEPT !.step.auth = m.index, !.bound = bound]
  OBVIOUS
<1> HIDE DEF bound
<1>2. /\ state' \in [step : {state'.step}, upstream : {state'.upstream},
                     modelparams : {state'.modelparams},
                     modelsdev : {state'.modelsdev}, bound : {state'.bound},
                     cursors : {state'.cursors}, results : {state'.results}]
      /\ state'.bound = bound
      /\ state'.step = [state.step EXCEPT !.auth = m.index]
  BY <1>1 DEF StateShape, IsState
<1>3. /\ IsStep(state'.step) /\ state'.step.kind = state.step.kind
      /\ state'.step.channel = state.step.channel
      /\ state'.step.after = state.step.after /\ state'.step.auth = m.index
  BY <1>2 DEF StateShape, IsState, IsStep
<1> QED BY <1>2, <1>3 DEF IsState, bound

(* Shape is kept by Resolve. *)
LEMMA ResolveShape == Shape /\ Resolve => Shape'
<1> SUFFICES ASSUME Shape, Resolve PROVE Shape'
  OBVIOUS
<1>1. CASE Refuse("planner", "credential")
  BY <1>1, EndShape DEF Refuse
<1>2. CASE ~Refuse("planner", "credential")
  <2> DEFINE check == lookup.check
             c == check.channel
  <2>1. PICK m :
          /\ UNCHANGED <<scenario, auths, changes, pc, goal, writerVars, outcome>>
          /\ lookup.matches = {m}
          /\ check.identity \in {NoIdentity, m}
          /\ IsNew(check) /\ op = "metadata" => Binds(state, c, m)
          /\ check \in todo /\ pc = "planning"
          /\ todo' = todo \ {check} /\ lookup' = NoLookup
          /\ state' = IF IsNew(check)
                      THEN [state EXCEPT !.step.auth = m.index,
                                         !.bound = BindTo(@, c, m)]
                      ELSE state
    BY <1>2, ResolveFinds
  <2>2. UNCHANGED <<scenario, auths, changes, pc, goal, desc, fetched>>
    BY <2>1 DEF writerVars
  <2>3. /\ op' = op /\ config' = config /\ snapshot' = snapshot /\ ScenarioShape'
        /\ Usable' = Usable
        /\ \A k : Pages(k)' = Pages(k)
        /\ FetchRecord' = FetchRecord
    <3>1. /\ op' = op /\ config' = config /\ snapshot' = snapshot /\ ScenarioShape'
          /\ Usable' = Usable
          /\ \A k : Pages(k)' = Pages(k)
      BY <2>2, SameScenario, SamePages DEF Shape, Types
    <3> QED BY <3>1, <2>2 DEF FetchRecord
  <2>4. check # NoCheck /\ c \in DOMAIN config
    BY <2>1, ChecksAreSome
  <2>5. m.index \in Usable /\ m.base = config[c].base
    BY <2>1, <2>4 DEF Shape, Checks
  <2>6. /\ IsNew(check) => OfStep(check)
        /\ ~IsNew(check) => OfBound(check) /\ check.index # Empty
    BY <2>1, CheckIsNew
  <2>7. /\ NoLookup \in [check : {NoCheck}, left : {<< >>}, half : {FALSE},
                         matches : {{}}]
    BY DEF NoLookup
  <2>8. /\ lookup' \in [check : {lookup.check}, left : {lookup.left},
                        half : BOOLEAN, matches : {lookup.matches}]'
        /\ lookup'.check = NoCheck /\ lookup'.half = FALSE
        /\ lookup'.left = << >> /\ lookup'.matches = {} /\ lookup' = NoLookup
    BY <2>1, <2>7
  <2>9. goal # "none" /\ \A other \in todo : OfBound(other) \/ OfStep(other)
    BY <2>1 DEF Shape, Checks
  <2> HIDE DEF check, c
  <2>10. CASE ~IsNew(check)
    <3>1. state' = state
      BY <2>1, <2>10
    <3>2. StateShape(state)' /\ (AuthBound(state) => AuthBound(state)')
      BY <2>2, <3>1, SameState DEF Shape, Types
    <3>3. Types'
      BY <2>2, <2>3, <3>2, <3>1 DEF Shape, Types
    <3>4. Progress'
      BY <2>2, <2>3, <3>1, <3>2 DEF Shape, Progress, Planning
    <3>5. \A x : (OfBound(x) => OfBound(x)') /\ (OfStep(x) => OfStep(x)')
      BY <2>2, <2>3, <3>1 DEF OfBound, OfStep, NewCheck, Check
    <3>6. /\ NewCheck(state.step.channel)' = NewCheck(state.step.channel)
          /\ NewCheck(state.step.channel) # check
      BY <2>6, <2>10, <3>1 DEF NewCheck, Check
    <3>7. goal = "emit" /\ NewCheck(state.step.channel) \notin todo => AuthBound(state)
      BY <2>1 DEF Shape, Checks
    <3>8. Checks'
      BY <2>1, <2>2, <2>8, <2>9, <3>2, <3>5, <3>6, <3>7 DEF Checks
    <3> QED BY <3>3, <3>4, <3>8 DEF Shape
  <2>11. CASE IsNew(check)
    <3>1. /\ check = NewCheck(state.step.channel) /\ c = state.step.channel
          /\ goal = "emit" /\ state.step.kind \in CatalogKind
      BY <2>6, <2>11 DEF OfStep, NewCheck, Check, c
    <3>2. StateShape(state)
      BY DEF Shape, Types
    <3>3. /\ IsState(state') /\ state'.bound = BindTo(state.bound, c, m)
          /\ state'.step.auth = m.index /\ state'.step.kind = state.step.kind
          /\ state'.step.channel = state.step.channel
          /\ state'.step.after = state.step.after
      <4>1. state' = [state EXCEPT !.step.auth = m.index, !.bound = BindTo(@, c, m)]
        BY <2>1, <2>11
      <4>2. state.step.kind \in CatalogKind
        BY <3>1
      <4> QED BY <3>2, <4>1, <4>2, BoundState
    <3>4. /\ DOMAIN state'.bound = DOMAIN state.bound \cup {c}
          /\ state'.bound = [k \in DOMAIN state'.bound |-> state'.bound[k]]
          /\ state'.bound[c] = m
          /\ \A k \in DOMAIN state.bound : k # c => state'.bound[k] = state.bound[k]
      <4> DEFINE old == state.bound
                 new == BindTo(old, c, m)
      <4>1. /\ DOMAIN new = DOMAIN old \cup {c} /\ new = [k \in DOMAIN new |-> new[k]]
            /\ new[c] = m /\ \A k \in DOMAIN old : k # c => new[k] = old[k]
        <5>1. new = [k \in DOMAIN old \cup {c} |-> IF k = c THEN m ELSE old[k]]
          BY DEF BindTo
        <5> HIDE DEF new, old
        <5> QED BY <5>1
      <4>2. state'.bound = new
        BY <3>3
      <4> QED BY <4>1, <4>2
    <3>5. StateShape(state)'
      <4>1. StepShape(state.step)'
        BY <2>3, <2>5, <3>1, <3>2, <3>3 DEF StateShape, StepShape
      <4>2. BoundShape(state.bound)'
        BY <2>3, <2>4, <2>5, <3>2, <3>4 DEF StateShape, BoundShape
      <4>3. IsState(state)'
        BY <3>3 DEF IsState, IsStep
      <4> QED BY <4>1, <4>2, <4>3 DEF StateShape
    <3>6. AuthBound(state)'
      BY <3>1, <3>3, <3>4 DEF AuthBound
    <3>7. Types'
      BY <2>1, <2>2, <2>3, <3>5 DEF Shape, Types
    <3>8. Progress'
      <4>1. \A k \in DOMAIN config : Pages(k)' # {} => k \in DOMAIN state'.bound
        BY <2>3, <3>4 DEF Shape, Progress
      <4>2. /\ state'.step.kind # Empty
            /\ \A i \in DOMAIN fetched : fetched[i].channel <= state'.step.channel
        BY <2>1, <3>1, <3>3 DEF Shape, Progress, Planning
      <4>3. state'.step.kind \in CatalogKind /\ state'.step.after = Empty =>
              Pages(state.step.channel)' = {}
        <5>1. Pages(state.step.channel)' = Pages(state.step.channel)
          BY <2>2, <3>3 DEF Pages
        <5> QED BY <2>1, <3>1, <3>3, <5>1 DEF Shape, Progress, Planning
      <4> QED BY <2>1, <2>2, <2>3, <3>1, <4>1, <4>2, <4>3 DEF Progress, Planning
    <3>9. ASSUME NEW other \in todo \ {check} PROVE OfBound(other)'
      <4>1. OfBound(other)
        BY <2>9, <3>1, <3>9 DEF OfStep
      <4>2. op = "metadata" /\ Binds(state, c, m)
        BY <2>1, <2>11, <3>1, <4>1 DEF OfBound
      <4>3. other.channel = c => state.bound[c] = m
        BY <4>1, <4>2 DEF OfBound, Binds
      <4> QED BY <2>3, <3>4, <4>1, <4>2, <4>3 DEF OfBound
    <3>10. Checks'
      BY <2>1, <2>2, <2>8, <2>9, <3>6, <3>9 DEF Checks
    <3> QED BY <3>7, <3>8, <3>10 DEF Shape
  <2> QED BY <2>10, <2>11
<1> QED BY <1>1, <1>2

-----------------------------------------------------------------------------
(* The headers of a request. *)
LEMMA AddedHeader ==
  ASSUME NEW h \in Headers, NEW name \in WriterSafe, NEW value \in HeaderValue
  PROVE  Adding(h, name, value) \in Headers
<1>1. PICK names \in SUBSET WriterSafe : h \in [names -> HeaderValue]
  BY DEF Headers
<1>2. Adding(h, name, value) \in [names \cup {name} -> HeaderValue]
  <2>1. Adding(h, name, value) = [n \in names \cup {name} |->
                                    IF n = name THEN value ELSE h[n]]
    BY <1>1 DEF Adding
  <2> QED BY <1>1, <2>1
<1> QED BY <1>2 DEF Headers

(* What a planner takes from an entry are headers of a request. *)
LEMMA SafeHeaders ==
  ASSUME NEW entry, entry.headers \in EntryHeaders
  PROVE  snapshotCatalogHeaders(entry) \in Headers
<1> DEFINE h == entry.headers
<1>1. PICK names \in SUBSET (PlannerSafe \cup Forbidden) :
        h \in [names -> HeaderValue]
  BY DEF EntryHeaders
<1>2. snapshotCatalogHeaders(entry) = [x \in names \cap PlannerSafe |-> h[x]]
  BY <1>1 DEF snapshotCatalogHeaders, HeadersIn, Restrict
<1>3. snapshotCatalogHeaders(entry) \in [names \cap PlannerSafe -> HeaderValue]
  BY <1>1, <1>2
<1>4. names \cap PlannerSafe \in SUBSET WriterSafe
  BY DEF WriterSafe
<1> QED BY <1>3, <1>4 DEF Headers

(* And so are those it sends. *)
LEMMA CatalogHeaders ==
  ASSUME NEW spec, NEW entry, entry.headers \in EntryHeaders
  PROVE  OpenAIHeaders(op, entry) \in Headers /\ ClaudeHeaders(spec, entry) \in Headers
<1> DEFINE safe == snapshotCatalogHeaders(entry)
<1>1. safe \in Headers
  BY SafeHeaders
<1>2. /\ "json" \in HeaderValue /\ "fixed" \in HeaderValue /\ "token" \in HeaderValue
      /\ "accept" \in WriterSafe /\ "anthropic-version" \in WriterSafe
      /\ "x-api-key" \in WriterSafe /\ "authorization" \in WriterSafe
  BY DEF HeaderValue, WriterSafe, PlannerSafe, Credential
<1>3. OpenAIHeaders(op, entry) \in Headers
  <2>1. \/ OpenAIHeaders(op, entry) =
             Adding(Adding(safe, "accept", "json"), "authorization", "token")
        \/ OpenAIHeaders(op, entry) = Adding(safe, "authorization", "token")
    BY Zenon DEF OpenAIHeaders
  <2> HIDE DEF safe
  <2>2. Adding(safe, "accept", "json") \in Headers
    BY <1>1, <1>2, AddedHeader
  <2> QED BY <1>1, <1>2, <2>1, <2>2, AddedHeader
<1>4. ClaudeHeaders(spec, entry) \in Headers
  <2>1. \/ ClaudeHeaders(spec, entry) =
             Adding(Adding(safe, "anthropic-version", "fixed"), "x-api-key", "token")
        \/ ClaudeHeaders(spec, entry) = Adding(safe, "x-api-key", "token")
        \/ ClaudeHeaders(spec, entry) = Adding(safe, "authorization", "token")
    BY DEF ClaudeHeaders
  <2> HIDE DEF safe
  <2>2. Adding(safe, "anthropic-version", "fixed") \in Headers
    BY <1>1, <1>2, AddedHeader
  <2> QED BY <1>1, <1>2, <2>1, <2>2, AddedHeader
<1> QED BY <1>3, <1>4

(* The entry of a channel that can be located. *)
LEMMA LocatedEntry ==
  ASSUME ScenarioShape, NEW c \in DOMAIN config, Locatable(snapshot, config[c])
  PROVE  Located(snapshot, config[c]).headers \in EntryHeaders
<1> DEFINE spec == config[c]
           entries == snapshot[spec.kind]
           found == Selected(snapshot, spec)
<1>1. entries \in Seq(Entry)
  BY DEF ScenarioShape
<1>2. found \subseteq DOMAIN entries
  BY DEF Selected
<1>3. found # {}
  <2>1. Cardinality(found) = 1
    BY DEF Locatable
  <2>2. Cardinality({}) = 0
    BY FS_EmptySet, Zenon
  <2> QED BY <2>1, <2>2
<1>4. Located(snapshot, spec) = entries[CHOOSE i \in found : TRUE]
  BY Zenon DEF Located
<1>5. (CHOOSE i \in found : TRUE) \in found
  BY <1>3
<1> HIDE DEF spec, entries, found
<1>6. Located(snapshot, spec) \in Entry
  BY <1>1, <1>2, <1>4, <1>5
<1> QED BY <1>6 DEF Entry, spec

(* The request a planner asks for is that of its step. *)
LEMMA DescriptorShape ==
  ASSUME Shape, Planning("emit"), NewCheck(state.step.channel) \notin todo,
         state.step.kind # "invalid",
         desc' = IF state.step.kind \in CatalogKind
                 THEN CatalogDescriptor(op, snapshot, config[state.step.channel],
                                        state.step.after, state.step.auth)
                 ELSE PublicDescriptor(state.step.kind)
  PROVE  /\ desc'.kind = state.step.kind /\ desc'.auth = state.step.auth
         /\ desc'.headers \in Headers /\ AuthBound(state)
<1>1. ScenarioShape /\ StepShape(state.step) /\ AuthBound(state)
  BY DEF Shape, Types, StateShape, Checks, Planning
<1>2. CASE state.step.kind \in CatalogKind
  <2> DEFINE c == state.step.channel
             spec == config[c]
             entry == Located(snapshot, spec)
  <2>1. /\ c \in DOMAIN config /\ state.step.kind = catalogKind(spec)
        /\ Locatable(snapshot, spec)
    BY <1>1, <1>2, EmptyIsNoKind DEF StepShape
  <2>2. entry.headers \in EntryHeaders
    BY <1>1, <2>1, LocatedEntry
  <2>3. OpenAIHeaders(op, entry) \in Headers /\ ClaudeHeaders(spec, entry) \in Headers
    BY <2>2, CatalogHeaders
  <2>4. desc' = CatalogDescriptor(op, snapshot, spec, state.step.after, state.step.auth)
    BY <1>2
  <2> HIDE DEF spec
  <2>5. /\ desc'.kind = catalogKind(spec) /\ desc'.auth = state.step.auth
        /\ desc'.headers = IF spec.kind = "claude" THEN ClaudeHeaders(spec, entry)
                           ELSE OpenAIHeaders(op, entry)
    BY <2>4 DEF CatalogDescriptor
  <2> QED BY <1>1, <2>1, <2>3, <2>5
<1>3. CASE state.step.kind \notin CatalogKind
  <2>1. state.step.auth = Empty
    BY <1>1, <1>3 DEF StepShape
  <2>2. Adding(<< >>, "accept", "json") \in Headers
    <3>1. << >> \in [{} -> HeaderValue]
      OBVIOUS
    <3>2. << >> \in Headers
      BY <3>1 DEF Headers
    <3> QED BY <3>2, AddedHeader
            DEF WriterSafe, PlannerSafe, HeaderValue
  <2>3. /\ desc'.kind = state.step.kind /\ desc'.auth = Empty
        /\ desc'.headers = Adding(<< >>, "accept", "json")
    BY <1>3 DEF PublicDescriptor
  <2> QED BY <1>1, <2>1, <2>2, <2>3
<1> QED BY <1>2, <1>3

(* JSON keeps the step and the bound credentials. *)
LEMMA RoundTripShape ==
  ASSUME NEW st, StateShape(st)
  PROVE  /\ StateShape(RoundTrip(st))
         /\ RoundTrip(st).step = st.step /\ RoundTrip(st).bound = st.bound
<1>1. PICK results : RoundTrip(st) = [st EXCEPT !.results = results]
  BY Zenon DEF RoundTrip
<1>2. /\ IsState(RoundTrip(st)) /\ RoundTrip(st).step = st.step
      /\ RoundTrip(st).bound = st.bound
  BY <1>1 DEF StateShape, IsState
<1> QED BY <1>2 DEF StateShape

-----------------------------------------------------------------------------
(* The steps of the Writer, Core and the host. *)
LEMMA EmitShape == Shape /\ Emit => Shape'
<1> SUFFICES ASSUME Shape, Emit PROVE Shape'
  OBVIOUS
<1>1. CASE Refuse("planner", "channel")
  BY <1>1, EndShape DEF Refuse
<1>2. CASE ~Refuse("planner", "channel")
  <2>1. Planning("emit") /\ NewCheck(state.step.channel) \notin todo
    BY DEF Emit, Ready, Planning
  <2>2. /\ state.step.kind # "invalid" /\ pc' = "offered"
        /\ desc' = IF state.step.kind \in CatalogKind
                   THEN CatalogDescriptor(op, snapshot, config[state.step.channel],
                                          state.step.after, state.step.auth)
                   ELSE PublicDescriptor(state.step.kind)
        /\ state' = IF op = "metadata" THEN RoundTrip(state) ELSE state
        /\ UNCHANGED <<scenario, auths, changes, goal, fetched>>
    BY <1>2 DEF Emit
  <2>3. /\ desc'.kind = state.step.kind /\ desc'.auth = state.step.auth
        /\ desc'.headers \in Headers /\ AuthBound(state)
    BY <2>1, <2>2, DescriptorShape
  <2>4. /\ op' = op /\ config' = config /\ snapshot' = snapshot /\ ScenarioShape'
        /\ Usable' = Usable
        /\ \A c : Pages(c)' = Pages(c)
    BY <2>2, SameScenario, SamePages DEF Shape, Types
  <2>5. StateShape(state') /\ state'.step = state.step /\ state'.bound = state.bound
    <3>1. StateShape(state)
      BY DEF Shape, Types
    <3>2. CASE state' = state
      BY <3>1, <3>2
    <3>3. CASE state' = RoundTrip(state)
      BY <3>1, <3>3, RoundTripShape
    <3> QED BY <2>2, <3>2, <3>3
  <2>6. StateShape(state)'
    BY <2>2, <2>5, SameState
  <2>7. FetchRecord' = FetchRecord
    BY <2>2, <2>4 DEF FetchRecord
  <2>8. Types'
    BY <2>2, <2>3, <2>4, <2>5, <2>6, <2>7 DEF Shape, Types
  <2>9. Progress'
    <3>1. AuthBound(state)'
      BY <2>3, <2>5 DEF AuthBound
    <3>2. Pages(state.step.channel)' = Pages(state.step.channel)
      BY <2>2, <2>5 DEF Pages
    <3> QED BY <2>1, <2>2, <2>4, <2>5, <3>1, <3>2 DEF Shape, Progress, Planning
  <2>10. Checks'
    BY <2>2 DEF Checks
  <2> QED BY <2>8, <2>9, <2>10 DEF Shape
<1> QED BY <1>1, <1>2

(* Shape is kept by Validate. *)
LEMMA ValidateShape == Shape /\ Validate => Shape'
<1> SUFFICES ASSUME Shape, Validate PROVE Shape'
  OBVIOUS
<1>1. CASE Refuse("writer", "descriptor")
  BY <1>1, EndShape DEF Refuse
<1>2. CASE ~Refuse("writer", "descriptor")
  <2>1. /\ pc = "offered" /\ pc' = "fetching"
        /\ UNCHANGED <<scenario, auths, changes, state, goal, desc, fetched>>
    BY <1>2 DEF Validate, plannerVars
  <2>2. /\ op' = op /\ config' = config /\ snapshot' = snapshot /\ ScenarioShape'
        /\ Usable' = Usable
        /\ \A c : Pages(c)' = Pages(c)
    BY <2>1, SameScenario, SamePages DEF Shape, Types
  <2>3. StateShape(state)' /\ (AuthBound(state) => AuthBound(state)')
    BY <2>1, SameState DEF Shape, Types
  <2>4. FetchRecord' = FetchRecord
    BY <2>1, <2>2 DEF FetchRecord
  <2>5. Types'
    BY <2>1, <2>2, <2>3, <2>4 DEF Shape, Types
  <2>6. Progress'
    BY <2>1, <2>2, <2>3 DEF Shape, Progress, Planning
  <2>7. Checks'
    BY <2>1 DEF Checks
  <2> QED BY <2>5, <2>6, <2>7 DEF Shape
<1> QED BY <1>1, <1>2

(* What one more catalog adds to those that were fetched. *)
LEMMA FetchAdds ==
  ASSUME Shape, Fetch
  PROVE  /\ fetched' \in Seq(FetchRecord) /\ Len(fetched') = Len(fetched) + 1
         /\ fetched' # << >>
         /\ DOMAIN fetched' = DOMAIN fetched \cup {Len(fetched')}
         /\ Len(fetched') \notin DOMAIN fetched
         /\ \A i \in DOMAIN fetched : fetched'[i] = fetched[i]
         /\ LET last == fetched'[Len(fetched')] IN
            /\ last.channel = state.step.channel /\ last.kind = state.step.kind
            /\ last.body \in Bodies[last.kind]
            /\ last.by = IF state.step.auth = Empty THEN NoIdentity
                         ELSE Now(state.step.auth)
            /\ last.changes = changes
<1>1. PICK b \in Bodies[desc.kind] :
        fetched' = Append(fetched,
          [channel |-> state.step.channel, kind |-> desc.kind, body |-> b,
           by |-> IF desc.auth = Empty THEN NoIdentity
                  ELSE Identity(desc.auth, auths[desc.auth]),
           changes |-> changes])
  BY DEF Fetch
<1>2. /\ desc.kind = state.step.kind /\ desc.auth = state.step.auth
      /\ pc = "fetching" /\ StepShape(state.step)
      /\ fetched \in Seq(FetchRecord)
      /\ auths \in [AuthIndex -> Auth] /\ changes \in [AuthIndex -> Nat]
  BY DEF Fetch, Shape, Types, StateShape
<1>3. state.step.kind # Empty /\ state.step.kind # "invalid"
  BY <1>2 DEF Shape, Progress
<1>4. /\ state.step.channel \in DOMAIN config
      /\ state.step.kind \in CatalogKind \cup PublicKind
      /\ state.step.auth \in AuthIndex \cup {Empty}
  BY <1>2, <1>3, UsableIndex DEF StepShape
<1> DEFINE by == IF state.step.auth = Empty THEN NoIdentity
                 ELSE Identity(state.step.auth, auths[state.step.auth])
           record == [channel |-> state.step.channel, kind |-> state.step.kind,
                      body |-> b, by |-> by, changes |-> changes]
<1>5. by \in {NoIdentity} \cup {Identity(a, x) : a \in AuthIndex, x \in Auth}
  BY <1>2, <1>4
<1>6. b \in UNION {Bodies[k] : k \in CatalogKind \cup PublicKind}
  BY <1>2, <1>4
<1>7. by = IF state.step.auth = Empty THEN NoIdentity ELSE Now(state.step.auth)
  BY DEF Now
<1> HIDE DEF by
<1>8. record \in FetchRecord
  BY <1>2, <1>4, <1>5, <1>6 DEF FetchRecord
<1>9. /\ record.channel = state.step.channel /\ record.kind = state.step.kind
      /\ record.body = b /\ record.by = by /\ record.changes = changes
  OBVIOUS
<1>10. fetched' = Append(fetched, record)
  BY <1>1, <1>2 DEF by
<1> HIDE DEF record
<1>11. /\ fetched' \in Seq(FetchRecord) /\ Len(fetched') = Len(fetched) + 1
       /\ Len(fetched) \in Nat /\ DOMAIN fetched = 1..Len(fetched)
       /\ DOMAIN fetched' = 1..Len(fetched')
       /\ \A i \in DOMAIN fetched : fetched'[i] = fetched[i]
       /\ fetched'[Len(fetched')] = record
  BY <1>2, <1>8, <1>10
<1>12. /\ DOMAIN fetched' = DOMAIN fetched \cup {Len(fetched')}
       /\ Len(fetched') \notin DOMAIN fetched /\ fetched' # << >>
  BY <1>11
<1> QED BY <1>1, <1>2, <1>7, <1>9, <1>11, <1>12

(* One more page belongs to the channel of the step. *)
LEMMA FetchPages ==
  ASSUME Shape, Fetch
  PROVE  \A c : /\ \A i \in Pages(c) : i \in Pages(c)' /\ fetched'[i] = fetched[i]
                /\ \A i \in Pages(c)' :
                     i \in Pages(c)
                       \/ /\ i = Len(fetched') /\ c = state.step.channel
                          /\ state.step.kind \in CatalogKind
BY FetchAdds DEF Pages

(* Shape is kept by Fetch. *)
LEMMA FetchShape == Shape /\ Fetch => Shape'
<1> SUFFICES ASSUME Shape, Fetch PROVE Shape'
  OBVIOUS
<1>1. /\ pc = "fetching" /\ pc' = "continue"
      /\ UNCHANGED <<scenario, auths, changes, state, goal, desc>>
  BY DEF Fetch, plannerVars
<1>2. /\ op' = op /\ config' = config /\ snapshot' = snapshot /\ ScenarioShape'
      /\ Usable' = Usable
  BY <1>1, SameScenario DEF Shape, Types
<1>3. StateShape(state)' /\ (AuthBound(state) => AuthBound(state)')
  BY <1>1, SameState DEF Shape, Types
<1>4. FetchRecord' = FetchRecord
  BY <1>2 DEF FetchRecord
<1>5. /\ fetched' \in Seq(FetchRecord)
      /\ DOMAIN fetched' = DOMAIN fetched \cup {Len(fetched')}
      /\ \A i \in DOMAIN fetched : fetched'[i] = fetched[i]
      /\ fetched'[Len(fetched')].channel = state.step.channel
      /\ fetched'[Len(fetched')].body \in Bodies[fetched'[Len(fetched')].kind]
  BY FetchAdds
<1>6. \A i \in DOMAIN fetched' : fetched'[i].body \in Bodies[fetched'[i].kind]
  BY <1>5 DEF Shape, Types
<1>7. Types'
  BY <1>1, <1>2, <1>3, <1>4, <1>5, <1>6 DEF Shape, Types
<1>8. /\ state.step.kind # Empty /\ state.step.kind # "invalid" /\ AuthBound(state)
      /\ \A c \in DOMAIN config : Pages(c) # {} => c \in DOMAIN state.bound
      /\ \A i \in DOMAIN fetched : fetched[i].channel <= state.step.channel
  BY <1>1 DEF Shape, Progress
<1>9. \A c \in DOMAIN config : Pages(c)' # {} => c \in DOMAIN state.bound
  BY <1>8, FetchPages DEF AuthBound
<1>10. \A i \in DOMAIN fetched' : fetched'[i].channel <= state.step.channel
  <2>1. state.step.channel \in Nat
    BY DEF Shape, Types, StateShape, StepShape, ScenarioShape
  <2>2. state.step.channel <= state.step.channel
    BY <2>1
  <2> QED BY <1>5, <1>8, <2>2
<1>11. Progress'
  BY <1>1, <1>2, <1>3, <1>8, <1>9, <1>10 DEF Progress, Planning
<1>12. Checks'
  BY <1>1 DEF Checks
<1> QED BY <1>7, <1>11, <1>12 DEF Shape

(* A change is of one credential, and is counted. *)
LEMMA ChangedAuth ==
  ASSUME Shape, NEW a \in AuthIndex, ChangeAuth(a)
  PROVE  /\ UNCHANGED <<scenario, pc, state, goal, todo, lookup, desc, fetched>>
         /\ auths' \in [AuthIndex -> Auth] /\ changes' \in [AuthIndex -> Nat]
         /\ changes'[a] = changes[a] + 1
         /\ \A x \in AuthIndex \ {a} :
              auths'[x] = auths[x] /\ changes'[x] = changes[x]
<1>1. auths \in [AuthIndex -> Auth] /\ changes \in [AuthIndex -> Nat]
  BY DEF Shape, Types
<1>2. PICK new \in Auth : auths' = [auths EXCEPT ![a] = new]
  BY DEF ChangeAuth
<1>3. changes' = [changes EXCEPT ![a] = @ + 1]
  BY DEF ChangeAuth
<1>4. UNCHANGED <<scenario, pc, state, goal, todo, lookup, desc, fetched>>
  BY DEF ChangeAuth, plannerVars, writerVars
<1>5. auths' \in [AuthIndex -> Auth] /\ \A x \in AuthIndex \ {a} : auths'[x] = auths[x]
  BY <1>1, <1>2
<1>6. /\ changes' \in [AuthIndex -> Nat] /\ changes'[a] = changes[a] + 1
      /\ \A x \in AuthIndex \ {a} : changes'[x] = changes[x]
  BY <1>1, <1>3
<1> QED BY <1>4, <1>5, <1>6

(* Shape is kept by ChangeAuth. *)
LEMMA ChangeAuthShape ==
  ASSUME Shape, NEW a \in AuthIndex, ChangeAuth(a)
  PROVE  Shape'
<1>1. /\ UNCHANGED <<scenario, pc, state, goal, todo, lookup, desc, fetched>>
      /\ auths' \in [AuthIndex -> Auth] /\ changes' \in [AuthIndex -> Nat]
  BY ChangedAuth
<1>2. /\ op' = op /\ config' = config /\ snapshot' = snapshot /\ ScenarioShape'
      /\ Usable' = Usable
      /\ \A c : Pages(c)' = Pages(c)
  BY <1>1, SameScenario, SamePages DEF Shape, Types
<1>3. StateShape(state)' /\ (AuthBound(state) => AuthBound(state)')
  BY <1>1, SameState DEF Shape, Types
<1>4. FetchRecord' = FetchRecord
  BY <1>2 DEF FetchRecord
<1>5. Types'
  BY <1>1, <1>2, <1>3, <1>4 DEF Shape, Types
<1>6. Progress'
  BY <1>1, <1>2, <1>3 DEF Shape, Progress, Planning
<1>7. Checks'
  <2>1. \A x : (OfBound(x) => OfBound(x)') /\ (OfStep(x) => OfStep(x)')
    BY <1>1, <1>2 DEF OfBound, OfStep, NewCheck, Check
  <2>2. NewCheck(state.step.channel)' = NewCheck(state.step.channel)
    BY <1>1 DEF NewCheck, Check
  <2> QED BY <1>1, <1>2, <1>3, <2>1, <2>2 DEF Shape, Checks
<1> QED BY <1>5, <1>6, <1>7 DEF Shape

(* Shape is kept by a step that changes nothing. *)
LEMMA StutterShape ==
  ASSUME Shape, UNCHANGED vars
  PROVE  Shape'
<1>1. UNCHANGED <<scenario, auths, changes, pc, state, goal, todo, lookup, desc,
                  fetched>>
  BY DEF vars, plannerVars, writerVars
<1>2. /\ op' = op /\ config' = config /\ snapshot' = snapshot /\ ScenarioShape'
      /\ Usable' = Usable
      /\ \A c : Pages(c)' = Pages(c)
  BY <1>1, SameScenario, SamePages DEF Shape, Types
<1>3. StateShape(state)' /\ (AuthBound(state) => AuthBound(state)')
  BY <1>1, SameState DEF Shape, Types
<1>4. FetchRecord' = FetchRecord
  BY <1>2 DEF FetchRecord
<1>5. Types'
  BY <1>1, <1>2, <1>3, <1>4 DEF Shape, Types
<1>6. Progress'
  BY <1>1, <1>2, <1>3 DEF Shape, Progress, Planning
<1>7. Checks'
  <2>1. \A x : (OfBound(x) => OfBound(x)') /\ (OfStep(x) => OfStep(x)')
    BY <1>1, <1>2 DEF OfBound, OfStep, NewCheck, Check
  <2>2. NewCheck(state.step.channel)' = NewCheck(state.step.channel)
    BY <1>1 DEF NewCheck, Check
  <2> QED BY <1>1, <1>2, <1>3, <2>1, <2>2 DEF Shape, Checks
<1> QED BY <1>5, <1>6, <1>7 DEF Shape

(* Every step keeps Shape. *)
LEMMA ShapeIsInductive == Shape /\ [Next]_vars => Shape'
<1> SUFFICES ASSUME Shape, [Next]_vars PROVE Shape'
  OBVIOUS
<1>1. CASE Start
  BY <1>1, StartShape
<1>2. CASE Continue
  BY <1>2, ContinueShape
<1>3. CASE Consume
  BY <1>3, ConsumeShape
<1>4. CASE Emit
  BY <1>4, EmitShape
<1>5. CASE Finish
  BY <1>5, EndShape DEF Finish
<1>6. CASE ListAuths
  BY <1>6, ListAuthsShape
<1>7. CASE GetRuntime
  BY <1>7, GetRuntimeShape
<1>8. CASE GetPhysical
  BY <1>8, GetPhysicalShape
<1>9. CASE Resolve
  BY <1>9, ResolveShape
<1>10. CASE HostFails
  BY <1>10, EndShape DEF HostFails, Refuse
<1>11. CASE Validate
  BY <1>11, ValidateShape
<1>12. CASE Fetch
  BY <1>12, FetchShape
<1>13. CASE FetchFails
  BY <1>13, EndShape DEF FetchFails, Refuse
<1>14. CASE \E a \in AuthIndex : ChangeAuth(a)
  BY <1>14, ChangeAuthShape
<1>15. CASE UNCHANGED vars
  BY <1>15, StutterShape
<1> QED BY <1>1, <1>2, <1>3, <1>4, <1>5, <1>6, <1>7, <1>8, <1>9, <1>10, <1>11,
           <1>12, <1>13, <1>14, <1>15 DEF Next, Ended

(* Every variable has its type: TypeOK. *)
THEOREM TypeCorrect == Spec => []TypeOK
<1>1. Shape => TypeOK
  <2> SUFFICES ASSUME Shape PROVE TypeOK
    OBVIOUS
  <2>1. state.step.channel \in DOMAIN config \cup {0}
    BY DEF Shape, Types, StateShape, StepShape
  <2>2. /\ state.step.auth \in AuthIndex \cup {Empty}
        /\ DOMAIN state.bound \subseteq DOMAIN config
        /\ \A c \in DOMAIN state.bound : state.bound[c].index \in AuthIndex
    BY UsableIndex DEF Shape, Types, StateShape, StepShape, BoundShape
  <2> QED BY <2>1, <2>2 DEF Shape, Types, ScenarioShape, TypeOK
<1> QED BY <1>1, InitShape, ShapeIsInductive, PTL DEF Spec

-----------------------------------------------------------------------------
(* What is known of the bound credentials stays, while they do. *)
LEMMA SameBindings ==
  ASSUME UNCHANGED <<scenario, auths, changes, fetched>>, state'.bound = state.bound
  PROVE  /\ \A c : Settled(c)' = Settled(c)
         /\ Bindings => Bindings'
<1>1. op' = op
  BY SameScenario
<1>2. \A c : Pages(c)' = Pages(c)
  BY SamePages
<1>3. \A c : Settled(c)' = Settled(c)
  BY <1>1, <1>2 DEF Settled, Same
<1>4. Bindings => Bindings'
  BY <1>1, <1>3 DEF Bindings, Same, Now, Identity
<1> QED BY <1>3, <1>4

(* An attempt that ends has no check to make. *)
LEMMA EndTrust ==
  ASSUME Trust, UNCHANGED <<scenario, auths, changes, plannerVars, writerVars>>,
         \/ pc' = "refused"
         \/ pc' = "proposed" /\ pc = "planning" /\ todo = {}
  PROVE  Trust'
<1>1. /\ \A c : Settled(c)' = Settled(c)
      /\ Bindings' /\ state' = state
  BY SameBindings DEF plannerVars, writerVars, Trust
<1>2. Matches'
  BY DEF Matches
<1>3. pc' = "proposed" => \A c \in DOMAIN state.bound : Settled(c)
  BY DEF Trust, Pending
<1> QED BY <1>1, <1>2, <1>3 DEF Trust

(* A new round of checks begins. *)
LEMMA PrepareTrust ==
  ASSUME Trust, NEW st, NEW g, Prepare(st, g), st.bound = state.bound,
         \A c \in DOMAIN state.bound :
           \/ Settled(c)
           \/ \E check \in ChecksFor(st, g) : check.channel = c /\ check.index # Empty
  PROVE  Trust'
<1>1. /\ UNCHANGED <<scenario, auths, changes, fetched>> /\ pc' = "planning"
      /\ state' = st /\ todo' = ChecksFor(st, g) /\ lookup' = NoLookup
  BY DEF Prepare, writerVars
<1>2. /\ \A c : Settled(c)' = Settled(c)
      /\ Bindings' /\ state'.bound = state.bound
  BY <1>1, SameBindings DEF Trust
<1>3. lookup'.matches = {}
  BY <1>1 DEF NoLookup
<1>4. Matches'
  BY <1>3 DEF Matches
<1>5. \A c \in DOMAIN state'.bound : Settled(c)' \/ Pending(c)'
  BY <1>1, <1>2 DEF Pending
<1> QED BY <1>1, <1>2, <1>4, <1>5 DEF Trust

(* Trust is kept by Start. *)
LEMMA StartTrust == Shape /\ Trust /\ Start => Trust'
<1> SUFFICES ASSUME Shape, Trust, Start PROVE Trust'
  OBVIOUS
<1>1. /\ Proceed(EmptyState) /\ fetched = << >> /\ state = EmptyState
      /\ StateShape(EmptyState)
  BY DEF Start, Shape, Types
<1>2. EmptyState.step.kind = Empty /\ EmptyState.bound = << >>
  BY DEF EmptyState, NoStep
<1>3. \A c \in DOMAIN config : Pages(c) = {}
  BY <1>1 DEF Pages
<1>4. PICK next, g : Prepare(next, g) /\ next.bound = EmptyState.bound
  BY <1>1, <1>2, <1>3, ProceedShape
<1>5. DOMAIN state.bound = {}
  BY <1>1, <1>2
<1> QED BY <1>1, <1>4, <1>5, PrepareTrust

(* Consume goes on from a state with the same bound credentials. *)
LEMMA ConsumeProceeds ==
  ASSUME Shape, Consume, ~Refuse("planner", "catalog")
  PROVE  /\ pc = "planning" /\ todo = {}
         /\ \E next, g : Prepare(next, g) /\ next.bound = state.bound
<1> DEFINE b == parseCatalog(op, state.step.kind, body)
           st == consumeFetch(state, b)
<1>1. /\ Proceed(st) /\ Planning("consume") /\ StateShape(state)
      /\ pc = "planning" /\ todo = {}
  BY DEF Consume, Ready, Planning, Shape, Types
<1>2. /\ \A c \in DOMAIN config : Pages(c) # {} => c \in DOMAIN state.bound
      /\ state.step.kind # Empty
      /\ \A i \in DOMAIN fetched : fetched[i].channel <= state.step.channel
      /\ state.step.kind # "invalid"
  BY <1>1 DEF Shape, Progress
<1>3. state.step.kind \in CatalogKind \cup PublicKind
  BY <1>1, <1>2 DEF StateShape, StepShape
<1>4. /\ StateShape(st) /\ st.bound = state.bound
      /\ st.step.kind = state.step.kind /\ st.step.channel = state.step.channel
  BY <1>1, <1>3, ConsumeFetch DEF Shape, Types
<1> HIDE DEF st
<1>5. \E next, g : Prepare(next, g) /\ next.bound = st.bound
  BY <1>1, <1>2, <1>4, ProceedShape
<1> QED BY <1>1, <1>4, <1>5

(* Trust is kept by Consume. *)
LEMMA ConsumeTrust == Shape /\ Trust /\ Consume => Trust'
<1> SUFFICES ASSUME Shape, Trust, Consume PROVE Trust'
  OBVIOUS
<1>1. CASE Refuse("planner", "catalog")
  BY <1>1, EndTrust DEF Refuse
<1>2. CASE ~Refuse("planner", "catalog")
  <2>1. /\ pc = "planning" /\ todo = {}
        /\ \E next, g : Prepare(next, g) /\ next.bound = state.bound
    BY <1>2, ConsumeProceeds
  <2>2. \A c \in DOMAIN state.bound : Settled(c)
    BY <2>1 DEF Trust, Pending
  <2> QED BY <2>1, <2>2, PrepareTrust
<1> QED BY <1>1, <1>2

(* Trust is kept by Continue: every credential that a catalog may have been fetched
   without is to be checked. *)
LEMMA ContinueTrust == Shape /\ Trust /\ Continue => Trust'
<1> SUFFICES ASSUME Shape, Trust, Continue PROVE Trust'
  OBVIOUS
<1>1. CASE Refuse("planner", "continuation")
  BY <1>1, EndTrust DEF Refuse
<1>2. CASE Prepare(state, "consume")
  <2>1. pc = "continue" /\ StateShape(state) /\ AuthBound(state) /\ ScenarioShape
    BY DEF Continue, Shape, Types, Progress
  <2>2. ASSUME NEW c \in DOMAIN state.bound
        PROVE  \/ Settled(c)
               \/ \E check \in ChecksFor(state, "consume") :
                    check.channel = c /\ check.index # Empty
    <3>1. CASE op = "metadata"
      <4> DEFINE check == Check(c, state.bound[c].index, state.bound[c])
      <4>1. check \in ChecksFor(state, "consume")
        BY <3>1 DEF ChecksFor, revalidateBoundAuth
      <4>2. check.channel = c /\ check.index = state.bound[c].index
        BY DEF Check
      <4>3. state.bound[c].index # Empty
        BY <2>1, UsableIndex DEF StateShape, BoundShape
      <4> QED BY <4>1, <4>2, <4>3
    <3>2. CASE op # "metadata" /\ c = state.step.channel
      <4> DEFINE check == Check(c, state.step.auth, NoIdentity)
      <4>1. check \in ChecksFor(state, "consume")
        BY <3>2 DEF ChecksFor
      <4>2. check.channel = c /\ check.index = state.step.auth
        BY DEF Check
      <4>3. state.step.kind \in CatalogKind
        <5>1. state.step.kind # Empty /\ state.step.kind # "invalid"
          BY <2>1 DEF Shape, Progress
        <5>2. op = "auto_pull"
          BY <2>1, <3>2 DEF ScenarioShape, Operation
        <5> QED BY <2>1, <5>1, <5>2 DEF StateShape, StepShape
      <4>4. state.step.auth # Empty
        BY <2>1, <4>3, UsableIndex DEF AuthBound, StateShape, BoundShape
      <4> QED BY <4>1, <4>2, <4>4
    <3>3. CASE c # state.step.channel
      BY <2>1, <3>3 DEF Trust
    <3> QED BY <3>1, <3>2, <3>3
  <2> QED BY <1>2, <2>2, PrepareTrust
<1> QED BY <1>1, <1>2 DEF Continue

(* Trust is kept by ListAuths. *)
LEMMA ListAuthsTrust == Shape /\ Trust /\ ListAuths => Trust'
<1> SUFFICES ASSUME Shape, Trust, ListAuths PROVE Trust'
  OBVIOUS
<1>1. UNCHANGED <<scenario, auths, changes, pc, state, goal, todo, fetched>>
  BY DEF ListAuths, writerVars
<1>2. \A c : (Settled(c)' = Settled(c)) /\ (Pending(c)' = Pending(c))
  BY <1>1, SameBindings DEF Pending
<1>3. lookup'.matches = {}
  <2>1. PICK check, left : lookup' = [NoLookup EXCEPT !.check = check, !.left = left]
    BY DEF ListAuths
  <2>2. NoLookup \in [check : {NoCheck}, left : {<< >>}, half : {FALSE},
                      matches : {{}}]
    BY DEF NoLookup
  <2> QED BY <2>1, <2>2
<1>4. Matches'
  BY <1>3 DEF Matches
<1> QED BY <1>1, <1>2, <1>4, SameBindings DEF Trust

(* Trust is kept by GetRuntime. *)
LEMMA GetRuntimeTrust == Shape /\ Trust /\ GetRuntime => Trust'
<1> SUFFICES ASSUME Shape, Trust, GetRuntime PROVE Trust'
  OBVIOUS
<1>1. CASE Refuse("planner", "credential")
  BY <1>1, EndTrust DEF Refuse
<1>2. CASE /\ lookup' = [lookup EXCEPT !.half = TRUE]
           /\ UNCHANGED <<scenario, auths, changes, pc, state, goal, todo,
                          writerVars, outcome>>
  <2>1. UNCHANGED <<scenario, auths, changes, pc, state, goal, todo, fetched>>
    BY <1>2 DEF writerVars
  <2>2. /\ \A c : (Settled(c)' = Settled(c)) /\ (Pending(c)' = Pending(c))
        /\ op' = op
    BY <2>1, SameBindings, SameScenario DEF Pending
  <2>3. lookup'.matches = lookup.matches /\ lookup'.check = lookup.check
    <3>1. lookup \in [check : {lookup.check}, left : {lookup.left},
                      half : BOOLEAN, matches : {lookup.matches}]
      BY DEF GetRuntime, Looking, Shape, Checks
    <3> QED BY <1>2, <3>1
  <2>4. Matches'
    BY <2>1, <2>2, <2>3 DEF Trust, Matches, Same, Now, Identity
  <2> QED BY <2>1, <2>2, <2>4, SameBindings DEF Trust
<1> QED BY <1>1, <1>2 DEF GetRuntime

(* Trust is kept by GetPhysical: what is found is what is there now. *)
LEMMA GetPhysicalTrust == Shape /\ Trust /\ GetPhysical => Trust'
<1> SUFFICES ASSUME Shape, Trust, GetPhysical PROVE Trust'
  OBVIOUS
<1>1. CASE Refuse("planner", "credential")
  BY <1>1, EndTrust DEF Refuse
<1>2. CASE ~Refuse("planner", "credential")
  <2> DEFINE listed == Head(lookup.left)
             found == Identity(listed.index, auths[listed.index])
  <2>1. /\ UNCHANGED <<scenario, auths, changes, pc, state, goal, todo, fetched>>
        /\ lookup'.check = lookup.check
        /\ lookup'.matches \subseteq lookup.matches \cup {found}
        /\ pc = "planning"
    BY <1>2, GetPhysicalFinds DEF GetPhysical, Looking, writerVars
  <2>2. /\ \A c : (Settled(c)' = Settled(c)) /\ (Pending(c)' = Pending(c))
        /\ op' = op
    BY <2>1, SameBindings, SameScenario DEF Pending
  <2>3. found.index = listed.index /\ found = Now(listed.index)
    BY DEF Now, Identity
  <2> HIDE DEF found, listed
  <2>4. ASSUME NEW m \in lookup'.matches
        PROVE  /\ changes[m.index] = 0 => Now(m.index) = m
               /\ LET c == lookup.check.channel IN
                  c \in DOMAIN state.bound /\ m.index = state.bound[c].index
                    /\ Same(m, state.bound[c]) => Settled(c)
    <3>1. CASE m \in lookup.matches
      BY <2>1, <3>1 DEF Trust, Matches
    <3>2. CASE m = found
      BY <2>3, <3>2 DEF Trust, Bindings
    <3> QED BY <2>1, <3>1, <3>2
  <2>5. Matches'
    BY <2>1, <2>2, <2>4 DEF Matches, Same, Now, Identity
  <2> QED BY <2>1, <2>2, <2>5, SameBindings DEF Trust
<1> QED BY <1>1, <1>2

(* The catalog of the step's channel has been begun only if its credential is
   known, and then it is bound to the same one. *)
LEMMA NewIsFirstOrSame ==
  ASSUME Shape, pc = "planning", NEW check \in todo, IsNew(check), NEW m,
         op = "metadata" => Binds(state, check.channel, m)
  PROVE  \/ Pages(check.channel) = {}
         \/ check.channel \in DOMAIN state.bound /\ state.bound[check.channel] = m
<1>1. /\ check.channel = state.step.channel /\ goal = "emit"
      /\ state.step.kind \in CatalogKind
  BY CheckIsNew DEF OfStep, NewCheck, Check
<1>2. ScenarioShape /\ StepShape(state.step) /\ state.step.channel \in DOMAIN config
  BY <1>1, EmptyIsNoKind DEF Shape, Types, StateShape, StepShape
<1>3. CASE op = "metadata"
  <2>1. state.step.channel \in DOMAIN state.bound =>
          state.bound[state.step.channel] = m
    BY <1>1, <1>3 DEF Binds
  <2>2. Pages(state.step.channel) # {} => state.step.channel \in DOMAIN state.bound
    BY <1>2 DEF Shape, Progress
  <2> QED BY <1>1, <2>1, <2>2
<1>4. CASE op # "metadata"
  <2>1. config[state.step.channel].kind = "openai"
    BY <1>2, <1>4 DEF ScenarioShape, Operation
  <2>2. state.step.kind # "claude_models"
    BY <1>1, <1>2, <2>1 DEF StepShape, catalogKind
  <2>3. state.step.after = Empty
    BY <1>2, <2>2 DEF StepShape
  <2> QED BY <1>1, <2>3 DEF Shape, Progress, Planning
<1> QED BY <1>3, <1>4

(* Trust is kept by Resolve: the credential that matches settles its channel. *)
LEMMA ResolveTrust == Shape /\ Trust /\ Resolve => Trust'
<1> SUFFICES ASSUME Shape, Trust, Resolve PROVE Trust'
  OBVIOUS
<1>1. CASE Refuse("planner", "credential")
  BY <1>1, EndTrust DEF Refuse
<1>2. CASE ~Refuse("planner", "credential")
  <2>10. PICK check, c : check = lookup.check /\ c = check.channel
    OBVIOUS
  <2>1. PICK m :
          /\ UNCHANGED <<scenario, auths, changes, pc, goal, writerVars, outcome>>
          /\ lookup.matches = {m} /\ check.index \in {Empty, m.index}
          /\ check.identity \in {NoIdentity, m}
          /\ IsNew(check) /\ op = "metadata" => Binds(state, c, m)
          /\ check \in todo /\ pc = "planning"
          /\ todo' = todo \ {check} /\ lookup' = NoLookup
          /\ state' = IF IsNew(check)
                      THEN [state EXCEPT !.step.auth = m.index,
                                         !.bound = BindTo(@, c, m)]
                      ELSE state
    BY <1>2, <2>10, ResolveFinds
  <2>2. UNCHANGED <<scenario, auths, changes, pc, goal, fetched>>
    BY <2>1 DEF writerVars
  <2>3. /\ op' = op /\ \A k : Pages(k)' = Pages(k)
    BY <2>2, SameScenario, SamePages
  <2>4. check # NoCheck /\ c \in DOMAIN config
    BY <2>1, <2>10, ChecksAreSome
  <2>5. m.index \in Usable /\ m.base = config[c].base
    BY <2>1, <2>4, <2>10 DEF Shape, Checks
  <2>6. /\ IsNew(check) => OfStep(check)
        /\ ~IsNew(check) => OfBound(check) /\ check.index # Empty
    BY <2>1, CheckIsNew
  <2>7. /\ changes[m.index] = 0 => Now(m.index) = m
        /\ c \in DOMAIN state.bound /\ m.index = state.bound[c].index
             /\ Same(m, state.bound[c]) => Settled(c)
    BY <2>1, <2>10 DEF Trust, Matches
  <2>8. Matches'
    <3>1. lookup'.matches = {}
      BY <2>1 DEF NoLookup
    <3> QED BY <3>1 DEF Matches
  <2>9. \A k \in DOMAIN state.bound : Settled(k) \/ Pending(k)
    BY <2>1 DEF Trust
  <2>11. c = check.channel
    BY <2>10
  <2>12. CASE ~IsNew(check)
    <3>1. state' = state /\ (\A k : Settled(k)' = Settled(k)) /\ Bindings'
      <4>1. state' = state
        BY <2>1, <2>12
      <4> QED BY <2>2, <4>1, SameBindings DEF Trust
    <3>2. /\ c \in DOMAIN state.bound /\ state.bound[c].index = check.index
          /\ op = "metadata" => check.identity = state.bound[c]
      BY <2>6, <2>11, <2>12 DEF OfBound
    <3>3. /\ state.bound[c].index \in AuthIndex
          /\ state.bound[c].base = config[c].base
      BY <3>2, UsableIndex DEF Shape, Types, StateShape, BoundShape
    <3>4. m.index = state.bound[c].index
      BY <2>1, <2>6, <2>12, <3>2
    <3>5. state.bound[c] # NoIdentity
      <4>1. NoIdentity.index = Empty
        BY DEF NoIdentity
      <4> QED BY <3>3, <4>1, AuthAssumption
    <3>6. Same(m, state.bound[c])
      BY <2>1, <2>5, <3>2, <3>3, <3>5 DEF Same
    <3>7. Settled(c)
      BY <2>7, <3>2, <3>4, <3>6
    <3>8. ASSUME NEW k \in DOMAIN state.bound PROVE Settled(k)' \/ Pending(k)'
      <4>1. CASE k = c
        BY <3>1, <3>7, <4>1
      <4>2. CASE k # c /\ Pending(k)
        BY <2>1, <2>11, <4>2 DEF Pending
      <4> QED BY <2>9, <3>1, <4>1, <4>2
    <3> QED BY <2>1, <2>2, <2>8, <3>1, <3>8 DEF Trust
  <2>13. CASE IsNew(check)
    <3>1. check.index = Empty /\ state.step.kind \in CatalogKind /\ StateShape(state)
      BY <2>6, <2>13 DEF OfStep, IsNew, Shape, Types
    <3>2. state'.bound = BindTo(state.bound, c, m)
      BY <2>1, <2>13, <3>1, BoundState
    <3>3. /\ DOMAIN state'.bound = DOMAIN state.bound \cup {c}
          /\ state'.bound[c] = m
          /\ \A k \in DOMAIN state.bound : k # c => state'.bound[k] = state.bound[k]
      <4> DEFINE old == state.bound
                 new == BindTo(old, c, m)
      <4>1. /\ DOMAIN new = DOMAIN old \cup {c} /\ new[c] = m
            /\ \A k \in DOMAIN old : k # c => new[k] = old[k]
        <5>1. new = [k \in DOMAIN old \cup {c} |-> IF k = c THEN m ELSE old[k]]
          BY DEF BindTo
        <5> HIDE DEF new, old
        <5> QED BY <5>1
      <4> QED BY <3>2, <4>1
    <3>4. \/ Pages(c) = {}
          \/ c \in DOMAIN state.bound /\ state.bound[c] = m
      BY <2>1, <2>11, <2>13, NewIsFirstOrSame
    <3>5. \A k \in DOMAIN state.bound :
            state'.bound[k] = state.bound[k] => Settled(k)' = Settled(k)
      BY <2>2, <2>3 DEF Settled, Same
    <3>6. Pages(c) = {} => Settled(c)'
      BY <2>3 DEF Settled
    <3>7. ASSUME NEW k \in DOMAIN state'.bound
          PROVE  \/ k = c /\ Settled(k)'
                 \/ /\ k \in DOMAIN state.bound /\ state'.bound[k] = state.bound[k]
                    /\ Settled(k)' = Settled(k)
      BY <3>3, <3>4, <3>5, <3>6
    <3>8. Bindings'
      <4> SUFFICES ASSUME NEW k \in DOMAIN state'.bound
                   PROVE  /\ changes[state'.bound[k].index] = 0 =>
                               Now(state'.bound[k].index) = state'.bound[k]
                          /\ Same(Now(state'.bound[k].index), state'.bound[k])
                               => Settled(k)'
        BY <2>2, <2>3 DEF Bindings, Now, Same, Identity
      <4>1. CASE k = c /\ Settled(k)'
        BY <2>7, <3>3, <4>1
      <4>2. CASE /\ k \in DOMAIN state.bound /\ state'.bound[k] = state.bound[k]
                 /\ Settled(k)' = Settled(k)
        BY <4>2 DEF Trust, Bindings
      <4> QED BY <3>7, <4>1, <4>2
    <3>9. ASSUME NEW k \in DOMAIN state'.bound PROVE Settled(k)' \/ Pending(k)'
      <4>1. k \in DOMAIN state.bound /\ Pending(k) => Pending(k)'
        BY <2>1, <3>1 DEF Pending
      <4> QED BY <2>9, <3>7, <4>1
    <3> QED BY <2>1, <2>2, <2>8, <3>8, <3>9 DEF Trust
  <2> QED BY <2>12, <2>13
<1> QED BY <1>1, <1>2

(* Trust is kept by Emit. *)
LEMMA EmitTrust == Shape /\ Trust /\ Emit => Trust'
<1> SUFFICES ASSUME Shape, Trust, Emit PROVE Trust'
  OBVIOUS
<1>1. CASE Refuse("planner", "channel")
  BY <1>1, EndTrust DEF Refuse
<1>2. CASE ~Refuse("planner", "channel")
  <2>1. /\ pc = "planning" /\ todo = {} /\ pc' = "offered"
        /\ UNCHANGED <<scenario, auths, changes, fetched>>
        /\ state' = IF op = "metadata" THEN RoundTrip(state) ELSE state
    BY <1>2 DEF Emit, Ready
  <2>2. state'.bound = state.bound
    BY <2>1, RoundTripShape DEF Shape, Types
  <2>3. \A c \in DOMAIN state.bound : Settled(c)
    BY <2>1 DEF Trust, Pending
  <2>4. Matches'
    BY <2>1 DEF Matches
  <2> QED BY <2>1, <2>2, <2>3, <2>4, SameBindings DEF Trust
<1> QED BY <1>1, <1>2

(* Trust is kept by Validate. *)
LEMMA ValidateTrust == Trust /\ Validate => Trust'
<1> SUFFICES ASSUME Trust, Validate PROVE Trust'
  OBVIOUS
<1>1. CASE Refuse("writer", "descriptor")
  BY <1>1, EndTrust DEF Refuse
<1>2. CASE ~Refuse("writer", "descriptor")
  <2>1. /\ pc = "offered" /\ pc' = "fetching"
        /\ UNCHANGED <<scenario, auths, changes, state, fetched>>
    BY <1>2 DEF Validate, plannerVars
  <2>2. Matches'
    BY <2>1 DEF Matches
  <2> QED BY <2>1, <2>2, SameBindings DEF Trust
<1> QED BY <1>1, <1>2

(* The credential of the step is there now, and Core uses what it is now. *)
LEMMA FetchTrust == Shape /\ Trust /\ Fetch => Trust'
<1> SUFFICES ASSUME Shape, Trust, Fetch PROVE Trust'
  OBVIOUS
<1>1. /\ pc = "fetching" /\ pc' = "continue"
      /\ UNCHANGED <<scenario, auths, changes, state>>
  BY DEF Fetch, plannerVars
<1>2. op' = op
  BY <1>1, SameScenario
<1>3. (\A c \in DOMAIN state.bound : Settled(c)) /\ Bindings /\ AuthBound(state)
  BY <1>1 DEF Trust, Shape, Progress
<1>4. ASSUME NEW c \in DOMAIN state.bound,
             \/ c # state.step.channel
             \/ Same(Now(state.bound[c].index), state.bound[c])
      PROVE  Settled(c)'
  <2> SUFFICES ASSUME NEW i \in Pages(c)', changes[state.bound[c].index] < 2
               PROVE  Same(fetched'[i].by, state.bound[c])
    BY <1>1, <1>2 DEF Settled, Same
  <2>1. CASE i \in Pages(c)
    <3>1. fetched'[i] = fetched[i]
      BY <2>1, FetchPages
    <3>2. Same(fetched[i].by, state.bound[c])
      BY <1>3, <2>1 DEF Settled
    <3> QED BY <3>1, <3>2
  <2>2. CASE i = Len(fetched') /\ c = state.step.channel
             /\ state.step.kind \in CatalogKind
    <3>1. state.step.auth = state.bound[c].index
      BY <1>3, <2>2 DEF AuthBound
    <3>2. state.bound[c].index # Empty
      BY UsableIndex DEF Shape, Types, StateShape, BoundShape
    <3>3. fetched'[i].by = Now(state.bound[c].index)
      BY <2>2, <3>1, <3>2, FetchAdds
    <3> QED BY <1>4, <2>2, <3>3
  <2> QED BY <2>1, <2>2, FetchPages
<1>5. Bindings'
  <2>1. \A c \in DOMAIN state.bound :
          /\ changes[state.bound[c].index] = 0 =>
               Now(state.bound[c].index) = state.bound[c]
          /\ Same(Now(state.bound[c].index), state.bound[c]) => Settled(c)'
    BY <1>3, <1>4 DEF Bindings
  <2> QED BY <1>1, <1>2, <2>1 DEF Bindings, Now, Same, Identity
<1>6. Matches'
  BY <1>1 DEF Matches
<1> QED BY <1>1, <1>4, <1>5, <1>6 DEF Trust

(* A first change finds every page good that was fetched; a second one leaves
   nothing to say. *)
LEMMA ChangeAuthTrust ==
  ASSUME Shape, Trust, NEW a \in AuthIndex, ChangeAuth(a)
  PROVE  Trust'
<1>1. /\ UNCHANGED <<scenario, pc, state, goal, todo, lookup, fetched>>
      /\ changes \in [AuthIndex -> Nat] /\ changes'[a] = changes[a] + 1
      /\ \A x \in AuthIndex \ {a} : auths'[x] = auths[x] /\ changes'[x] = changes[x]
  BY ChangedAuth DEF Shape, Types
<1>2. op' = op /\ \A c : Pages(c)' = Pages(c)
  BY <1>1, SameScenario, SamePages
<1>3. \A x, y : Same(x, y)' = Same(x, y)
  BY <1>2 DEF Same
<1>4. \A c \in DOMAIN state.bound : state.bound[c].index \in AuthIndex
  BY UsableIndex DEF Shape, Types, StateShape, BoundShape
<1>5. \A x \in AuthIndex \ {a} : Now(x)' = Now(x)
  BY <1>1 DEF Now, Identity
<1>6. changes'[a] # 0 /\ (changes'[a] < 2 => changes[a] = 0)
  BY <1>1
<1>7. ASSUME NEW c \in DOMAIN state.bound PROVE Settled(c) => Settled(c)'
  <2>1. CASE state.bound[c].index = a
    BY <1>1, <1>2, <1>3, <1>6, <2>1 DEF Settled
  <2>2. CASE state.bound[c].index # a
    BY <1>1, <1>2, <1>3, <1>4, <2>2 DEF Settled
  <2> QED BY <2>1, <2>2
<1>8. ASSUME NEW c \in DOMAIN state.bound, state.bound[c].index = a
      PROVE  Settled(c)'
  <2>1. CASE changes[a] = 0
    <3>1. Same(Now(a), state.bound[c])
      BY <1>8, <2>1 DEF Trust, Bindings, Same
    <3>2. Settled(c)
      BY <1>8, <3>1 DEF Trust, Bindings
    <3> QED BY <1>7, <3>2
  <2>2. CASE changes[a] # 0
    BY <1>1, <1>2, <1>3, <1>6, <1>8, <2>2 DEF Settled
  <2> QED BY <2>1, <2>2
<1>9. Bindings'
  <2> SUFFICES ASSUME NEW c \in DOMAIN state.bound
               PROVE  /\ changes'[state.bound[c].index] = 0 =>
                           Now(state.bound[c].index)' = state.bound[c]
                      /\ Same(Now(state.bound[c].index)', state.bound[c])
                           => Settled(c)'
    BY <1>1, <1>2 DEF Bindings, Same
  <2>1. CASE state.bound[c].index = a
    BY <1>6, <1>8, <2>1
  <2>2. CASE state.bound[c].index # a
    BY <1>1, <1>4, <1>5, <1>7, <2>2 DEF Trust, Bindings
  <2> QED BY <2>1, <2>2
<1>10. Matches'
  <2> SUFFICES ASSUME pc = "planning", NEW m \in lookup.matches
               PROVE  /\ changes'[m.index] = 0 => Now(m.index)' = m
                      /\ LET c == lookup.check.channel IN
                         c \in DOMAIN state.bound /\ m.index = state.bound[c].index
                           /\ Same(m, state.bound[c]) => Settled(c)'
    BY <1>1, <1>2 DEF Matches, Same
  <2>1. /\ m.index \in AuthIndex
        /\ changes[m.index] = 0 => Now(m.index) = m
        /\ LET c == lookup.check.channel IN
           c \in DOMAIN state.bound /\ m.index = state.bound[c].index
             /\ Same(m, state.bound[c]) => Settled(c)
    BY UsableIndex DEF Trust, Matches, Shape, Checks
  <2> QED BY <1>1, <1>5, <1>6, <1>7, <2>1
<1>11. \A c : Pending(c)' = Pending(c)
  BY <1>1 DEF Pending
<1> QED BY <1>1, <1>7, <1>9, <1>10, <1>11 DEF Trust

(* Every step keeps Trust. *)
LEMMA TrustIsInductive == Shape /\ Trust /\ [Next]_vars => Trust'
<1> SUFFICES ASSUME Shape, Trust, [Next]_vars PROVE Trust'
  OBVIOUS
<1>1. CASE Start
  BY <1>1, StartTrust
<1>2. CASE Continue
  BY <1>2, ContinueTrust
<1>3. CASE Consume
  BY <1>3, ConsumeTrust
<1>4. CASE Emit
  BY <1>4, EmitTrust
<1>5. CASE Finish
  BY <1>5, EndTrust DEF Finish, Ready
<1>6. CASE ListAuths
  BY <1>6, ListAuthsTrust
<1>7. CASE GetRuntime
  BY <1>7, GetRuntimeTrust
<1>8. CASE GetPhysical
  BY <1>8, GetPhysicalTrust
<1>9. CASE Resolve
  BY <1>9, ResolveTrust
<1>10. CASE HostFails
  BY <1>10, EndTrust DEF HostFails, Refuse
<1>11. CASE Validate
  BY <1>11, ValidateTrust
<1>12. CASE Fetch
  BY <1>12, FetchTrust
<1>13. CASE FetchFails
  BY <1>13, EndTrust DEF FetchFails, Refuse
<1>14. CASE \E a \in AuthIndex : ChangeAuth(a)
  BY <1>14, ChangeAuthTrust
<1>15. CASE UNCHANGED vars
  <2>1. UNCHANGED <<scenario, auths, changes, pc, state, goal, todo, lookup, fetched>>
    BY <1>15 DEF vars, plannerVars, writerVars
  <2>2. /\ \A c : (Settled(c)' = Settled(c)) /\ (Pending(c)' = Pending(c))
        /\ op' = op
    BY <2>1, SameBindings, SameScenario DEF Pending
  <2>3. Matches'
    BY <2>1, <2>2 DEF Trust, Matches, Same, Now, Identity
  <2> QED BY <2>1, <2>2, <2>3, SameBindings DEF Trust
<1> QED BY <1>1, <1>2, <1>3, <1>4, <1>5, <1>6, <1>7, <1>8, <1>9, <1>10, <1>11,
           <1>12, <1>13, <1>14, <1>15 DEF Next, Ended

-----------------------------------------------------------------------------
(* What was seen of a credential holds while none changes. *)
LEMMA SameCredentials ==
  ASSUME UNCHANGED <<scenario, auths, changes, fetched>>
  PROVE  /\ Quiet' = Quiet /\ op' = op
         /\ \A m : Alive(m)' = Alive(m)
<1>1. op' = op
  BY SameScenario
<1> QED BY <1>1 DEF Quiet, Alive, Now, Identity

NoLater == \A i \in DOMAIN fetched : \A a \in AuthIndex :
             fetched[i].changes[a] <= changes[a]

(* A proposal comes when no check is left to make. *)
LEMMA EndLive ==
  ASSUME Live, UNCHANGED <<scenario, auths, changes, plannerVars, writerVars>>,
         \/ pc' = "refused"
         \/ pc' = "proposed" /\ Planning("finish") /\ todo = {}
  PROVE  Live'
<1>1. UNCHANGED <<scenario, auths, changes, state, fetched>>
  BY DEF plannerVars, writerVars
<1>2. Quiet' = Quiet /\ op' = op /\ \A m : Alive(m)' = Alive(m)
  BY <1>1, SameCredentials
<1>3. op = "metadata" /\ Quiet /\ pc' = "proposed" =>
        \A c \in DOMAIN state.bound : Alive(state.bound[c])
  BY DEF Live, Pending
<1> QED BY <1>1, <1>2, <1>3 DEF Live, Planning

(* Before the proposal every bound credential of metadata-sync is to be checked. *)
LEMMA PrepareLive ==
  ASSUME Shape, Live, NEW st, NEW g, Prepare(st, g), st.bound = state.bound
  PROVE  Live'
<1>1. /\ UNCHANGED <<scenario, auths, changes, fetched>> /\ pc' = "planning"
      /\ state' = st /\ goal' = g /\ todo' = ChecksFor(st, g) /\ lookup' = NoLookup
  BY DEF Prepare, writerVars
<1>2. Quiet' = Quiet /\ op' = op /\ \A m : Alive(m)' = Alive(m)
  BY <1>1, SameCredentials
<1>3. lookup'.matches = {} /\ lookup'.left = << >>
  BY <1>1 DEF NoLookup
<1>4. ASSUME op = "metadata", NEW c \in DOMAIN st.bound PROVE Pending(c)'
  <2> DEFINE check == Check(c, st.bound[c].index, st.bound[c])
  <2>1. check \in todo'
    BY <1>1, <1>4 DEF ChecksFor, revalidateBoundAuth
  <2>2. check.channel = c /\ check.index = state.bound[c].index
    BY DEF Check
  <2>3. state.bound[c].index # Empty
    BY UsableIndex DEF Shape, Types, StateShape, BoundShape
  <2> HIDE DEF check
  <2> QED BY <2>1, <2>2, <2>3 DEF Pending
<1> QED BY <1>1, <1>2, <1>3, <1>4 DEF Live, Planning

(* Live is kept by Start. *)
LEMMA StartLive == Shape /\ Live /\ Start => Live'
<1> SUFFICES ASSUME Shape, Live, Start PROVE Live'
  OBVIOUS
<1>1. /\ Proceed(EmptyState) /\ fetched = << >> /\ state = EmptyState
      /\ StateShape(EmptyState)
  BY DEF Start, Shape, Types
<1>2. EmptyState.step.kind = Empty
  BY DEF EmptyState, NoStep
<1>3. \A c \in DOMAIN config : Pages(c) = {}
  BY <1>1 DEF Pages
<1>4. PICK next, g : Prepare(next, g) /\ next.bound = EmptyState.bound
  BY <1>1, <1>2, <1>3, ProceedShape
<1> QED BY <1>1, <1>4, PrepareLive

(* Live is kept by ListAuths. *)
LEMMA ListAuthsLive == Shape /\ Live /\ ListAuths => Live'
<1> SUFFICES ASSUME Shape, Live, ListAuths PROVE Live'
  OBVIOUS
<1>1. UNCHANGED <<scenario, auths, changes, pc, state, goal, todo, fetched>>
  BY DEF ListAuths, writerVars
<1>2. /\ Quiet' = Quiet /\ op' = op /\ \A m : Alive(m)' = Alive(m)
      /\ \A c : Pending(c)' = Pending(c)
  BY <1>1, SameCredentials DEF Pending
<1>3. PICK check \in todo : lookup' = [NoLookup EXCEPT
            !.check = check, !.left = Listed(config[check.channel].kind)]
  BY DEF ListAuths
<1> DEFINE left == Listed(config[check.channel].kind)
<1>4. \A k \in DOMAIN left : auths[left[k].index].status = "active"
  BY ListedShape DEF Shape, Types
<1> HIDE DEF left
<1>5. lookup'.left = left /\ lookup'.matches = {}
  <2>1. NoLookup \in [check : {NoCheck}, left : {<< >>}, half : {FALSE},
                      matches : {{}}]
    BY DEF NoLookup
  <2> QED BY <1>3, <2>1 DEF left
<1> QED BY <1>1, <1>2, <1>4, <1>5 DEF Live, Planning

(* Live is kept by GetRuntime. *)
LEMMA GetRuntimeLive == Shape /\ Live /\ GetRuntime => Live'
<1> SUFFICES ASSUME Shape, Live, GetRuntime PROVE Live'
  OBVIOUS
<1>1. CASE Refuse("planner", "credential")
  BY <1>1, EndLive DEF Refuse
<1>2. CASE /\ lookup' = [lookup EXCEPT !.half = TRUE]
           /\ UNCHANGED <<scenario, auths, changes, pc, state, goal, todo,
                          writerVars, outcome>>
  <2>1. UNCHANGED <<scenario, auths, changes, pc, state, goal, todo, fetched>>
    BY <1>2 DEF writerVars
  <2>2. /\ Quiet' = Quiet /\ op' = op /\ \A m : Alive(m)' = Alive(m)
        /\ \A c : Pending(c)' = Pending(c)
    BY <2>1, SameCredentials DEF Pending
  <2>3. lookup'.matches = lookup.matches /\ lookup'.left = lookup.left
    <3>1. lookup \in [check : {lookup.check}, left : {lookup.left},
                      half : BOOLEAN, matches : {lookup.matches}]
      BY DEF GetRuntime, Looking, Shape, Checks
    <3> QED BY <1>2, <3>1
  <2> QED BY <2>1, <2>2, <2>3 DEF Live, Planning
<1> QED BY <1>1, <1>2 DEF GetRuntime

(* Live is kept by GetPhysical. *)
LEMMA GetPhysicalLive == Shape /\ Live /\ GetPhysical => Live'
<1> SUFFICES ASSUME Shape, Live, GetPhysical PROVE Live'
  OBVIOUS
<1>1. CASE Refuse("planner", "credential")
  BY <1>1, EndLive DEF Refuse
<1>2. CASE ~Refuse("planner", "credential")
  <2> DEFINE listed == Head(lookup.left)
             found == Identity(listed.index, auths[listed.index])
  <2>1. /\ UNCHANGED <<scenario, auths, changes, pc, state, goal, todo, fetched>>
        /\ lookup'.left = Tail(lookup.left) /\ lookup.left # << >>
        /\ lookup.left \in Seq(Identities)
        /\ lookup'.matches \subseteq lookup.matches \cup {found}
        /\ pc = "planning"
    BY <1>2, GetPhysicalFinds DEF GetPhysical, Looking, writerVars
  <2>2. /\ Quiet' = Quiet /\ op' = op /\ \A m : Alive(m)' = Alive(m)
        /\ \A c : Pending(c)' = Pending(c)
    BY <2>1, SameCredentials DEF Pending
  <2>3. found.index = listed.index /\ found = Now(listed.index)
    BY DEF Now, Identity
  <2>4. /\ 1 \in DOMAIN lookup.left /\ listed = lookup.left[1]
        /\ \A k \in DOMAIN Tail(lookup.left) :
             k + 1 \in DOMAIN lookup.left /\ Tail(lookup.left)[k] = lookup.left[k + 1]
    BY <2>1
  <2> HIDE DEF found, listed
  <2>5. ASSUME op = "metadata", Quiet
        PROVE  /\ \A k \in DOMAIN lookup'.left :
                    auths[lookup'.left[k].index].status = "active"
               /\ \A m \in lookup'.matches : Alive(m)
    <3>1. /\ \A k \in DOMAIN lookup.left : auths[lookup.left[k].index].status = "active"
          /\ \A m \in lookup.matches : Alive(m)
      BY <2>1, <2>5 DEF Live
    <3>2. Alive(found)
      BY <2>3, <2>4, <3>1 DEF Alive
    <3> QED BY <2>1, <2>4, <3>1, <3>2
  <2> QED BY <2>1, <2>2, <2>5 DEF Live, Planning
<1> QED BY <1>1, <1>2

(* Live is kept by Resolve: the credential that matches is the bound one. *)
LEMMA ResolveLive == Shape /\ Live /\ Resolve => Live'
<1> SUFFICES ASSUME Shape, Live, Resolve PROVE Live'
  OBVIOUS
<1>1. CASE Refuse("planner", "credential")
  BY <1>1, EndLive DEF Refuse
<1>2. CASE ~Refuse("planner", "credential")
  <2>1. PICK check : check = lookup.check
    OBVIOUS
  <2>2. PICK m :
          /\ UNCHANGED <<scenario, auths, changes, pc, goal, writerVars, outcome>>
          /\ lookup.matches = {m} /\ check.index \in {Empty, m.index}
          /\ check.identity \in {NoIdentity, m}
          /\ check \in todo /\ pc = "planning"
          /\ todo' = todo \ {check} /\ lookup' = NoLookup
          /\ ~IsNew(check) => state' = state
    BY <1>2, <2>1, ResolveFinds
  <2>3. UNCHANGED <<scenario, auths, changes, pc, goal, fetched>>
    BY <2>2 DEF writerVars
  <2>4. Quiet' = Quiet /\ op' = op /\ \A x : Alive(x)' = Alive(x)
    BY <2>3, SameCredentials
  <2>5. lookup'.matches = {} /\ lookup'.left = << >>
    BY <2>2 DEF NoLookup
  <2>6. ASSUME op = "metadata", Quiet, goal = "finish", NEW c \in DOMAIN state'.bound
        PROVE  Alive(state'.bound[c]) \/ Pending(c)'
    <3>1. ~IsNew(check) /\ OfBound(check) /\ state' = state
      BY <2>2, <2>6, CheckIsNew DEF IsNew
    <3>2. CASE c = check.channel
      <4>1. check.identity = state.bound[c] /\ state.bound[c].index # Empty
        BY <2>6, <3>1, <3>2, UsableIndex
           DEF OfBound, Shape, Types, StateShape, BoundShape
      <4>2. NoIdentity.index = Empty
        BY DEF NoIdentity
      <4>3. state.bound[c] = m
        BY <2>2, <4>1, <4>2
      <4> QED BY <2>2, <2>6, <3>1, <4>3 DEF Live
    <3>3. CASE c # check.channel
      <4>1. Alive(state.bound[c]) \/ Pending(c)
        BY <2>2, <2>6, <3>1 DEF Live, Planning
      <4> QED BY <2>2, <3>1, <3>3, <4>1 DEF Pending
    <3> QED BY <3>2, <3>3
  <2> QED BY <2>2, <2>3, <2>4, <2>5, <2>6 DEF Live, Planning
<1> QED BY <1>1, <1>2

(* Live is kept by Fetch. *)
LEMMA FetchLive == Shape /\ Live /\ Fetch => Live'
<1> SUFFICES ASSUME Shape, Live, Fetch PROVE Live'
  OBVIOUS
<1>1. pc' = "continue" /\ changes' = changes
  BY DEF Fetch
<1>2. changes \in [AuthIndex -> Nat]
  BY DEF Shape, Types
<1>3. /\ DOMAIN fetched' = DOMAIN fetched \cup {Len(fetched')}
      /\ \A i \in DOMAIN fetched : fetched'[i] = fetched[i]
      /\ fetched'[Len(fetched')].changes = changes
  BY FetchAdds
<1>4. \A a \in AuthIndex : changes[a] <= changes[a]
  BY <1>2
<1>5. NoLater'
  BY <1>1, <1>3, <1>4 DEF Live, NoLater
<1> QED BY <1>1, <1>5 DEF Live, NoLater, Planning

(* A change comes after every catalog that was fetched. *)
LEMMA ChangeAuthLive ==
  ASSUME Shape, Live, NEW a \in AuthIndex, ChangeAuth(a)
  PROVE  Live'
<1>1. /\ fetched' = fetched /\ fetched \in Seq(FetchRecord)
      /\ changes \in [AuthIndex -> Nat] /\ changes'[a] = changes[a] + 1
      /\ \A x \in AuthIndex \ {a} : changes'[x] = changes[x]
  BY ChangedAuth DEF Shape, Types
<1>2. \A i \in DOMAIN fetched : fetched[i].changes \in [AuthIndex -> Nat]
  BY FetchedChannels DEF FetchRecord
<1>3. ASSUME NEW i \in DOMAIN fetched, NEW x \in AuthIndex
      PROVE  fetched[i].changes[x] <= changes'[x] /\ (x = a => fetched[i].changes[x] < changes'[x])
  <2>1. fetched[i].changes[x] \in Nat /\ changes[x] \in Nat
    BY <1>1, <1>2
  <2>2. fetched[i].changes[x] <= changes[x]
    BY DEF Live
  <2> QED BY <1>1, <2>1, <2>2
<1>4. NoLater'
  BY <1>1, <1>3 DEF NoLater
<1>5. ~Quiet'
  <2> SUFFICES ASSUME fetched # << >>, fetched[Len(fetched)].changes = changes'
               PROVE  FALSE
    BY <1>1 DEF Quiet
  <2>1. Len(fetched) \in DOMAIN fetched
    BY <1>1
  <2>2. fetched[Len(fetched)].changes[a] < changes'[a]
    BY <1>3, <2>1
  <2>3. fetched[Len(fetched)].changes[a] \in Nat
    BY <1>2, <2>1
  <2> QED BY <2>2, <2>3
<1> QED BY <1>4, <1>5 DEF Live, NoLater

(* Every step keeps Live. *)
LEMMA LiveIsInductive == Shape /\ Live /\ [Next]_vars => Live'
<1> SUFFICES ASSUME Shape, Live, [Next]_vars PROVE Live'
  OBVIOUS
<1>1. CASE Start
  BY <1>1, StartLive
<1>2. CASE Continue
  <2>1. CASE Prepare(state, "consume")
    BY <2>1, PrepareLive
  <2>2. CASE Refuse("planner", "continuation")
    BY <2>2, EndLive DEF Refuse
  <2> QED BY <1>2, <2>1, <2>2 DEF Continue
<1>3. CASE Consume
  <2>1. CASE Refuse("planner", "catalog")
    BY <2>1, EndLive DEF Refuse
  <2>2. CASE ~Refuse("planner", "catalog")
    BY <1>3, <2>2, ConsumeProceeds, PrepareLive
  <2> QED BY <2>1, <2>2
<1>4. CASE Emit
  <2>1. CASE Refuse("planner", "channel")
    BY <2>1, EndLive DEF Refuse
  <2>2. CASE pc' = "offered" /\ UNCHANGED <<changes, fetched>>
    BY <2>2 DEF Live, Planning
  <2> QED BY <1>4, <2>1, <2>2 DEF Emit
<1>5. CASE Finish
  BY <1>5, EndLive DEF Finish, Ready, Planning
<1>6. CASE ListAuths
  BY <1>6, ListAuthsLive
<1>7. CASE GetRuntime
  BY <1>7, GetRuntimeLive
<1>8. CASE GetPhysical
  BY <1>8, GetPhysicalLive
<1>9. CASE Resolve
  BY <1>9, ResolveLive
<1>10. CASE HostFails
  BY <1>10, EndLive DEF HostFails, Refuse
<1>11. CASE Validate
  <2>1. CASE Refuse("writer", "descriptor")
    BY <2>1, EndLive DEF Refuse
  <2>2. CASE pc' = "fetching" /\ UNCHANGED <<changes, fetched>>
    BY <2>2 DEF Live, Planning
  <2> QED BY <1>11, <2>1, <2>2 DEF Validate
<1>12. CASE Fetch
  BY <1>12, FetchLive
<1>13. CASE FetchFails
  BY <1>13, EndLive DEF FetchFails, Refuse
<1>14. CASE \E a \in AuthIndex : ChangeAuth(a)
  BY <1>14, ChangeAuthLive
<1>15. CASE UNCHANGED vars
  <2>1. UNCHANGED <<scenario, auths, changes, pc, state, goal, todo, lookup, fetched>>
    BY <1>15 DEF vars, plannerVars, writerVars
  <2>2. /\ Quiet' = Quiet /\ op' = op /\ \A m : Alive(m)' = Alive(m)
        /\ \A c : Pending(c)' = Pending(c)
    BY <2>1, SameCredentials DEF Pending
  <2> QED BY <2>1, <2>2 DEF Live, Planning
<1> QED BY <1>1, <1>2, <1>3, <1>4, <1>5, <1>6, <1>7, <1>8, <1>9, <1>10, <1>11,
           <1>12, <1>13, <1>14, <1>15 DEF Next, Ended

-----------------------------------------------------------------------------
(* Trust and Live hold initially. *)
LEMMA InitTrust == Init => Trust /\ Live
<1> SUFFICES ASSUME Init PROVE Trust /\ Live
  OBVIOUS
<1>1. /\ fetched = << >> /\ pc = "start" /\ state.bound = << >>
      /\ DOMAIN fetched = {} /\ DOMAIN state.bound = {}
  BY DEF Init, EmptyState
<1>2. Trust
  BY <1>1 DEF Trust, Bindings, Matches
<1>3. Live
  BY <1>1 DEF Live, Quiet
<1> QED BY <1>2, <1>3

(* No proposal is planned from a catalog that another credential fetched, and the
   credentials of metadata-sync are still good: CredentialsHold. *)
THEOREM CredentialsCorrect == Spec => []CredentialsHold
<1>1. Shape /\ Trust /\ Live => CredentialsHold
  <2> SUFFICES ASSUME Shape, Trust, Live, pc = "proposed",
                      NEW c \in DOMAIN config, NEW i \in Pages(c)
               PROVE  LET bound == state.bound[c]
                          used == fetched[i].by
                          last == fetched[Len(fetched)]
                      IN  /\ changes[bound.index] < 2 =>
                               IF op = "metadata" THEN used = bound
                               ELSE used.base = bound.base
                          /\ op = "metadata" /\ last.changes = changes =>
                               /\ auths[bound.index].status = "active"
                               /\ Identity(bound.index, auths[bound.index]) = bound
    BY DEF CredentialsHold
  <2>1. c \in DOMAIN state.bound
    BY DEF Shape, Progress
  <2>2. Settled(c)
    BY <2>1 DEF Trust
  <2>3. fetched # << >>
    <3>1. i \in DOMAIN fetched
      BY DEF Pages
    <3> QED BY <3>1
  <2>4. op = "metadata" /\ fetched[Len(fetched)].changes = changes =>
          Alive(state.bound[c])
    BY <2>1, <2>3 DEF Live, Quiet
  <2> QED BY <2>2, <2>4 DEF Settled, Same, Alive, Now
<1>2. Init => Shape /\ Trust /\ Live
  BY InitShape, InitTrust
<1>3. Shape /\ Trust /\ Live /\ [Next]_vars => (Shape /\ Trust /\ Live)'
  BY ShapeIsInductive, TrustIsInductive, LiveIsInductive
<1> QED BY <1>1, <1>2, <1>3, PTL DEF Spec

=============================================================================
