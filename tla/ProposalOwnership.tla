-------------------------- MODULE ProposalOwnership --------------------------
(***************************************************************************)
(* What a planner's proposal may change in the config (validateOwnership   *)
(* of ownership.go), and what the planners propose (applyMembership of     *)
(* auto-pull-models, applyMetadata of model-metadata-sync).                *)
(*                                                                         *)
(* A proposal is a whole config file.  The Writer parses it and compares   *)
(* it node by node with the config the run began with: the membership      *)
(* planner owns which models the OpenAI-compatible channels have, the      *)
(* metadata planner six keys of the models that are there.  The            *)
(* comparison includes how a node is written, so that it depends on what   *)
(* the YAML encoder makes of the tree a planner has built.                 *)
(*                                                                         *)
(* A document is kept to the nodes the comparison tells apart: channels,   *)
(* their models, the fields of a model, and one token for the rest of a    *)
(* channel and of the file.  Comments are part of these tokens and values, *)
(* and do not move when a file is written.  An operator with a suffix is a *)
(* mutated form of the one below it.                                       *)
(***************************************************************************)
EXTENDS Integers, Sequences, Functions

CONSTANTS
  Name,          \* the names of models
  Unplain,       \* those that YAML does not take without quotes, as @cf/llama or 4.5
  Token,         \* the values of fields, and what else a channel holds
  Documents,     \* the files to start from, and to propose
  DesiredLists,  \* what a filtered provider catalog may list
  Patches,       \* what a metadata plan may write into the models of a channel
  Skip           \* a channel, model or field that a plan leaves alone

Style == {"plain", "quoted"}   \* of a scalar: unquoted or not
Shape == {"block", "flow"}     \* of a sequence or mapping: indented or in brackets

metadataKeys == {"thinking", "max-output-tokens"}   \* two of the six owned keys
Key == {"name", "alias"} \cup metadataKeys

Field == [key : {"name"}, keyStyle : Style, value : Name, style : Style]
         \cup [key : Key \ {"name"}, keyStyle : Style, value : Token, style : Style]
Model == [shape : Shape, fields : Seq(Field)]

\* indirect: there are anchors, aliases or merge keys in it.
Channel == [rest : Token, indirect : BOOLEAN, shape : Shape, models : Seq(Model)]
Document == [rest : Token, indirect : BOOLEAN, openai : Seq(Channel), claude : Seq(Channel)]

Keys(model) == {f.key : f \in Range(model.fields)}

\* A key occurs once in a mapping (validateDocumentMappings).
UniqueKeys(model) ==
  \A i, j \in DOMAIN model.fields : model.fields[i].key = model.fields[j].key => i = j

modelName(model) ==
  (CHOOSE f \in Range(model.fields) : f.key = "name").value
HasName(model) == "name" \in Keys(model)

Names(models) == [i \in DOMAIN models |-> modelName(models[i])]

\* A file that was parsed: what is empty or inside brackets is in brackets itself, and
\* some scalars are quoted.
ParsedModel(model) ==
  UniqueKeys(model) /\ \A f \in Range(model.fields) : f.value \in Unplain => f.style = "quoted"
ParsedChannel(c) ==
  /\ c.models = <<>> => c.shape = "flow"
  /\ \A m \in Range(c.models) : ParsedModel(m) /\ (c.shape = "flow" => m.shape = "flow")
Parsed(doc) == \A c \in Range(doc.openai) \cup Range(doc.claude) : ParsedChannel(c)

ASSUME DocumentsAssumption ==
  /\ Unplain \subseteq Name /\ Name \cap Token = {} /\ Documents \subseteq Document
  /\ \A doc \in Documents : Parsed(doc)
ASSUME PlansAssumption ==
  /\ DesiredLists \subseteq Seq(Name) /\ \A names \in DesiredLists : IsInjective(names)
  /\ Patches \subseteq [Name -> [metadataKeys -> Token \cup {Skip}]]
ASSUME SkipAssumption == Skip \notin Token \cup DesiredLists

VARIABLES
  doc,   \* the config file
  last   \* the last run

vars == <<doc, last>>

-----------------------------------------------------------------------------
(* The Writer: ownership.go. *)

\* Every model has a name, and no two the same.
namedModels(models) ==
  (\A m \in Range(models) : HasName(m)) /\ IsInjective(Names(models))

\* A new model holds its name, written without any decoration.
minimalNewModel(model) ==
  /\ model.shape = "block" /\ Len(model.fields) = 1
  /\ model.fields[1].key = "name"
  /\ model.fields[1].keyStyle = "plain" /\ model.fields[1].style = "plain"

retainedModel_named(base, model) == modelName(base) = modelName(model)

\* A model that stays is the same node.
retainedModel(base, model) == base = model

compareMembershipModels(base, proposed) ==
  /\ base.shape = proposed.shape
  /\ namedModels(base.models) /\ namedModels(proposed.models)
  /\ \A m \in Range(proposed.models) :
       LET same == {b \in Range(base.models) : modelName(b) = modelName(m)}
       IN  IF same = {} THEN minimalNewModel(m) ELSE \A b \in same : retainedModel(b, m)

\* Everything but the models is as it was.
SameButModels(base, proposed) ==
  base.rest = proposed.rest /\ base.indirect = proposed.indirect

SameOutside(base, proposed) ==
  /\ base.rest = proposed.rest /\ base.indirect = proposed.indirect
  /\ Len(base.openai) = Len(proposed.openai) /\ Len(base.claude) = Len(proposed.claude)

compareMembershipRoot(base, proposed) ==
  /\ SameOutside(base, proposed) /\ base.claude = proposed.claude
  /\ \A i \in DOMAIN base.openai :
       /\ SameButModels(base.openai[i], proposed.openai[i])
       /\ compareMembershipModels(base.openai[i], proposed.openai[i])

Owned(field) == field.key \in metadataKeys

\* The order of the fields, as pairs: no key occurs twice, so that they give the list.
Order(model) ==
  {<<model.fields[p[1]], model.fields[p[2]]>> :
     p \in {q \in (DOMAIN model.fields) \X (DOMAIN model.fields) : q[1] <= q[2]}}

unowned(model) == {p \in Order(model) : ~ Owned(p[1]) /\ ~ Owned(p[2])}
OwnedOrder(model, other) ==
  LET retained == metadataKeys \cap Keys(other)
  IN  {<<p[1].key, p[2].key>> :
         p \in {q \in Order(model) : q[1].key \in retained /\ q[2].key \in retained}}

sameRetainedMetadataOrder(base, proposed) ==
  OwnedOrder(base, proposed) = OwnedOrder(proposed, base)

compareMetadataModel(base, proposed) ==
  /\ base.shape = proposed.shape
  /\ HasName(base) /\ HasName(proposed)
  /\ unowned(base) = unowned(proposed)
  /\ \A f \in Range(proposed.fields) : Owned(f) =>
       \/ \E b \in Range(base.fields) : b.key = f.key /\ b.keyStyle = f.keyStyle
       \/ f.key \notin Keys(base) /\ f.keyStyle = "plain"
  /\ sameRetainedMetadataOrder(base, proposed)

compareMetadataProvider(base, proposed) ==
  /\ SameButModels(base, proposed)
  /\ base.shape = proposed.shape /\ Len(base.models) = Len(proposed.models)
  /\ \A i \in DOMAIN base.models : compareMetadataModel(base.models[i], proposed.models[i])

compareMetadataRoot(base, proposed) ==
  /\ SameOutside(base, proposed)
  /\ \A i \in DOMAIN base.openai : compareMetadataProvider(base.openai[i], proposed.openai[i])
  /\ \A i \in DOMAIN base.claude : compareMetadataProvider(base.claude[i], proposed.claude[i])

\* No indirection in what a planner may change, and in the plugins' own configs.
validateMutablePaths(d, operation) ==
  /\ ~ d.indirect
  /\ \A c \in Range(d.openai) : ~ c.indirect
  /\ operation = "model-metadata-sync" => \A c \in Range(d.claude) : ~ c.indirect

validateOwnership(operation, base, proposed) ==
  /\ validateMutablePaths(base, operation) /\ validateMutablePaths(proposed, operation)
  /\ IF operation = "auto-pull-models"
       THEN compareMembershipRoot(base, proposed)
       ELSE compareMetadataRoot(base, proposed)

-----------------------------------------------------------------------------
(* The planners, and the encoder. *)

Encoded_asBuilt(channel) == channel

\* What a parser makes of a channel that was built and written.
Encoded(channel) ==
  IF channel.models = <<>> THEN [channel EXCEPT !.shape = "flow"]
  ELSE IF channel.shape = "block" THEN channel
  ELSE [channel EXCEPT !.models =
          [i \in DOMAIN @ |-> [@[i] EXCEPT !.shape = "flow"]]]

minimalModelNode(name) ==
  [shape |-> "block",
   fields |-> <<[key |-> "name", keyStyle |-> "plain", value |-> name,
                 style |-> IF name \in Unplain THEN "quoted" ELSE "plain"]>>]

ModelFor_rebuilt(models, name) == minimalModelNode(name)

\* The node for a name: the one that is there, or a new one.
ModelFor(models, name) ==
  IF \E m \in Range(models) : modelName(m) = name
    THEN CHOOSE m \in Range(models) : modelName(m) = name
    ELSE minimalModelNode(name)

\* desired gives the list for each OpenAI-compatible channel, or Skip.
applyMembership(d, desired) ==
  [d EXCEPT !.openai = [i \in DOMAIN @ |->
     IF desired[i] = Skip \/ desired[i] = Names(@[i].models) THEN @[i]
     ELSE Encoded([@[i] EXCEPT !.models =
            [k \in DOMAIN desired[i] |-> ModelFor(d.openai[i].models, desired[i][k])]])]]

\* What a patch makes of a field that is there, and the field of a key that is not.
PatchedField(field, patch) ==
  IF Owned(field) /\ patch[field.key] # Skip
    THEN [field EXCEPT !.value = patch[field.key]] ELSE field
NewField(model, patch, key) ==
  IF patch[key] = Skip \/ key \in Keys(model) THEN <<>>
  ELSE <<[key |-> key, keyStyle |-> "plain", value |-> patch[key], style |-> "plain"]>>

\* The value goes to the key that is there; new keys come last, in a fixed order.
applyMetadataFields(model, patch) ==
  [model EXCEPT !.fields =
     [i \in DOMAIN @ |-> PatchedField(@[i], patch)]
       \o NewField(model, patch, "thinking") \o NewField(model, patch, "max-output-tokens")]

PatchedChannel(channel, patches) ==
  [channel EXCEPT !.models =
     [i \in DOMAIN @ |-> applyMetadataFields(@[i], patches[modelName(@[i])])]]

applyMetadata(d, root, channel, patches) ==
  [d EXCEPT ![root][channel] = PatchedChannel(@, patches)]

\* What a planner demands of a channel it is configured for (locateSnapshotChannel).
locateSnapshotChannel(channel) == ~ channel.indirect /\ namedModels(channel.models)

-----------------------------------------------------------------------------
NoRun == [operation |-> "none", own |-> FALSE, accepted |-> TRUE, refused |-> <<>>]

Init == doc \in Documents /\ last = NoRun

\* The Writer takes a proposal or refuses it; the same bytes need no validation.
Commit(operation, own, proposal, desired) ==
  \E accepted \in {validateOwnership(operation, doc, proposal)}
                 \cup (IF proposal = doc THEN {TRUE} ELSE {}) :
     /\ doc' = IF accepted THEN proposal ELSE doc
     /\ last' = [operation |-> operation, own |-> own, accepted |-> accepted,
                 refused |-> IF accepted THEN <<>> ELSE desired]

\* One membership run covers every configured channel.
Membership(desired) ==
  /\ \A i \in DOMAIN doc.openai :
       desired[i] # Skip => locateSnapshotChannel(doc.openai[i])
  /\ Commit("auto-pull-models", TRUE, applyMembership(doc, desired), desired)

\* A metadata run that patches one channel; more channels only add conjuncts.
Metadata(root, channel, patches) ==
  /\ locateSnapshotChannel(doc[root][channel])
  /\ Commit("model-metadata-sync", TRUE, applyMetadata(doc, root, channel, patches), <<>>)

\* Whatever another version of a planner may propose.
Foreign(operation, proposal) == Commit(operation, FALSE, proposal, <<>>)

Next ==
  \/ \E desired \in [DOMAIN doc.openai -> DesiredLists \cup {Skip}] : Membership(desired)
  \/ \E root \in {"openai", "claude"}, patches \in Patches :
       \E channel \in DOMAIN doc[root] : Metadata(root, channel, patches)
  \/ \E operation \in {"auto-pull-models", "model-metadata-sync"}, proposal \in Documents :
       Foreign(operation, proposal)

Spec == Init /\ [][Next]_vars

-----------------------------------------------------------------------------
\* The file stays one that parses as it was built: what a run writes is what the next
\* run reads.
TypeOK ==
  /\ doc \in Document /\ Parsed(doc)
  /\ last.operation \in {"none", "auto-pull-models", "model-metadata-sync"}
  /\ last.own \in BOOLEAN /\ last.accepted \in BOOLEAN

\* The field of a model under a key, as a set.
At(model, key) == {f \in Range(model.fields) : f.key = key}

\* What a membership run may do to a channel: the models that stay keep their fields,
\* and none hides behind another of the same name.
MembershipChange(c, d) ==
  /\ namedModels(d.models)
  /\ \A m \in Range(c.models), n \in Range(d.models) :
       modelName(m) = modelName(n) => m.fields = n.fields

\* What a metadata run may do: the models stay, with every field under another key.
MetadataChange(c, d) ==
  /\ DOMAIN c.models = DOMAIN d.models
  /\ \A k \in DOMAIN c.models, key \in Key \ metadataKeys :
       At(c.models[k], key) = At(d.models[k], key)

\* No run changes what the other planner or the operator owns, whatever was proposed
\* (ownership.go:151-365).
OnlyOwnedChange ==
  [][doc' # doc =>
       /\ doc'.rest = doc.rest
       /\ \A root \in {"openai", "claude"} :
            /\ DOMAIN doc'[root] = DOMAIN doc[root]
            /\ \A i \in DOMAIN doc[root] :
                 LET c == doc[root][i]   d == doc'[root][i]
                 IN  /\ c.rest = d.rest
                     /\ IF last'.operation = "model-metadata-sync" THEN MetadataChange(c, d)
                        ELSE IF root = "openai" THEN MembershipChange(c, d) ELSE c = d]_vars

\* Indirection where the operation may write.
Indirect(d, operation) == ~ validateMutablePaths(d, operation)

\* A model without a name, or two with one name, in any channel.
Unnamed(d, operation) ==
  \/ \E c \in Range(d.openai) : ~ namedModels(c.models)
  \/ /\ operation = "model-metadata-sync"
     /\ \E c \in Range(d.claude) : \E m \in Range(c.models) : ~ HasName(m)

\* What a channel's list needs that the Writer refuses for how it is written: an empty
\* list in the place of an indented one, a new model inside brackets, a new name in
\* quotes.
Unwritable(channel, names) ==
  names # Names(channel.models) /\
    (\/ names = <<>> /\ channel.shape = "block"
     \/ \E name \in Range(names) \ Range(Names(channel.models)) :
          channel.shape = "flow" \/ name \in Unplain)

\* The Writer refuses what its own planners propose for no other reason than what is
\* wrong with the file, in channels no plan is for, or how the YAML is written
\* (ownership.go:17-40, 447-458).
RefusalsAreExplained ==
  last.own /\ ~ last.accepted =>
    \/ Indirect(doc, last.operation) \/ Unnamed(doc, last.operation)
    \/ /\ last.operation = "auto-pull-models"
       /\ \E i \in DOMAIN doc.openai :
            last.refused[i] # Skip /\ Unwritable(doc.openai[i], last.refused[i])

\* PLAN/four-plugin-standard-cpa-architecture.md:311-314: a membership run creates a
\* new model for each new name, removes excluded names and emits the upstream order.
\* When nothing is wrong with the file, the Writer should take what it proposes.
MembershipIsAccepted ==
  last.own /\ last.operation = "auto-pull-models" =>
    last.accepted \/ Indirect(doc, last.operation) \/ Unnamed(doc, last.operation)
=============================================================================
