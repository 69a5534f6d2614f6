------------------------- MODULE MetadataPrecedence -------------------------
(***************************************************************************)
(* What model-metadata-sync writes into one existing model, sync after     *)
(* sync (metadata.go, plannedPatches of planner.go, applyMetadata of       *)
(* yaml.go).                                                               *)
(*                                                                         *)
(* A model has six owned fields.  Each sync starts from the values in the  *)
(* config, offers each field to the provider's own catalog, to the         *)
(* configured public catalogs in their order and to the operator's         *)
(* overrides, and patches the fields whose value changed.  The next sync   *)
(* finds in the config what this one wrote, and can no longer tell it from *)
(* a value the operator put there.                                         *)
(*                                                                         *)
(* Models do not influence each other, so one stands for all.  A value is  *)
(* a limit > 0 or a list that is not empty after normalisation; Unset      *)
(* stands for 0, for the empty list and for a missing key.  The lists of   *)
(* attempted sources and the reasons in the reports are left out.          *)
(* An operator with a suffix is a mutated form of the one below it.        *)
(***************************************************************************)
EXTENDS Integers, Sequences

CONSTANTS
  Value,       \* what a field may hold
  Unset,       \* that it holds nothing
  Models,      \* the models, and
  Upstreams,   \*   the entries of the provider's catalog, and
  SourceLists, \*   the configured public catalogs with their entries, and
  Overrides,   \*   the operator's overrides a behaviour may start from
  MaxSyncs     \* bound on the number of syncs

Limit     == {"max-context-length", "max-input-tokens", "max-output-tokens"}
Described == {"thinking.levels", "input-modalities", "output-modalities"}
metadataFieldNames == Limit \cup Described

\* What a catalog, an override or a config says of a model.
Entry == [metadataFieldNames -> Value \cup {Unset}]
Source == [website : {"modelparams.dev", "models.dev"}, entry : Entry]

\* The configuration of a channel and what the catalogs say of the model.
Channel == [upstreamMeta : BOOLEAN, upstream : Entry, sources : Seq(Source),
            overrides : Entry]

ASSUME ValueAssumption == Unset \notin Value
ASSUME EntriesAssumption ==
  /\ Models \subseteq Entry /\ Upstreams \subseteq Entry /\ Overrides \subseteq Entry
  /\ SourceLists \subseteq Seq(Source) /\ MaxSyncs \in Nat

\* Where the value of a field came from.  A field without one is "skipped" in the
\* report.
Status == {"skipped", "preserved", "upstream", "authoritative", "completed", "override"}
Written == Status \ {"skipped", "preserved"}
Open == [value |-> Unset, status |-> "skipped"]
FieldState ==
  {s \in [value : Value \cup {Unset}, status : Status] :
     s.value = Unset <=> s.status = "skipped"}

VARIABLES
  model,    \* the owned fields of the model in the config
  report,   \* what the last sync reported of each field
  channel,  \* the configuration of the channel and the catalogs it is served
  syncs     \* how many syncs there have been

vars == <<model, report, channel, syncs>>

-----------------------------------------------------------------------------
Set(value, status) == [value |-> value, status |-> status]

initialFieldStates(entry) ==
  [f \in metadataFieldNames |->
     IF entry[f] = Unset THEN Open ELSE Set(entry[f], "preserved")]

\* The provider's catalog when upstream_meta is on: it replaces what describes the
\* model and fills missing limits.  Only a Claude catalog has input limits.
applyUpstreamFields(states, upstream) ==
  [f \in metadataFieldNames |->
     IF upstream[f] # Unset /\ (f \in Described \/ states[f] = Open)
       THEN Set(upstream[f], "upstream") ELSE states[f]]

applyUpstreamLimits_blind(states, upstream) ==
  [f \in metadataFieldNames |->
     IF f \in {"max-context-length", "max-output-tokens"} /\ states[f] = Open
       THEN Set(upstream[f], "upstream") ELSE states[f]]

\* The same when it is off and a models.dev source is configured.
applyUpstreamLimits(states, upstream) ==
  [f \in metadataFieldNames |->
     IF /\ f \in {"max-context-length", "max-output-tokens"}
        /\ upstream[f] # Unset /\ states[f] = Open
       THEN Set(upstream[f], "upstream") ELSE states[f]]

hasModelsdevSource(sources) ==
  \E i \in DOMAIN sources : sources[i].website = "models.dev"

FromUpstream(states, c) ==
  IF c.upstreamMeta THEN applyUpstreamFields(states, c.upstream)
  ELSE IF hasModelsdevSource(c.sources) THEN applyUpstreamLimits(states, c.upstream)
  ELSE states

Fills_replace(source, f, state) ==
  /\ source.entry[f] # Unset
  /\ \/ /\ source.website = "modelparams.dev"
        /\ f \in {"thinking.levels", "max-output-tokens"}
     \/ /\ source.website = "models.dev"
        /\ f \notin {"thinking.levels", "max-input-tokens"}
  /\ state.status \in {"skipped", "preserved"}

\* Whether a public catalog would give field f its value, f being as it is before
\* any of them: modelparams.dev replaces what is only preserved, models.dev does not.
Fills(source, f, state) ==
  /\ source.entry[f] # Unset
  /\ \/ /\ source.website = "modelparams.dev"
        /\ f \in {"thinking.levels", "max-output-tokens"}
        /\ state.status \in {"skipped", "preserved"}
     \/ /\ source.website = "models.dev"
        /\ f \in {"max-context-length", "max-output-tokens",
                  "input-modalities", "output-modalities"}
        /\ state.status = "skipped"

\* The first source that fills f; once one has, no later one does.
FirstSource(sources, f, state) ==
  {i \in DOMAIN sources : /\ Fills(sources[i], f, state)
                          /\ \A j \in 1 .. i - 1 : ~ Fills(sources[j], f, state)}

FilledBy(source, f) ==
  Set(source.entry[f],
      IF source.website = "modelparams.dev" THEN "authoritative" ELSE "completed")

FromSources(states, sources) ==
  [f \in metadataFieldNames |->
     LET first == FirstSource(sources, f, states[f])
     IN  IF first = {} THEN states[f] ELSE FilledBy(sources[CHOOSE i \in first : TRUE], f)]

applyOverridesWithProvenance(states, overrides) ==
  [f \in metadataFieldNames |->
     IF overrides[f] # Unset THEN Set(overrides[f], "override") ELSE states[f]]

\* c is the channel the model belongs to.
enrichModels(entry, c) ==
  LET states == FromUpstream(initialFieldStates(entry), c)
  IN  applyOverridesWithProvenance(FromSources(states, c.sources), c.overrides)

\* Only a field that a source supplied and whose value changed is patched.
plannedPatches(before, states) ==
  {f \in metadataFieldNames : states[f].status \in Written /\ states[f].value # before[f]}

applyMetadata_rebuild(before, states) ==
  [f \in metadataFieldNames |->
     IF states[f].status \in Written THEN states[f].value ELSE Unset]

applyMetadata(before, states) ==
  [f \in metadataFieldNames |->
     IF f \in plannedPatches(before, states) THEN states[f].value ELSE before[f]]

-----------------------------------------------------------------------------
Init ==
  /\ model \in Models
  /\ report = initialFieldStates(model)
  /\ channel \in [upstreamMeta : BOOLEAN, upstream : Upstreams,
                  sources : SourceLists, overrides : Overrides]
  /\ syncs = 0

\* One committed sync: planned from the model in the config, and written there.
Sync ==
  /\ syncs < MaxSyncs
  /\ report' = enrichModels(model, channel)
  /\ model' = applyMetadata(model, report')
  /\ syncs' = syncs + 1
  /\ UNCHANGED channel

Next == Sync

Spec == Init /\ [][Next]_vars

-----------------------------------------------------------------------------
TypeOK ==
  /\ model \in Entry
  /\ report \in [metadataFieldNames -> FieldState]
  /\ channel \in Channel
  /\ syncs \in Nat

\* The report tells the truth about the config: after a sync every field holds the
\* value reported for it, and exactly the fields reported as skipped hold none.  The
\* code keeps the model and the field states apart and patches by comparing with a
\* third copy (metadata.go:48-158, planner.go:394-448).
ReportMatchesModel == \A f \in metadataFieldNames : report[f].value = model[f]

\* A context or input limit in the config is replaced by nothing but an override:
\* catalogs only fill (metadata.go:211-218, 113-118).
CatalogsOnlyFillLimits ==
  [][\A f \in Limit \ {"max-output-tokens"} :
       model[f] # Unset => model'[f] \in {model[f], channel.overrides[f]}]_vars

\* From the second sync on, with the same catalogs, only the output limit can still
\* change, and only to the value of a modelparams.dev source.
OnlyOutputLimitDrifts ==
  [][syncs >= 1 =>
       \A f \in metadataFieldNames :
          model'[f] # model[f] =>
             /\ f = "max-output-tokens"
             /\ report'[f].status = "authoritative"]_vars

\* With the same catalogs nothing changes from the third sync on.
SettlesAfterTwoSyncs == [][syncs >= 2 => model' = model]_vars

=============================================================================
