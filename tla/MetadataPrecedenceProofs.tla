---------------------- MODULE MetadataPrecedenceProofs ----------------------
(***************************************************************************)
(* Proofs about MetadataPrecedence: that reports tell the truth, what a    *)
(* catalog may replace, and that syncs settle, for every catalog, every    *)
(* list of sources and every model.                                        *)
(*                                                                         *)
(* What a sync does to a field depends on that field alone, so everything  *)
(* is shown for FieldResult, the course of one field.                      *)
(***************************************************************************)
EXTENDS MetadataPrecedence, TLAPS

Held == Value \cup {Unset}
F == metadataFieldNames

\* One field through the four stages of a sync.
Initial(x) == IF x = Unset THEN Open ELSE Set(x, "preserved")

UpstreamApplies(f, s, c) ==
  /\ c.upstream[f] # Unset
  /\ \/ c.upstreamMeta /\ (f \in Described \/ s = Open)
     \/ /\ ~ c.upstreamMeta /\ hasModelsdevSource(c.sources)
        /\ f \in {"max-context-length", "max-output-tokens"} /\ s = Open

AfterUpstream(f, s, c) ==
  IF UpstreamApplies(f, s, c) THEN Set(c.upstream[f], "upstream") ELSE s

AfterSources(f, s, c) ==
  LET first == FirstSource(c.sources, f, s)
  IN  IF first = {} THEN s ELSE FilledBy(c.sources[CHOOSE i \in first : TRUE], f)

AfterOverrides(f, s, c) ==
  IF c.overrides[f] # Unset THEN Set(c.overrides[f], "override") ELSE s

FieldResult(f, x, c) ==
  AfterOverrides(f, AfterSources(f, AfterUpstream(f, Initial(x), c), c), c)

\* A sync treats every field by itself.
LEMMA FieldWise ==
  ASSUME NEW e \in Entry, NEW c \in Channel, NEW f \in F
  PROVE  enrichModels(e, c)[f] = FieldResult(f, e[f], c)
<1> DEFINE s0 == initialFieldStates(e)
           s1 == FromUpstream(s0, c)
           s2 == FromSources(s1, c.sources)
<1>1. s0[f] = Initial(e[f])
  BY DEF initialFieldStates, Initial, F
<1>2. s1[f] = AfterUpstream(f, s0[f], c)
  BY DEF FromUpstream, applyUpstreamFields, applyUpstreamLimits, AfterUpstream, UpstreamApplies,
         F, Channel
<1>3. s2[f] = AfterSources(f, s1[f], c)
  BY DEF FromSources, AfterSources, F
<1>4. enrichModels(e, c)[f] = AfterOverrides(f, s2[f], c)
  BY DEF enrichModels, applyOverridesWithProvenance, AfterOverrides, F
<1> QED
  BY <1>1, <1>2, <1>3, <1>4 DEF FieldResult

\* enrichModels yields a function of the fields.
LEMMA EnrichDomain ==
  ASSUME NEW e \in Entry, NEW c \in Channel
  PROVE  enrichModels(e, c) = [f \in F |-> FieldResult(f, e[f], c)]
<1>1. enrichModels(e, c) = [f \in F |-> enrichModels(e, c)[f]]
  BY DEF enrichModels, applyOverridesWithProvenance, F
<1> QED
  BY <1>1, FieldWise

\* The state a source list leaves a field in is the one it found, or comes from a
\* source that fills it.
LEMMA SourcesFacts ==
  ASSUME NEW c \in Channel, NEW f \in F, NEW s \in FieldState
  PROVE  \/ FirstSource(c.sources, f, s) = {} /\ AfterSources(f, s, c) = s
         \/ \E i \in DOMAIN c.sources :
              /\ Fills(c.sources[i], f, s)
              /\ AfterSources(f, s, c) = FilledBy(c.sources[i], f)
<1>1. CASE FirstSource(c.sources, f, s) = {}
  BY <1>1 DEF AfterSources
<1>2. CASE FirstSource(c.sources, f, s) # {}
  <2>1. (CHOOSE i \in FirstSource(c.sources, f, s) : TRUE) \in FirstSource(c.sources, f, s)
    BY <1>2
  <2>2. PICK i \in FirstSource(c.sources, f, s) :
          i = CHOOSE j \in FirstSource(c.sources, f, s) : TRUE
    BY <2>1
  <2>3. i \in DOMAIN c.sources /\ Fills(c.sources[i], f, s)
    BY <2>2 DEF FirstSource
  <2> QED
    BY <1>2, <2>2, <2>3 DEF AfterSources
<1> QED
  BY <1>1, <1>2

\* What a channel holds, field by field.
LEMMA ChannelFacts ==
  ASSUME NEW c \in Channel, NEW f \in F
  PROVE  /\ c.upstream[f] \in Held /\ c.overrides[f] \in Held
         /\ \A i \in DOMAIN c.sources :
              /\ c.sources[i].entry[f] \in Held
              /\ c.sources[i].website \in {"modelparams.dev", "models.dev"}
<1>1. c.upstream \in Entry /\ c.overrides \in Entry /\ c.sources \in Seq(Source)
  BY DEF Channel
<1>2. ASSUME NEW i \in DOMAIN c.sources PROVE c.sources[i] \in Source
  BY <1>1
<1>3. ASSUME NEW i \in DOMAIN c.sources
      PROVE  /\ c.sources[i].entry[f] \in Held
             /\ c.sources[i].website \in {"modelparams.dev", "models.dev"}
  BY <1>2 DEF Source, Entry, F, Held
<1>4. c.upstream[f] \in Held /\ c.overrides[f] \in Held
  BY <1>1 DEF Entry, F, Held
<1> QED
  BY <1>3, <1>4

\* Every stage keeps a field well formed: it has a value unless it is skipped.
LEMMA FieldResultType ==
  ASSUME NEW c \in Channel, NEW f \in F, NEW x \in Held
  PROVE  /\ Initial(x) \in FieldState
         /\ AfterUpstream(f, Initial(x), c) \in FieldState
         /\ AfterSources(f, AfterUpstream(f, Initial(x), c), c) \in FieldState
         /\ FieldResult(f, x, c) \in FieldState
<1> DEFINE s0 == Initial(x)
           s1 == AfterUpstream(f, s0, c)
           s2 == AfterSources(f, s1, c)
<1>0. /\ c.upstream[f] \in Held /\ c.overrides[f] \in Held
      /\ \A i \in DOMAIN c.sources :
           /\ c.sources[i].entry[f] \in Held
           /\ c.sources[i].website \in {"modelparams.dev", "models.dev"}
  BY ChannelFacts
<1>1. s0 \in FieldState
  BY ValueAssumption DEF Initial, FieldState, Open, Set, Status, Held
<1>2. s1 \in FieldState
  BY <1>0, <1>1 DEF AfterUpstream, UpstreamApplies, FieldState, Set, Status, Held
<1>3. s2 \in FieldState
  <2>1. ASSUME NEW i \in DOMAIN c.sources, Fills(c.sources[i], f, s1)
        PROVE  FilledBy(c.sources[i], f) \in FieldState
    BY <1>0, <2>1 DEF Fills, FilledBy, FieldState, Set, Status, Held
  <2> HIDE DEF s1
  <2> QED
    BY <1>2, <2>1, SourcesFacts
<1>4. FieldResult(f, x, c) = AfterOverrides(f, s2, c)
  BY DEF FieldResult
<1>5. AfterOverrides(f, s2, c) \in FieldState
  BY <1>0, <1>3 DEF AfterOverrides, FieldState, Set, Status, Held
<1> QED
  BY <1>1, <1>2, <1>3, <1>4, <1>5

\* What a field holds once a sync has given it x.
Result(f, x, c) == FieldResult(f, x, c).value

\* FirstSource looks at no more of a state than its status.
LEMMA FirstSourceOfStatus ==
  ASSUME NEW c \in Channel, NEW f \in F, NEW s, NEW t, s.status = t.status
  PROVE  FirstSource(c.sources, f, s) = FirstSource(c.sources, f, t)
BY DEF FirstSource, Fills

\* A source fills nothing that the provider has supplied, of the preserved fields only
\* two, and thinking levels whether they are preserved or not.
LEMMA FirstSourceCases ==
  ASSUME NEW c \in Channel, NEW f \in F, NEW s
  PROVE  /\ s.status = "upstream" => FirstSource(c.sources, f, s) = {}
         /\ s.status = "preserved" /\ f \notin {"thinking.levels", "max-output-tokens"}
              => FirstSource(c.sources, f, s) = {}
         /\ f = "max-input-tokens" => FirstSource(c.sources, f, s) = {}
BY DEF FirstSource, Fills

LEMMA ThinkingFirst ==
  ASSUME NEW c \in Channel, NEW s, NEW t,
         s.status \in {"skipped", "preserved"}, t.status \in {"skipped", "preserved"}
  PROVE  FirstSource(c.sources, "thinking.levels", s)
           = FirstSource(c.sources, "thinking.levels", t)
BY DEF FirstSource, Fills

\* With a value from a source that fills only what is preserved, the field is the
\* output limit or the thinking levels, and the source is authoritative.
LEMMA PreservedFilled ==
  ASSUME NEW c \in Channel, NEW f \in F, NEW s \in FieldState, s.status = "preserved",
         AfterSources(f, s, c) # s
  PROVE  /\ f \in {"thinking.levels", "max-output-tokens"}
         /\ AfterSources(f, s, c).status = "authoritative"
<1>1. PICK i \in DOMAIN c.sources : /\ Fills(c.sources[i], f, s)
                                   /\ AfterSources(f, s, c) = FilledBy(c.sources[i], f)
  BY SourcesFacts
<1> QED
  BY <1>1 DEF Fills, FilledBy, Set

\* A sync empties no field.
LEMMA NothingEmptied ==
  ASSUME NEW c \in Channel, NEW f \in F, NEW x \in Held, Result(f, x, c) = Unset
  PROVE  x = Unset
<1> DEFINE s0 == Initial(x)
           s1 == AfterUpstream(f, s0, c)
           s2 == AfterSources(f, s1, c)
<1>1. s0 \in FieldState /\ s1 \in FieldState /\ s2 \in FieldState
      /\ FieldResult(f, x, c) \in FieldState
  BY FieldResultType
<1>2. c.overrides[f] = Unset /\ FieldResult(f, x, c) = s2
  BY <1>1 DEF Result, FieldResult, AfterOverrides, Set
<1>3. s2.value = Unset /\ s2.status = "skipped"
  BY <1>1, <1>2 DEF Result, FieldState
<1>4. s2 = s1
  <2>1. ASSUME NEW i \in DOMAIN c.sources, s2 = FilledBy(c.sources[i], f)
        PROVE  FALSE
    BY <1>3, <2>1 DEF FilledBy, Set
  <2> HIDE DEF s1
  <2> QED
    BY <1>1, <2>1, SourcesFacts
<1>5. s1 = s0
  BY <1>3, <1>4 DEF AfterUpstream, Set
<1> QED
  BY <1>3, <1>4, <1>5 DEF Initial, Set

\* Where upstream_meta does not replace a field, the provider leaves a field that has
\* a value alone.
LEMMA UpstreamOnlyFills ==
  ASSUME NEW c \in Channel, NEW f \in F, NEW x \in Held, x # Unset,
         ~ (f \in Described /\ c.upstreamMeta /\ c.upstream[f] # Unset)
  PROVE  /\ Initial(x) = Set(x, "preserved")
         /\ AfterUpstream(f, Initial(x), c) = Initial(x)
<1>1. Initial(x) = Set(x, "preserved") /\ Initial(x) # Open
  BY DEF Initial, Set, Open
<1> QED
  BY <1>1 DEF AfterUpstream, UpstreamApplies, Described

\* Repeating a sync changes nothing but an output limit, which then comes from an
\* authoritative source.
LEMMA SecondSync ==
  ASSUME NEW c \in Channel, NEW f \in F, NEW x \in Held,
         Result(f, Result(f, x, c), c) # Result(f, x, c)
  PROVE  /\ f = "max-output-tokens"
         /\ FieldResult(f, Result(f, x, c), c).status = "authoritative"
         /\ c.overrides[f] = Unset /\ Result(f, x, c) # Unset
<1> DEFINE s1 == AfterUpstream(f, Initial(x), c)
           s2 == AfterSources(f, s1, c)
           x1 == Result(f, x, c)
           t0 == Initial(x1)
           t1 == AfterUpstream(f, t0, c)
           t2 == AfterSources(f, t1, c)
<1>0. s1 \in FieldState /\ s2 \in FieldState /\ FieldResult(f, x, c) \in FieldState
  BY FieldResultType
<1>1. x1 \in Held
  BY <1>0 DEF Result, FieldState, Held
<1>2. c.overrides[f] = Unset
  <2>1. CASE c.overrides[f] # Unset
    BY <2>1 DEF Result, FieldResult, AfterOverrides, Set
  <2> QED
    BY <2>1
<1>3. FieldResult(f, x, c) = s2 /\ FieldResult(f, x1, c) = t2
  BY <1>2 DEF FieldResult, AfterOverrides
<1>4. s2.value = x1 /\ t2.value # x1
  BY <1>3 DEF Result
<1>5. x1 # Unset
  <2>1. CASE x1 = Unset
    <3>1. x = x1
      BY <2>1, NothingEmptied
    <3> QED
      BY <3>1
  <2> QED
    BY <2>1
<1>6. ~ (f \in Described /\ c.upstreamMeta /\ c.upstream[f] # Unset)
  <2>1. CASE f \in Described /\ c.upstreamMeta /\ c.upstream[f] # Unset
    <3>1. s1 = Set(c.upstream[f], "upstream") /\ t1 = s1
      BY <2>1 DEF AfterUpstream, UpstreamApplies
    <3> QED
      BY <1>4, <3>1
  <2> QED
    BY <2>1
<1>7. t0 = Set(x1, "preserved") /\ t1 = t0 /\ t0 \in FieldState
  BY <1>1, <1>5, <1>6, UpstreamOnlyFills, FieldResultType
<1>8. t2 # t1
  BY <1>4, <1>7 DEF Set
<1>9. f \in {"thinking.levels", "max-output-tokens"} /\ t2.status = "authoritative"
  <2> HIDE DEF t1, t0
  <2> QED
    BY <1>7, <1>8, PreservedFilled DEF Set
<1>10. CASE f = "thinking.levels"
  <2>1. s1 = Initial(x) /\ s1.status \in {"skipped", "preserved"}
    BY <1>6, <1>10 DEF AfterUpstream, UpstreamApplies, Described, Initial, Open, Set
  <2>2. t1.status = "preserved"
    BY <1>7 DEF Set
  <2>3. FirstSource(c.sources, f, s1) = FirstSource(c.sources, f, t1)
    <3> HIDE DEF s1, t1
    <3> QED
      BY <1>10, <2>1, <2>2, ThinkingFirst
  <2>4. FirstSource(c.sources, f, t1) # {}
    BY <1>8 DEF AfterSources
  <2>5. s2 = t2
    BY <2>3, <2>4 DEF AfterSources
  <2> QED
    BY <1>4, <2>5
<1> QED
  BY <1>2, <1>3, <1>5, <1>9, <1>10

\* The third sync changes nothing.
LEMMA ThirdSync ==
  ASSUME NEW c \in Channel, NEW f \in F, NEW x \in Held
  PROVE  Result(f, Result(f, Result(f, x, c), c), c) = Result(f, Result(f, x, c), c)
<1> DEFINE x1 == Result(f, x, c)
           x2 == Result(f, x1, c)
           x3 == Result(f, x2, c)
           t1 == AfterUpstream(f, Initial(x1), c)
           t2 == AfterSources(f, t1, c)
           u1 == AfterUpstream(f, Initial(x2), c)
           u2 == AfterSources(f, u1, c)
<1> SUFFICES ASSUME x3 # x2 PROVE FALSE
  OBVIOUS
<1>1. x1 \in Held /\ x2 \in Held
  BY FieldResultType DEF Result, FieldState, Held
<1>2. f = "max-output-tokens" /\ c.overrides[f] = Unset /\ x2 # Unset
  BY <1>1, SecondSync
<1>3. x2 # x1
  OBVIOUS
<1>4. x1 # Unset
  <2> HIDE DEF x1
  <2> QED
    BY <1>1, <1>2, <1>3, SecondSync DEF x1
<1>5. f \notin Described
  BY <1>2 DEF Described
<1>6. /\ t1 = Set(x1, "preserved")
      /\ u1 = Set(x2, "preserved")
  <2> HIDE DEF x1, x2
  <2> QED
    BY <1>1, <1>2, <1>4, <1>5, UpstreamOnlyFills
<1>7. FieldResult(f, x1, c) = t2 /\ FieldResult(f, x2, c) = u2
  BY <1>2 DEF FieldResult, AfterOverrides
<1>8. FirstSource(c.sources, f, t1) = FirstSource(c.sources, f, u1)
  <2>1. t1.status = u1.status
    BY <1>6 DEF Set
  <2> HIDE DEF t1, u1
  <2> QED
    BY <2>1, FirstSourceOfStatus
<1>9. FirstSource(c.sources, f, t1) # {}
  <2>1. CASE FirstSource(c.sources, f, t1) = {}
    <3>1. t2 = t1
      BY <2>1 DEF AfterSources
    <3> QED
      BY <1>3, <1>6, <1>7, <3>1 DEF Result, Set
  <2> QED
    BY <2>1
<1>10. t2 = u2
  BY <1>8, <1>9 DEF AfterSources
<1> QED
  BY <1>7, <1>10 DEF Result

\* A catalog does not replace a context or an input limit.
LEMMA LimitsFilled ==
  ASSUME NEW c \in Channel, NEW f \in Limit \ {"max-output-tokens"}, NEW x \in Held,
         x # Unset
  PROVE  Result(f, x, c) \in {x, c.overrides[f]}
<1>1. f \in F /\ f \notin Described /\ f \notin {"thinking.levels", "max-output-tokens"}
  BY DEF Limit, Described, F, metadataFieldNames
<1>2. AfterUpstream(f, Initial(x), c) = Set(x, "preserved")
  BY <1>1, UpstreamOnlyFills
<1>3. Set(x, "preserved").status = "preserved"
  BY DEF Set
<1>4. FirstSource(c.sources, f, Set(x, "preserved")) = {}
  BY <1>1, <1>3, FirstSourceCases
<1> QED
  BY <1>2, <1>4 DEF Result, FieldResult, AfterSources, AfterOverrides, Set

\* A field reported as preserved has kept its value.
LEMMA PreservedKept ==
  ASSUME NEW c \in Channel, NEW f \in F, NEW x \in Held,
         FieldResult(f, x, c).status = "preserved"
  PROVE  Result(f, x, c) = x
<1> DEFINE s0 == Initial(x)
           s1 == AfterUpstream(f, s0, c)
           s2 == AfterSources(f, s1, c)
<1>1. s1 \in FieldState
  BY FieldResultType
<1>2. FieldResult(f, x, c) = s2 /\ s2.status = "preserved"
  BY DEF FieldResult, AfterOverrides, Set
<1>3. s2 = s1
  <2>1. ASSUME NEW i \in DOMAIN c.sources, s2 = FilledBy(c.sources[i], f)
        PROVE  FALSE
    BY <1>2, <2>1 DEF FilledBy, Set
  <2> HIDE DEF s1
  <2> QED
    BY <1>1, <2>1, SourcesFacts
<1>4. s1 = s0
  BY <1>2, <1>3 DEF AfterUpstream, Set
<1> QED
  BY <1>2, <1>3, <1>4 DEF Result, Initial, Set, Open

\* The model a sync leaves.
After(e, c) == [f \in F |-> Result(f, e[f], c)]

\* A sync writes what it reports: no change is lost between the report and the patches.
LEMMA SyncFacts ==
  ASSUME TypeOK, Sync
  PROVE  /\ report' = [f \in F |-> FieldResult(f, model[f], channel)]
         /\ model' = After(model, channel)
         /\ channel' = channel /\ syncs' = syncs + 1
<1>0. model \in Entry /\ channel \in Channel
  BY DEF TypeOK
<1>1. report' = [f \in F |-> FieldResult(f, model[f], channel)]
  BY <1>0, EnrichDomain DEF Sync
<1>2. ASSUME NEW f \in F
      PROVE  (IF f \in plannedPatches(model, report') THEN report'[f].value ELSE model[f])
               = Result(f, model[f], channel)
  <2>1. model[f] \in Held /\ FieldResult(f, model[f], channel) \in FieldState
    BY <1>0, FieldResultType DEF Entry, F, Held
  <2>2. report'[f] = FieldResult(f, model[f], channel)
    BY <1>1
  <2>3. CASE report'[f].status = "preserved"
    BY <1>0, <2>1, <2>2, <2>3, PreservedKept DEF plannedPatches, Written
  <2>4. CASE report'[f].status = "skipped"
    <3>1. Result(f, model[f], channel) = Unset
      BY <2>1, <2>2, <2>4 DEF Result, FieldState
    <3>2. model[f] = Unset
      BY <1>0, <2>1, <3>1, NothingEmptied
    <3> QED
      BY <2>4, <3>1, <3>2 DEF plannedPatches, Written
  <2>5. CASE report'[f].status \in Written
    <3>1. report'[f].value = Result(f, model[f], channel)
      BY <2>2 DEF Result
    <3> QED
      BY <2>5, <3>1 DEF plannedPatches, F
  <2> QED
    BY <2>1, <2>2, <2>3, <2>4, <2>5 DEF FieldState, Written
<1>3. model' = [f \in F |-> IF f \in plannedPatches(model, report')
                            THEN report'[f].value ELSE model[f]]
  BY DEF Sync, applyMetadata, F
<1>4. model' = After(model, channel)
  BY <1>2, <1>3 DEF After
<1> QED
  BY <1>1, <1>4 DEF Sync

\* The model a sync leaves is a model.
LEMMA AfterType ==
  ASSUME NEW e \in Entry, NEW c \in Channel
  PROVE  /\ After(e, c) \in Entry
         /\ \A f \in F : e[f] \in Held /\ After(e, c)[f] = Result(f, e[f], c)
<1>1. ASSUME NEW f \in F PROVE e[f] \in Held
  BY DEF Entry, F, Held
<1>2. ASSUME NEW f \in F PROVE Result(f, e[f], c) \in Held
  BY <1>1, FieldResultType DEF Result, FieldState, Held
<1> QED
  BY <1>1, <1>2 DEF After, Entry, F, Held

\* After the first sync the model is one that a sync left, after the second one that
\* two did.
History ==
  /\ syncs >= 1 => \E e \in Entry : model = After(e, channel)
  /\ syncs >= 2 => \E e \in Entry : model = After(After(e, channel), channel)

IInv == TypeOK /\ ReportMatchesModel /\ History

LEMMA InitIInv == Init => IInv
<1> SUFFICES ASSUME Init PROVE IInv
  OBVIOUS
<1>1. model \in Entry /\ channel \in Channel /\ syncs = 0
  BY EntriesAssumption DEF Init, Channel
<1>2. ASSUME NEW f \in F
      PROVE  report[f] = Initial(model[f]) /\ model[f] \in Held
  BY <1>1 DEF Init, initialFieldStates, Initial, F, Entry, Held
<1>3. ASSUME NEW f \in F
      PROVE  report[f] \in FieldState /\ report[f].value = model[f]
  <2>1. Initial(model[f]) \in FieldState
    BY <1>1, <1>2, FieldResultType
  <2>2. Initial(model[f]).value = model[f]
    BY DEF Initial, Open, Set
  <2> QED
    BY <1>2, <2>1, <2>2
<1>4. report = [f \in F |-> report[f]]
  BY DEF Init, initialFieldStates, F
<1>5. TypeOK
  BY <1>1, <1>3, <1>4 DEF TypeOK, F
<1> QED
  BY <1>1, <1>3, <1>5 DEF IInv, ReportMatchesModel, History, F

LEMMA StepIInv == IInv /\ [Next]_vars => IInv'
<1> SUFFICES ASSUME IInv, [Next]_vars PROVE IInv'
  OBVIOUS
<1>0. TypeOK /\ ReportMatchesModel /\ History /\ model \in Entry /\ channel \in Channel
      /\ syncs \in Nat
  BY DEF IInv, TypeOK
<1>1. CASE Sync
  <2>1. /\ report' = [f \in F |-> FieldResult(f, model[f], channel)]
        /\ model' = After(model, channel)
        /\ channel' = channel /\ syncs' = syncs + 1
    BY <1>0, <1>1, SyncFacts
  <2>2. model' \in Entry
    BY <1>0, <2>1, AfterType
  <2>3. ASSUME NEW f \in F
        PROVE  report'[f] \in FieldState /\ report'[f].value = model'[f]
    BY <1>0, <2>1, AfterType, FieldResultType DEF Result
  <2>4. TypeOK'
    BY <1>0, <2>1, <2>2, <2>3 DEF TypeOK, F
  <2>5. History'
    <3>1. \E e \in Entry : model' = After(e, channel')
      BY <1>0, <2>1
    <3>2. ASSUME syncs' >= 2
          PROVE  \E e \in Entry : model' = After(After(e, channel'), channel')
      <4>1. PICK e \in Entry : model = After(e, channel)
        BY <1>0, <2>1, <3>2 DEF History
      <4> QED
        BY <2>1, <4>1
    <3> QED
      BY <3>1, <3>2 DEF History
  <2> QED
    BY <2>3, <2>4, <2>5 DEF IInv, ReportMatchesModel, F
<1>2. CASE UNCHANGED vars
  BY <1>0, <1>2 DEF IInv, TypeOK, ReportMatchesModel, History, vars
<1> QED
  BY <1>1, <1>2 DEF Next

THEOREM MetadataInvariance == Spec => []IInv
<1> QED
  BY InitIInv, StepIInv, PTL DEF Spec

\* The type invariant, which also says that a field has a value unless it is skipped.
THEOREM MetadataTypeCorrect == Spec => []TypeOK
<1>1. IInv => TypeOK
  BY DEF IInv
<1> QED
  BY <1>1, MetadataInvariance, PTL

\* After a sync every field holds what the report says (metadata.go:48-158,
\* planner.go:394-448).
THEOREM ReportTheorem == Spec => []ReportMatchesModel
<1>1. IInv => ReportMatchesModel
  BY DEF IInv
<1> QED
  BY <1>1, MetadataInvariance, PTL

\* No catalog replaces a context or an input limit (metadata.go:211-218).
THEOREM LimitsTheorem == Spec => CatalogsOnlyFillLimits
<1>1. IInv /\ [Next]_vars =>
        [\A f \in Limit \ {"max-output-tokens"} :
           model[f] # Unset => model'[f] \in {model[f], channel.overrides[f]}]_vars
  <2> SUFFICES ASSUME IInv, Sync, NEW f \in Limit \ {"max-output-tokens"},
                      model[f] # Unset
               PROVE  model'[f] \in {model[f], channel.overrides[f]}
    BY DEF Next
  <2>1. TypeOK /\ model \in Entry /\ channel \in Channel /\ f \in F
    BY DEF IInv, TypeOK, Limit, F, metadataFieldNames
  <2>2. model'[f] = Result(f, model[f], channel) /\ model[f] \in Held
    BY <2>1, SyncFacts, AfterType
  <2> QED
    BY <2>1, <2>2, LimitsFilled
<1> QED
  BY <1>1, MetadataInvariance, PTL DEF Spec, CatalogsOnlyFillLimits

\* A repeated sync changes at most the output limit, to what an authoritative source
\* says (metadata.go:85, 106-111).
THEOREM DriftTheorem == Spec => OnlyOutputLimitDrifts
<1>1. IInv /\ [Next]_vars =>
        [syncs >= 1 =>
           \A f \in metadataFieldNames :
              model'[f] # model[f] =>
                 /\ f = "max-output-tokens"
                 /\ report'[f].status = "authoritative"]_vars
  <2> SUFFICES ASSUME IInv, Sync, syncs >= 1, NEW f \in metadataFieldNames,
                      model'[f] # model[f]
               PROVE  f = "max-output-tokens" /\ report'[f].status = "authoritative"
    BY DEF Next
  <2>1. TypeOK /\ model \in Entry /\ channel \in Channel /\ f \in F
    BY DEF IInv, TypeOK, F
  <2>2. PICK e \in Entry : model = After(e, channel)
    BY DEF IInv, History
  <2>3. model[f] = Result(f, e[f], channel) /\ e[f] \in Held
    BY <2>1, <2>2, AfterType
  <2>4. /\ model'[f] = Result(f, model[f], channel)
        /\ report'[f] = FieldResult(f, model[f], channel)
    BY <2>1, SyncFacts, AfterType
  <2> QED
    BY <2>1, <2>3, <2>4, SecondSync
<1> QED
  BY <1>1, MetadataInvariance, PTL DEF Spec, OnlyOutputLimitDrifts

\* With the same catalogs the third sync and every later one writes nothing.
THEOREM SettlesTheorem == Spec => SettlesAfterTwoSyncs
<1>1. IInv /\ [Next]_vars => [syncs >= 2 => model' = model]_vars
  <2> SUFFICES ASSUME IInv, Sync, syncs >= 2 PROVE model' = model
    BY DEF Next
  <2>1. TypeOK /\ model \in Entry /\ channel \in Channel
    BY DEF IInv, TypeOK
  <2>2. PICK e \in Entry : model = After(After(e, channel), channel)
    BY DEF IInv, History
  <2>3. After(e, channel) \in Entry
    BY <2>1, AfterType
  <2>4. ASSUME NEW f \in F PROVE Result(f, model[f], channel) = model[f]
    <3>1. model[f] = Result(f, Result(f, e[f], channel), channel) /\ e[f] \in Held
      BY <2>1, <2>2, <2>3, AfterType
    <3> QED
      BY <2>1, <3>1, ThirdSync
  <2>5. model' = After(model, channel)
    BY <2>1, SyncFacts
  <2>6. model = [f \in F |-> model[f]]
    BY <2>1 DEF Entry, F
  <2> QED
    BY <2>4, <2>5, <2>6 DEF After
<1> QED
  BY <1>1, MetadataInvariance, PTL DEF Spec, SettlesAfterTwoSyncs
=============================================================================
