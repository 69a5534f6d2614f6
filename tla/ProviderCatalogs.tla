-------------------------- MODULE ProviderCatalogs --------------------------
(***************************************************************************)
(* What the planners read: the documents a catalog request brings back     *)
(* (models.go, modelparams.go and modelsdev.go of the planners) and their  *)
(* own configuration (config.go).                                          *)
(*                                                                         *)
(* A document is sound when it has the shape its kind asks for: an object  *)
(* or a list, no key twice in any case.  A public catalog reads the same   *)
(* again when the planner's parser takes what it kept of it, written out:  *)
(* it does, unless Unicode folds two keys together only when they are in   *)
(* upper case, or the wrapping of a bare list nests too deep.  The items   *)
(* of a document are                                                       *)
(*                                                                         *)
(*   names  - the names it has under id, slug and name,                    *)
(*   input  - its input modalities, those of a model standing for the      *)
(*            output ones too,                                             *)
(*   bare   - whether one of the two lists is there and has no word,       *)
(*   levels - its reasoning levels, or the values of the first enum        *)
(*            parameter about reasoning that has some,                     *)
(*   limit  - a token limit, 0 when it has none,                           *)
(*   says   - whether it has a limit or a modality at all.                 *)
(*                                                                         *)
(* Names are trimmed, and so are levels, which are in lower case too:      *)
(* every reader does that first.  The modalities are as they came.  An     *)
(* operator's levels, which may be an empty list or missing, say whether   *)
(* they are given.                                                         *)
(***************************************************************************)
EXTENDS Integers, FiniteSets, Sequences, SequencesExt, Functions

CONSTANTS
  MaxInt,   \* the greatest int: 2^63 - 1 on the platforms that are built for
  Word(_),  \* a word without the spaces around it and in lower case
  Upper(_)  \* a name in upper case

ASSUME MaxIntAssumption == MaxInt \in Nat \ {0}
ASSUME WordAssumption == Word("text") = "text" /\ Word("image") = "image"

order == <<"none", "minimal", "low", "medium", "high", "xhigh", "max", "ultra",
           "auto">>
cpaThinkingLevels == Range(order)

\* Whether levels have one that is a depth of reasoning.
HasDepth(levels) == Range(levels) \ {"none", "auto"} # {}

\* A finite set of numbers, the least of them first.
InOrder(numbers) ==
  [i \in 1 .. Cardinality(numbers) |->
     CHOOSE n \in numbers : Cardinality({m \in numbers : m <= n}) = i]

\* The form in which CPA writes levels, and modalities.
normalizeEfforts(values) ==
  LET places == InOrder({i \in DOMAIN order : order[i] \in Range(values)})
      known  == [i \in DOMAIN places |-> order[places[i]]]
  IN  IF HasDepth(known) THEN known ELSE << >>

cpaModalities(values) ==
  LET words == {Word(values[i]) : i \in DOMAIN values} IN
  (IF "text" \in words THEN <<"text">> ELSE << >>)
    \o (IF "image" \in words THEN <<"image">> ELSE << >>)

\* The levels of a parameter of modelparams.dev: known, once each, as they come.
enumLevels(values) ==
  LET Add(known, level) ==
        IF level \in cpaThinkingLevels \ Range(known) THEN Append(known, level)
        ELSE known
      levels == FoldLeft(Add, << >>, values)
  IN  IF HasDepth(levels) THEN levels ELSE << >>

\* A limit that was read as a float64.  MaxInt is none: as a float64 it is the
\* power of two that follows, so that this is the greatest value let through.
validCatalogInteger(value) == value \in 0 .. MaxInt + 1

\* What amd64 makes of a float64 that no int can hold is the least int.
toInt(value) == IF value <= MaxInt THEN value ELSE -(MaxInt + 1)

\* The keys a JSON object may have: the decoder refuses two that are equal in
\* upper case.
ExactKeys(keys) == \A a, b \in keys : Upper(a) = Upper(b) => a = b

---------------------------------------------------------------------------
(* The catalogs.                                                           *)

CatalogItem ==
  [names : SUBSET STRING, input : Seq(STRING), bare : BOOLEAN, levels : Seq(STRING),
   limit : Int, says : BOOLEAN]
Document ==
  [sound : BOOLEAN, again : BOOLEAN, items : Seq(CatalogItem), more : BOOLEAN,
   cursor : STRING]
NoDocument ==
  [sound |-> FALSE, again |-> FALSE, items |-> << >>, more |-> FALSE, cursor |-> ""]

\* What reading one comes to: the entries by name.
Unread ==
  [ok |-> FALSE, again |-> FALSE, entries |-> << >>, more |-> FALSE, cursor |-> ""]

Named(item) == CHOOSE id \in item.names : TRUE

\* Every item has one name, whichever keys it is under, and no other has it.
DistinctlyNamed(items) ==
  /\ \A i \in DOMAIN items :
       Cardinality(items[i].names) = 1 /\ "" \notin items[i].names
  /\ \A i, j \in DOMAIN items : items[i].names = items[j].names => i = j

\* The entries of a page and those of the pages before it.
Joined(entries, earlier) ==
  [id \in DOMAIN entries \cup DOMAIN earlier |->
     IF id \in DOMAIN entries THEN entries[id] ELSE earlier[id]]

\* What Read makes of each item, by its name.
ByName(items, Read(_)) ==
  [id \in {Named(items[i]) : i \in DOMAIN items} |->
     Read(items[CHOOSE i \in DOMAIN items : Named(items[i]) = id])]

\* The modalities of an OpenAI compatible catalog stay as they came.
decodeOpenAIItem(item) ==
  [input |-> item.input, bare |-> item.bare,
   levels |-> normalizeEfforts(item.levels), limit |-> toInt(item.limit)]

parseOpenAICatalog(doc) ==
  IF /\ doc.sound /\ doc.items # << >> /\ DistinctlyNamed(doc.items)
     /\ \A item \in Range(doc.items) : validCatalogInteger(item.limit)
  THEN [Unread EXCEPT !.ok = TRUE,
                      !.entries = ByName(doc.items, decodeOpenAIItem)]
  ELSE Unread

\* auto-pull keeps the names alone.
parseUpstreamCatalog(doc) ==
  LET Nothing(item) ==
        [input |-> << >>, bare |-> FALSE, levels |-> << >>, limit |-> 0] IN
  IF doc.sound /\ doc.items # << >> /\ DistinctlyNamed(doc.items)
  THEN [Unread EXCEPT !.ok = TRUE, !.entries = ByName(doc.items, Nothing)]
  ELSE Unread

\* A page may be empty.  Its limits are read as ints, and so are those of models.dev.
parseClaudeCatalog(doc) ==
  LET Entry(item) == [input |-> cpaModalities(item.input), bare |-> FALSE,
                      levels |-> normalizeEfforts(item.levels),
                      limit |-> item.limit] IN
  IF /\ doc.sound /\ DistinctlyNamed(doc.items)
     /\ \A item \in Range(doc.items) : item.limit \in 0 .. MaxInt
  THEN [Unread EXCEPT !.ok = TRUE, !.entries = ByName(doc.items, Entry),
                      !.more = doc.more, !.cursor = doc.cursor]
  ELSE Unread

parseModelparamsCatalog(doc) ==
  LET Entry(item) == [input |-> << >>, bare |-> FALSE,
                      levels |-> enumLevels(item.levels),
                      limit |-> toInt(item.limit)] IN
  IF /\ doc.sound /\ doc.items # << >> /\ DistinctlyNamed(doc.items)
     /\ \A item \in Range(doc.items) : validCatalogInteger(item.limit)
  THEN [Unread EXCEPT !.ok = TRUE, !.again = doc.again,
                      !.entries = ByName(doc.items, Entry)]
  ELSE Unread

\* A model that says nothing is passed over.
parseModelsdevCatalog(doc) ==
  LET items == SelectSeq(doc.items, LAMBDA item : item.says)
      Entry(item) == [input |-> item.input, bare |-> item.bare, levels |-> << >>,
                      limit |-> item.limit]
  IN  IF /\ doc.sound /\ items # << >> /\ DistinctlyNamed(doc.items)
         /\ \A item \in Range(doc.items) : item.limit \in 0 .. MaxInt
      THEN [Unread EXCEPT !.ok = TRUE, !.again = doc.again,
                          !.entries = ByName(items, Entry)]
      ELSE Unread

parseCatalog(op, kind, doc) ==
  IF op = "auto_pull" THEN parseUpstreamCatalog(doc)
  ELSE CASE kind = "openai_models" -> parseOpenAICatalog(doc)
         [] kind = "claude_models" -> parseClaudeCatalog(doc)
         [] kind = "modelparams"   -> parseModelparamsCatalog(doc)
         [] OTHER                  -> parseModelsdevCatalog(doc)

---------------------------------------------------------------------------
(* The configuration.                                                      *)

MaxEnabled == 100

\* An index of 0 stands for none.
normalizeSelector(spec) ==
  IF spec.kind = "openai" THEN spec.label # "" /\ spec.index = 0
  ELSE spec.index # 0

selectorKey(spec) ==
  IF spec.kind = "claude" THEN <<spec.kind, spec.index, spec.base, spec.label>>
  ELSE <<spec.kind, spec.label, spec.base>>

\* No source twice, and those of modelparams.dev before those of models.dev.
validSources(sources) ==
  \A i, j \in DOMAIN sources : i < j =>
    /\ sources[i] # sources[j]
    /\ ~(sources[i].kind = "modelsdev" /\ sources[j].kind = "modelparams")

\* An operator's levels are known and have a depth, unless there are none.
validOverride(override) ==
  override.levels # << >> =>
    /\ Range(override.levels) \subseteq cpaThinkingLevels
    /\ HasDepth(override.levels)

parseConfig(op, channels) ==
  /\ Cardinality({c \in DOMAIN channels : channels[c].enabled}) <= MaxEnabled
  /\ \A c, d \in DOMAIN channels :
       selectorKey(channels[c]) = selectorKey(channels[d]) => c = d
  /\ \A c \in DOMAIN channels :
       LET spec == channels[c] IN
       /\ normalizeSelector(spec)
       /\ op = "auto_pull" =>
            spec.kind = "openai" /\ spec.mode \in {"include", "exclude"}
       /\ op = "metadata" =>
            /\ spec.kind \in {"openai", "claude"}
            /\ spec.codex => spec.kind = "openai"
            /\ validSources(spec.sources)
            /\ \A override \in spec.overrides : validOverride(override)

\* The configuration a planner works from.
compiled(channels) ==
  LET Normal(override) ==
        [override EXCEPT !.levels = normalizeEfforts(override.levels)]
  IN  [c \in DOMAIN channels |->
         [channels[c] EXCEPT !.overrides = {Normal(override) : override \in @}]]

=============================================================================
