---------------------- MODULE ProposalOwnershipProofs ----------------------
(***************************************************************************)
(* Proofs about ProposalOwnership, for any files, names, provider lists    *)
(* and patches: the file stays a parsed file, no run changes what it does  *)
(* not own, and the Writer refuses its own planners only for the reasons   *)
(* RefusalsAreExplained lists.                                             *)
(***************************************************************************)
EXTENDS ProposalOwnership, SequenceTheorems, TLAPS

LEMMA SeqRange ==
  ASSUME NEW S, NEW s \in Seq(S)
  PROVE  /\ DOMAIN s = 1 .. Len(s) /\ Len(s) \in Nat
         /\ \A i \in DOMAIN s : s[i] \in S /\ s[i] \in Range(s)
         /\ \A x \in Range(s) : x \in S /\ \E i \in DOMAIN s : s[i] = x
<1> QED
  BY DEF Range

-----------------------------------------------------------------------------
(* The name of a model is that of the field under the key, and only the fields matter. *)

LEMMA NameOfField ==
  ASSUME NEW m \in Model, HasName(m), UniqueKeys(m)
  PROVE  /\ modelName(m) \in Name
         /\ \A f \in Range(m.fields) : f.key = "name" => f.value = modelName(m)
<1>1. m.fields \in Seq(Field)
  BY DEF Model
<1>2. PICK f \in Range(m.fields) : f.key = "name"
  BY DEF HasName, Keys
<1>3. \A g \in Range(m.fields) : g.key = "name" => g = f
  BY <1>1, <1>2, SeqRange DEF UniqueKeys
<1>4. modelName(m) = f.value /\ f \in Field
  BY <1>1, <1>2, <1>3, SeqRange DEF modelName
<1>5. f.value \in Name
  BY <1>2, <1>4 DEF Field
<1> QED
  BY <1>2, <1>3, <1>4, <1>5

LEMMA MinimalModel ==
  ASSUME NEW name \in Name
  PROVE  LET m == minimalModelNode(name)
         IN  /\ m \in Model /\ HasName(m) /\ modelName(m) = name /\ ParsedModel(m)
             /\ m.shape = "block"
             /\ name \notin Unplain => minimalNewModel(m)
<1> DEFINE f == [key |-> "name", keyStyle |-> "plain", value |-> name,
                 style |-> IF name \in Unplain THEN "quoted" ELSE "plain"]
           m == minimalModelNode(name)
<1>1. m = [shape |-> "block", fields |-> <<f>>] /\ f.key = "name" /\ f.value = name
      /\ f.keyStyle = "plain" /\ (name \in Unplain => f.style = "quoted")
      /\ (name \notin Unplain => f.style = "plain")
  BY DEF minimalModelNode
<1>2. f \in Field
  BY DEF Field, Style
<1> HIDE DEF f
<1>3. m.shape = "block" /\ m.fields = <<f>> /\ Len(m.fields) = 1 /\ m.fields[1] = f
      /\ DOMAIN m.fields = {1}
  BY <1>1
<1>4. m \in Model
  BY <1>1, <1>2 DEF Model, Shape
<1>5. Range(m.fields) = {f}
  BY <1>3 DEF Range
<1>6. HasName(m)
  BY <1>1, <1>5 DEF HasName, Keys
<1>7. modelName(m) = name
  BY <1>1, <1>5 DEF modelName
<1>8. ParsedModel(m)
  BY <1>1, <1>3, <1>5 DEF ParsedModel, UniqueKeys
<1>9. name \notin Unplain => minimalNewModel(m)
  BY <1>1, <1>3 DEF minimalNewModel
<1> QED
  BY <1>3, <1>4, <1>6, <1>7, <1>8, <1>9

LEMMA SameFieldsSameName ==
  ASSUME NEW m, NEW n, m.fields = n.fields
  PROVE  modelName(m) = modelName(n) /\ (HasName(m) <=> HasName(n))
         /\ (ParsedModel(m) <=> ParsedModel(n))
<1> QED
  BY DEF modelName, HasName, Keys, ParsedModel, UniqueKeys

LEMMA ShapedModel ==
  ASSUME NEW m \in Model, NEW shape \in Shape
  PROVE  LET n == [m EXCEPT !.shape = shape]
         IN  n \in Model /\ n.fields = m.fields /\ n.shape = shape
             /\ (m.shape = shape => n = m)
<1> QED
  BY DEF Model

-----------------------------------------------------------------------------
(* What the membership planner makes of a channel. *)

\* The models of the planned list before they are written.
LEMMA PlannedModels ==
  ASSUME NEW models \in Seq(Model), namedModels(models), NEW names \in Seq(Name),
         \A m \in Range(models) : ParsedModel(m)
  PROVE  LET planned == [k \in DOMAIN names |-> ModelFor(models, names[k])]
         IN  /\ planned \in Seq(Model) /\ DOMAIN planned = DOMAIN names
             /\ Len(planned) = Len(names)
             /\ \A k \in DOMAIN names :
                  /\ HasName(planned[k]) /\ modelName(planned[k]) = names[k]
                  /\ ParsedModel(planned[k])
                  /\ \/ planned[k] \in Range(models)
                     \/ /\ planned[k] = minimalModelNode(names[k])
                        /\ names[k] \notin Range(Names(models))
<1> DEFINE planned == [k \in DOMAIN names |-> ModelFor(models, names[k])]
<1>1. ASSUME NEW k \in DOMAIN names
      PROVE  /\ planned[k] \in Model
             /\ HasName(planned[k]) /\ modelName(planned[k]) = names[k]
             /\ ParsedModel(planned[k])
             /\ \/ planned[k] \in Range(models)
                \/ /\ planned[k] = minimalModelNode(names[k])
                   /\ names[k] \notin Range(Names(models))
  <2>1. names[k] \in Name /\ planned[k] = ModelFor(models, names[k])
    BY SeqRange
  <2>2. CASE \E m \in Range(models) : modelName(m) = names[k]
    <3>1. planned[k] \in Range(models) /\ modelName(planned[k]) = names[k]
      BY <2>1, <2>2 DEF ModelFor
    <3> QED
      BY <3>1, SeqRange DEF namedModels
  <2>3. CASE ~ \E m \in Range(models) : modelName(m) = names[k]
    <3>1. planned[k] = minimalModelNode(names[k])
      BY <2>1, <2>3 DEF ModelFor
    <3>2. names[k] \notin Range(Names(models))
      <4>1. DOMAIN Names(models) = DOMAIN models
        BY DEF Names
      <4>2. \A i \in DOMAIN models : Names(models)[i] # names[k]
        BY <2>3, SeqRange DEF Names
      <4> QED
        BY <4>1, <4>2 DEF Range
    <3> QED
      BY <2>1, <3>1, <3>2, MinimalModel
  <2> QED
    BY <2>2, <2>3
<1>2. DOMAIN names = 1 .. Len(names) /\ Len(names) \in Nat
  BY SeqRange
<1>3. planned \in Seq(Model) /\ DOMAIN planned = DOMAIN names /\ Len(planned) = Len(names)
  BY <1>1, <1>2
<1> QED
  BY <1>1, <1>3

LEMMA EncodedChannel ==
  ASSUME NEW c \in Channel, \A m \in Range(c.models) : ParsedModel(m)
  PROVE  LET d == Encoded(c)
         IN  /\ d \in Channel /\ ParsedChannel(d)
             /\ d.rest = c.rest /\ d.indirect = c.indirect
             /\ d.shape = IF c.models = <<>> THEN "flow" ELSE c.shape
             /\ DOMAIN d.models = DOMAIN c.models /\ Len(d.models) = Len(c.models)
             /\ \A i \in DOMAIN c.models :
                  d.models[i] = IF c.shape = "flow" THEN [c.models[i] EXCEPT !.shape = "flow"]
                                ELSE c.models[i]
<1> DEFINE d == Encoded(c)
           flowing == [i \in DOMAIN c.models |-> [c.models[i] EXCEPT !.shape = "flow"]]
<1>1. c.models \in Seq(Model) /\ c.shape \in Shape
  BY DEF Channel
<1>2. DOMAIN c.models = 1 .. Len(c.models) /\ Len(c.models) \in Nat
  BY <1>1, SeqRange
<1>3. CASE c.models = <<>>
  <2>1. d = [c EXCEPT !.shape = "flow"]
    BY <1>3 DEF Encoded
  <2>2. d \in Channel /\ d.rest = c.rest /\ d.indirect = c.indirect /\ d.shape = "flow"
        /\ d.models = <<>>
    BY <1>3, <2>1 DEF Channel, Shape
  <2>3. DOMAIN c.models = {} /\ Range(d.models) = {}
    BY <1>3, <2>2 DEF Range
  <2> QED
    BY <1>3, <2>2, <2>3 DEF ParsedChannel
<1>4. CASE c.models # <<>> /\ c.shape = "block"
  <2>1. d = c
    BY <1>4 DEF Encoded
  <2> QED
    BY <1>4, <2>1 DEF ParsedChannel
<1>5. CASE c.models # <<>> /\ c.shape = "flow"
  <2>1. d = [c EXCEPT !.models = flowing]
    BY <1>5 DEF Encoded
  <2>2. ASSUME NEW i \in DOMAIN c.models
        PROVE  flowing[i] \in Model /\ flowing[i].shape = "flow" /\ ParsedModel(flowing[i])
    <3>1. c.models[i] \in Model /\ ParsedModel(c.models[i]) /\ "flow" \in Shape
      BY <1>1, SeqRange DEF Shape
    <3> QED
      BY <3>1, ShapedModel, SameFieldsSameName
  <2>3. flowing \in Seq(Model) /\ DOMAIN flowing = DOMAIN c.models
        /\ Len(flowing) = Len(c.models)
    <3>1. flowing \in [1 .. Len(c.models) -> Model]
      BY <1>2, <2>2
    <3> HIDE DEF flowing
    <3> QED
      BY <1>2, <3>1
  <2>4. d \in Channel /\ d.rest = c.rest /\ d.indirect = c.indirect /\ d.shape = c.shape
        /\ d.models = flowing
    BY <2>1, <2>3 DEF Channel
  <2>5. flowing # <<>>
    <3>1. Len(c.models) # 0
      BY <1>1, <1>5
    <3> HIDE DEF flowing
    <3> QED
      BY <2>3, <3>1
  <2>6. \A m \in Range(flowing) : ParsedModel(m) /\ m.shape = "flow"
    BY <2>2, <2>3 DEF Range
  <2> QED
    BY <1>5, <2>3, <2>4, <2>5, <2>6 DEF ParsedChannel
<1> QED
  BY <1>1, <1>3, <1>4, <1>5 DEF Shape

-----------------------------------------------------------------------------
(* What the metadata planner makes of a model. *)

LEMMA AddedField ==
  ASSUME NEW m, NEW patch \in [metadataKeys -> Token \cup {Skip}], NEW key \in metadataKeys
  PROVE  LET s == NewField(m, patch, key)
         IN  /\ s \in Seq(Field) /\ Len(s) \in {0, 1}
             /\ Len(s) = 1 => /\ s[1].key = key /\ s[1].keyStyle = "plain"
                              /\ s[1].value \in Token /\ key \notin Keys(m)
<1>1. CASE patch[key] = Skip \/ key \in Keys(m)
  BY <1>1 DEF NewField
<1>2. CASE patch[key] \in Token /\ patch[key] # Skip /\ key \notin Keys(m)
  <2> DEFINE f == [key |-> key, keyStyle |-> "plain", value |-> patch[key], style |-> "plain"]
  <2>1. f \in Field /\ f.key = key /\ f.keyStyle = "plain" /\ f.value \in Token
    BY <1>2 DEF Field, Key, Style, metadataKeys
  <2>2. NewField(m, patch, key) = <<f>>
    BY <1>2 DEF NewField
  <2> HIDE DEF f
  <2> QED
    BY <1>2, <2>1, <2>2
<1> QED
  BY <1>1, <1>2

LEMMA OrderPair ==
  ASSUME NEW m, NEW i \in DOMAIN m.fields, NEW j \in DOMAIN m.fields, i <= j
  PROVE  <<m.fields[i], m.fields[j]>> \in Order(m)
<1> DEFINE D == DOMAIN m.fields
           q == <<i, j>>
<1>1. q \in {r \in D \X D : r[1] <= r[2]} /\ q[1] = i /\ q[2] = j
  OBVIOUS
<1> HIDE DEF q
<1>2. <<m.fields[q[1]], m.fields[q[2]]>> \in Order(m)
  BY <1>1 DEF Order
<1> QED
  BY <1>1, <1>2

LEMMA PatchedFieldKeeps ==
  ASSUME NEW f \in Field, NEW patch \in [metadataKeys -> Token \cup {Skip}]
  PROVE  LET g == PatchedField(f, patch)
         IN  /\ g \in Field /\ g.key = f.key /\ g.keyStyle = f.keyStyle /\ g.style = f.style
             /\ g = f \/ (Owned(f) /\ g.value \in Token)
<1>1. CASE Owned(f) /\ patch[f.key] # Skip
  <2>1. patch[f.key] \in Token
    BY <1>1 DEF Owned
  <2> QED
    BY <1>1, <2>1 DEF PatchedField, Field, Owned, metadataKeys
<1>2. CASE ~ (Owned(f) /\ patch[f.key] # Skip)
  <2>1. PatchedField(f, patch) = f
    BY <1>2, Zenon DEF PatchedField
  <2> QED
    BY <2>1
<1> QED
  BY <1>1, <1>2

LEMMA LastPlaces ==
  ASSUME NEW L \in Nat, NEW x \in {0, 1}, NEW y \in {0, 1}, NEW i \in 1 .. (L + x + y),
         i \notin 1 .. L
  PROVE  /\ i <= L + x => x = 1 /\ i - L = 1 /\ i = L + 1
         /\ ~ (i <= L + x) => y = 1 /\ i - L - x = 1 /\ i = L + x + 1
<1>1. x \in Int /\ y \in Int /\ i \in Int
  OBVIOUS
<1>2. i <= L + x + y /\ i > L
  BY <1>1
<1>3. CASE x = 0
  BY <1>1, <1>2, <1>3
<1>4. CASE x = 1
  BY <1>1, <1>2, <1>4
<1> QED
  BY <1>3, <1>4

\* The fields of a patched model: those that were there, then new owned keys.
LEMMA PatchedFields ==
  ASSUME NEW m \in Model, NEW patch \in [metadataKeys -> Token \cup {Skip}]
  PROVE  LET n == applyMetadataFields(m, patch)
         IN  /\ n \in Model /\ n.shape = m.shape
             /\ DOMAIN m.fields \subseteq DOMAIN n.fields
             /\ \A i \in DOMAIN m.fields : n.fields[i] = PatchedField(m.fields[i], patch)
             /\ \A i \in DOMAIN n.fields \ DOMAIN m.fields :
                  /\ n.fields[i].key \in metadataKeys \ Keys(m)
                  /\ n.fields[i].keyStyle = "plain" /\ n.fields[i].value \in Token
             /\ \A i, j \in DOMAIN n.fields \ DOMAIN m.fields :
                  n.fields[i].key = n.fields[j].key => i = j
<1> DEFINE n == applyMetadataFields(m, patch)
           old == [i \in DOMAIN m.fields |-> PatchedField(m.fields[i], patch)]
           a == NewField(m, patch, "thinking")
           b == NewField(m, patch, "max-output-tokens")
<1>1. m.fields \in Seq(Field) /\ DOMAIN m.fields = 1 .. Len(m.fields) /\ Len(m.fields) \in Nat
  BY SeqRange DEF Model
<1>2. old \in Seq(Field) /\ Len(old) = Len(m.fields) /\ DOMAIN old = DOMAIN m.fields
  <2>1. old \in [1 .. Len(m.fields) -> Field]
    BY <1>1, PatchedFieldKeeps, SeqRange
  <2> HIDE DEF old
  <2> QED
    BY <1>1, <2>1
<1>3. n = [m EXCEPT !.fields = (old \o a) \o b]
  BY DEF applyMetadataFields
<1>4. \A i \in DOMAIN m.fields : old[i] = PatchedField(m.fields[i], patch)
  OBVIOUS
<1>5. /\ a \in Seq(Field) /\ Len(a) \in {0, 1}
      /\ Len(a) = 1 => /\ a[1].key = "thinking" /\ a[1].keyStyle = "plain"
                       /\ a[1].value \in Token /\ "thinking" \notin Keys(m)
  BY AddedField DEF metadataKeys
<1>6. /\ b \in Seq(Field) /\ Len(b) \in {0, 1}
      /\ Len(b) = 1 => /\ b[1].key = "max-output-tokens" /\ b[1].keyStyle = "plain"
                       /\ b[1].value \in Token /\ "max-output-tokens" \notin Keys(m)
  BY AddedField DEF metadataKeys
<1> HIDE DEF old, a, b
<1> DEFINE all == (old \o a) \o b
<1>7. /\ all \in Seq(Field) /\ Len(all) = Len(old) + Len(a) + Len(b)
      /\ DOMAIN all = 1 .. (Len(old) + Len(a) + Len(b))
      /\ \A i \in DOMAIN all : all[i] = IF i <= Len(old) THEN old[i]
                                        ELSE IF i <= Len(old) + Len(a) THEN a[i - Len(old)]
                                        ELSE b[i - Len(old) - Len(a)]
  <2>1. old \o a \in Seq(Field) /\ Len(old \o a) = Len(old) + Len(a)
    BY <1>2, <1>5
  <2>2. all \in Seq(Field) /\ Len(all) = Len(old) + Len(a) + Len(b)
    <3> DEFINE front == old \o a
    <3>1. front \in Seq(Field) /\ Len(front) = Len(old) + Len(a) /\ all = front \o b
      BY <2>1
    <3> HIDE DEF front, all
    <3>2. b \in Seq(Field)
      BY <1>6
    <3>3. front \o b \in Seq(Field) /\ Len(front \o b) = Len(front) + Len(b)
      BY <3>1, <3>2, ConcatProperties
    <3> QED
      BY <3>1, <3>3
  <2>3. DOMAIN all = 1 .. (Len(old) + Len(a) + Len(b))
    BY <2>2
  <2>4. \A i \in DOMAIN all : all[i] = IF i <= Len(old) + Len(a) THEN (old \o a)[i]
                                      ELSE b[i - (Len(old) + Len(a))]
    <3> DEFINE front == old \o a
    <3>1. front \in Seq(Field) /\ Len(front) = Len(old) + Len(a) /\ all = front \o b
      BY <2>1
    <3> HIDE DEF front, all
    <3> QED
      BY <1>6, <3>1, <2>3, ConcatProperties DEF front
  <2>5. \A i \in 1 .. Len(old) + Len(a) : (old \o a)[i] = IF i <= Len(old) THEN old[i]
                                                        ELSE a[i - Len(old)]
    BY <1>2, <1>5, ConcatProperties
  <2> HIDE DEF all
  <2>6. Len(old) \in Nat /\ Len(a) \in Nat /\ Len(b) \in Nat
    BY <1>2, <1>5, <1>6
  <2>7. \A i \in DOMAIN all : all[i] = IF i <= Len(old) THEN old[i]
                                       ELSE IF i <= Len(old) + Len(a) THEN a[i - Len(old)]
                                       ELSE b[i - Len(old) - Len(a)]
    <3> SUFFICES ASSUME NEW i \in DOMAIN all
                 PROVE  all[i] = IF i <= Len(old) THEN old[i]
                                 ELSE IF i <= Len(old) + Len(a) THEN a[i - Len(old)]
                                 ELSE b[i - Len(old) - Len(a)]
      OBVIOUS
    <3>1. i \in 1 .. (Len(old) + Len(a) + Len(b))
      BY <2>3
    <3>2. i - (Len(old) + Len(a)) = i - Len(old) - Len(a)
      BY <3>1, <2>6
    <3>3. CASE i <= Len(old) + Len(a)
      <4>1. all[i] = (old \o a)[i] /\ i \in 1 .. Len(old) + Len(a)
        BY <2>4, <2>6, <3>1, <3>3
      <4> QED BY <2>5, <2>6, <3>1, <3>3, <4>1
    <3>4. CASE ~(i <= Len(old) + Len(a))
      <4>1. all[i] = b[i - (Len(old) + Len(a))] /\ ~(i <= Len(old))
        BY <2>4, <2>6, <3>1, <3>4
      <4> QED BY <3>2, <3>4, <4>1
    <3> QED BY <3>3, <3>4
  <2> QED
    BY <2>2, <2>3, <2>7
<1>8. n.fields = all /\ n.shape = m.shape /\ n \in Model
  BY <1>3, <1>7 DEF Model
<1> HIDE DEF all, n
<1>9. \A i \in DOMAIN all \ DOMAIN m.fields :
        \/ i = Len(old) + 1 /\ Len(a) = 1 /\ all[i] = a[1]
        \/ i = Len(old) + Len(a) + 1 /\ Len(b) = 1 /\ all[i] = b[1]
  <2>1. Len(a) \in {0, 1} /\ Len(b) \in {0, 1} /\ Len(m.fields) = Len(old)
        /\ Len(old) \in Nat /\ DOMAIN m.fields = 1 .. Len(old)
    BY <1>1, <1>2, <1>5, <1>6
  <2>2. ASSUME NEW i \in 1 .. (Len(old) + Len(a) + Len(b)), i \notin 1 .. Len(old)
        PROVE  \/ i = Len(old) + 1 /\ Len(a) = 1 /\ all[i] = a[1]
               \/ i = Len(old) + Len(a) + 1 /\ Len(b) = 1 /\ all[i] = b[1]
    <3> DEFINE L == Len(old)
               x == Len(a)
               y == Len(b)
    <3>0. /\ i <= L + x => x = 1 /\ i - L = 1 /\ i = L + 1
          /\ ~ (i <= L + x) => y = 1 /\ i - L - x = 1 /\ i = L + x + 1
      <4>1. L \in Nat /\ x \in {0, 1} /\ y \in {0, 1} /\ i \in 1 .. (L + x + y) /\ i \notin 1 .. L
        BY <2>1, <2>2
      <4> HIDE DEF L, x, y
      <4> QED
        BY <4>1, LastPlaces
    <3>1. all[i] = IF i <= Len(old) + Len(a) THEN a[i - Len(old)]
                   ELSE b[i - Len(old) - Len(a)]
      BY <1>7, <2>1, <2>2
    <3>2. CASE i <= Len(old) + Len(a)
      <4>1. Len(a) = 1 /\ i - Len(old) = 1 /\ i = Len(old) + 1
        BY <3>0, <3>2
      <4>2. all[i] = a[1]
        BY <3>1, <3>2, <4>1
      <4> QED
        BY <4>1, <4>2
    <3>3. CASE ~ (i <= Len(old) + Len(a))
      <4>1. Len(b) = 1 /\ i - Len(old) - Len(a) = 1 /\ i = Len(old) + Len(a) + 1
        BY <3>0, <3>3
      <4>2. all[i] = b[1]
        BY <3>1, <3>3, <4>1
      <4> QED
        BY <4>1, <4>2
    <3> QED
      BY <3>2, <3>3
  <2> QED
    BY <1>7, <2>1, <2>2
<1>10. \A i \in DOMAIN m.fields : i \in DOMAIN all /\ all[i] = old[i]
  BY <1>1, <1>2, <1>5, <1>6, <1>7
<1>11. \A i \in DOMAIN all \ DOMAIN m.fields :
         /\ all[i].key \in metadataKeys \ Keys(m)
         /\ all[i].keyStyle = "plain" /\ all[i].value \in Token
  BY <1>5, <1>6, <1>9 DEF metadataKeys
<1>12. \A i, j \in DOMAIN all \ DOMAIN m.fields : all[i].key = all[j].key => i = j
  BY <1>5, <1>6, <1>9
<1> QED
  BY <1>4, <1>8, <1>10, <1>11, <1>12 DEF n

\* A patched model is a parsed one, and passes the comparison with the one it was.
LEMMA PatchedModel ==
  ASSUME NEW m \in Model, ParsedModel(m), HasName(m),
         NEW patch \in [metadataKeys -> Token \cup {Skip}]
  PROVE  LET n == applyMetadataFields(m, patch)
         IN  n \in Model /\ ParsedModel(n) /\ n.shape = m.shape /\ compareMetadataModel(m, n)
<1> DEFINE n == applyMetadataFields(m, patch)
           new == DOMAIN n.fields \ DOMAIN m.fields
<1>1. n \in Model /\ n.shape = m.shape /\ DOMAIN m.fields \subseteq DOMAIN n.fields
  BY PatchedFields
<1>2. \A i \in DOMAIN m.fields : n.fields[i] = PatchedField(m.fields[i], patch)
  BY PatchedFields
<1>3. \A i \in new : /\ n.fields[i].key \in metadataKeys \ Keys(m)
                     /\ n.fields[i].keyStyle = "plain" /\ n.fields[i].value \in Token
  BY PatchedFields
<1>4. \A i, j \in new : n.fields[i].key = n.fields[j].key => i = j
  BY PatchedFields
<1> HIDE DEF n
<1>5. \A i \in DOMAIN m.fields :
        /\ m.fields[i] \in Field /\ m.fields[i] \in Range(m.fields)
        /\ n.fields[i].key = m.fields[i].key /\ n.fields[i].keyStyle = m.fields[i].keyStyle
        /\ n.fields[i].style = m.fields[i].style
        /\ n.fields[i] = m.fields[i] \/ (Owned(m.fields[i]) /\ n.fields[i].value \in Token)
  BY <1>2, PatchedFieldKeeps, SeqRange DEF Model
<1>6. \A f \in Range(n.fields) : \E i \in DOMAIN n.fields : n.fields[i] = f
  BY <1>1, SeqRange DEF Model
<1>7. \A i \in DOMAIN m.fields : m.fields[i].key \in Keys(m)
  BY <1>5 DEF Keys
<1>8. \A i \in DOMAIN n.fields : n.fields[i].key \in Keys(n) /\ n.fields[i] \in Range(n.fields)
  BY DEF Keys, Range
<1>9. ParsedModel(n)
  <2>1. UniqueKeys(n)
    BY <1>3, <1>4, <1>5, <1>7 DEF UniqueKeys, ParsedModel
  <2>2. ASSUME NEW f \in Range(n.fields), f.value \in Unplain PROVE f.style = "quoted"
    <3>1. PICK i \in DOMAIN n.fields : n.fields[i] = f
      BY <1>6
    <3>2. f.value \notin Token
      BY <2>2, DocumentsAssumption
    <3>3. i \in DOMAIN m.fields /\ m.fields[i] = f
      BY <1>3, <1>5, <3>1, <3>2
    <3> QED
      BY <1>5, <2>2, <3>3 DEF ParsedModel
  <2> QED
    BY <2>1, <2>2 DEF ParsedModel
<1>10. HasName(n)
  <2>1. PICK i \in DOMAIN m.fields : m.fields[i].key = "name"
    BY SeqRange DEF HasName, Keys, Model
  <2> QED
    BY <1>1, <1>5, <1>8, <2>1 DEF HasName
<1>11. unowned(m) = unowned(n)
  <2>1. ASSUME NEW p \in unowned(m) PROVE p \in unowned(n)
    <3>1. PICK i \in DOMAIN m.fields, j \in DOMAIN m.fields :
            i <= j /\ p = <<m.fields[i], m.fields[j]>>
      BY DEF unowned, Order
    <3>2. n.fields[i] = m.fields[i] /\ n.fields[j] = m.fields[j]
      BY <1>5, <3>1 DEF unowned
    <3>3. p \in Order(n)
      BY <1>1, <3>1, <3>2, OrderPair
    <3> QED
      BY <3>3 DEF unowned
  <2>2. ASSUME NEW p \in unowned(n) PROVE p \in unowned(m)
    <3>1. PICK i \in DOMAIN n.fields, j \in DOMAIN n.fields :
            i <= j /\ p = <<n.fields[i], n.fields[j]>>
      BY DEF unowned, Order
    <3>2. i \in DOMAIN m.fields /\ j \in DOMAIN m.fields
      BY <1>3, <3>1 DEF unowned, Owned
    <3>3. n.fields[i] = m.fields[i] /\ n.fields[j] = m.fields[j]
      BY <1>5, <3>1, <3>2 DEF unowned, Owned
    <3>4. p \in Order(m)
      BY <3>1, <3>2, <3>3, OrderPair
    <3> QED
      BY <3>4 DEF unowned
  <2> QED
    BY <2>1, <2>2 DEF unowned
<1>12. sameRetainedMetadataOrder(m, n)
  <2>1. ASSUME NEW p \in OwnedOrder(m, n) PROVE p \in OwnedOrder(n, m)
    <3>1. PICK i \in DOMAIN m.fields, j \in DOMAIN m.fields :
            /\ i <= j /\ p = <<m.fields[i].key, m.fields[j].key>>
            /\ m.fields[i].key \in metadataKeys /\ m.fields[j].key \in metadataKeys
      BY DEF OwnedOrder, Order
    <3>2. <<n.fields[i], n.fields[j]>> \in Order(n)
      BY <1>1, <3>1, OrderPair
    <3> QED
      BY <1>5, <1>7, <3>1, <3>2 DEF OwnedOrder
  <2>2. ASSUME NEW p \in OwnedOrder(n, m) PROVE p \in OwnedOrder(m, n)
    <3>1. PICK i \in DOMAIN n.fields, j \in DOMAIN n.fields :
            /\ i <= j /\ p = <<n.fields[i].key, n.fields[j].key>>
            /\ n.fields[i].key \in metadataKeys \cap Keys(m)
            /\ n.fields[j].key \in metadataKeys \cap Keys(m)
      BY DEF OwnedOrder, Order
    <3>2. i \in DOMAIN m.fields /\ j \in DOMAIN m.fields
      BY <1>3, <3>1
    <3>3. <<m.fields[i], m.fields[j]>> \in Order(m)
      BY <3>1, <3>2, OrderPair
    <3>4. m.fields[i].key = n.fields[i].key /\ m.fields[j].key = n.fields[j].key
          /\ n.fields[i].key \in Keys(n) /\ n.fields[j].key \in Keys(n)
      BY <1>5, <1>8, <3>1, <3>2
    <3> QED
      BY <3>1, <3>3, <3>4 DEF OwnedOrder
  <2> QED
    BY <2>1, <2>2 DEF sameRetainedMetadataOrder, OwnedOrder
<1>13. ASSUME NEW f \in Range(n.fields), Owned(f)
       PROVE  \/ \E g \in Range(m.fields) : g.key = f.key /\ g.keyStyle = f.keyStyle
              \/ f.key \notin Keys(m) /\ f.keyStyle = "plain"
  <2>1. PICK i \in DOMAIN n.fields : n.fields[i] = f
    BY <1>6
  <2> QED
    BY <1>3, <1>5, <2>1
<1>14. compareMetadataModel(m, n)
  BY <1>1, <1>10, <1>11, <1>12, <1>13 DEF compareMetadataModel
<1> QED
  BY <1>1, <1>9, <1>14 DEF n

-----------------------------------------------------------------------------
(* The comparisons accept what the planners make. *)

LEMMA InjectiveNames ==
  ASSUME NEW models \in Seq(Model)
  PROVE  namedModels(models) <=>
           /\ \A i \in DOMAIN models : HasName(models[i])
           /\ \A i, j \in DOMAIN models :
                modelName(models[i]) = modelName(models[j]) => i = j
<1> DEFINE names == Names(models)
<1>1. DOMAIN names = DOMAIN models /\ \A i \in DOMAIN models : names[i] = modelName(models[i])
  BY DEF Names
<1>2. IsInjective(names) <=> \A i, j \in DOMAIN models :
        modelName(models[i]) = modelName(models[j]) => i = j
  BY <1>1 DEF IsInjective
<1>3. (\A m \in Range(models) : HasName(m)) <=> \A i \in DOMAIN models : HasName(models[i])
  BY SeqRange DEF Range
<1> QED
  BY <1>2, <1>3 DEF namedModels

LEMMA SameMembership ==
  ASSUME NEW c \in Channel, namedModels(c.models)
  PROVE  SameButModels(c, c) /\ compareMembershipModels(c, c)
<1>1. c.models \in Seq(Model)
  BY DEF Channel
<1>2. ASSUME NEW m \in Range(c.models), NEW b \in Range(c.models), modelName(b) = modelName(m)
      PROVE  retainedModel(b, m)
  BY <1>1, <1>2, InjectiveNames, SeqRange DEF retainedModel
<1> QED
  BY <1>2 DEF SameButModels, compareMembershipModels

LEMMA SameMetadata ==
  ASSUME NEW c \in Channel, \A m \in Range(c.models) : HasName(m)
  PROVE  compareMetadataProvider(c, c)
<1>1. \A i \in DOMAIN c.models : HasName(c.models[i])
  BY SeqRange DEF Channel
<1>2. ASSUME NEW m, HasName(m) PROVE compareMetadataModel(m, m)
  BY <1>2 DEF compareMetadataModel, sameRetainedMetadataOrder
<1> QED
  BY <1>1, <1>2 DEF compareMetadataProvider, SameButModels

\* A channel with the planned list in it.
LEMMA MembershipChannel ==
  ASSUME NEW c \in Channel, ParsedChannel(c), namedModels(c.models),
         NEW names \in Seq(Name), IsInjective(names)
  PROVE  LET d == Encoded([c EXCEPT !.models =
                             [k \in DOMAIN names |-> ModelFor(c.models, names[k])]])
         IN  /\ d \in Channel /\ ParsedChannel(d) /\ SameButModels(c, d)
             /\ names # Names(c.models) /\ ~ Unwritable(c, names)
                  => compareMembershipModels(c, d)
<1> DEFINE planned == [k \in DOMAIN names |-> ModelFor(c.models, names[k])]
           built == [c EXCEPT !.models = planned]
           d == Encoded(built)
<1>1. c.models \in Seq(Model) /\ c.shape \in Shape /\ \A m \in Range(c.models) : ParsedModel(m)
  BY DEF Channel, ParsedChannel
<1>2. /\ planned \in Seq(Model) /\ DOMAIN planned = DOMAIN names /\ Len(planned) = Len(names)
      /\ \A k \in DOMAIN names :
           /\ HasName(planned[k]) /\ modelName(planned[k]) = names[k]
           /\ ParsedModel(planned[k])
           /\ \/ planned[k] \in Range(c.models)
              \/ /\ planned[k] = minimalModelNode(names[k])
                 /\ names[k] \notin Range(Names(c.models))
  BY <1>1, PlannedModels
<1> HIDE DEF planned
<1>3. built \in Channel /\ built.models = planned /\ built.shape = c.shape
      /\ built.rest = c.rest /\ built.indirect = c.indirect
  BY <1>2 DEF Channel
<1>4. \A m \in Range(planned) : ParsedModel(m)
  <2>1. ASSUME NEW m \in Range(planned) PROVE ParsedModel(m)
    <3>1. PICK k \in DOMAIN planned : planned[k] = m
      BY DEF Range
    <3> QED
      BY <1>2, <3>1
  <2> QED
    BY <2>1
<1> HIDE DEF built
<1>5. /\ d \in Channel /\ ParsedChannel(d)
      /\ d.rest = c.rest /\ d.indirect = c.indirect
      /\ d.shape = IF planned = <<>> THEN "flow" ELSE c.shape
      /\ DOMAIN d.models = DOMAIN names /\ Len(d.models) = Len(names)
      /\ \A k \in DOMAIN names :
           d.models[k] = IF c.shape = "flow" THEN [planned[k] EXCEPT !.shape = "flow"]
                         ELSE planned[k]
  BY <1>2, <1>3, <1>4, EncodedChannel
<1> HIDE DEF d
<1>6. ASSUME NEW k \in DOMAIN names
      PROVE  HasName(d.models[k]) /\ modelName(d.models[k]) = names[k]
  <2>1. planned[k] \in Model /\ "flow" \in Shape
    BY <1>2, SeqRange DEF Shape
  <2>2. d.models[k].fields = planned[k].fields
    <3>1. [planned[k] EXCEPT !.shape = "flow"].fields = planned[k].fields
      BY <2>1 DEF Model
    <3> QED
      BY <1>5, <3>1
  <2> QED
    <3>1. modelName(d.models[k]) = modelName(planned[k])
          /\ (HasName(d.models[k]) <=> HasName(planned[k]))
      BY <2>2, SameFieldsSameName
    <3> QED
      BY <1>2, <3>1
<1>7. namedModels(d.models)
  <2>1. d.models \in Seq(Model)
    BY <1>5 DEF Channel
  <2>2. \A i, j \in DOMAIN names : names[i] = names[j] => i = j
    BY DEF IsInjective
  <2> QED
    BY <1>5, <1>6, <2>1, <2>2, InjectiveNames
<1>8. ASSUME names # Names(c.models), ~ Unwritable(c, names)
      PROVE  compareMembershipModels(c, d)
  <2>1. c.shape = d.shape
    <3>1. planned = <<>> => names = <<>>
      BY <1>2
    <3> QED
      BY <1>1, <1>5, <1>8, <3>1 DEF Unwritable, Shape
  <2>2. ASSUME NEW m \in Range(d.models)
        PROVE  LET same == {b \in Range(c.models) : modelName(b) = modelName(m)}
               IN  IF same = {} THEN minimalNewModel(m)
                   ELSE \A b \in same : retainedModel(b, m)
    <3>1. PICK k \in DOMAIN names : m = d.models[k]
      BY <1>5 DEF Range
    <3>2. modelName(m) = names[k]
      BY <1>6, <3>1
    <3>3. CASE planned[k] \in Range(c.models)
      <4>1. planned[k] \in Model /\ (c.shape = "flow" => planned[k].shape = "flow")
        BY <1>2, <3>3, SeqRange DEF ParsedChannel
      <4>2. m = planned[k]
        BY <1>5, <3>1, <4>1, ShapedModel DEF Shape
      <4>3. ASSUME NEW b \in Range(c.models), modelName(b) = modelName(m) PROVE b = m
        <5>1. PICK i \in DOMAIN c.models : c.models[i] = b
          BY <1>1, SeqRange
        <5>2. PICK j \in DOMAIN c.models : c.models[j] = m
          BY <1>1, <3>3, <4>2, SeqRange
        <5> QED
          BY <1>1, <4>3, <5>1, <5>2, InjectiveNames
      <4>4. {b \in Range(c.models) : modelName(b) = modelName(m)} # {}
        BY <3>3, <4>2
      <4> QED
        BY <4>3, <4>4 DEF retainedModel
    <3>4. CASE planned[k] = minimalModelNode(names[k]) /\ names[k] \notin Range(Names(c.models))
      <4>1. names[k] \in Name /\ names[k] \in Range(names)
        BY SeqRange
      <4>2. c.shape # "flow" /\ names[k] \notin Unplain
        BY <1>8, <3>4, <4>1 DEF Unwritable
      <4>3. minimalNewModel(m)
        BY <1>5, <3>1, <3>4, <4>1, <4>2, MinimalModel
      <4>4. \A b \in Range(c.models) : modelName(b) # modelName(m)
        <5>1. ASSUME NEW b \in Range(c.models) PROVE modelName(b) \in Range(Names(c.models))
          <6>1. PICK i \in DOMAIN c.models : c.models[i] = b
            BY <1>1, SeqRange
          <6>2. i \in DOMAIN Names(c.models) /\ Names(c.models)[i] = modelName(b)
            BY <6>1 DEF Names
          <6> QED
            BY <6>2 DEF Range
        <5> QED
          BY <3>2, <3>4, <5>1
      <4> QED
        BY <4>3, <4>4
    <3> QED
      BY <1>2, <3>3, <3>4
  <2> QED
    BY <1>7, <2>1, <2>2 DEF compareMembershipModels
<1> QED
  BY <1>3, <1>5, <1>8 DEF SameButModels, d, built, planned

LEMMA DocumentChannels ==
  ASSUME NEW d \in Document, NEW root \in {"openai", "claude"}
  PROVE  /\ d[root] \in Seq(Channel) /\ DOMAIN d[root] = 1 .. Len(d[root])
         /\ Len(d[root]) \in Nat /\ \A i \in DOMAIN d[root] : d[root][i] \in Channel
         /\ Parsed(d) => \A i \in DOMAIN d[root] : ParsedChannel(d[root][i])
<1>1. d[root] \in Seq(Channel)
  BY DEF Document
<1>2. ASSUME Parsed(d), NEW i \in DOMAIN d[root] PROVE ParsedChannel(d[root][i])
  BY <1>1, <1>2, SeqRange DEF Parsed
<1> QED
  BY <1>1, <1>2, SeqRange

LEMMA MembershipProposal ==
  ASSUME NEW d \in Document, Parsed(d),
         NEW desired \in [DOMAIN d.openai -> DesiredLists \cup {Skip}],
         \A i \in DOMAIN d.openai : desired[i] # Skip => locateSnapshotChannel(d.openai[i])
  PROVE  LET p == applyMembership(d, desired)
         IN  /\ p \in Document /\ Parsed(p)
             /\ \/ Indirect(d, "auto-pull-models") \/ Unnamed(d, "auto-pull-models")
                \/ \E i \in DOMAIN d.openai :
                     desired[i] # Skip /\ Unwritable(d.openai[i], desired[i])
                \/ validateOwnership("auto-pull-models", d, p)
<1> DEFINE p == applyMembership(d, desired)
           kept(i) == desired[i] = Skip \/ desired[i] = Names(d.openai[i].models)
           build(i) == Encoded([d.openai[i] EXCEPT !.models =
                         [k \in DOMAIN desired[i] |->
                            ModelFor(d.openai[i].models, desired[i][k])]])
           channels == [i \in DOMAIN d.openai |-> IF kept(i) THEN d.openai[i] ELSE build(i)]
<1>1. /\ d.openai \in Seq(Channel) /\ DOMAIN d.openai = 1 .. Len(d.openai)
      /\ Len(d.openai) \in Nat
      /\ \A i \in DOMAIN d.openai : d.openai[i] \in Channel /\ ParsedChannel(d.openai[i])
  BY DocumentChannels
<1>2. p = [d EXCEPT !.openai = channels]
  BY DEF applyMembership
<1>3. ASSUME NEW i \in DOMAIN d.openai
      PROVE  /\ channels[i] \in Channel /\ ParsedChannel(channels[i])
             /\ SameButModels(d.openai[i], channels[i])
             /\ ~ (desired[i] # Skip /\ Unwritable(d.openai[i], desired[i]))
                  /\ namedModels(d.openai[i].models)
                  => compareMembershipModels(d.openai[i], channels[i])
  <2>1. CASE kept(i)
    <3>1. channels[i] = d.openai[i]
      BY <2>1
    <3> QED
      BY <1>1, <3>1, SameMembership DEF SameButModels
  <2>2. CASE ~ kept(i)
    <3>1. channels[i] = build(i)
      BY <2>2
    <3>2. desired[i] \in Seq(Name) /\ IsInjective(desired[i])
      BY <2>2, PlansAssumption
    <3>3. namedModels(d.openai[i].models)
      BY <2>2 DEF locateSnapshotChannel
    <3>4. /\ build(i) \in Channel /\ ParsedChannel(build(i))
          /\ SameButModels(d.openai[i], build(i))
          /\ desired[i] # Names(d.openai[i].models) /\ ~ Unwritable(d.openai[i], desired[i])
               => compareMembershipModels(d.openai[i], build(i))
      BY <1>1, <3>2, <3>3, MembershipChannel
    <3> HIDE DEF build, channels
    <3> QED
      BY <2>2, <3>1, <3>4
  <2> QED
    BY <2>1, <2>2
<1> HIDE DEF kept, build
<1>4. channels \in Seq(Channel) /\ DOMAIN channels = DOMAIN d.openai
      /\ Len(channels) = Len(d.openai)
  <2>1. channels \in [1 .. Len(d.openai) -> Channel]
    BY <1>1, <1>3
  <2> HIDE DEF channels
  <2> QED
    BY <1>1, <2>1
<1> HIDE DEF channels
<1>5. p \in Document /\ p.openai = channels /\ p.claude = d.claude /\ p.rest = d.rest
      /\ p.indirect = d.indirect
  BY <1>2, <1>4 DEF Document
<1>6. Parsed(p)
  <2>1. ASSUME NEW c \in Range(channels) PROVE ParsedChannel(c)
    BY <1>3, <1>4 DEF Range
  <2> QED
    BY <1>5, <2>1 DEF Parsed
<1>7. ASSUME ~ Indirect(d, "auto-pull-models"), ~ Unnamed(d, "auto-pull-models"),
             \A i \in DOMAIN d.openai :
               ~ (desired[i] # Skip /\ Unwritable(d.openai[i], desired[i]))
      PROVE  validateOwnership("auto-pull-models", d, p)
  <2>1. \A i \in DOMAIN d.openai : namedModels(d.openai[i].models) /\ ~ d.openai[i].indirect
    BY <1>1, <1>7, SeqRange DEF Unnamed, Indirect, validateMutablePaths
  <2>2. ASSUME NEW c \in Range(channels) PROVE ~ c.indirect
    <3>1. PICK i \in DOMAIN d.openai : channels[i] = c
      BY <1>4 DEF Range
    <3> QED
      BY <1>3, <2>1, <3>1 DEF SameButModels
  <2>3. validateMutablePaths(p, "auto-pull-models")
    BY <1>5, <1>7, <2>2 DEF Indirect, validateMutablePaths
  <2>4. compareMembershipRoot(d, p)
    BY <1>3, <1>4, <1>5, <1>7, <2>1 DEF compareMembershipRoot, SameOutside
  <2> QED
    BY <1>7, <2>3, <2>4 DEF validateOwnership, Indirect
<1> QED
  BY <1>5, <1>6, <1>7 DEF p

LEMMA PatchedChannelKeeps ==
  ASSUME NEW c \in Channel, ParsedChannel(c), locateSnapshotChannel(c), NEW patches \in Patches
  PROVE  LET e == PatchedChannel(c, patches)
         IN  e \in Channel /\ ParsedChannel(e) /\ compareMetadataProvider(c, e)
<1> DEFINE e == PatchedChannel(c, patches)
           models == [i \in DOMAIN c.models |->
                        applyMetadataFields(c.models[i], patches[modelName(c.models[i])])]
<1>1. c.models \in Seq(Model) /\ DOMAIN c.models = 1 .. Len(c.models) /\ Len(c.models) \in Nat
  BY SeqRange DEF Channel
<1>2. ASSUME NEW i \in DOMAIN c.models
      PROVE  /\ models[i] \in Model /\ ParsedModel(models[i])
             /\ models[i].shape = c.models[i].shape
             /\ compareMetadataModel(c.models[i], models[i])
             /\ c.shape = "flow" => models[i].shape = "flow"
  <2> DEFINE m == c.models[i]
  <2>1. m \in Model /\ m \in Range(c.models)
    BY <1>1, SeqRange
  <2>2. ParsedModel(m) /\ HasName(m) /\ (c.shape = "flow" => m.shape = "flow")
    BY <2>1 DEF ParsedChannel, locateSnapshotChannel, namedModels
  <2>3. modelName(m) \in Name
    BY <2>1, <2>2, NameOfField DEF ParsedModel
  <2>4. patches[modelName(m)] \in [metadataKeys -> Token \cup {Skip}]
    BY <2>3, PlansAssumption
  <2> QED
    BY <2>1, <2>2, <2>4, PatchedModel
<1>3. models \in Seq(Model) /\ DOMAIN models = DOMAIN c.models /\ Len(models) = Len(c.models)
  <2>1. models \in [1 .. Len(c.models) -> Model]
    BY <1>1, <1>2
  <2> HIDE DEF models
  <2> QED
    BY <1>1, <2>1
<1>4. e = [c EXCEPT !.models = models]
  BY DEF PatchedChannel
<1> HIDE DEF models, e
<1>5. e \in Channel /\ e.models = models /\ e.rest = c.rest /\ e.indirect = c.indirect
      /\ e.shape = c.shape
  BY <1>3, <1>4 DEF Channel
<1>6. ParsedChannel(e)
  <2>1. ASSUME NEW m \in Range(models)
        PROVE  ParsedModel(m) /\ (c.shape = "flow" => m.shape = "flow")
    BY <1>2, <1>3 DEF Range
  <2>2. models = <<>> => c.models = <<>>
    BY <1>1, <1>3
  <2> QED
    BY <1>5, <2>1, <2>2 DEF ParsedChannel
<1>7. compareMetadataProvider(c, e)
  BY <1>2, <1>3, <1>5 DEF compareMetadataProvider, SameButModels
<1> QED
  BY <1>5, <1>6, <1>7 DEF e

LEMMA MetadataProposal ==
  ASSUME NEW d \in Document, Parsed(d), NEW root \in {"openai", "claude"},
         NEW channel \in DOMAIN d[root], locateSnapshotChannel(d[root][channel]),
         NEW patches \in Patches
  PROVE  LET p == applyMetadata(d, root, channel, patches)
         IN  /\ p \in Document /\ Parsed(p)
             /\ \/ Indirect(d, "model-metadata-sync") \/ Unnamed(d, "model-metadata-sync")
                \/ validateOwnership("model-metadata-sync", d, p)
<1> DEFINE p == applyMetadata(d, root, channel, patches)
           e == PatchedChannel(d[root][channel], patches)
<1>1. \A r \in {"openai", "claude"} :
        /\ d[r] \in Seq(Channel) /\ DOMAIN d[r] = 1 .. Len(d[r]) /\ Len(d[r]) \in Nat
        /\ \A i \in DOMAIN d[r] : d[r][i] \in Channel /\ ParsedChannel(d[r][i])
  BY DocumentChannels
<1>2. e \in Channel /\ ParsedChannel(e) /\ compareMetadataProvider(d[root][channel], e)
  BY <1>1, PatchedChannelKeeps
<1>3. p = [d EXCEPT ![root] = [d[root] EXCEPT ![channel] = e]]
  BY DEF applyMetadata
<1> HIDE DEF e, p
<1>4. [d[root] EXCEPT ![channel] = e] \in Seq(Channel)
      /\ Len([d[root] EXCEPT ![channel] = e]) = Len(d[root])
  BY <1>1, <1>2
<1>5. /\ p \in Document /\ p.rest = d.rest /\ p.indirect = d.indirect
      /\ p[root] = [d[root] EXCEPT ![channel] = e]
      /\ \A r \in {"openai", "claude"} \ {root} : p[r] = d[r]
  BY <1>3, <1>4 DEF Document
<1>6. ASSUME NEW r \in {"openai", "claude"}
      PROVE  /\ DOMAIN p[r] = DOMAIN d[r] /\ Len(p[r]) = Len(d[r])
             /\ \A i \in DOMAIN d[r] : IF r = root /\ i = channel THEN p[r][i] = e
                                      ELSE p[r][i] = d[r][i]
  BY <1>1, <1>4, <1>5
<1>7. \A r \in {"openai", "claude"} : \A i \in DOMAIN d[r] :
        p[r][i] \in Channel /\ ParsedChannel(p[r][i])
  BY <1>1, <1>2, <1>6
<1>8. Parsed(p)
  <2>1. \A c \in Range(p.openai) : ParsedChannel(c)
    BY <1>6, <1>7 DEF Range
  <2>2. \A c \in Range(p.claude) : ParsedChannel(c)
    BY <1>6, <1>7 DEF Range
  <2> QED
    BY <2>1, <2>2 DEF Parsed
<1>9. ASSUME ~ Indirect(d, "model-metadata-sync"), ~ Unnamed(d, "model-metadata-sync")
      PROVE  validateOwnership("model-metadata-sync", d, p)
  <2>1. ASSUME NEW r \in {"openai", "claude"}, NEW i \in DOMAIN d[r]
        PROVE  ~ d[r][i].indirect /\ \A m \in Range(d[r][i].models) : HasName(m)
    <3>1. d[r][i] \in Range(d[r])
      BY <2>1 DEF Range
    <3> QED
      BY <1>9, <2>1, <3>1 DEF Indirect, Unnamed, validateMutablePaths, namedModels
  <2>2. ASSUME NEW r \in {"openai", "claude"}, NEW i \in DOMAIN d[r]
        PROVE  compareMetadataProvider(d[r][i], p[r][i])
    <3>1. compareMetadataProvider(d[r][i], d[r][i])
      BY <1>1, <2>1, <2>2, SameMetadata
    <3> QED
      BY <1>2, <1>6, <2>2, <3>1
  <2>3. ASSUME NEW r \in {"openai", "claude"}, NEW i \in DOMAIN p[r] PROVE ~ p[r][i].indirect
    BY <1>6, <2>1, <2>2, <2>3 DEF compareMetadataProvider, SameButModels
  <2>4. validateMutablePaths(p, "model-metadata-sync")
    BY <1>5, <1>9, <2>3 DEF Indirect, validateMutablePaths, Range
  <2>5. compareMetadataRoot(d, p)
    BY <1>5, <1>6, <2>2 DEF compareMetadataRoot, SameOutside
  <2> QED
    BY <1>9, <2>4, <2>5 DEF validateOwnership, Indirect
<1> QED
  BY <1>5, <1>8, <1>9 DEF p

-----------------------------------------------------------------------------
(* The steps. *)

Operations == {"auto-pull-models", "model-metadata-sync"}

Inv == TypeOK /\ RefusalsAreExplained

\* Why a run of the Writer's own planner may be refused.
Reason(operation, desired) ==
  \/ Indirect(doc, operation) \/ Unnamed(doc, operation)
  \/ /\ operation = "auto-pull-models"
     /\ \E i \in DOMAIN doc.openai : desired[i] # Skip /\ Unwritable(doc.openai[i], desired[i])

LEMMA CommitKeepsInv ==
  ASSUME TypeOK, NEW operation \in Operations, NEW own \in BOOLEAN,
         NEW proposal \in Document, Parsed(proposal), NEW desired,
         own => Reason(operation, desired) \/ validateOwnership(operation, doc, proposal),
         Commit(operation, own, proposal, desired)
  PROVE  Inv'
<1>1. validateOwnership(operation, doc, proposal) \in BOOLEAN
  BY DEF validateOwnership, validateMutablePaths, compareMembershipRoot, compareMetadataRoot,
         SameOutside
<1>2. PICK accepted \in {validateOwnership(operation, doc, proposal)}
                        \cup (IF proposal = doc THEN {TRUE} ELSE {}) :
        /\ doc' = IF accepted THEN proposal ELSE doc
        /\ last' = [operation |-> operation, own |-> own, accepted |-> accepted,
                    refused |-> IF accepted THEN <<>> ELSE desired]
  BY DEF Commit
<1>3. accepted \in BOOLEAN
  BY <1>1, <1>2
<1>4. last'.operation = operation /\ last'.own = own /\ last'.accepted = accepted
      /\ (~ accepted => last'.refused = desired /\ doc' = doc)
      /\ (accepted => doc' = proposal)
  BY <1>2
<1>5. doc' \in Document /\ Parsed(doc)'
  BY <1>3, <1>4 DEF TypeOK, Parsed
<1>6. TypeOK'
  BY <1>3, <1>4, <1>5 DEF TypeOK, Operations
<1>7. RefusalsAreExplained'
  <2> SUFFICES ASSUME own, ~ accepted
               PROVE  RefusalsAreExplained'
    BY <1>4 DEF RefusalsAreExplained
  <2>1. ~ validateOwnership(operation, doc, proposal)
    BY <1>2
  <2>2. Reason(operation, desired)
    BY <2>1
  <2> QED
    BY <1>4, <2>2 DEF Reason, RefusalsAreExplained, Indirect, Unnamed
<1> QED
  BY <1>6, <1>7 DEF Inv

LEMMA InitInv == Init => Inv
<1> SUFFICES ASSUME Init PROVE Inv
  OBVIOUS
<1>1. doc \in Document /\ Parsed(doc)
  BY DocumentsAssumption DEF Init
<1> QED
  BY <1>1 DEF Init, Inv, TypeOK, RefusalsAreExplained, NoRun

LEMMA StepInv == Inv /\ [Next]_vars => Inv'
<1> SUFFICES ASSUME Inv, [Next]_vars PROVE Inv'
  OBVIOUS
<1>0. TypeOK /\ doc \in Document /\ Parsed(doc)
  BY DEF Inv, TypeOK
<1>1. ASSUME NEW desired \in [DOMAIN doc.openai -> DesiredLists \cup {Skip}], Membership(desired)
      PROVE  Inv'
  <2> DEFINE p == applyMembership(doc, desired)
  <2>1. \A i \in DOMAIN doc.openai : desired[i] # Skip => locateSnapshotChannel(doc.openai[i])
    BY <1>1 DEF Membership
  <2>2. /\ p \in Document /\ Parsed(p)
        /\ Reason("auto-pull-models", desired) \/ validateOwnership("auto-pull-models", doc, p)
    BY <1>0, <2>1, MembershipProposal DEF Reason
  <2>3. Commit("auto-pull-models", TRUE, p, desired)
    BY <1>1 DEF Membership
  <2> HIDE DEF p
  <2> QED
    BY <1>0, <2>2, <2>3, CommitKeepsInv DEF Operations
<1>2. ASSUME NEW root \in {"openai", "claude"}, NEW patches \in Patches,
             NEW channel \in DOMAIN doc[root], Metadata(root, channel, patches)
      PROVE  Inv'
  <2> DEFINE p == applyMetadata(doc, root, channel, patches)
  <2>1. locateSnapshotChannel(doc[root][channel])
        /\ Commit("model-metadata-sync", TRUE, p, <<>>)
    BY <1>2 DEF Metadata
  <2>2. /\ p \in Document /\ Parsed(p)
        /\ \/ Reason("model-metadata-sync", <<>>)
           \/ validateOwnership("model-metadata-sync", doc, p)
    BY <1>0, <2>1, MetadataProposal DEF Reason
  <2> HIDE DEF p
  <2> QED
    BY <1>0, <2>1, <2>2, CommitKeepsInv DEF Operations
<1>3. ASSUME NEW operation \in Operations, NEW proposal \in Documents,
             Foreign(operation, proposal)
      PROVE  Inv'
  <2>1. proposal \in Document /\ Parsed(proposal)
    BY DocumentsAssumption
  <2> QED
    BY <1>0, <1>3, <2>1, CommitKeepsInv DEF Foreign
<1>4. CASE UNCHANGED vars
  BY <1>4 DEF Inv, TypeOK, RefusalsAreExplained, vars, Parsed, Indirect, Unnamed
<1> QED
  BY <1>1, <1>2, <1>3, <1>4 DEF Next, Operations

THEOREM OwnershipInvariance == Spec => []Inv
<1> QED
  BY InitInv, StepInv, PTL DEF Spec

\* The file stays a parsed one (yaml.go:133-159 and yaml.go:210-243 of the planners).
THEOREM OwnershipTypeCorrect == Spec => []TypeOK
<1>1. Inv => TypeOK
  BY DEF Inv
<1> QED
  BY <1>1, OwnershipInvariance, PTL

\* The Writer refuses its own planners for the listed reasons only (ownership.go:17-40).
THEOREM RefusalTheorem == Spec => []RefusalsAreExplained
<1>1. Inv => RefusalsAreExplained
  BY DEF Inv
<1> QED
  BY <1>1, OwnershipInvariance, PTL

-----------------------------------------------------------------------------
(* What the comparisons guarantee, whatever is proposed. *)

LEMMA AcceptedMembership ==
  ASSUME NEW c \in Channel, NEW d \in Channel, compareMembershipModels(c, d)
  PROVE  MembershipChange(c, d)
<1>1. ASSUME NEW m \in Range(c.models), NEW n \in Range(d.models), modelName(m) = modelName(n)
      PROVE  m.fields = n.fields
  <2>1. m \in {b \in Range(c.models) : modelName(b) = modelName(n)}
    BY <1>1
  <2>2. retainedModel(m, n)
    BY <2>1 DEF compareMembershipModels
  <2> QED
    BY <2>2 DEF retainedModel
<1> QED
  BY <1>1 DEF MembershipChange, compareMembershipModels

LEMMA AcceptedMetadata ==
  ASSUME NEW c \in Channel, NEW d \in Channel, compareMetadataProvider(c, d)
  PROVE  MetadataChange(c, d)
<1>1. DOMAIN c.models = DOMAIN d.models
  BY SeqRange DEF Channel, compareMetadataProvider
<1>2. ASSUME NEW m \in Model, NEW n \in Model, unowned(m) = unowned(n),
             NEW key \in Key \ metadataKeys, NEW f \in At(m, key)
      PROVE  f \in At(n, key)
  <2>1. f \in Range(m.fields) /\ f.key = key /\ ~ Owned(f)
    BY DEF At, Owned
  <2>2. PICK i \in DOMAIN m.fields : m.fields[i] = f
    BY <2>1 DEF Range
  <2>3. i <= i
    BY <2>2, SeqRange DEF Model
  <2>4. <<f, f>> \in Order(m)
    BY <2>2, <2>3, OrderPair
  <2>5. <<f, f>> \in unowned(n)
    BY <1>2, <2>1, <2>4 DEF unowned
  <2>6. PICK j \in DOMAIN n.fields, k \in DOMAIN n.fields : <<f, f>> = <<n.fields[j], n.fields[k]>>
    BY <2>5 DEF unowned, Order
  <2>7. f \in Range(n.fields)
    BY <2>6 DEF Range
  <2> QED
    BY <2>1, <2>7 DEF At
<1>3. ASSUME NEW k \in DOMAIN c.models, NEW key \in Key \ metadataKeys
      PROVE  At(c.models[k], key) = At(d.models[k], key)
  <2>1. c.models[k] \in Model /\ d.models[k] \in Model
    BY <1>1, SeqRange DEF Channel
  <2>2. unowned(c.models[k]) = unowned(d.models[k])
    BY DEF compareMetadataProvider, compareMetadataModel
  <2> QED
    BY <1>2, <2>1, <2>2
<1> QED
  BY <1>1, <1>3 DEF MetadataChange

\* No run changes what it does not own, whatever was proposed (ownership.go:151-365).
THEOREM OwnershipTheorem == Spec => OnlyOwnedChange
<1> DEFINE Same == doc' # doc =>
      /\ doc'.rest = doc.rest
      /\ \A root \in {"openai", "claude"} :
           /\ DOMAIN doc'[root] = DOMAIN doc[root]
           /\ \A i \in DOMAIN doc[root] :
                LET c == doc[root][i]   d == doc'[root][i]
                IN  /\ c.rest = d.rest
                    /\ IF last'.operation = "model-metadata-sync" THEN MetadataChange(c, d)
                       ELSE IF root = "openai" THEN MembershipChange(c, d) ELSE c = d
<1>1. Inv /\ Inv' /\ [Next]_vars => [Same]_vars
  <2> SUFFICES ASSUME Inv, Inv', Next, doc' # doc
               PROVE  Same
    OBVIOUS
  <2>1. doc \in Document /\ doc' \in Document
    BY DEF Inv, TypeOK
  <2>2. PICK operation \in Operations : /\ last'.operation = operation
                                       /\ validateOwnership(operation, doc, doc')
    <3>1. ASSUME NEW operation \in Operations, NEW own, NEW proposal, NEW desired,
                 Commit(operation, own, proposal, desired)
          PROVE  last'.operation = operation /\ validateOwnership(operation, doc, doc')
      <4>1. PICK accepted \in {validateOwnership(operation, doc, proposal)}
                              \cup (IF proposal = doc THEN {TRUE} ELSE {}) :
              /\ doc' = IF accepted THEN proposal ELSE doc
              /\ last' = [operation |-> operation, own |-> own, accepted |-> accepted,
                          refused |-> IF accepted THEN <<>> ELSE desired]
        BY <3>1 DEF Commit
      <4>2. accepted /\ doc' = proposal
        BY <4>1
      <4> QED
        BY <4>1, <4>2
    <3> QED
      BY <3>1 DEF Next, Membership, Metadata, Foreign, Operations
  <2>3. \A root \in {"openai", "claude"} :
          /\ DOMAIN doc[root] = 1 .. Len(doc[root]) /\ DOMAIN doc'[root] = 1 .. Len(doc'[root])
          /\ \A i \in DOMAIN doc[root] : doc[root][i] \in Channel
          /\ \A i \in DOMAIN doc'[root] : doc'[root][i] \in Channel
    BY <2>1, DocumentChannels
  <2>4. SameOutside(doc, doc')
    BY <2>2 DEF validateOwnership, compareMembershipRoot, compareMetadataRoot, Operations
  <2>5. \A root \in {"openai", "claude"} : DOMAIN doc'[root] = DOMAIN doc[root]
    BY <2>3, <2>4 DEF SameOutside
  <2>6. ASSUME operation = "model-metadata-sync", NEW root \in {"openai", "claude"},
               NEW i \in DOMAIN doc[root]
        PROVE  doc[root][i].rest = doc'[root][i].rest
               /\ MetadataChange(doc[root][i], doc'[root][i])
    <3>1. compareMetadataProvider(doc[root][i], doc'[root][i])
      BY <2>2, <2>6 DEF validateOwnership, compareMetadataRoot
    <3> QED
      BY <2>3, <2>5, <3>1, AcceptedMetadata DEF compareMetadataProvider, SameButModels
  <2>7. ASSUME operation = "auto-pull-models", NEW i \in DOMAIN doc.openai
        PROVE  doc.openai[i].rest = doc'.openai[i].rest
               /\ MembershipChange(doc.openai[i], doc'.openai[i])
    <3>1. SameButModels(doc.openai[i], doc'.openai[i])
          /\ compareMembershipModels(doc.openai[i], doc'.openai[i])
      BY <2>2, <2>7 DEF validateOwnership, compareMembershipRoot
    <3> QED
      BY <2>3, <2>5, <3>1, AcceptedMembership DEF SameButModels
  <2>8. operation = "auto-pull-models" => doc.claude = doc'.claude
    BY <2>2 DEF validateOwnership, compareMembershipRoot
  <2>9. CASE operation = "model-metadata-sync"
    BY <2>2, <2>4, <2>5, <2>6, <2>9 DEF SameOutside
  <2>10. CASE operation = "auto-pull-models"
    BY <2>2, <2>4, <2>5, <2>7, <2>8, <2>10 DEF SameOutside
  <2> QED
    BY <2>9, <2>10 DEF Operations
<1> QED
  BY <1>1, OwnershipInvariance, PTL DEF Spec, OnlyOwnedChange
=============================================================================
