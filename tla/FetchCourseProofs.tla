------------------------- MODULE FetchCourseProofs -------------------------
(***************************************************************************)
(* What an attempt fetches, and that its two programs agree on it:         *)
(* ProposalCoversChannels and RefusalsHaveCause of ProviderFetch, for all  *)
(* configurations, snapshots, credentials and catalogs.                    *)
(*                                                                         *)
(* Course is what is known at each point of an attempt of the fetches made *)
(* so far: which channels are planned and from what, which pages the       *)
(* present one has, which public catalogs are read and what the            *)
(* continuation says of them.  Requests is what is known of the requests   *)
(* the Writer has seen.  Both are inductive with Shape of                  *)
(* ProviderFetchProofs.                                                    *)
(***************************************************************************)
EXTENDS ProviderFetchProofs

(* The names of a document's items, and of those of some pages: Ids is NamesIn. *)
Names(doc) == UNION {item.names : item \in Range(doc.items)}
Ids(pages) == UNION {Names(fetched[k].body) : k \in pages}

(* The pages of a catalog among the first n fetches. *)
PagesUpTo(c, n) == {i \in Pages(c) : i <= n}

Enabled == {c \in DOMAIN config : config[c].enabled}

(* The configuration that parseConfig took and compiled. *)
ConfigShape ==
  /\ \E n \in Nat : DOMAIN config = 1 .. n
  /\ IsFiniteSet(DOMAIN config)
  /\ \A c, d \in DOMAIN config : selectorKey(config[c]) = selectorKey(config[d]) => c = d
  /\ \A c \in DOMAIN config :
       LET spec == config[c] IN
       /\ \A o \in spec.overrides :
            o \in [model : {o.model}, given : BOOLEAN, levels : {o.levels}]
       /\ op = "auto_pull" => ~spec.codex

(* What was read is a public catalog that was fetched. *)
FromCatalog(kind, read) ==
  \E i \in DOMAIN fetched :
    fetched[i].kind = kind /\ read = parseCatalog(op, kind, fetched[i].body)

(* The operator leaves the levels of a model to modelparams.dev, which has them out
   of order. *)
LeavesOutOfOrder(spec) ==
  \E m \in Range(Located(snapshot, spec).models) :
    ~Overridden(spec, m.name) /\ OutOfOrder(m.name)

(* The operator gives a model an empty list of levels. *)
GivesNone(spec) == \E o \in spec.overrides : o.given /\ o.levels = << >>

(* The levels the plan of a channel writes are in the form CPA writes them, unless
   they are those of modelparams.dev. *)
Patches(r) ==
  \A levels \in r.patched :
    /\ levels # << >>
    /\ \/ levels = normalizeEfforts(levels)
       \/ /\ HasSource(config[r.channel], "modelparams")
          /\ LeavesOutOfOrder(config[r.channel])

(* A channel was planned from all its pages and the public catalogs it names. *)
Whole(r) ==
  LET c == r.channel
      spec == config[c] IN
  /\ (Pages(c) # {}) <=> credentialFetchRequired(spec)
  /\ DOMAIN r.upstream = IF op = "metadata" THEN Ids(Pages(c))
                         ELSE filterIDs(Ids(Pages(c)), spec)
  /\ \A kind \in PublicKind : HasSource(spec, kind) => FromCatalog(kind, r[kind])
  /\ r.overrides = spec.overrides \/ GivesNone(spec)
  /\ Patches(r)

(* What Result gives. *)
IsResult(r) ==
  r \in [channel : {r.channel}, overrides : {r.overrides}, patched : {r.patched},
         upstream : {r.upstream}, modelparams : {r.modelparams},
         modelsdev : {r.modelsdev}]

(* The channels of a set are planned, in their order. *)
Plans(results, channels) ==
  /\ results \in Seq(Range(results))
  /\ {r.channel : r \in Range(results)} = channels
  /\ \A i, j \in DOMAIN results : i < j => results[i].channel < results[j].channel
  /\ \A i \in DOMAIN results : IsResult(results[i]) /\ Whole(results[i])

(* The planner has read the public catalogs among the first n fetches. *)
Sources(st, n) ==
  \A kind \in PublicKind :
    /\ st[kind].ok => FromCatalog(kind, st[kind])
    /\ (\E i \in 1 .. n : fetched[i].kind = kind) => st[kind].ok

(* Credentials are bound to channels that need one. *)
Bound(st) ==
  \A c \in DOMAIN st.bound :
    config[c].enabled /\ credentialFetchRequired(config[c])

(* The catalog of a channel is not in the form validUpstreamState wants. *)
Sloppy(c) ==
  \E i \in Pages(c) :
    /\ fetched[i].kind = "openai_models"
    /\ \E item \in Range(fetched[i].body.items) : Unfit(item)

(* An entry is as CPA writes it. *)
Fit(entry) ==
  entry.input = cpaModalities(entry.input) /\ ~entry.bare /\ entry.limit >= 0

(* The models of the present catalog are those of the pages read. *)
Upstream(st, n) ==
  LET c == st.step.channel IN
  /\ DOMAIN st.upstream = Ids(PagesUpTo(c, n))
  /\ op = "metadata" =>
       \A id \in DOMAIN st.upstream :
         LET entry == st.upstream[id] IN
         /\ entry.levels = normalizeEfforts(entry.levels)
         /\ Fit(entry) \/ Sloppy(c)

(* The cursors seen are those of the pages read, as long as there are more. *)
CursorsOf(pages) == {fetched[i].body.cursor : i \in pages}
Cursors(st, n) ==
  /\ IF st.step.after # Empty THEN st.step.after \in st.cursors ELSE st.cursors = {}
  /\ st.cursors \subseteq CursorsOf(PagesUpTo(st.step.channel, n))

(* What the planner knows at a step, when it has read n catalogs. *)
Knows(st, n) ==
  /\ config[st.step.channel].enabled
  /\ Plans(st.results, Before(st.step.channel))
  /\ Sources(st, n) /\ Bound(st) /\ Upstream(st, n) /\ Cursors(st, n)
  /\ \A k \in DOMAIN st.bound : k <= st.step.channel

(* The step is one of what the channel still needs. *)
Due(st, n) ==
  LET c == st.step.channel
      kind == st.step.kind IN
  /\ kind # Empty
  /\ kind \in CatalogKind =>
       /\ credentialFetchRequired(config[c])
       /\ st.step.after = Empty => PagesUpTo(c, n) = {}
  /\ kind \in PublicKind =>
       /\ HasSource(config[c], kind) /\ ~st[kind].ok
       /\ (Pages(c) # {}) <=> credentialFetchRequired(config[c])
  /\ n > 0 => (HasMore(fetched[n]) <=> st.step.after # Empty)
  /\ st.step.after # Empty =>
       n > 0 /\ fetched[n].kind \in CatalogKind /\ fetched[n].channel = c

(* The fetches so far: the pages of a catalog follow one another. *)
Chain ==
  /\ \A i \in DOMAIN fetched :
       fetched[i].kind \in CatalogKind =>
         fetched[i].kind = catalogKind(config[fetched[i].channel])
  /\ \A i, j \in DOMAIN fetched :
       fetched[i].kind \in PublicKind /\ fetched[i].kind = fetched[j].kind => i = j
  /\ \A i \in DOMAIN fetched : i + 1 \in DOMAIN fetched =>
       (HasMore(fetched[i]) <=> /\ fetched[i].kind \in CatalogKind
                                /\ fetched[i + 1].kind \in CatalogKind
                                /\ fetched[i].channel = fetched[i + 1].channel)

(* A fetch is to come, or has just come. *)
Asking == pc \in {"offered", "fetching"} \/ Planning("emit")
Answered == pc = "continue" \/ Planning("consume")
Covered == pc = "proposed" \/ Planning("finish")

Course ==
  LET N == Len(fetched)
      last == fetched[N] IN
  /\ ConfigShape /\ Chain
  /\ Asking => Knows(state, N) /\ Due(state, N)
  /\ Answered =>
       /\ fetched # << >> /\ Knows(state, N - 1) /\ Due(state, N - 1)
       /\ last.channel = state.step.channel /\ last.kind = state.step.kind
       /\ last.body = body
  /\ Covered =>
       /\ Plans(state.results, Enabled)
       /\ fetched # << >> => ~HasMore(last)

(* A request for the catalog of channel k. *)
OfChannel(d, k) ==
  /\ d.kind = catalogKind(config[k])
  /\ d.label = config[k].label /\ d.base = config[k].base /\ d.index = config[k].index

(* What the requests for the pages before the present one asked for. *)
Queries(st) ==
  IF st.step.after = Empty THEN {}
  ELSE ({Empty} \cup st.cursors) \ {st.step.after}

(* The requests the Writer has let through: those of the catalogs that were fetched and,
   once it is made, the one of the step. *)
Seen(st, made) ==
  \A d \in seen :
    \/ /\ d.kind \in PublicKind
       /\ \/ \E i \in DOMAIN fetched : fetched[i].kind = d.kind
          \/ made /\ d.kind = st.step.kind
    \/ \E k \in DOMAIN config :
         /\ OfChannel(d, k) /\ k <= st.step.channel
         /\ k = st.step.channel /\ st.step.kind \in CatalogKind =>
              \/ d.query \in Queries(st)
              \/ made /\ (st.step.kind = "openai_models" \/ d.query = st.step.after)

(* The request of the step. *)
Offer(st) ==
  IF st.step.kind \in CatalogKind
  THEN CatalogDescriptor(op, snapshot, config[st.step.channel], st.step.after,
                         st.step.auth)
  ELSE PublicDescriptor(st.step.kind)

Requests ==
  /\ pc \notin {"proposed", "refused"} => outcome = << >>
  /\ pc = "proposed" => outcome = <<"planner", "proposal">>
  /\ RefusalsHaveCause
  /\ pc = "start" => seen = {}
  /\ pc \in {"offered", "fetching", "continue"} => desc = Offer(state)
  /\ pc = "offered" \/ Planning("emit") => Seen(state, FALSE)
  /\ pc = "fetching" \/ Answered => Seen(state, TRUE)

-----------------------------------------------------------------------------
(* The members of two lists, one after the other. *)
LEMMA RangeOfConcat ==
  ASSUME NEW S, NEW s \in Seq(S), NEW t \in Seq(S)
  PROVE  Range(s \o t) = Range(s) \cup Range(t)
<1>1. /\ s \o t \in Seq(S) /\ Len(s \o t) = Len(s) + Len(t)
      /\ \A i \in 1 .. Len(s) : (s \o t)[i] = s[i]
      /\ \A i \in 1 .. Len(t) : (s \o t)[Len(s) + i] = t[i]
  OBVIOUS
<1>2. /\ Len(s) \in Nat /\ Len(t) \in Nat
      /\ DOMAIN s = 1 .. Len(s) /\ DOMAIN t = 1 .. Len(t)
      /\ DOMAIN (s \o t) = 1 .. Len(s) + Len(t)
  BY <1>1
<1>3. ASSUME NEW x \in Range(s \o t) PROVE x \in Range(s) \cup Range(t)
  <2>1. PICK i \in 1 .. Len(s) + Len(t) : (s \o t)[i] = x
    BY <1>2 DEF Range
  <2>2. CASE i <= Len(s)
    BY <1>1, <1>2, <2>1, <2>2 DEF Range
  <2>3. CASE i > Len(s)
    <3>1. i - Len(s) \in 1 .. Len(t) /\ Len(s) + (i - Len(s)) = i
      BY <1>2, <2>3
    <3>2. t[i - Len(s)] = x
      BY <1>1, <2>1, <3>1
    <3> QED BY <1>2, <3>1, <3>2 DEF Range
  <2> QED BY <1>2, <2>2, <2>3
<1>4. ASSUME NEW x \in Range(s) PROVE x \in Range(s \o t)
  <2>1. PICK i \in 1 .. Len(s) : s[i] = x
    BY <1>2 DEF Range
  <2>2. i \in 1 .. Len(s) + Len(t) /\ (s \o t)[i] = x
    BY <1>1, <1>2, <2>1
  <2> QED BY <1>2, <2>2 DEF Range
<1>5. ASSUME NEW x \in Range(t) PROVE x \in Range(s \o t)
  <2>1. PICK i \in 1 .. Len(t) : t[i] = x
    BY <1>2 DEF Range
  <2>2. Len(s) + i \in 1 .. Len(s) + Len(t) /\ (s \o t)[Len(s) + i] = x
    BY <1>1, <1>2, <2>1
  <2> QED BY <1>2, <2>2 DEF Range
<1> QED BY <1>3, <1>4, <1>5

(* The members of a finite set of numbers, in order: each once, and no other. *)
LEMMA InOrderFacts ==
  ASSUME NEW S \in SUBSET Nat, IsFiniteSet(S)
  PROVE  /\ InOrder(S) \in Seq(S) /\ DOMAIN InOrder(S) = 1 .. Cardinality(S)
         /\ Cardinality(S) \in Nat
         /\ Range(InOrder(S)) = S
         /\ \A i, j \in DOMAIN InOrder(S) : i < j => InOrder(S)[i] < InOrder(S)[j]
<1> DEFINE N == Cardinality(S)
           UpTo(n) == {m \in S : m <= n}
           rank == [n \in S |-> Cardinality(UpTo(n))]
           s == InOrder(S)
<1>1. N \in Nat
  BY FS_CardinalityType
<1>2. ASSUME NEW n \in S
      PROVE  IsFiniteSet(UpTo(n)) /\ Cardinality(UpTo(n)) \in 1 .. N
  <2>1. UpTo(n) \in SUBSET S /\ UpTo(n) # {}
    OBVIOUS
  <2> HIDE DEF UpTo
  <2>2. IsFiniteSet(UpTo(n)) /\ Cardinality(UpTo(n)) <= N
    BY <2>1, FS_Subset
  <2>3. Cardinality(UpTo(n)) \in Nat /\ Cardinality(UpTo(n)) # 0
    BY <2>1, <2>2, FS_CardinalityType, FS_EmptySet
  <2> QED BY <1>1, <2>2, <2>3
<1>3. ASSUME NEW n \in S, NEW m \in S, n < m
      PROVE  Cardinality(UpTo(n)) < Cardinality(UpTo(m))
  <2>0. n \in Nat /\ m \in Nat /\ \A x \in S : x \in Nat
    OBVIOUS
  <2>1. UpTo(n) \in SUBSET UpTo(m) /\ m \notin UpTo(n) /\ m \in UpTo(m)
    <3>1. \A x \in S : x <= n => x <= m
      BY <1>3, <2>0
    <3>2. ~(m <= n) /\ m <= m
      BY <1>3, <2>0
    <3> QED BY <3>1, <3>2, Zenon
  <2> HIDE DEF UpTo
  <2>2. /\ Cardinality(UpTo(n)) <= Cardinality(UpTo(m))
        /\ Cardinality(UpTo(n)) # Cardinality(UpTo(m))
    BY <2>1, <1>2, FS_Subset
  <2>3. Cardinality(UpTo(n)) \in Nat /\ Cardinality(UpTo(m)) \in Nat
    BY <1>2, FS_CardinalityType
  <2> QED BY <2>2, <2>3
<1>4. rank \in [S -> 1 .. N] /\ \A n \in S : rank[n] = Cardinality(UpTo(n))
  BY <1>2
<1>5. s = [i \in 1 .. N |-> CHOOSE n \in S : Cardinality(UpTo(n)) = i]
  BY DEF InOrder
<1> HIDE DEF rank, N, UpTo, s
<1>6. \A n, m \in S : n < m => rank[n] < rank[m]
  BY <1>3, <1>4
<1>7. rank \in Injection(S, 1 .. N)
  <2>1. ASSUME NEW n \in S, NEW m \in S, rank[n] = rank[m] PROVE n = m
    <3>1. n \in Nat /\ m \in Nat /\ rank[n] \in Nat /\ rank[m] \in Nat
      BY <1>1, <1>4
    <3> QED BY <2>1, <3>1, <1>6
  <2> QED BY <1>4, <2>1 DEF Injection, IsInjective
<1>8. rank \in Surjection(S, 1 .. N)
  <2>1. IsFiniteSet(1 .. N) /\ Cardinality(1 .. N) = N
    BY <1>1, FS_Interval
  <2> QED BY <1>7, <2>1, FS_Injection DEF N
<1>9. \A i \in 1 .. N : s[i] \in S /\ rank[s[i]] = i
  <2>1. \A i \in 1 .. N : \E n \in S : Cardinality(UpTo(n)) = i
    BY <1>8, <1>4 DEF Surjection
  <2> QED BY <1>4, <1>5, <2>1
<1>10. DOMAIN s = 1 .. N /\ s \in [1 .. N -> S]
  BY <1>5, <1>9
<1>11. \A n \in S : rank[n] \in 1 .. N /\ s[rank[n]] = n
  BY <1>4, <1>7, <1>9 DEF Injection, IsInjective
<1>12. Range(s) = S
  BY <1>10, <1>11 DEF Range
<1>13. \A i, j \in 1 .. N : i < j => s[i] < s[j]
  <2> SUFFICES ASSUME NEW i \in 1 .. N, NEW j \in 1 .. N, i < j, ~(s[i] < s[j])
               PROVE  FALSE
    OBVIOUS
  <2>1. s[i] \in Nat /\ s[j] \in Nat /\ s[i] \in S /\ s[j] \in S
    BY <1>9
  <2>2. s[i] = s[j] \/ s[j] < s[i]
    BY <2>1
  <2>3. i \in Nat /\ j \in Nat /\ (j = i \/ j < i)
    BY <1>1, <1>6, <1>9, <2>1, <2>2
  <2> QED BY <2>3
<1> QED BY <1>1, <1>10, <1>12, <1>13 DEF s, N

(* What normalizeEfforts and cpaModalities write, they leave alone. *)
LEMMA NormalLevels ==
  ASSUME NEW values
  PROVE  normalizeEfforts(normalizeEfforts(values)) = normalizeEfforts(values)
<1> DEFINE P(v) == {i \in DOMAIN order : order[i] \in Range(v)}
           K(v) == [i \in DOMAIN InOrder(P(v)) |-> order[InOrder(P(v))[i]]]
<1>1. \A v : normalizeEfforts(v) = IF HasDepth(K(v)) THEN K(v) ELSE << >>
  BY DEF normalizeEfforts
<1>2. IsFiniteSet(DOMAIN order) /\ DOMAIN order \subseteq Nat
  <2>1. DOMAIN order = 1 .. 9
    BY DEF order
  <2>2. 1 \in Int /\ 9 \in Int
    OBVIOUS
  <2>3. IsFiniteSet(1 .. 9)
    BY <2>2, FS_Interval, Zenon
  <2> QED BY <2>1, <2>3
<1>3. ASSUME NEW v PROVE Range(K(v)) = {order[i] : i \in P(v)}
  <2>1. P(v) \in SUBSET Nat /\ IsFiniteSet(P(v))
    BY <1>2, FS_Subset
  <2>2. Range(InOrder(P(v))) = P(v)
    BY <2>1, InOrderFacts
  <2> HIDE DEF P
  <2> QED BY <2>2 DEF Range
<1>4. CASE HasDepth(K(values))
  <2>1. normalizeEfforts(values) = K(values)
    BY <1>1, <1>4
  <2>2. P(K(values)) = P(values)
    <3>1. \A i \in DOMAIN order : order[i] \in Range(K(values)) <=> order[i] \in Range(values)
      BY <1>3
    <3> HIDE DEF K
    <3> QED BY <3>1
  <2>3. K(K(values)) = K(values)
    <3> HIDE DEF P
    <3> QED BY <2>2
  <2> HIDE DEF K
  <2> QED BY <1>1, <1>4, <2>1, <2>3
<1>5. CASE ~HasDepth(K(values))
  <2>1. normalizeEfforts(values) = << >>
    BY <1>1, <1>5
  <2>2. Range(K(<< >>)) = {}
    <3>1. Range(<< >>) = {}
      BY DEF Range
    <3>2. P(<< >>) = {}
      BY <3>1
    <3> HIDE DEF P
    <3> QED BY <1>3, <3>2
  <2>3. ~HasDepth(K(<< >>))
    <3> HIDE DEF K
    <3> QED BY <2>2 DEF HasDepth
  <2> HIDE DEF K
  <2> QED BY <1>1, <2>1, <2>3
<1> QED BY <1>4, <1>5

LEMMA ListOfOne ==
  ASSUME NEW S, NEW x \in S
  PROVE  /\ << >> \in Seq(S) /\ <<x>> \in Seq(S)
         /\ Range(<<x>>) = {x} /\ Range(<< >>) = {}
<1>1. << >> \in Seq(S) /\ <<x>> \in Seq(S)
  OBVIOUS
<1>2. Range(<<x>>) = {x} /\ Range(<< >>) = {}
  BY DEF Range
<1> QED BY <1>1, <1>2

LEMMA NormalModalities ==
  ASSUME NEW values
  PROVE  cpaModalities(cpaModalities(values)) = cpaModalities(values)
<1> DEFINE words(v) == {Word(v[i]) : i \in DOMAIN v}
           text(v) == IF "text" \in words(v) THEN <<"text">> ELSE << >>
           image(v) == IF "image" \in words(v) THEN <<"image">> ELSE << >>
<1>1. \A v : cpaModalities(v) = text(v) \o image(v)
  BY DEF cpaModalities
<1>2. ASSUME NEW v
      PROVE  /\ "text" \in words(cpaModalities(v)) <=> "text" \in words(v)
             /\ "image" \in words(cpaModalities(v)) <=> "image" \in words(v)
  <2> DEFINE w == cpaModalities(v)
  <2>1. text(v) \in Seq({"text", "image"}) /\ image(v) \in Seq({"text", "image"})
    <3> DEFINE S == {"text", "image"}
    <3>1. << >> \in Seq(S) /\ <<"text">> \in Seq(S) /\ <<"image">> \in Seq(S)
      <4>1. "text" \in S /\ "image" \in S
        OBVIOUS
      <4> HIDE DEF S
      <4> QED BY <4>1, ListOfOne, Zenon
    <3>2. text(v) \in {<< >>, <<"text">>} /\ image(v) \in {<< >>, <<"image">>}
      BY Zenon
    <3> HIDE DEF text, image, S
    <3>3. text(v) \in Seq(S) /\ image(v) \in Seq(S)
      BY <3>1, <3>2
    <3> QED BY <3>3 DEF S
  <2>2. /\ Range(text(v)) = IF "text" \in words(v) THEN {"text"} ELSE {}
        /\ Range(image(v)) = IF "image" \in words(v) THEN {"image"} ELSE {}
    <3> HIDE DEF words
    <3> QED BY DEF Range
  <2> HIDE DEF text, image
  <2>3. Range(text(v) \o image(v)) = Range(text(v)) \cup Range(image(v))
    BY <2>1, RangeOfConcat
  <2>4. words(w) = {Word(x) : x \in Range(w)}
    <3> HIDE DEF w
    <3> QED BY DEF Range
  <2>5. Range(w) = (IF "text" \in words(v) THEN {"text"} ELSE {})
                     \cup (IF "image" \in words(v) THEN {"image"} ELSE {})
    BY <1>1, <2>2, <2>3
  <2> HIDE DEF words, w
  <2> QED BY <2>4, <2>5, WordAssumption DEF w
<1> DEFINE w == cpaModalities(values)
<1>3. text(w) = text(values) /\ image(w) = image(values)
  <2>1. /\ "text" \in words(w) <=> "text" \in words(values)
        /\ "image" \in words(w) <=> "image" \in words(values)
    BY <1>2
  <2> HIDE DEF w, words
  <2> QED BY <2>1
<1> HIDE DEF text, image
<1> QED BY <1>1, <1>3

-----------------------------------------------------------------------------
Nameable(doc) ==
  doc \in Document /\ \A i \in DOMAIN doc.items : IsFiniteSet(doc.items[i].names)

(* The entries of a catalog are its items, by the one name each has. *)
LEMMA ItemsByName ==
  ASSUME NEW doc, Nameable(doc), DistinctlyNamed(doc.items)
  PROVE  /\ {Named(doc.items[i]) : i \in DOMAIN doc.items} = Names(doc)
         /\ \A id \in {Named(doc.items[i]) : i \in DOMAIN doc.items} :
              LET i == CHOOSE j \in DOMAIN doc.items : Named(doc.items[j]) = id IN
              i \in DOMAIN doc.items /\ Named(doc.items[i]) = id
<1> DEFINE items == doc.items
<1>1. ASSUME NEW i \in DOMAIN items
      PROVE  items[i].names = {Named(items[i])}
  <2>1. IsFiniteSet(items[i].names) /\ Cardinality(items[i].names) = 1
    BY DEF Nameable, DistinctlyNamed
  <2>2. \E x : items[i].names = {x}
    BY <2>1, FS_Singleton
  <2> QED BY <2>2 DEF Named
<1>2. Names(doc) = UNION {items[i].names : i \in DOMAIN items}
  BY DEF Names, Range
<1>3. {Named(items[i]) : i \in DOMAIN items} = Names(doc)
  <2> HIDE DEF items
  <2> QED BY <1>1, <1>2
<1> QED BY <1>3

(* What reading a sound catalog comes to. *)
LEMMA ReadCatalog ==
  ASSUME NEW o \in Operation, NEW kind \in CatalogKind \cup PublicKind,
         NEW doc, Nameable(doc), parseCatalog(o, kind, doc).ok
  PROVE  LET b == parseCatalog(o, kind, doc) IN
         /\ kind \in CatalogKind => DOMAIN b.entries = Names(doc)
         /\ o = "metadata" /\ kind = "claude_models" =>
              b.more = doc.more /\ b.cursor = doc.cursor
         /\ o = "metadata" /\ kind \in PublicKind => b.again = doc.again
         /\ o = "metadata" /\ kind = "claude_models" =>
              \A id \in DOMAIN b.entries : \E item \in Range(doc.items) :
                /\ b.entries[id].levels = normalizeEfforts(item.levels)
                /\ b.entries[id].input = cpaModalities(item.input)
                /\ ~b.entries[id].bare /\ b.entries[id].limit >= 0
         /\ o = "metadata" /\ kind = "openai_models" =>
              \A id \in DOMAIN b.entries : \E item \in Range(doc.items) :
                /\ b.entries[id].levels = normalizeEfforts(item.levels)
                /\ b.entries[id].input = item.input
                /\ b.entries[id].bare = item.bare
                /\ b.entries[id].limit >= 0 \/ item.limit > MaxInt
         /\ o = "metadata" /\ kind = "modelparams" =>
              \A id \in DOMAIN b.entries : \E item \in Range(doc.items) :
                Named(item) = id /\ b.entries[id].levels = enumLevels(item.levels)
<1> DEFINE b == parseCatalog(o, kind, doc)
           items == doc.items
           names == {Named(items[i]) : i \in DOMAIN items}
           at(id) == CHOOSE i \in DOMAIN items : Named(items[i]) = id
<1>1. Unread \in [ok : {FALSE}, again : {FALSE}, entries : {<< >>}, more : {FALSE},
                   cursor : {""}]
  BY DEF Unread
<1>2. ASSUME NEW X
      PROVE  LET r == [Unread EXCEPT !.ok = TRUE, !.entries = X] IN
             r.entries = X /\ r.ok = TRUE
  BY <1>1
<1>3. ~Unread.ok
  BY <1>1
<1>4. DistinctlyNamed(items) =>
        /\ names = Names(doc)
        /\ \A id \in names : /\ at(id) \in DOMAIN items /\ items[at(id)] \in Range(items)
                              /\ Named(items[at(id)]) = id
  <2>1. ASSUME DistinctlyNamed(items)
        PROVE  /\ names = Names(doc)
               /\ \A id \in names :
                    at(id) \in DOMAIN items /\ Named(items[at(id)]) = id
    BY <2>1, ItemsByName
  <2> HIDE DEF items, at
  <2> QED BY <2>1 DEF Range
<1>5. \A item \in Range(items) : item \in CatalogItem /\ item.limit \in Int
  <2>1. items \in Seq(CatalogItem)
    BY DEF Nameable, Document
  <2>2. \A item \in Range(items) : item \in CatalogItem
    BY <2>1 DEF Range
  <2> QED BY <2>2 DEF CatalogItem
<1>6. ASSUME o = "auto_pull", kind \in CatalogKind
      PROVE  DOMAIN b.entries = Names(doc)
  <2> DEFINE Nothing(item) == [input |-> << >>, bare |-> FALSE, levels |-> << >>, limit |-> 0]
             X == [id \in names |-> Nothing(items[at(id)])]
  <2>1. b = parseUpstreamCatalog(doc)
    BY <1>6 DEF parseCatalog
  <2>2. /\ DistinctlyNamed(items)
        /\ b = [Unread EXCEPT !.ok = TRUE, !.entries = X]
    BY <1>3, <2>1, Zenon DEF parseUpstreamCatalog, ByName
  <2>3. DOMAIN X = names
    OBVIOUS
  <2> HIDE DEF b, names, X
  <2> QED BY <1>2, <1>4, <2>2, <2>3
<1>7. ASSUME o = "metadata", kind = "openai_models"
      PROVE  /\ DOMAIN b.entries = Names(doc)
             /\ \A id \in DOMAIN b.entries : \E item \in Range(doc.items) :
                  /\ b.entries[id].levels = normalizeEfforts(item.levels)
                  /\ b.entries[id].input = item.input
                  /\ b.entries[id].bare = item.bare
                  /\ b.entries[id].limit >= 0 \/ item.limit > MaxInt
  <2> DEFINE X == [id \in names |-> decodeOpenAIItem(items[at(id)])]
  <2>1. b = parseOpenAICatalog(doc)
    BY <1>7 DEF parseCatalog
  <2>2. /\ DistinctlyNamed(items)
        /\ \A item \in Range(items) : validCatalogInteger(item.limit)
        /\ b = [Unread EXCEPT !.ok = TRUE, !.entries = X]
    BY <1>3, <2>1, Zenon DEF parseOpenAICatalog, ByName
  <2>3. b.entries = X
    <3> HIDE DEF b, X
    <3> QED BY <1>2, <2>2
  <2>4. ASSUME NEW id \in names
        PROVE  LET item == items[at(id)] IN
               /\ X[id].levels = normalizeEfforts(item.levels)
               /\ X[id].input = item.input
               /\ X[id].bare = item.bare
               /\ X[id].limit >= 0 \/ item.limit > MaxInt
    <3>1. PICK item \in Range(items) : item = items[at(id)]
      BY <1>4, <2>2
    <3>2. X[id] = decodeOpenAIItem(item)
      BY <3>1
    <3>3. item.limit \in 0 .. MaxInt + 1
      BY <2>2 DEF validCatalogInteger
    <3>4. toInt(item.limit) >= 0 \/ item.limit > MaxInt
      BY <3>3, MaxIntAssumption DEF toInt
    <3> HIDE DEF X
    <3> QED BY <3>1, <3>2, <3>4 DEF decodeOpenAIItem
  <2>5. DOMAIN X = names
    OBVIOUS
  <2> HIDE DEF b, X, names, at
  <2> QED BY <1>4, <2>2, <2>3, <2>4, <2>5
<1>8. ASSUME o = "metadata", kind = "claude_models"
      PROVE  /\ DOMAIN b.entries = Names(doc)
             /\ b.more = doc.more /\ b.cursor = doc.cursor
             /\ \A id \in DOMAIN b.entries : \E item \in Range(doc.items) :
                  /\ b.entries[id].levels = normalizeEfforts(item.levels)
                  /\ b.entries[id].input = cpaModalities(item.input)
                  /\ ~b.entries[id].bare /\ b.entries[id].limit >= 0
  <2> DEFINE EntryOf(item) == [input |-> cpaModalities(item.input), bare |-> FALSE,
                             levels |-> normalizeEfforts(item.levels),
                             limit |-> item.limit]
             X == [id \in names |-> EntryOf(items[at(id)])]
  <2>1. b = parseClaudeCatalog(doc)
    BY <1>8 DEF parseCatalog
  <2>2. /\ DistinctlyNamed(items)
        /\ \A item \in Range(items) : item.limit \in 0 .. MaxInt
        /\ b = [Unread EXCEPT !.ok = TRUE, !.entries = X,
                               !.more = doc.more, !.cursor = doc.cursor]
    BY <1>3, <2>1, Zenon DEF parseClaudeCatalog, ByName
  <2>3. b.entries = X /\ b.more = doc.more /\ b.cursor = doc.cursor
    <3> HIDE DEF b, X
    <3> QED BY <1>1, <2>2
  <2>4. ASSUME NEW id \in names
        PROVE  LET item == items[at(id)] IN
               /\ X[id].levels = normalizeEfforts(item.levels)
               /\ X[id].input = cpaModalities(item.input)
               /\ ~X[id].bare /\ X[id].limit >= 0
    <3>1. PICK item \in Range(items) : item = items[at(id)]
      BY <1>4, <2>2
    <3>2. X[id] = EntryOf(item)
      BY <3>1
    <3>3. item.limit \in 0 .. MaxInt /\ MaxInt \in Nat
      BY <2>2, MaxIntAssumption
    <3> HIDE DEF X
    <3> QED BY <3>1, <3>2, <3>3
  <2>5. DOMAIN X = names
    OBVIOUS
  <2> HIDE DEF b, X, names, at
  <2> QED BY <1>4, <2>2, <2>3, <2>4, <2>5
<1>9. ASSUME o = "metadata", kind = "modelparams"
      PROVE  /\ b.again = doc.again
             /\ \A id \in DOMAIN b.entries : \E item \in Range(doc.items) :
                  Named(item) = id /\ b.entries[id].levels = enumLevels(item.levels)
  <2> DEFINE EntryOf(item) == [input |-> << >>, bare |-> FALSE,
                             levels |-> enumLevels(item.levels),
                             limit |-> toInt(item.limit)]
             X == [id \in names |-> EntryOf(items[at(id)])]
  <2>1. b = parseModelparamsCatalog(doc)
    BY <1>9 DEF parseCatalog
  <2>2. /\ DistinctlyNamed(items)
        /\ b = [Unread EXCEPT !.ok = TRUE, !.again = doc.again, !.entries = X]
    BY <1>3, <2>1, Zenon DEF parseModelparamsCatalog, ByName
  <2>3. b.entries = X /\ b.again = doc.again
    <3> HIDE DEF b, X
    <3> QED BY <1>1, <2>2
  <2>4. ASSUME NEW id \in names
        PROVE  X[id].levels = enumLevels(items[at(id)].levels)
    OBVIOUS
  <2>5. DOMAIN X = names
    OBVIOUS
  <2> HIDE DEF b, X, names, at
  <2> QED BY <1>4, <2>2, <2>3, <2>4, <2>5
<1>11. ASSUME o = "metadata", kind = "modelsdev"
       PROVE  b.again = doc.again
  <2> DEFINE kept == SelectSeq(items, LAMBDA item : item.says)
             EntryOf(item) == [input |-> item.input, bare |-> item.bare,
                               levels |-> << >>, limit |-> item.limit]
             X == ByName(kept, EntryOf)
  <2>1. b = parseModelsdevCatalog(doc)
    BY <1>11 DEF parseCatalog
  <2>2. b = [Unread EXCEPT !.ok = TRUE, !.again = doc.again, !.entries = X]
    BY <1>3, <2>1, Zenon DEF parseModelsdevCatalog
  <2> HIDE DEF b, X
  <2> QED BY <1>1, <2>2
<1>10. o \in {"auto_pull", "metadata"}
  BY DEF Operation
<1> QED BY <1>6, <1>7, <1>8, <1>9, <1>10, <1>11 DEF CatalogKind, PublicKind

-----------------------------------------------------------------------------
(* What was fetched can be read. *)
LEMMA FetchedBodies ==
  ASSUME Shape, NEW i \in DOMAIN fetched
  PROVE  /\ Nameable(fetched[i].body)
         /\ fetched[i].kind \in CatalogKind \cup PublicKind
         /\ fetched[i].channel \in DOMAIN config /\ i \in Nat
<1>1. fetched[i] \in FetchRecord /\ fetched \in Seq(FetchRecord)
  BY FetchedChannels DEF Shape, Types
<1>2. /\ fetched[i].kind \in CatalogKind \cup PublicKind
      /\ fetched[i].channel \in DOMAIN config
  BY <1>1 DEF FetchRecord
<1>3. fetched[i].body \in Bodies[fetched[i].kind]
  BY DEF Shape, Types
<1>4. Nameable(fetched[i].body)
  BY <1>2, <1>3, BodiesAssumption DEF Nameable
<1> QED BY <1>1, <1>2, <1>4

(* Plans of later channels follow. *)
LEMMA MorePlans ==
  ASSUME NEW s, NEW t, NEW A, NEW B, Plans(s, A), Plans(t, B),
         \A a \in A, b \in B : a < b
  PROVE  Plans(s \o t, A \cup B)
<1> DEFINE S == Range(s) \cup Range(t)
           u == s \o t
<1>1. s \in Seq(S) /\ t \in Seq(S)
  <2>1. s \in Seq(Range(s)) /\ t \in Seq(Range(t))
    BY DEF Plans
  <2>2. Range(s) \subseteq S /\ Range(t) \subseteq S
    OBVIOUS
  <2> HIDE DEF S
  <2> QED BY <2>1, <2>2
<1>2. Range(u) = S
  <2> HIDE DEF S
  <2>1. Range(u) = Range(s) \cup Range(t)
    BY <1>1, RangeOfConcat
  <2> QED BY <2>1 DEF S
<1>3. u \in Seq(Range(u))
  <2> HIDE DEF S
  <2>1. u \in Seq(S)
    BY <1>1
  <2> QED BY <2>1, <1>2
<1>4. {r.channel : r \in Range(u)} = A \cup B
  <2>1. {r.channel : r \in Range(s)} = A /\ {r.channel : r \in Range(t)} = B
    BY DEF Plans
  <2> HIDE DEF u
  <2> QED BY <1>2, <2>1
<1> HIDE DEF S
<1>5. /\ Len(s) \in Nat /\ Len(t) \in Nat
      /\ DOMAIN s = 1 .. Len(s) /\ DOMAIN t = 1 .. Len(t)
      /\ DOMAIN u = 1 .. Len(s) + Len(t)
      /\ \A i \in 1 .. Len(s) : u[i] = s[i]
      /\ \A i \in 1 .. Len(t) : u[Len(s) + i] = t[i]
  BY <1>1
<1> HIDE DEF u
<1>6. ASSUME NEW i \in DOMAIN u
      PROVE  \/ i \in DOMAIN s /\ u[i] = s[i]
             \/ i - Len(s) \in DOMAIN t /\ u[i] = t[i - Len(s)] /\ i > Len(s)
  <2>1. CASE i <= Len(s)
    BY <1>5, <2>1
  <2>2. CASE i > Len(s)
    <3>1. i - Len(s) \in 1 .. Len(t) /\ Len(s) + (i - Len(s)) = i
      BY <1>5, <2>2
    <3>2. u[Len(s) + (i - Len(s))] = t[i - Len(s)]
      BY <1>5, <3>1
    <3> QED BY <1>5, <2>2, <3>1, <3>2
  <2> QED BY <1>5, <2>1, <2>2
<1>7. /\ \A i \in DOMAIN s : s[i].channel \in A /\ IsResult(s[i]) /\ Whole(s[i])
      /\ \A i \in DOMAIN t : t[i].channel \in B /\ IsResult(t[i]) /\ Whole(t[i])
  BY DEF Plans, Range
<1>8. ASSUME NEW i \in DOMAIN u, NEW j \in DOMAIN u, i < j
      PROVE  u[i].channel < u[j].channel
  <2>0. i \in Nat /\ j \in Nat
    BY <1>5
  <2>1. CASE i \in DOMAIN s /\ u[i] = s[i] /\ j \in DOMAIN s /\ u[j] = s[j]
    BY <2>1, <1>8 DEF Plans
  <2>2. CASE i \in DOMAIN s /\ u[i] = s[i] /\ j - Len(s) \in DOMAIN t /\ u[j] = t[j - Len(s)]
    BY <2>2, <1>7
  <2>3. CASE /\ i - Len(s) \in DOMAIN t /\ u[i] = t[i - Len(s)]
             /\ j - Len(s) \in DOMAIN t /\ u[j] = t[j - Len(s)]
    <3>1. i - Len(s) < j - Len(s)
      BY <1>5, <1>8, <2>0
    <3> QED BY <2>3, <3>1 DEF Plans
  <2>4. CASE i > Len(s) /\ j \in DOMAIN s
    BY <1>5, <1>8, <2>0, <2>4
  <2> QED BY <1>6, <2>1, <2>2, <2>3, <2>4
<1>9. \A i \in DOMAIN u : IsResult(u[i]) /\ Whole(u[i])
  BY <1>6, <1>7
<1> QED BY <1>3, <1>4, <1>8, <1>9 DEF Plans, u

(* The channels of a set are planned, each from what the planner knows; the
   upstream catalog is that of the first. *)
LEMMA ResultsPlan ==
  ASSUME NEW st, NEW P \in SUBSET Nat, IsFiniteSet(P),
         \A c \in P : (\A d \in P : c <= d) => Whole(Result(st, c)),
         \A c \in P : (\E d \in P : d < c)
                        => Whole(Result([st EXCEPT !.upstream = << >>], c))
  PROVE  Plans(Results(st, P), P)
<1> DEFINE plans == InOrder(P)
           N == Cardinality(P)
           s == Results(st, P)
<1>1. /\ plans \in Seq(P) /\ DOMAIN plans = 1 .. N /\ N \in Nat
      /\ Range(plans) = P
      /\ \A i, j \in DOMAIN plans : i < j => plans[i] < plans[j]
  BY InOrderFacts
<1>2. s = [i \in 1 .. N |->
             Result(IF i = 1 THEN st ELSE [st EXCEPT !.upstream = << >>], plans[i])]
  <2>1. s = [i \in DOMAIN plans |->
               Result(IF i = 1 THEN st ELSE [st EXCEPT !.upstream = << >>], plans[i])]
    BY Zenon DEF Results
  <2> HIDE DEF s, plans
  <2> QED BY <1>1, <2>1, Zenon
<1> HIDE DEF plans, N, s
<1>3. ASSUME NEW i \in 1 .. N
      PROVE  /\ s[i] = Result(IF i = 1 THEN st ELSE [st EXCEPT !.upstream = << >>],
                              plans[i])
             /\ plans[i] \in P /\ plans[i] \in Nat /\ i \in Nat /\ 1 <= i
  <2>1. s[i] = Result(IF i = 1 THEN st ELSE [st EXCEPT !.upstream = << >>], plans[i])
    BY <1>2, Zenon
  <2>2. plans[i] \in P
    BY <1>1
  <2> QED BY <1>1, <2>1, <2>2
<1>4. ASSUME NEW i \in 1 .. N
      PROVE  Whole(s[i]) /\ IsResult(s[i]) /\ s[i].channel = plans[i]
  <2>1. s[i].channel = plans[i] /\ IsResult(s[i])
    <3>1. \A x, c : Result(x, c).channel = c /\ IsResult(Result(x, c))
      BY DEF Result, IsResult
    <3>2. \E x : s[i] = Result(x, plans[i])
      BY <1>3, Zenon
    <3> QED BY <3>1, <3>2
  <2>2. CASE i = 1
    <3>1. ASSUME NEW d \in P PROVE plans[i] <= d
      <4>1. PICK j \in 1 .. N : plans[j] = d
        BY <1>1 DEF Range
      <4>2. j \in Nat /\ d \in Nat /\ (j = 1 \/ 1 < j)
        BY <1>1
      <4>3. CASE j = 1
        BY <2>2, <4>1, <4>2, <4>3
      <4>4. CASE 1 < j
        <5>1. plans[1] < plans[j]
          BY <1>1, <2>2, <4>4
        <5> QED BY <1>3, <2>2, <4>1, <4>2, <5>1
      <4> QED BY <4>2, <4>3, <4>4
    <3>2. s[i] = Result(st, plans[i])
      BY <1>3, <2>2, Zenon
    <3> QED BY <1>3, <2>1, <3>1, <3>2
  <2>3. CASE i # 1
    <3>1. 1 \in 1 .. N /\ 1 < i
      BY <1>1, <2>3
    <3>2. plans[1] \in P /\ plans[1] < plans[i]
      BY <1>1, <1>3, <3>1
    <3>3. s[i] = Result([st EXCEPT !.upstream = << >>], plans[i])
      BY <1>3, <2>3, Zenon
    <3> QED BY <1>3, <2>1, <3>2, <3>3
  <2> QED BY <2>2, <2>3
<1>5. DOMAIN s = 1 .. N /\ s \in Seq(Range(s))
  <2>1. DOMAIN s = 1 .. N /\ s = [i \in 1 .. N |-> s[i]]
    BY <1>2
  <2>2. s \in [1 .. N -> Range(s)]
    BY <2>1 DEF Range
  <2>3. ASSUME NEW S, s \in [1 .. N -> S] PROVE s \in Seq(S)
    BY <1>1, <2>3
  <2> QED BY <2>1, <2>2, <2>3
<1>6. {r.channel : r \in Range(s)} = P
  <2>1. \A c \in P : \E i \in 1 .. N : plans[i] = c
    BY <1>1 DEF Range
  <2>2. Range(s) = {s[i] : i \in 1 .. N}
    BY <1>5 DEF Range
  <2> QED BY <1>3, <1>4, <2>1, <2>2
<1>7. \A i, j \in DOMAIN s : i < j => s[i].channel < s[j].channel
  BY <1>1, <1>4, <1>5
<1> QED BY <1>4, <1>5, <1>6, <1>7 DEF Plans, s

(* A field of a state is what was read of a public catalog. *)
LEMMA StateFields ==
  ASSUME NEW st, IsState(st)
  PROVE  st["modelparams"] = st.modelparams /\ st["modelsdev"] = st.modelsdev
BY DEF IsState

(* A channel that lacks no source is planned from all it needs. *)
LEMMA WholeResult ==
  ASSUME Shape, ConfigShape, NEW st, IsState(st), NEW n, Sources(st, n),
         NEW c \in DOMAIN config,
         \A i \in DOMAIN config[c].sources : st[config[c].sources[i].kind].ok,
         (Pages(c) # {}) <=> credentialFetchRequired(config[c]),
         DOMAIN st.upstream = Ids(Pages(c))
  PROVE  Whole(Result(st, c))
<1> DEFINE r == Result(st, c)
           spec == config[c]
<1>0. op \in {"auto_pull", "metadata"}
  BY DEF Shape, Types, ScenarioShape, Operation
<1>1. /\ r.channel = c /\ r.overrides = spec.overrides
      /\ r.patched = IF op = "metadata" THEN PatchedLevels(st, spec) ELSE {}
      /\ r.upstream = IF op = "auto_pull"
                      THEN Restrict(st.upstream, filterIDs(DOMAIN st.upstream, spec))
                      ELSE st.upstream
      /\ HasSource(spec, "modelparams") => r.modelparams = st.modelparams
      /\ HasSource(spec, "modelsdev") => r.modelsdev = st.modelsdev
  BY DEF Result
<1>2. \A kind \in PublicKind : HasSource(spec, kind) => FromCatalog(kind, st[kind])
  BY DEF HasSource, Sources
<1>3. \A kind \in PublicKind : HasSource(spec, kind) => r[kind] = st[kind]
  <2>1. r["modelparams"] = r.modelparams /\ r["modelsdev"] = r.modelsdev
    BY DEF Result
  <2> HIDE DEF r
  <2> QED BY <1>1, <2>1, StateFields DEF PublicKind
<1>4. DOMAIN r.upstream = IF op = "metadata" THEN Ids(Pages(c))
                          ELSE filterIDs(Ids(Pages(c)), spec)
  <2>1. \A S : DOMAIN Restrict(st.upstream, S) = S
    BY DEF Restrict
  <2> HIDE DEF r
  <2> QED BY <1>0, <1>1, <2>1
<1>5. Patches(r)
  <2> SUFFICES ASSUME op = "metadata", NEW levels \in PatchedLevels(st, spec)
               PROVE  /\ levels # << >>
                      /\ \/ levels = normalizeEfforts(levels)
                         \/ HasSource(spec, "modelparams") /\ LeavesOutOfOrder(spec)
    <3> HIDE DEF r
    <3> QED BY <1>1 DEF Patches
  <2>1. HasSource(spec, "modelparams")
    BY DEF PatchedLevels
  <2>2. PICK m \in Range(Located(snapshot, spec).models) :
          /\ ~Overridden(spec, m.name) /\ levels # << >>
          /\ \E id \in lookupSource(st.modelparams.entries, m.name) :
               levels = st.modelparams.entries[id].levels
    BY <2>1 DEF PatchedLevels
  <2>3. PICK id \in DOMAIN st.modelparams.entries :
          Sought(id, m.name) /\ levels = st.modelparams.entries[id].levels
    BY <2>2 DEF lookupSource
  <2>4. FromCatalog("modelparams", st.modelparams) /\ st.modelparams.ok
    <3>1. "modelparams" \in PublicKind
      BY DEF PublicKind
    <3>2. st["modelparams"].ok
      BY <2>1 DEF HasSource
    <3> QED BY <1>2, <2>1, <3>1, <3>2, StateFields
  <2>5. PICK i \in DOMAIN fetched :
          /\ fetched[i].kind = "modelparams"
          /\ st.modelparams = parseCatalog(op, "modelparams", fetched[i].body)
    BY <2>4 DEF FromCatalog
  <2>6. PICK item \in Range(fetched[i].body.items) :
          Named(item) = id /\ levels = enumLevels(item.levels)
    <3> DEFINE b == parseCatalog(op, "modelparams", fetched[i].body)
    <3>1. "modelparams" \in CatalogKind \cup PublicKind /\ op \in Operation
      BY <1>0 DEF PublicKind, Operation
    <3>2. b.ok /\ Nameable(fetched[i].body)
      BY <2>4, <2>5, FetchedBodies
    <3>3. \A x \in DOMAIN b.entries : \E item \in Range(fetched[i].body.items) :
            Named(item) = x /\ b.entries[x].levels = enumLevels(item.levels)
      BY <1>0, <3>1, <3>2, ReadCatalog
    <3>4. st.modelparams = b
      BY <2>5
    <3> HIDE DEF b
    <3> QED BY <2>3, <3>3, <3>4
  <2>7. CASE enumLevels(item.levels) = normalizeEfforts(item.levels)
    BY <2>2, <2>6, <2>7, NormalLevels
  <2>8. CASE enumLevels(item.levels) # normalizeEfforts(item.levels)
    <3>1. OutOfOrder(m.name)
      BY <2>3, <2>5, <2>6, <2>8, Zenon DEF OutOfOrder
    <3> QED BY <2>1, <2>2, <3>1, Zenon DEF LeavesOutOfOrder
  <2> QED BY <2>7, <2>8
<1>6. Whole(r)
  <2> HIDE DEF r
  <2> QED BY <1>1, <1>2, <1>3, <1>4, <1>5 DEF Whole
<1> QED BY <1>6

-----------------------------------------------------------------------------
(* Where nextStep looks: from the present channel on, the channels that need a fetch,
   and those before them, which are planned. *)
Entered(st, c) == st.step.kind # Empty /\ st.step.channel = c
From(st) == IF st.step.kind = Empty THEN 1 ELSE st.step.channel
Ahead(st) == {c \in DOMAIN config : c >= From(st) /\ config[c].enabled}
Waiting(st) == {c \in Ahead(st) : Needed(st, c) # Empty}
Complete(st) == {c \in Ahead(st) : \A d \in Waiting(st) : c < d}

(* Why a channel needs what it needs. *)
LEMMA NeededWhy ==
  ASSUME ScenarioShape, NEW st, NEW c \in DOMAIN config
  PROVE  /\ Needed(st, c) = Empty =>
              /\ ~Entered(st, c) => ~credentialFetchRequired(config[c])
              /\ \A i \in DOMAIN config[c].sources : st[config[c].sources[i].kind].ok
         /\ Needed(st, c) \in CatalogKind =>
              ~Entered(st, c) /\ credentialFetchRequired(config[c])
         /\ Needed(st, c) \in PublicKind =>
              /\ ~Entered(st, c) => ~credentialFetchRequired(config[c])
              /\ HasSource(config[c], Needed(st, c)) /\ ~st[Needed(st, c)].ok
<1> DEFINE sources == config[c].sources
           lacking == {i \in DOMAIN sources : ~st[sources[i].kind].ok}
           required == ~Entered(st, c) /\ credentialFetchRequired(config[c])
<1>1. sources \in Seq(MetadataSource)
  BY DEF ScenarioShape
<1>2. lacking # {} =>
        /\ sources[Min(lacking)].kind \in PublicKind
        /\ HasSource(config[c], sources[Min(lacking)].kind)
        /\ ~st[sources[Min(lacking)].kind].ok
  <2>1. lacking \in SUBSET Nat
    BY <1>1
  <2>2. lacking # {} => Min(lacking) \in lacking
    BY <2>1, MinInSet
  <2>3. ASSUME NEW i \in DOMAIN sources PROVE sources[i].kind \in PublicKind
    <3>1. sources[i] \in MetadataSource
      BY <1>1
    <3> QED BY <3>1 DEF MetadataSource
  <2> QED BY <2>2, <2>3 DEF HasSource
<1>3. catalogKind(config[c]) \in CatalogKind
  BY DEF catalogKind, CatalogKind
<1>4. \/ Needed(st, c) = "invalid"
      \/ required /\ Needed(st, c) = catalogKind(config[c])
      \/ ~required /\ lacking = {} /\ Needed(st, c) = Empty
      \/ ~required /\ lacking # {} /\ Needed(st, c) = sources[Min(lacking)].kind
  <2>1. Needed(st, c) =
          CASE ~Locatable(snapshot, config[c]) -> "invalid"
            [] Locatable(snapshot, config[c]) /\ required -> catalogKind(config[c])
            [] OTHER -> IF lacking # {} THEN sources[Min(lacking)].kind
                        ELSE IF op = "metadata" /\ ~Located(snapshot, config[c]).readable
                        THEN "invalid" ELSE Empty
    BY DEF Needed, Entered
  <2> HIDE DEF required, lacking
  <2> QED BY <2>1
<1>5. lacking = {} => \A i \in DOMAIN sources : st[sources[i].kind].ok
  OBVIOUS
<1> HIDE DEF lacking
<1>6. CatalogKind \cap PublicKind = {} /\ "invalid" \notin CatalogKind \cup PublicKind
  BY DEF CatalogKind, PublicKind
<1>7. CASE Needed(st, c) = "invalid"
  BY <1>7, <1>6, EmptyIsNoKind
<1>8. CASE required /\ Needed(st, c) = catalogKind(config[c])
  BY <1>3, <1>8, <1>6, EmptyIsNoKind
<1>9. CASE ~required /\ lacking = {} /\ Needed(st, c) = Empty
  BY <1>5, <1>6, <1>9, EmptyIsNoKind
<1>10. CASE ~required /\ lacking # {} /\ Needed(st, c) = sources[Min(lacking)].kind
  BY <1>2, <1>6, <1>10, EmptyIsNoKind
<1> QED BY <1>4, <1>7, <1>8, <1>9, <1>10

(* What nextStep leaves, when the present catalog has no more pages. *)
LEMMA NextFields ==
  ASSUME ScenarioShape, NEW st, StateShape(st), st.step.after = Empty
  PROVE  LET next == nextStep(st).state
             waiting == Waiting(st) IN
         /\ nextStep(st).found <=> waiting # {}
         /\ IsState(next)
         /\ next.results = st.results \o Results(st, Complete(st))
         /\ next.upstream = IF Complete(st) = {} THEN st.upstream ELSE << >>
         /\ next.modelparams = st.modelparams /\ next.modelsdev = st.modelsdev
         /\ next.bound = st.bound /\ next.cursors = st.cursors
         /\ waiting # {} => /\ next.step.kind = Needed(st, Min(waiting))
                            /\ next.step.channel = Min(waiting)
                            /\ next.step.after = Empty
<1> DEFINE waiting == Waiting(st)
           planned == PlanAll(st, Complete(st))
           Step(step) == [st EXCEPT !.step = step, !.results = planned.results,
                                    !.upstream = planned.upstream]
           first == Min(waiting)
           new == [NoStep EXCEPT !.kind = Needed(st, first), !.channel = first]
<1>1. nextStep(st) =
        IF st.step.kind = "claude_models" /\ st.step.after # Empty
        THEN [found |-> TRUE, state |-> st]
        ELSE IF waiting = {} THEN [found |-> FALSE, state |-> Step(NoStep)]
        ELSE [found |-> TRUE, state |-> Step(new)]
  BY Zenon DEF nextStep, Waiting, Ahead, From, Complete
<1>2. /\ planned.results = st.results \o Results(st, Complete(st))
      /\ planned.upstream = IF Complete(st) = {} THEN st.upstream ELSE << >>
  BY DEF PlanAll, StateShape, IsState
<1>3. ASSUME NEW step, IsStep(step)
      PROVE  /\ IsState(Step(step)) /\ Step(step).step = step
             /\ Step(step).results = planned.results
             /\ Step(step).upstream = planned.upstream
             /\ Step(step).modelparams = st.modelparams
             /\ Step(step).modelsdev = st.modelsdev
             /\ Step(step).bound = st.bound /\ Step(step).cursors = st.cursors
  <2> HIDE DEF planned
  <2> QED BY <1>3 DEF StateShape, IsState
<1>4. IsStep(NoStep)
  BY DEF IsStep, NoStep
<1>5. /\ IsStep(new) /\ new.kind = Needed(st, first) /\ new.channel = first
      /\ new.after = Empty
  <2> HIDE DEF first
  <2>1. NoStep \in [kind : {Empty}, channel : {0}, after : {Empty}, auth : {Empty}]
    BY DEF NoStep
  <2> QED BY <2>1 DEF IsStep
<1> HIDE DEF waiting, first, new, Step, planned
<1>6. nextStep(st) = IF waiting = {} THEN [found |-> FALSE, state |-> Step(NoStep)]
                     ELSE [found |-> TRUE, state |-> Step(new)]
  BY <1>1
<1>7. CASE waiting = {}
  <2>1. nextStep(st).found = FALSE /\ nextStep(st).state = Step(NoStep)
    BY <1>6, <1>7
  <2> QED BY <1>2, <1>3, <1>4, <1>7, <2>1 DEF waiting
<1>8. CASE waiting # {}
  <2>1. nextStep(st).found = TRUE /\ nextStep(st).state = Step(new)
    BY <1>6, <1>8
  <2> QED BY <1>2, <1>3, <1>5, <1>8, <2>1 DEF waiting, first
<1> QED BY <1>7, <1>8

(* What is known when the last catalog has been read, or when nothing was asked for. *)
Settling(st) ==
  LET c == st.step.channel
      last == fetched[Len(fetched)] IN
  \/ st = EmptyState /\ fetched = << >>
  \/ /\ st.step.kind \in CatalogKind \cup PublicKind
     /\ Knows(st, Len(fetched))
     /\ (Pages(c) # {}) <=> credentialFetchRequired(config[c])
     /\ fetched # << >> /\ last.channel = c /\ last.kind = st.step.kind
     /\ HasMore(last) <=> st.step.after # Empty

(* The fetches so far are those of channels up to the step. *)
UpToStep(st) == \A i \in DOMAIN fetched : fetched[i].channel <= st.step.channel

LEMMA AllPages ==
  ASSUME Shape, NEW c
  PROVE  PagesUpTo(c, Len(fetched)) = Pages(c)
<1>1. fetched \in Seq(FetchRecord)
  BY DEF Shape, Types
<1>2. \A i \in DOMAIN fetched : i <= Len(fetched)
  BY <1>1
<1> QED BY <1>2 DEF PagesUpTo, Pages

LEMMA SettledFacts ==
  ASSUME Shape, NEW st, StateShape(st), Settling(st), UpToStep(st),
         st.step.after = Empty
  PROVE  LET N == Len(fetched)
             c == From(st) IN
         /\ c \in Nat
         /\ Plans(st.results, Before(c))
         /\ Sources(st, N) /\ Bound(st) /\ st.cursors = {}
         /\ \A k \in DOMAIN st.bound : k <= c
         /\ \A k \in DOMAIN config : k >= c /\ ~Entered(st, k) => Pages(k) = {}
         /\ st.step.kind = Empty => DOMAIN st.upstream = {}
         /\ st.step.kind # Empty =>
              /\ c = st.step.channel /\ c \in Ahead(st)
              /\ (Pages(c) # {}) <=> credentialFetchRequired(config[c])
              /\ Upstream(st, N)
         /\ fetched # << >> => ~HasMore(fetched[N])
<1>1. CASE st = EmptyState /\ fetched = << >>
  <2>1. /\ st.step.kind = Empty /\ st.results = << >> /\ st.upstream = << >>
        /\ st.bound = << >> /\ st.cursors = {}
        /\ st.modelparams = Unread /\ st.modelsdev = Unread
    BY <1>1 DEF EmptyState, NoStep
  <2>2. From(st) = 1
    BY <2>1 DEF From
  <2>3. Before(1) = {} /\ DOMAIN config \subseteq Nat
    BY DEF Before, Shape, Types, ScenarioShape
  <2>4. Plans(<< >>, {})
    <3>1. Range(<< >>) = {} /\ << >> \in Seq({})
      BY DEF Range
    <3> QED BY <3>1 DEF Plans
  <2>5. ~Unread.ok
    BY DEF Unread
  <2>6. \A kind \in PublicKind : ~st[kind].ok
    BY <2>1, <2>5, StateFields DEF PublicKind, StateShape
  <2>7. Len(fetched) = 0 /\ DOMAIN fetched = {}
    BY <1>1
  <2>8. Sources(st, Len(fetched))
    BY <2>6, <2>7 DEF Sources
  <2>9. Bound(st) /\ DOMAIN st.bound = {} /\ DOMAIN st.upstream = {}
    BY <2>1 DEF Bound
  <2>10. \A k : Pages(k) = {}
    BY <2>7 DEF Pages
  <2>11. Plans(st.results, Before(From(st)))
    BY <2>1, <2>2, <2>3, <2>4
  <2> QED BY <1>1, <2>1, <2>2, <2>8, <2>9, <2>10, <2>11
<1>2. CASE ~(st = EmptyState /\ fetched = << >>)
  <2> DEFINE c == st.step.channel
  <2>1. /\ st.step.kind \in CatalogKind \cup PublicKind
        /\ Knows(st, Len(fetched))
        /\ (Pages(c) # {}) <=> credentialFetchRequired(config[c])
        /\ HasMore(fetched[Len(fetched)]) <=> st.step.after # Empty
    BY <1>2 DEF Settling
  <2>2. /\ st.step.kind # Empty /\ From(st) = c /\ c \in DOMAIN config /\ c \in Nat
        /\ DOMAIN config \subseteq Nat
    <3>1. st.step.kind # Empty
      BY <2>1, EmptyIsNoKind
    <3> QED BY <3>1 DEF From, StateShape, StepShape, Shape, Types, ScenarioShape
  <2>3. ASSUME NEW k \in DOMAIN config, k >= c, ~Entered(st, k)
        PROVE  Pages(k) = {}
    <3>1. c < k
      BY <2>2, <2>3 DEF Entered
    <3>2. ASSUME NEW i \in DOMAIN fetched PROVE fetched[i].channel # k
      <4>1. fetched[i].channel <= c /\ fetched[i].channel \in Nat
        BY <2>2, FetchedBodies DEF UpToStep
      <4> QED BY <2>2, <3>1, <4>1
    <3> QED BY <3>2 DEF Pages
  <2>4. c \in Ahead(st)
    BY <2>1, <2>2 DEF Ahead, Knows
  <2> QED BY <2>1, <2>2, <2>3, <2>4 DEF Knows, Cursors
<1> QED BY <1>1, <1>2

(* The channels that need nothing more are planned after the ones before them. *)
LEMMA CompletePlanned ==
  ASSUME Shape, ConfigShape, NEW st, StateShape(st), Settling(st), UpToStep(st),
         st.step.after = Empty
  PROVE  Plans(nextStep(st).state.results, Before(From(st)) \cup Complete(st))
<1> DEFINE c == From(st)
           P == Complete(st)
           N == Len(fetched)
           rest == [st EXCEPT !.upstream = << >>]
<1>1. /\ c \in Nat /\ Plans(st.results, Before(c)) /\ Sources(st, N)
      /\ \A k \in DOMAIN config : k >= c /\ ~Entered(st, k) => Pages(k) = {}
      /\ st.step.kind = Empty => DOMAIN st.upstream = {}
      /\ st.step.kind # Empty =>
           /\ c = st.step.channel /\ c \in Ahead(st)
           /\ (Pages(c) # {}) <=> credentialFetchRequired(config[c])
           /\ Upstream(st, N)
  BY SettledFacts
<1>2. /\ P \subseteq DOMAIN config /\ P \in SUBSET Nat /\ IsFiniteSet(P)
      /\ \A k \in P : k >= c
  <2>1. P \subseteq DOMAIN config /\ \A k \in P : k >= c
    BY DEF Complete, Ahead
  <2>2. DOMAIN config \subseteq Nat /\ IsFiniteSet(DOMAIN config)
    BY DEF Shape, Types, ScenarioShape, ConfigShape
  <2> HIDE DEF P
  <2> QED BY <2>1, <2>2, FS_Subset
<1>3. ASSUME NEW k \in P
      PROVE  /\ ~Entered(st, k) => ~credentialFetchRequired(config[k])
             /\ \A i \in DOMAIN config[k].sources : st[config[k].sources[i].kind].ok
  <2>1. Needed(st, k) = Empty
    <3>1. k \in DOMAIN config /\ k \in Nat
      BY <1>2
    <3>2. ~(k < k)
      BY <3>1
    <3>3. k \in Ahead(st) /\ \A d \in Waiting(st) : k < d
      BY DEF Complete
    <3> QED BY <3>2, <3>3 DEF Waiting
  <2> QED BY <1>2, <2>1, NeededWhy DEF Shape, Types
<1>4. ASSUME NEW k \in P, k # c \/ st.step.kind = Empty
      PROVE  Pages(k) = {} /\ ~credentialFetchRequired(config[k]) /\ ~Entered(st, k)
  <2>1. ~Entered(st, k)
    BY <1>1, <1>4 DEF Entered
  <2> QED BY <1>1, <1>2, <1>3, <2>1
<1>5. Ids({}) = {}
  BY DEF Ids
<1>6. IsState(rest) /\ Sources(rest, N) /\ DOMAIN rest.upstream = {}
      /\ \A kind \in PublicKind : rest[kind] = st[kind]
  <2>1. /\ IsState(rest) /\ rest.modelparams = st.modelparams
        /\ rest.modelsdev = st.modelsdev /\ rest.upstream = << >>
    BY DEF StateShape, IsState
  <2> HIDE DEF rest
  <2>2. \A kind \in PublicKind : rest[kind] = st[kind]
    BY <2>1, StateFields DEF PublicKind, StateShape
  <2> QED BY <1>1, <2>1, <2>2 DEF Sources
<1>7. ASSUME NEW k \in P
      PROVE  \A i \in DOMAIN config[k].sources :
               config[k].sources[i].kind \in PublicKind
  <2>1. config[k].sources \in Seq(MetadataSource)
    BY <1>2 DEF Shape, Types, ScenarioShape
  <2>2. \A i \in DOMAIN config[k].sources : config[k].sources[i] \in MetadataSource
    BY <2>1
  <2> QED BY <2>2 DEF MetadataSource
<1>8. ASSUME NEW k \in P, \A d \in P : k <= d
      PROVE  Whole(Result(st, k))
  <2>1. CASE st.step.kind = Empty
    BY <1>1, <1>2, <1>3, <1>4, <1>5, <2>1, WholeResult DEF StateShape
  <2>2. CASE st.step.kind # Empty
    <3>1. c \in P
      <4>1. ASSUME NEW d \in Waiting(st) PROVE c < d
        <5>1. k < d /\ k >= c /\ d \in DOMAIN config
          BY <4>1, <1>2 DEF Complete, Waiting, Ahead
        <5>2. d \in Nat /\ k \in Nat
          BY <5>1, <1>2 DEF Shape, Types, ScenarioShape
        <5> QED BY <1>1, <5>1, <5>2
      <4> QED BY <1>1, <2>2, <4>1 DEF Complete
    <3>2. k = c
      BY <1>1, <1>2, <1>8, <3>1
    <3>3. DOMAIN st.upstream = Ids(Pages(c))
      BY <1>1, <2>2, AllPages DEF Upstream
    <3> HIDE DEF c, P
    <3> QED BY <1>1, <1>2, <1>3, <2>2, <3>2, <3>3, WholeResult DEF StateShape
  <2> QED BY <2>1, <2>2
<1>9. ASSUME NEW k \in P, \E d \in P : d < k
      PROVE  Whole(Result(rest, k))
  <2>1. k # c
    BY <1>1, <1>2, <1>9
  <2>2. Pages(k) = {} /\ ~credentialFetchRequired(config[k])
    BY <1>4, <2>1
  <2>3. \A i \in DOMAIN config[k].sources : rest[config[k].sources[i].kind].ok
    BY <1>3, <1>6, <1>7
  <2> HIDE DEF rest, P
  <2> QED BY <1>2, <1>5, <1>6, <2>2, <2>3, WholeResult
<1>10. Plans(Results(st, P), P)
  <2> HIDE DEF P
  <2> QED BY <1>2, <1>8, <1>9, ResultsPlan
<1>11. \A a \in Before(c), b \in P : a < b
  <2>1. \A a \in Before(c) : a < c /\ a \in Nat
    BY DEF Before, Shape, Types, ScenarioShape
  <2> HIDE DEF P, c
  <2> QED BY <1>1, <1>2, <2>1
<1>12. nextStep(st).state.results = st.results \o Results(st, P)
  BY NextFields DEF Shape, Types
<1>13. Plans(st.results \o Results(st, P), Before(c) \cup P)
  <2> HIDE DEF P, c
  <2> QED BY <1>1, <1>10, <1>11, MorePlans
<1> QED BY <1>12, <1>13

(* What is known after nextStep: all that the fetch it finds needs, or that every
   channel is planned. *)
LEMMA NextCourse ==
  ASSUME Shape, ConfigShape, NEW st, StateShape(st), Settling(st), UpToStep(st)
  PROVE  LET next == nextStep(st).state
             N == Len(fetched) IN
         /\ nextStep(st).found => Knows(next, N) /\ Due(next, N)
         /\ ~nextStep(st).found =>
              /\ Plans(next.results, Enabled)
              /\ fetched # << >> => ~HasMore(fetched[N])
<1> DEFINE next == nextStep(st).state
           N == Len(fetched)
           c == From(st)
           first == Min(Waiting(st))
<1>0. /\ N \in Nat /\ (fetched # << >> => N > 0 /\ N \in DOMAIN fetched)
      /\ DOMAIN config \subseteq Nat \ {0}
      /\ CatalogKind \cap PublicKind = {}
  <2>1. fetched \in Seq(FetchRecord)
    BY DEF Shape, Types
  <2>2. N \in Nat /\ (fetched # << >> => N > 0 /\ N \in DOMAIN fetched)
    BY <2>1
  <2> QED BY <2>2 DEF Shape, Types, ScenarioShape, CatalogKind, PublicKind
<1>1. CASE st.step.after # Empty
  <2>1. st.step.kind = "claude_models" /\ "claude_models" \in CatalogKind
    BY <1>1 DEF StateShape, StepShape, CatalogKind
  <2>2. nextStep(st) = [found |-> TRUE, state |-> st]
    BY <1>1, <2>1, Zenon DEF nextStep
  <2>3. st # EmptyState
    BY <1>1 DEF EmptyState, NoStep
  <2>4. /\ Knows(st, N)
        /\ (Pages(st.step.channel) # {})
             <=> credentialFetchRequired(config[st.step.channel])
        /\ fetched # << >> /\ fetched[N].channel = st.step.channel
        /\ fetched[N].kind = st.step.kind
        /\ HasMore(fetched[N])
    BY <1>1, <2>3 DEF Settling
  <2>5. Pages(st.step.channel) # {}
    BY <1>0, <2>1, <2>4 DEF Pages
  <2>6. Due(st, N)
    BY <1>0, <1>1, <2>1, <2>4, <2>5, EmptyIsNoKind DEF Due
  <2> QED BY <2>2, <2>4, <2>6
<1>2. CASE st.step.after = Empty
  <2>1. /\ nextStep(st).found <=> Waiting(st) # {}
        /\ IsState(next)
        /\ next.upstream = IF Complete(st) = {} THEN st.upstream ELSE << >>
        /\ next.modelparams = st.modelparams /\ next.modelsdev = st.modelsdev
        /\ next.bound = st.bound /\ next.cursors = st.cursors
        /\ Waiting(st) # {} => /\ next.step.kind = Needed(st, first)
                               /\ next.step.channel = first
                               /\ next.step.after = Empty
    BY <1>2, NextFields DEF Shape, Types
  <2>2. Plans(next.results, Before(c) \cup Complete(st))
    BY <1>2, CompletePlanned
  <2>3. /\ c \in Nat /\ Sources(st, N) /\ Bound(st) /\ st.cursors = {}
        /\ \A k \in DOMAIN st.bound : k <= c
        /\ \A k \in DOMAIN config : k >= c /\ ~Entered(st, k) => Pages(k) = {}
        /\ st.step.kind = Empty => DOMAIN st.upstream = {}
        /\ st.step.kind # Empty =>
             /\ c = st.step.channel /\ c \in Ahead(st)
             /\ (Pages(c) # {}) <=> credentialFetchRequired(config[c])
             /\ Upstream(st, N)
        /\ fetched # << >> => ~HasMore(fetched[N])
    BY <1>2, SettledFacts
  <2>4. Waiting(st) \in SUBSET Nat /\ Waiting(st) \subseteq Ahead(st)
        /\ Ahead(st) = {k \in DOMAIN config : k >= c /\ config[k].enabled}
        /\ \A k \in Waiting(st) : Needed(st, k) # Empty
    BY <1>0 DEF Waiting, Ahead
  <2> HIDE DEF next, c, first, N
  <2>5. CASE Waiting(st) = {}
    <3>1. Complete(st) = Ahead(st)
      BY <2>5 DEF Complete
    <3>2. Before(c) \cup Ahead(st) = Enabled
      BY <1>0, <2>3, <2>4 DEF Before, Enabled
    <3>3. Plans(next.results, Enabled)
      BY <2>2, <3>1, <3>2
    <3> QED BY <2>1, <2>3, <2>5, <3>3 DEF next, N
  <2>6. CASE Waiting(st) # {}
    <3>1. first \in Waiting(st) /\ \A k \in Waiting(st) : first <= k
      BY <2>4, <2>6, MinInSet DEF first
    <3>2. /\ first \in DOMAIN config /\ first \in Nat /\ first >= c
          /\ config[first].enabled /\ Needed(st, first) # Empty
      BY <2>4, <3>1
    <3>3. Complete(st) = {k \in Ahead(st) : k < first}
      <4>1. \A k \in Ahead(st) : k \in Nat
        BY <1>0, <2>4
      <4>2. \A d \in Waiting(st) : d \in Nat
        BY <2>4
      <4> QED BY <3>1, <3>2, <4>1, <4>2 DEF Complete
    <3>4. Before(c) \cup Complete(st) = Before(first)
      BY <1>0, <2>3, <2>4, <3>2, <3>3 DEF Before
    <3>5. Sources(next, N) /\ Bound(next) /\ Cursors(next, N)
          /\ \A kind \in PublicKind : next[kind] = st[kind]
      <4>1. \A kind \in PublicKind : next[kind] = st[kind]
        BY <2>1, StateFields DEF PublicKind, StateShape
      <4> QED BY <2>1, <2>3, <2>6, <4>1 DEF Sources, Bound, Cursors
    <3>6. /\ ~Entered(st, first) => Pages(first) = {}
          /\ Entered(st, first) => Complete(st) = {} /\ first = c
          /\ ~Entered(st, first) /\ Complete(st) = {} => st.step.kind = Empty
      <4>1. Entered(st, first) => first = c
        BY <2>3 DEF Entered
      <4>2. first = c => Complete(st) = {}
        BY <1>0, <2>4, <3>2, <3>3
      <4>3. st.step.kind # Empty /\ ~Entered(st, first) => c \in Complete(st)
        <5> SUFFICES ASSUME st.step.kind # Empty, ~Entered(st, first)
                     PROVE  c \in Complete(st)
          OBVIOUS
        <5>1. c # first /\ c \in Ahead(st)
          BY <2>3 DEF Entered
        <5> QED BY <2>3, <3>2, <3>3, <5>1
      <4> QED BY <2>3, <3>2, <4>1, <4>2, <4>3
    <3>7. Upstream(next, N)
      <4>1. CASE Entered(st, first)
        <5>1. next.upstream = st.upstream /\ next.step.channel = st.step.channel
          BY <2>1, <2>3, <2>6, <3>6, <4>1 DEF Entered
        <5> QED BY <2>3, <4>1, <5>1 DEF Upstream, Entered
      <4>2. CASE ~Entered(st, first)
        <5>1. DOMAIN next.upstream = {}
          BY <2>1, <2>3, <3>6, <4>2
        <5>2. PagesUpTo(first, N) = {} /\ Ids({}) = {}
          BY <3>6, <4>2 DEF PagesUpTo, Ids
        <5> QED BY <2>1, <2>6, <5>1, <5>2 DEF Upstream
      <4> QED BY <4>1, <4>2
    <3>8. Knows(next, N)
      <4>1. \A k \in DOMAIN next.bound : k <= first
        <5>1. \A k \in DOMAIN st.bound : k \in Nat /\ k <= c
          BY <1>0, <2>3 DEF StateShape, BoundShape
        <5> QED BY <2>1, <2>3, <3>2, <5>1
      <4> QED BY <2>1, <2>2, <2>6, <3>2, <3>4, <3>5, <3>7, <4>1 DEF Knows
    <3>9. Due(next, N)
      <4> DEFINE kind == Needed(st, first)
      <4>1. /\ kind \in CatalogKind =>
                 ~Entered(st, first) /\ credentialFetchRequired(config[first])
            /\ kind \in PublicKind =>
                 /\ ~Entered(st, first) => ~credentialFetchRequired(config[first])
                 /\ HasSource(config[first], kind) /\ ~st[kind].ok
        BY <3>2, NeededWhy DEF Shape, Types
      <4>2. next.step.kind = kind /\ next.step.channel = first /\ next.step.after = Empty
            /\ kind # Empty
        BY <2>1, <2>6, <3>2
      <4> HIDE DEF kind
      <4>3. kind \in CatalogKind => PagesUpTo(first, N) = {}
        BY <3>6, <4>1 DEF PagesUpTo
      <4>4. kind \in PublicKind =>
              ((Pages(first) # {}) <=> credentialFetchRequired(config[first]))
        BY <2>3, <3>6, <4>1 DEF Entered
      <4>5. N > 0 => ~HasMore(fetched[N])
        BY <2>3 DEF N
      <4> QED BY <3>5, <4>1, <4>2, <4>3, <4>4, <4>5 DEF Due
    <3> QED BY <2>1, <2>6, <3>8, <3>9 DEF next, N
  <2> QED BY <2>5, <2>6
<1> QED BY <1>1, <1>2

-----------------------------------------------------------------------------
(* What reading a catalog changes. *)
Consumed(st, b, next) ==
  LET kind == st.step.kind IN
  /\ next.bound = st.bound /\ next.results = st.results
  /\ next.step.kind = kind /\ next.step.channel = st.step.channel
  /\ next.upstream = IF kind = "openai_models" THEN b.entries
                     ELSE IF kind = "claude_models" THEN Joined(b.entries, st.upstream)
                     ELSE st.upstream
  /\ kind = "claude_models" =>
       /\ next.step.after = IF b.more THEN b.cursor ELSE Empty
       /\ next.cursors = IF b.more THEN st.cursors \cup {b.cursor} ELSE {}
  /\ kind # "claude_models" =>
       next.step.after = st.step.after /\ next.cursors = st.cursors
  /\ \A k \in PublicKind : next[k] = IF k = kind THEN b ELSE st[k]

LEMMA ConsumeFields ==
  ASSUME NEW st, IsState(st), NEW b, st.step.kind \in CatalogKind \cup PublicKind
  PROVE  Consumed(st, b, consumeFetch(st, b))
<1> DEFINE next == consumeFetch(st, b)
<1>0. PublicKind = {"modelparams", "modelsdev"} /\ CatalogKind = {"openai_models", "claude_models"}
      /\ st["modelparams"] = st.modelparams /\ st["modelsdev"] = st.modelsdev
  BY StateFields DEF PublicKind, CatalogKind
<1>1. CASE st.step.kind = "openai_models"
  <2>1. next = [st EXCEPT !.upstream = b.entries]
    BY <1>1 DEF consumeFetch
  <2>2. /\ next.upstream = b.entries /\ next.bound = st.bound
        /\ next.step = st.step /\ next.results = st.results
        /\ next.cursors = st.cursors
        /\ next["modelparams"] = st.modelparams /\ next["modelsdev"] = st.modelsdev
    BY <2>1 DEF IsState
  <2> HIDE DEF next
  <2>3. \A k \in PublicKind : next[k] = IF k = st.step.kind THEN b ELSE st[k]
    BY <1>0, <1>1, <2>2
  <2> QED BY <1>1, <2>2, <2>3 DEF Consumed, next
<1>2. CASE st.step.kind = "claude_models"
  <2> DEFINE after == IF b.more THEN b.cursor ELSE Empty
             cursors == IF b.more THEN st.cursors \cup {b.cursor} ELSE {}
             upstream == Joined(b.entries, st.upstream)
  <2>1. next = [st EXCEPT !.upstream = upstream, !.step.after = after,
                          !.cursors = cursors]
    BY <1>2 DEF consumeFetch
  <2> HIDE DEF after, cursors, upstream
  <2>2. /\ next.upstream = upstream /\ next.bound = st.bound
        /\ next.step = [st.step EXCEPT !.after = after]
        /\ next.results = st.results /\ next.cursors = cursors
        /\ next["modelparams"] = st.modelparams /\ next["modelsdev"] = st.modelsdev
    BY <2>1 DEF IsState
  <2> HIDE DEF next
  <2>3. /\ next.step.kind = st.step.kind /\ next.step.channel = st.step.channel
        /\ next.step.after = after
    BY <2>2 DEF IsState, IsStep
  <2>4. \A k \in PublicKind : next[k] = IF k = st.step.kind THEN b ELSE st[k]
    BY <1>0, <1>2, <2>2
  <2> QED BY <1>2, <2>2, <2>3, <2>4 DEF Consumed, next, after, cursors, upstream
<1>3. CASE st.step.kind \in PublicKind
  <2>1. next = [st EXCEPT ![st.step.kind] = b]
    BY <1>3 DEF consumeFetch, PublicKind
  <2>2. /\ next.upstream = st.upstream /\ next.bound = st.bound
        /\ next.step = st.step /\ next.results = st.results
        /\ next.cursors = st.cursors
    BY <1>0, <1>3, <2>1 DEF IsState
  <2>3. \A k \in PublicKind : next[k] = IF k = st.step.kind THEN b ELSE st[k]
    BY <1>0, <1>3, <2>1 DEF IsState
  <2>4. st.step.kind # "openai_models" /\ st.step.kind # "claude_models"
    BY <1>0, <1>3
  <2> HIDE DEF next
  <2> QED BY <2>2, <2>3, <2>4 DEF Consumed, next
<1> QED BY <1>0, <1>1, <1>2, <1>3

(* A page that was read joins the pages before it. *)
LEMMA ReadPage ==
  ASSUME Shape, fetched # << >>, NEW c
  PROVE  LET N == Len(fetched) IN
         /\ N \in DOMAIN fetched /\ N \in Nat /\ N > 0
         /\ fetched[N].channel = c /\ fetched[N].kind \in CatalogKind =>
              /\ N \in Pages(c) /\ PagesUpTo(c, N) = PagesUpTo(c, N - 1) \cup {N}
              /\ Ids(PagesUpTo(c, N)) = Ids(PagesUpTo(c, N - 1)) \cup Names(fetched[N].body)
         /\ fetched[N].kind \notin CatalogKind => PagesUpTo(c, N) = PagesUpTo(c, N - 1)
<1> DEFINE N == Len(fetched)
<1>1. /\ N \in DOMAIN fetched /\ N \in Nat /\ N > 0 /\ DOMAIN fetched \subseteq Nat
      /\ \A i \in DOMAIN fetched : i <= N
  <2>1. fetched \in Seq(FetchRecord)
    BY DEF Shape, Types
  <2> QED BY <2>1
<1> HIDE DEF N
<1>2. \A i \in DOMAIN fetched : i <= N <=> (i <= N - 1 \/ i = N)
  BY <1>1
<1>3. ~(N <= N - 1)
  BY <1>1
<1>4. fetched[N].channel = c /\ fetched[N].kind \in CatalogKind =>
        N \in Pages(c) /\ PagesUpTo(c, N) = PagesUpTo(c, N - 1) \cup {N}
  BY <1>1, <1>2 DEF Pages, PagesUpTo
<1>5. fetched[N].kind \notin CatalogKind => PagesUpTo(c, N) = PagesUpTo(c, N - 1)
  <2>1. fetched[N].kind \notin CatalogKind => N \notin Pages(c)
    BY DEF Pages
  <2>2. Pages(c) \subseteq DOMAIN fetched
    BY DEF Pages
  <2> QED BY <1>2, <2>1, <2>2 DEF PagesUpTo
<1>6. ASSUME NEW S PROVE Ids(S \cup {N}) = Ids(S) \cup Names(fetched[N].body)
  BY DEF Ids
<1> QED BY <1>1, <1>4, <1>5, <1>6 DEF N

(* The entries of a catalog that was read are in the form CPA writes, unless the
   catalog is not. *)
LEMMA ReadEntries ==
  ASSUME Shape, op = "metadata", NEW i \in DOMAIN fetched,
         fetched[i].kind \in CatalogKind,
         parseCatalog(op, fetched[i].kind, fetched[i].body).ok
  PROVE  LET b == parseCatalog(op, fetched[i].kind, fetched[i].body) IN
         \A id \in DOMAIN b.entries :
           LET entry == b.entries[id] IN
           /\ entry.levels = normalizeEfforts(entry.levels)
           /\ Fit(entry) \/ Sloppy(fetched[i].channel)
<1> DEFINE b == parseCatalog(op, fetched[i].kind, fetched[i].body)
           doc == fetched[i].body
           kind == fetched[i].kind
<1>1. Nameable(doc) /\ op \in Operation
  BY FetchedBodies DEF Shape, Types, ScenarioShape
<1>2. CASE kind = "claude_models"
  <2>1. \A id \in DOMAIN b.entries : \E item \in Range(doc.items) :
          /\ b.entries[id].levels = normalizeEfforts(item.levels)
          /\ b.entries[id].input = cpaModalities(item.input)
          /\ ~b.entries[id].bare /\ b.entries[id].limit >= 0
    <3>1. "claude_models" \in CatalogKind \cup PublicKind
      BY DEF CatalogKind
    <3> QED BY <1>1, <1>2, <3>1, ReadCatalog
  <2> HIDE DEF b
  <2>2. \A id \in DOMAIN b.entries :
          b.entries[id].levels = normalizeEfforts(b.entries[id].levels)
          /\ Fit(b.entries[id])
    BY <2>1, NormalLevels, NormalModalities DEF Fit
  <2> QED BY <2>2 DEF b
<1>3. CASE kind = "openai_models"
  <2>1. \A id \in DOMAIN b.entries : \E item \in Range(doc.items) :
          /\ b.entries[id].levels = normalizeEfforts(item.levels)
          /\ b.entries[id].input = item.input
          /\ b.entries[id].bare = item.bare
          /\ b.entries[id].limit >= 0 \/ item.limit > MaxInt
    <3>1. "openai_models" \in CatalogKind \cup PublicKind
      BY DEF CatalogKind
    <3> QED BY <1>1, <1>3, <3>1, ReadCatalog
  <2> HIDE DEF b
  <2>2. ASSUME NEW id \in DOMAIN b.entries
        PROVE  /\ b.entries[id].levels = normalizeEfforts(b.entries[id].levels)
               /\ Fit(b.entries[id]) \/ Sloppy(fetched[i].channel)
    <3>1. PICK item \in Range(doc.items) :
            /\ b.entries[id].levels = normalizeEfforts(item.levels)
            /\ b.entries[id].input = item.input
            /\ b.entries[id].bare = item.bare
            /\ b.entries[id].limit >= 0 \/ item.limit > MaxInt
      BY <2>1
    <3>2. i \in Pages(fetched[i].channel)
      BY DEF Pages
    <3>3. ~Unfit(item) \/ Sloppy(fetched[i].channel)
      BY <1>3, <3>2, Zenon DEF Sloppy
    <3>4. ~Unfit(item) => Fit(b.entries[id])
      BY <3>1 DEF Unfit, Fit
    <3> QED BY <3>1, <3>3, <3>4, NormalLevels
  <2> QED BY <2>2 DEF b
<1> QED BY <1>2, <1>3 DEF CatalogKind

(* Once the last catalog is read, all that nextStep starts from is known. *)
LEMMA ConsumeSettles ==
  ASSUME Shape, fetched # << >>, NEW st, StateShape(st),
         Knows(st, Len(fetched) - 1), Due(st, Len(fetched) - 1),
         fetched[Len(fetched)].channel = st.step.channel,
         fetched[Len(fetched)].kind = st.step.kind,
         NEW b, b = parseCatalog(op, st.step.kind, fetched[Len(fetched)].body),
         Readable(st, b)
  PROVE  Settling(consumeFetch(st, b))
<1> DEFINE next == consumeFetch(st, b)
           N == Len(fetched)
           c == st.step.channel
           kind == st.step.kind
           last == fetched[N]
           old == N - 1
<1>1. /\ N \in DOMAIN fetched /\ N \in Nat /\ N > 0
      /\ kind \in CatalogKind =>
           /\ N \in Pages(c) /\ PagesUpTo(c, N) = PagesUpTo(c, old) \cup {N}
           /\ Ids(PagesUpTo(c, N)) = Ids(PagesUpTo(c, old)) \cup Names(last.body)
      /\ kind \notin CatalogKind => PagesUpTo(c, N) = PagesUpTo(c, old)
  BY ReadPage
<1>2. /\ kind \in CatalogKind \cup PublicKind /\ Nameable(last.body)
      /\ op \in Operation /\ b.ok
  BY <1>1, FetchedBodies DEF Shape, Types, ScenarioShape, Readable
<1>3. /\ next.bound = st.bound /\ next.results = st.results
      /\ next.step.kind = kind /\ next.step.channel = c
      /\ next.upstream = IF kind = "openai_models" THEN b.entries
                         ELSE IF kind = "claude_models"
                         THEN Joined(b.entries, st.upstream)
                         ELSE st.upstream
      /\ kind = "claude_models" =>
           /\ next.step.after = IF b.more THEN b.cursor ELSE Empty
           /\ next.cursors = IF b.more THEN st.cursors \cup {b.cursor} ELSE {}
      /\ kind # "claude_models" =>
           next.step.after = st.step.after /\ next.cursors = st.cursors
      /\ \A k \in PublicKind : next[k] = IF k = kind THEN b ELSE st[k]
  <2>1. Consumed(st, b, next)
    BY <1>2, ConsumeFields DEF StateShape
  <2> HIDE DEF next
  <2> QED BY <2>1 DEF Consumed
<1>4. /\ kind # "claude_models" => st.step.after = Empty
      /\ kind = "claude_models" => op = "metadata"
  <2>1. kind = "claude_models" => catalogKind(config[c]) = "claude_models"
                                  /\ c \in DOMAIN config
    <3>1. "claude_models" \in CatalogKind
      BY DEF CatalogKind
    <3>2. "claude_models" # Empty
      BY <3>1, EmptyIsNoKind
    <3> QED BY <3>1, <3>2 DEF StateShape, StepShape
  <2>2. kind = "claude_models" => config[c].kind # "openai"
    BY <2>1 DEF catalogKind
  <2> QED BY <2>1, <2>2 DEF StateShape, StepShape, Shape, Types, ScenarioShape, Operation
<1>5. kind \in CatalogKind => DOMAIN b.entries = Names(last.body)
  BY <1>2, ReadCatalog
<1>6. kind = "claude_models" =>
        (b.more <=> last.body.more) /\ b.cursor = last.body.cursor
  BY <1>2, <1>4, ReadCatalog DEF Operation
<1>7. op = "metadata" /\ kind \in CatalogKind =>
        \A id \in DOMAIN b.entries :
          /\ b.entries[id].levels = normalizeEfforts(b.entries[id].levels)
          /\ Fit(b.entries[id]) \/ Sloppy(c)
  <2> SUFFICES ASSUME op = "metadata", kind \in CatalogKind
               PROVE  \A id \in DOMAIN b.entries :
                        /\ b.entries[id].levels = normalizeEfforts(b.entries[id].levels)
                        /\ Fit(b.entries[id]) \/ Sloppy(c)
    OBVIOUS
  <2>1. last.kind = kind /\ last.channel = c /\ parseCatalog(op, last.kind, last.body) = b
    OBVIOUS
  <2>2. LET d == parseCatalog(op, last.kind, last.body) IN
        \A id \in DOMAIN d.entries :
          LET entry == d.entries[id] IN
          /\ entry.levels = normalizeEfforts(entry.levels)
          /\ Fit(entry) \/ Sloppy(last.channel)
    BY <1>1, <1>2, <2>1, ReadEntries
  <2> HIDE DEF last
  <2> QED BY <2>1, <2>2
<1>8. /\ Plans(st.results, Before(c)) /\ config[c].enabled
      /\ Sources(st, old) /\ Bound(st) /\ Upstream(st, old) /\ Cursors(st, old)
      /\ \A k \in DOMAIN st.bound : k <= c
  BY DEF Knows
<1> HIDE DEF next, N, c, kind, last, old
<1>9. Sources(next, N)
  <2>1. ASSUME NEW k \in PublicKind, next[k].ok PROVE FromCatalog(k, next[k])
    <3>1. CASE k = kind
      BY <1>1, <1>3, <3>1 DEF FromCatalog, kind, last, N
    <3>2. CASE k # kind
      BY <1>3, <1>8, <2>1, <3>2 DEF Sources
    <3> QED BY <3>1, <3>2
  <2>2. ASSUME NEW k \in PublicKind, NEW i \in 1 .. N, fetched[i].kind = k
        PROVE  next[k].ok
    <3>1. CASE k = kind
      BY <1>2, <1>3, <3>1
    <3>2. CASE k # kind
      <4>1. i # N
        BY <2>2, <3>2 DEF last, kind, N
      <4>2. i \in 1 .. old
        BY <1>1, <4>1 DEF old, N
      <4> QED BY <1>3, <1>8, <2>2, <3>2, <4>2 DEF Sources
    <3> QED BY <3>1, <3>2
  <2> QED BY <2>1, <2>2 DEF Sources
<1>10. PublicKind \cap CatalogKind = {} /\ CatalogKind = {"openai_models", "claude_models"}
  BY DEF PublicKind, CatalogKind
<1>11. Upstream(next, N)
  <2>1. CASE kind = "openai_models"
    <3>1. PagesUpTo(c, old) = {} /\ Ids({}) = {}
      BY <1>4, <1>10, <2>1 DEF Due, Ids, old, c, kind, N
    <3> QED BY <1>1, <1>3, <1>5, <1>7, <1>10, <2>1, <3>1 DEF Upstream
  <2>2. CASE kind = "claude_models"
    <3> DEFINE up == Joined(b.entries, st.upstream)
    <3>1. /\ DOMAIN up = DOMAIN b.entries \cup DOMAIN st.upstream
          /\ \A id \in DOMAIN up :
               \/ id \in DOMAIN b.entries /\ up[id] = b.entries[id]
               \/ id \in DOMAIN st.upstream /\ up[id] = st.upstream[id]
      BY DEF Joined
    <3> HIDE DEF up
    <3>2. next.upstream = up
      BY <1>3, <2>2 DEF up
    <3>3. DOMAIN up = Ids(PagesUpTo(c, N))
      BY <1>1, <1>5, <1>8, <1>10, <2>2, <3>1 DEF Upstream, c
    <3>4. ASSUME op = "metadata", NEW id \in DOMAIN up
          PROVE  /\ up[id].levels = normalizeEfforts(up[id].levels)
                 /\ Fit(up[id]) \/ Sloppy(c)
      <4>1. CASE id \in DOMAIN b.entries /\ up[id] = b.entries[id]
        BY <1>7, <1>10, <2>2, <3>4, <4>1
      <4>2. CASE id \in DOMAIN st.upstream /\ up[id] = st.upstream[id]
        BY <1>8, <3>4, <4>2 DEF Upstream, c
      <4> QED BY <3>1, <4>1, <4>2
    <3>5. next.step.channel = c
      BY <1>3
    <3> QED BY <3>2, <3>3, <3>4, <3>5 DEF Upstream
  <2>3. CASE kind \notin CatalogKind
    <3>1. next.upstream = st.upstream /\ PagesUpTo(c, N) = PagesUpTo(c, old)
      BY <1>1, <1>3, <1>10, <2>3
    <3> QED BY <1>3, <1>8, <3>1 DEF Upstream, c
  <2> QED BY <1>10, <2>1, <2>2, <2>3
<1>12. Cursors(next, N)
  <2>1. CursorsOf(PagesUpTo(c, old)) \subseteq CursorsOf(PagesUpTo(c, N))
    <3>1. PagesUpTo(c, old) \subseteq PagesUpTo(c, N)
      BY <1>1
    <3> QED BY <3>1 DEF CursorsOf
  <2>2. CASE kind = "claude_models"
    <3>1. b.more => b.cursor # Empty
      BY <2>2 DEF Readable, kind
    <3>2. b.cursor \in CursorsOf(PagesUpTo(c, N))
      <4>1. N \in PagesUpTo(c, N)
        BY <1>1, <1>10, <2>2
      <4> QED BY <1>6, <2>2, <4>1 DEF CursorsOf, last
    <3>3. next.cursors \subseteq CursorsOf(PagesUpTo(c, N))
      BY <1>3, <1>8, <2>1, <2>2, <3>2 DEF Cursors, c
    <3> QED BY <1>3, <2>2, <3>1, <3>3 DEF Cursors
  <2>3. CASE kind # "claude_models"
    BY <1>3, <1>8, <2>1, <2>3 DEF Cursors, c
  <2> QED BY <2>2, <2>3
<1>13. HasMore(last) <=> next.step.after # Empty
  <2>1. CASE kind = "claude_models"
    <3>1. b.more => b.cursor # Empty
      BY <2>1 DEF Readable, kind
    <3>2. last.kind = kind
      BY DEF last, kind, N
    <3> QED BY <1>3, <1>6, <2>1, <3>1, <3>2 DEF HasMore
  <2>2. CASE kind # "claude_models"
    <3>1. last.kind = kind
      BY DEF last, kind, N
    <3> QED BY <1>3, <1>4, <2>2, <3>1 DEF HasMore
  <2> QED BY <2>1, <2>2
<1>14. (Pages(c) # {}) <=> credentialFetchRequired(config[c])
  BY <1>1, <1>2 DEF Due, c, kind
<1>15. Knows(next, N)
  BY <1>3, <1>8, <1>9, <1>11, <1>12 DEF Knows, Bound
<1> QED BY <1>1, <1>2, <1>3, <1>13, <1>14, <1>15 DEF Settling, next, N, c, kind, last

-----------------------------------------------------------------------------
(* No catalog that was fetched is forgotten. *)
Kept ==
  /\ UNCHANGED scenario
  /\ \A i \in DOMAIN fetched : i \in DOMAIN fetched' /\ fetched'[i] = fetched[i]

LEMMA KeptCatalogs ==
  ASSUME Kept
  PROVE  /\ \A kind, read : FromCatalog(kind, read) => FromCatalog(kind, read)'
         /\ \A spec : LeavesOutOfOrder(spec) => LeavesOutOfOrder(spec)'
         /\ \A c : Pages(c) \subseteq Pages(c)'
         /\ \A c : Sloppy(c) => Sloppy(c)'
         /\ \A S : S \subseteq DOMAIN fetched => Ids(S)' = Ids(S)
         /\ op' = op /\ config' = config /\ snapshot' = snapshot
<1>1. op' = op /\ config' = config /\ snapshot' = snapshot
  BY SameScenario DEF Kept
<1>2. \A i \in DOMAIN fetched : i \in DOMAIN fetched' /\ fetched'[i] = fetched[i]
  BY DEF Kept
<1>3. \A kind, read : FromCatalog(kind, read) => FromCatalog(kind, read)'
  BY <1>1, <1>2 DEF FromCatalog
<1>4. ASSUME NEW spec, LeavesOutOfOrder(spec) PROVE LeavesOutOfOrder(spec)'
  <2>1. PICK m \in Range(Located(snapshot, spec).models) :
          ~Overridden(spec, m.name) /\ OutOfOrder(m.name)
    BY <1>4 DEF LeavesOutOfOrder
  <2>2. OutOfOrder(m.name)'
    BY <1>2, <2>1 DEF OutOfOrder
  <2> QED BY <1>1, <2>1, <2>2, Zenon DEF LeavesOutOfOrder
<1>5. \A c : Pages(c) \subseteq Pages(c)'
  BY <1>2 DEF Pages
<1>6. ASSUME NEW c, Sloppy(c) PROVE Sloppy(c)'
  <2>1. PICK i \in Pages(c) :
          /\ fetched[i].kind = "openai_models"
          /\ \E item \in Range(fetched[i].body.items) : Unfit(item)
    BY <1>6 DEF Sloppy
  <2>2. i \in Pages(c)' /\ fetched'[i] = fetched[i]
    BY <1>2, <1>5 DEF Pages
  <2> QED BY <2>1, <2>2 DEF Sloppy
<1>7. ASSUME NEW S, S \subseteq DOMAIN fetched PROVE Ids(S)' = Ids(S)
  <2>1. \A k \in S : fetched'[k] = fetched[k]
    BY <1>2, <1>7
  <2>2. {Names(fetched'[k].body) : k \in S} = {Names(fetched[k].body) : k \in S}
    BY <2>1
  <2> QED BY <2>2 DEF Ids
<1> QED BY <1>1, <1>3, <1>4, <1>5, <1>6, <1>7

LEMMA KeptPlans ==
  ASSUME Kept, NEW results, NEW channels, Plans(results, channels),
         \A k \in channels : Pages(k)' = Pages(k)
  PROVE  Plans(results, channels)'
<1>1. /\ \A kind, read : FromCatalog(kind, read) => FromCatalog(kind, read)'
      /\ \A spec : LeavesOutOfOrder(spec) => LeavesOutOfOrder(spec)'
      /\ \A S : S \subseteq DOMAIN fetched => Ids(S)' = Ids(S)
      /\ op' = op /\ config' = config
  BY KeptCatalogs
<1>2. ASSUME NEW r, Whole(r), Pages(r.channel)' = Pages(r.channel)
      PROVE  Whole(r)'
  <2>1. Ids(Pages(r.channel))' = Ids(Pages(r.channel))
    BY <1>1, <1>2 DEF Pages
  <2>2. Patches(r) => Patches(r)'
    BY <1>1 DEF Patches
  <2>3. /\ \A spec : credentialFetchRequired(spec)' = credentialFetchRequired(spec)
        /\ \A ids, spec : filterIDs(ids, spec)' = filterIDs(ids, spec)
    BY <1>1 DEF credentialFetchRequired, filterIDs
  <2> QED BY <1>1, <1>2, <2>1, <2>2, <2>3 DEF Whole
<1>3. \A i \in DOMAIN results : results[i].channel \in channels /\ Whole(results[i])
  BY DEF Plans, Range
<1>4. \A i \in DOMAIN results : Whole(results[i])'
  BY <1>2, <1>3
<1> QED BY <1>4 DEF Plans

(* What is known of the fetches up to the present one stays so, unless a page of its
   channel or an earlier one comes. *)
LEMMA KeptCourse ==
  ASSUME Kept, NEW st, NEW n \in Nat, 1 .. n \subseteq DOMAIN fetched,
         \A k \in Before(st.step.channel) : Pages(k)' = Pages(k),
         PagesUpTo(st.step.channel, n)' = PagesUpTo(st.step.channel, n),
         st.step.kind \in PublicKind =>
           Pages(st.step.channel)' = Pages(st.step.channel)
  PROVE  Knows(st, n) /\ Due(st, n) => Knows(st, n)' /\ Due(st, n)'
<1> SUFFICES ASSUME Knows(st, n), Due(st, n) PROVE Knows(st, n)' /\ Due(st, n)'
  OBVIOUS
<1> DEFINE c == st.step.channel
<1>1. /\ \A kind, read : FromCatalog(kind, read) => FromCatalog(kind, read)'
      /\ Sloppy(c) => Sloppy(c)'
      /\ \A S : S \subseteq DOMAIN fetched => Ids(S)' = Ids(S)
      /\ op' = op /\ config' = config
  BY KeptCatalogs
<1>2. \A i \in 1 .. n : fetched'[i] = fetched[i]
  BY DEF Kept
<1>3. /\ \A spec : credentialFetchRequired(spec)' = credentialFetchRequired(spec)
      /\ Before(c)' = Before(c)
  BY <1>1 DEF credentialFetchRequired, Before
<1>4. Plans(st.results, Before(c))'
  <2>1. ASSUME NEW S, S = Before(c) PROVE Plans(st.results, S)'
    <3>1. Plans(st.results, S) /\ \A k \in S : Pages(k)' = Pages(k)
      BY <2>1 DEF Knows
    <3> QED BY <3>1, KeptPlans
  <2> QED BY <1>3, <2>1
<1>5. Sources(st, n)'
  BY <1>1, <1>2 DEF Knows, Sources
<1>6. Bound(st)'
  BY <1>1, <1>3 DEF Knows, Bound
<1>7. Upstream(st, n)'
  <2>1. PagesUpTo(c, n) \subseteq DOMAIN fetched
    BY DEF PagesUpTo, Pages
  <2>2. Ids(PagesUpTo(c, n))' = Ids(PagesUpTo(c, n))
    BY <1>1, <2>1
  <2> QED BY <1>1, <2>2 DEF Knows, Upstream
<1>8. Cursors(st, n)'
  <2>1. CursorsOf(PagesUpTo(c, n))' = CursorsOf(PagesUpTo(c, n))
    <3>1. \A i \in PagesUpTo(c, n) : fetched'[i] = fetched[i]
      BY DEF PagesUpTo, Pages, Kept
    <3> QED BY <3>1 DEF CursorsOf
  <2> QED BY <2>1 DEF Knows, Cursors
<1>9. Knows(st, n)'
  BY <1>1, <1>3, <1>4, <1>5, <1>6, <1>7, <1>8 DEF Knows
<1>10. Due(st, n)'
  <2>1. n > 0 => n \in 1 .. n
    OBVIOUS
  <2>2. n > 0 => fetched'[n] = fetched[n]
    BY <1>2, <2>1
  <2> QED BY <1>1, <1>3, <2>2 DEF Due
<1> QED BY <1>9, <1>10

-----------------------------------------------------------------------------
(* The number of catalogs, and those before the last. *)
LEMMA FetchedLength ==
  ASSUME Shape
  PROVE  /\ Len(fetched) \in Nat /\ 1 .. Len(fetched) \subseteq DOMAIN fetched
         /\ fetched # << >> =>
              /\ Len(fetched) - 1 \in Nat
              /\ 1 .. (Len(fetched) - 1) \subseteq DOMAIN fetched
<1>1. fetched \in Seq(FetchRecord)
  BY DEF Shape, Types
<1>2. Len(fetched) \in Nat /\ DOMAIN fetched = 1 .. Len(fetched)
      /\ (fetched # << >> => Len(fetched) # 0)
  BY <1>1
<1> QED BY <1>2

(* A step that changes neither the catalogs nor the scenario. *)
LEMMA SameFetches ==
  ASSUME UNCHANGED <<scenario, fetched>>
  PROVE  /\ Kept /\ op' = op /\ config' = config /\ Enabled' = Enabled
         /\ \A c : Pages(c)' = Pages(c)
         /\ \A c, n : PagesUpTo(c, n)' = PagesUpTo(c, n)
         /\ ConfigShape => ConfigShape'
         /\ Chain => Chain'
<1>1. op' = op /\ config' = config
  BY SameScenario
<1>2. Kept
  BY DEF Kept
<1>3. \A c : Pages(c)' = Pages(c)
  BY DEF Pages
<1>4. \A c, n : PagesUpTo(c, n)' = PagesUpTo(c, n)
  BY <1>3 DEF PagesUpTo
<1>5. ConfigShape => ConfigShape'
  BY <1>1 DEF ConfigShape
<1>6. Chain => Chain'
  BY <1>1 DEF Chain
<1>7. Enabled' = Enabled
  BY <1>1 DEF Enabled
<1> QED BY <1>1, <1>2, <1>3, <1>4, <1>5, <1>6, <1>7

(* What is known stays known when only the planner moves. *)
LEMMA SameCourse ==
  ASSUME Shape, UNCHANGED <<scenario, fetched>>, NEW st, state' = st
  PROVE  /\ \A n \in Nat : 1 .. n \subseteq DOMAIN fetched =>
              (Knows(st, n) /\ Due(st, n) => (Knows(state, n) /\ Due(state, n))')
         /\ Plans(st.results, Enabled) => Plans(state.results, Enabled)'
<1>1. /\ Kept /\ Enabled' = Enabled
      /\ \A c : Pages(c)' = Pages(c)
      /\ \A c, n : PagesUpTo(c, n)' = PagesUpTo(c, n)
  BY SameFetches
<1>2. ASSUME NEW n \in Nat, 1 .. n \subseteq DOMAIN fetched, Knows(st, n), Due(st, n)
      PROVE  (Knows(state, n) /\ Due(state, n))'
  <2>1. Knows(st, n)' /\ Due(st, n)'
    BY <1>1, <1>2, KeptCourse
  <2> QED BY <2>1
<1>3. ASSUME Plans(st.results, Enabled) PROVE Plans(state.results, Enabled)'
  <2>1. ASSUME NEW S, S = Enabled PROVE Plans(st.results, S)'
    BY <1>1, <1>3, <2>1, KeptPlans
  <2> QED BY <1>1, <2>1
<1> QED BY <1>2, <1>3

(* An attempt that waits or looks a credential up learns nothing of the catalogs. *)
LEMMA IdleCourse ==
  ASSUME Shape, Course, UNCHANGED <<scenario, state, body, fetched>>,
         Asking' => Asking, Answered' => Answered, Covered' => Covered
  PROVE  Course'
<1> DEFINE N == Len(fetched)
           old == N - 1
<1>1. /\ \A n \in Nat : 1 .. n \subseteq DOMAIN fetched =>
           (Knows(state, n) /\ Due(state, n) => (Knows(state, n) /\ Due(state, n))')
      /\ Plans(state.results, Enabled) => Plans(state.results, Enabled)'
  <2>1. ASSUME NEW st, st = state PROVE state' = st
    BY <2>1
  <2> QED BY <2>1, SameCourse
<1>2. ConfigShape' /\ Chain'
  BY SameFetches DEF Course
<1>3. N \in Nat /\ 1 .. N \subseteq DOMAIN fetched
      /\ fetched # << >> => old \in Nat /\ 1 .. old \subseteq DOMAIN fetched
  BY FetchedLength
<1>4. Len(fetched)' = N /\ fetched' = fetched /\ state' = state /\ body' = body
  OBVIOUS
<1>5. Asking' => Knows(state, Len(fetched))' /\ Due(state, Len(fetched))'
  <2> HIDE DEF N
  <2>1. Asking => Knows(state, N) /\ Due(state, N)
    BY DEF Course, N
  <2> QED BY <1>1, <1>3, <1>4, <2>1
<1>6. Answered' => /\ fetched # << >>
                   /\ Knows(state, Len(fetched) - 1)' /\ Due(state, Len(fetched) - 1)'
  <2>1. Answered => fetched # << >> /\ Knows(state, old) /\ Due(state, old)
    BY DEF Course
  <2>2. (Len(fetched) - 1)' = old
    BY <1>4
  <2> HIDE DEF old
  <2> QED BY <1>1, <1>3, <2>1, <2>2
<1> QED BY <1>1, <1>2, <1>4, <1>5, <1>6 DEF Course, HasMore

(* The planner goes on from what it knows. *)
LEMMA ProceedCourse ==
  ASSUME Shape, Course, NEW st, StateShape(st), Settling(st), UpToStep(st),
         Proceed(st)
  PROVE  Course'
<1> DEFINE n == nextStep(st)
           N == Len(fetched)
<1>0. ConfigShape
  BY DEF Course
<1>1. /\ n.found => Knows(n.state, N) /\ Due(n.state, N)
      /\ ~n.found => /\ Plans(n.state.results, Enabled)
                     /\ fetched # << >> => ~HasMore(fetched[N])
  BY <1>0, NextCourse
<1>2. Prepare(n.state, IF n.found THEN "emit" ELSE "finish")
  BY DEF Proceed
<1> HIDE DEF n
<1>3. /\ UNCHANGED <<scenario, fetched, body>> /\ pc' = "planning"
      /\ state' = n.state
      /\ goal' = IF n.found THEN "emit" ELSE "finish"
  BY <1>2 DEF Prepare, writerVars
<1>4. /\ \A k \in Nat : 1 .. k \subseteq DOMAIN fetched =>
           (Knows(n.state, k) /\ Due(n.state, k) => (Knows(state, k) /\ Due(state, k))')
      /\ Plans(n.state.results, Enabled) => Plans(state.results, Enabled)'
  <2>1. ASSUME NEW x, x = n.state PROVE state' = x
    BY <2>1, <1>3
  <2> QED BY <1>3, <2>1, SameCourse
<1>5. ConfigShape' /\ Chain'
  BY <1>3, SameFetches DEF Course
<1>6. N \in Nat /\ 1 .. N \subseteq DOMAIN fetched /\ Len(fetched)' = N
  BY <1>3, FetchedLength
<1>7. CASE n.found
  <2>1. Asking' /\ ~Answered' /\ ~Covered'
    BY <1>3, <1>7 DEF Asking, Answered, Covered, Planning
  <2> HIDE DEF N
  <2>2. Knows(state, Len(fetched))' /\ Due(state, Len(fetched))'
    BY <1>1, <1>4, <1>6, <1>7
  <2> QED BY <1>5, <2>1, <2>2 DEF Course
<1>8. CASE ~n.found
  <2>1. ~Asking' /\ ~Answered' /\ Covered'
    BY <1>3, <1>8 DEF Asking, Answered, Covered, Planning
  <2>2. Plans(state.results, Enabled)'
    BY <1>1, <1>4, <1>8
  <2>3. (fetched # << >> => ~HasMore(fetched[Len(fetched)]))'
    BY <1>1, <1>3, <1>8 DEF HasMore
  <2> QED BY <1>5, <2>1, <2>2, <2>3 DEF Course
<1> QED BY <1>7, <1>8

LEMMA StartCourse == Shape /\ Course /\ Start => Course'
<1> SUFFICES ASSUME Shape, Course, Start PROVE Course'
  OBVIOUS
<1>1. /\ Proceed(EmptyState) /\ fetched = << >> /\ StateShape(EmptyState)
  BY EmptyStateShape DEF Start, Shape, Types
<1>2. Settling(EmptyState) /\ UpToStep(EmptyState)
  BY <1>1 DEF Settling, UpToStep
<1> QED BY <1>1, <1>2, ProceedCourse

LEMMA ConsumeCourse == Shape /\ Course /\ Consume => Course'
<1> SUFFICES ASSUME Shape, Course, Consume PROVE Course'
  OBVIOUS
<1> DEFINE b == parseCatalog(op, state.step.kind, body)
           st == consumeFetch(state, b)
           N == Len(fetched)
<1>1. CASE Readable(state, b) /\ Proceed(st)
  <2>1. Planning("consume") /\ Answered /\ StateShape(state) /\ ScenarioShape
    BY DEF Consume, Ready, Planning, Answered, Shape, Types
  <2>2. /\ fetched # << >> /\ Knows(state, N - 1) /\ Due(state, N - 1)
        /\ fetched[N].channel = state.step.channel /\ fetched[N].kind = state.step.kind
        /\ fetched[N].body = body
    BY <2>1 DEF Course
  <2>3. \A i \in DOMAIN fetched : fetched[i].channel <= state.step.channel
    BY <2>1 DEF Shape, Progress
  <2>4. state.step.kind \in CatalogKind \cup PublicKind
    BY <2>2, ReadPage, FetchedBodies
  <2>5. b = parseCatalog(op, state.step.kind, fetched[N].body)
    BY <2>2
  <2> HIDE DEF b
  <2>6. StateShape(st) /\ st.step.channel = state.step.channel
    BY <2>1, <2>4, ConsumeFetch
  <2>7. Settling(st)
    BY <1>1, <2>1, <2>2, <2>5, ConsumeSettles
  <2>8. UpToStep(st)
    BY <2>3, <2>6 DEF UpToStep
  <2> HIDE DEF st
  <2> QED BY <1>1, <2>6, <2>7, <2>8, ProceedCourse
<1>2. CASE Refuse("planner", "catalog")
  <2>1. UNCHANGED <<scenario, state, body, fetched>> /\ pc' = "refused"
    BY <1>2 DEF Refuse, plannerVars, writerVars
  <2>2. ~Asking' /\ ~Answered' /\ ~Covered'
    BY <2>1 DEF Asking, Answered, Covered, Planning
  <2> QED BY <2>1, <2>2, IdleCourse
<1> QED BY <1>1, <1>2 DEF Consume

(* What JSON keeps of an operator's levels: whether there are any. *)
KeptOverride(o) == [o EXCEPT !.given = o.given /\ o.levels # << >>]
KeptResult(r) == [r EXCEPT !.overrides = {KeptOverride(o) : o \in r.overrides}]

(* It keeps the overrides of a channel, but for lists that are empty. *)
LEMMA RoundTripPlans ==
  ASSUME ConfigShape, NEW results, NEW channels, channels \subseteq DOMAIN config,
         Plans(results, channels),
         NEW next, DOMAIN next = DOMAIN results, next \in Seq(Range(next)),
         \A i \in DOMAIN results : next[i] = KeptResult(results[i])
  PROVE  Plans(next, channels)
<1>1. ASSUME NEW i \in DOMAIN results
      PROVE  next[i].channel = results[i].channel /\ IsResult(next[i]) /\ Whole(next[i])
  <2> DEFINE r == results[i]
             c == r.channel
             spec == config[c]
             kept == {KeptOverride(o) : o \in r.overrides}
             q == KeptResult(r)
  <2>1. /\ r \in [channel : {r.channel}, overrides : {r.overrides}, patched : {r.patched},
                  upstream : {r.upstream}, modelparams : {r.modelparams},
                  modelsdev : {r.modelsdev}]
        /\ Whole(r) /\ c \in DOMAIN config
    BY DEF Plans, Range, IsResult
  <2>2. \A o \in spec.overrides :
          o \in [model : {o.model}, given : BOOLEAN, levels : {o.levels}]
    BY <2>1 DEF ConfigShape
  <2> HIDE DEF r, c, spec
  <2>3. q = [r EXCEPT !.overrides = kept]
    BY Zenon DEF KeptResult
  <2> HIDE DEF kept, q
  <2>4. /\ q.channel = r.channel /\ q.patched = r.patched /\ q.upstream = r.upstream
        /\ q.modelparams = r.modelparams /\ q.modelsdev = r.modelsdev
        /\ q.overrides = kept
        /\ q["modelparams"] = r["modelparams"] /\ q["modelsdev"] = r["modelsdev"]
        /\ IsResult(q)
    BY <2>1, <2>3 DEF IsResult
  <2>5. q.overrides = spec.overrides \/ GivesNone(spec)
    <3>1. CASE r.overrides = spec.overrides /\ ~GivesNone(spec)
      <4>1. ASSUME NEW o \in spec.overrides PROVE KeptOverride(o) = o
        <5>1. o \in [model : {o.model}, given : BOOLEAN, levels : {o.levels}]
              /\ ~(o.given /\ o.levels = << >>)
          BY <2>2, <3>1 DEF GivesNone
        <5> QED BY <5>1 DEF KeptOverride
      <4>2. kept = spec.overrides
        BY <3>1, <4>1 DEF kept
      <4> QED BY <2>4, <4>2
    <3> QED BY <2>1, <3>1 DEF Whole, c, spec
  <2>6. \A kind \in PublicKind : q[kind] = r[kind]
    BY <2>4 DEF PublicKind
  <2>7. Patches(q)
    BY <2>1, <2>4 DEF Whole, Patches
  <2>8. Whole(q)
    BY <2>1, <2>4, <2>5, <2>6, <2>7 DEF Whole, c, spec
  <2>9. next[i] = q
    BY DEF q, r
  <2> QED BY <2>4, <2>8, <2>9 DEF r
<1>2. {r.channel : r \in Range(next)} = {r.channel : r \in Range(results)}
  BY <1>1 DEF Range
<1> QED BY <1>1, <1>2 DEF Plans

(* What is known comes back in the continuation. *)
LEMMA RoundTripCourse ==
  ASSUME ConfigShape, NEW st, StateShape(st), NEW n, Knows(st, n), Due(st, n)
  PROVE  Knows(RoundTrip(st), n) /\ Due(RoundTrip(st), n)
<1> DEFINE next == RoundTrip(st)
           old == st.results
           back == [i \in DOMAIN old |-> KeptResult(old[i])]
           channels == Before(st.step.channel)
<1>1. next = [st EXCEPT !.results = back]
  BY Zenon DEF RoundTrip, KeptResult, KeptOverride
<1> HIDE DEF back
<1>2. /\ next.step = st.step /\ next.upstream = st.upstream
      /\ next.bound = st.bound /\ next.cursors = st.cursors /\ next.results = back
      /\ next["modelparams"] = st["modelparams"]
      /\ next["modelsdev"] = st["modelsdev"]
  <2>1. /\ next.step = st.step /\ next.upstream = st.upstream
        /\ next.bound = st.bound /\ next.cursors = st.cursors /\ next.results = back
        /\ next.modelparams = st.modelparams /\ next.modelsdev = st.modelsdev
        /\ IsState(next)
    BY <1>1 DEF StateShape, IsState
  <2> HIDE DEF next
  <2> QED BY <2>1, StateFields DEF StateShape
<1> HIDE DEF next
<1>3. \A kind \in PublicKind : next[kind] = st[kind]
  BY <1>2 DEF PublicKind
<1>4. Plans(old, channels) /\ channels \subseteq DOMAIN config
  BY DEF Knows, Before
<1>5. DOMAIN back = DOMAIN old /\ back \in Seq(Range(back))
  <2>1. DOMAIN back = DOMAIN old /\ back = [i \in DOMAIN old |-> back[i]]
    BY DEF back
  <2>2. back \in [DOMAIN old -> Range(back)]
    BY <2>1 DEF Range
  <2>3. old \in Seq(Range(old))
    BY <1>4 DEF Plans
  <2>4. PICK k \in Nat : DOMAIN old = 1 .. k
    BY <2>3
  <2>5. ASSUME NEW S, back \in [1 .. k -> S] PROVE back \in Seq(S)
    BY <2>5
  <2> QED BY <2>1, <2>2, <2>4, <2>5
<1>6. \A i \in DOMAIN old :
        back[i] = KeptResult(old[i])
  BY Zenon DEF back
<1> HIDE DEF old, channels
<1>7. Plans(back, channels)
  BY <1>4, <1>5, <1>6, RoundTripPlans
<1>8. Knows(next, n)
  BY <1>2, <1>3, <1>7 DEF Knows, Sources, Bound, Upstream, Cursors, channels
<1>9. Due(next, n)
  BY <1>2, <1>3 DEF Due
<1> QED BY <1>8, <1>9 DEF next

LEMMA EmitCourse == Shape /\ Course /\ Emit => Course'
<1> SUFFICES ASSUME Shape, Course, Emit PROVE Course'
  OBVIOUS
<1>1. CASE Refuse("planner", "channel")
  <2>1. UNCHANGED <<scenario, state, body, fetched>> /\ pc' = "refused"
    BY <1>1 DEF Refuse, plannerVars, writerVars
  <2>2. ~Asking' /\ ~Answered' /\ ~Covered'
    BY <2>1 DEF Asking, Answered, Covered, Planning
  <2> QED BY <2>1, <2>2, IdleCourse
<1>2. CASE ~Refuse("planner", "channel")
  <2>1. /\ state' \in {state, RoundTrip(state)} /\ pc' = "offered"
        /\ UNCHANGED <<scenario, body, fetched>> /\ Planning("emit")
    BY <1>2 DEF Emit, Ready, Planning
  <2>2. Asking /\ Asking' /\ ~Answered' /\ ~Covered'
    BY <2>1 DEF Asking, Answered, Covered, Planning
  <2> DEFINE N == Len(fetched)
  <2>3. Knows(state, N) /\ Due(state, N) /\ ConfigShape
    BY <2>2 DEF Course
  <2>4. N \in Nat /\ 1 .. N \subseteq DOMAIN fetched /\ Len(fetched)' = N
    BY <2>1, FetchedLength
  <2>5. ConfigShape' /\ Chain'
    BY <2>1, SameFetches DEF Course
  <2> HIDE DEF N
  <2>6. ASSUME NEW st, st \in {state, RoundTrip(state)}, state' = st, NEW k, k = N
        PROVE  (Knows(state, k) /\ Due(state, k))'
    <3>1. Knows(st, N) /\ Due(st, N)
      <4>1. CASE st = state
        BY <2>3, <4>1
      <4>2. CASE st = RoundTrip(state)
        BY <2>3, <4>2, RoundTripCourse DEF Shape, Types
      <4> QED BY <2>6, <4>1, <4>2
    <3> QED BY <2>1, <2>4, <2>6, <3>1, SameCourse
  <2>7. \A k : k = N => (Knows(state, k) /\ Due(state, k))'
    BY <2>1, <2>6
  <2>8. Knows(state, Len(fetched))' /\ Due(state, Len(fetched))'
    BY <2>4, <2>7
  <2> QED BY <2>2, <2>5, <2>8 DEF Course
<1> QED BY <1>1, <1>2

(* The steps in which the planner and the Writer learn nothing of the catalogs. *)
LEMMA RefuseCourse ==
  ASSUME Shape, Course, NEW who, NEW why, Refuse(who, why)
  PROVE  Course'
<1>1. UNCHANGED <<scenario, state, body, fetched>> /\ pc' = "refused"
  BY DEF Refuse, plannerVars, writerVars
<1>2. ~Asking' /\ ~Answered' /\ ~Covered'
  BY <1>1 DEF Asking, Answered, Covered, Planning
<1> QED BY <1>1, <1>2, IdleCourse

LEMMA StillCourse ==
  ASSUME Shape, Course, UNCHANGED <<scenario, pc, state, goal, body, fetched>>
  PROVE  Course'
<1>1. Asking' = Asking /\ Answered' = Answered /\ Covered' = Covered
  BY DEF Asking, Answered, Covered, Planning
<1> QED BY <1>1, IdleCourse

LEMMA WaitingCourse ==
  ASSUME Shape, Course,
         \/ ListAuths \/ GetRuntime \/ GetPhysical \/ HostFails \/ Continue
         \/ Validate \/ FetchFails \/ Finish \/ Ended
         \/ \E a \in AuthIndex : ChangeAuth(a)
         \/ UNCHANGED vars
  PROVE  Course'
<1>1. CASE \E who, why : Refuse(who, why)
  BY <1>1, RefuseCourse
<1>2. CASE UNCHANGED <<scenario, pc, state, goal, body, fetched>>
  BY <1>2, StillCourse
<1>3. CASE ListAuths
  BY <1>2, <1>3 DEF ListAuths, writerVars
<1>4. CASE GetRuntime
  BY <1>1, <1>2, <1>4 DEF GetRuntime, writerVars
<1>5. CASE GetPhysical
  BY <1>1, <1>2, <1>5 DEF GetPhysical, writerVars
<1>6. CASE HostFails
  BY <1>1, <1>6 DEF HostFails
<1>7. CASE Continue
  <2>1. CASE Prepare(state, "consume")
    <3>1. /\ UNCHANGED <<scenario, state, body, fetched>> /\ pc' = "planning"
          /\ goal' = "consume"
      BY <2>1 DEF Prepare, writerVars
    <3>2. Answered /\ ~Asking' /\ ~Covered'
      BY <1>7, <3>1 DEF Continue, Asking, Answered, Covered, Planning
    <3> QED BY <3>1, <3>2, IdleCourse
  <2> QED BY <1>1, <1>7, <2>1 DEF Continue
<1>8. CASE Validate
  <2>1. CASE ~\E who, why : Refuse(who, why)
    <3>1. /\ UNCHANGED <<scenario, state, body, fetched>>
          /\ pc = "offered" /\ pc' = "fetching"
      BY <1>8, <2>1 DEF Validate, plannerVars
    <3>2. Asking /\ ~Answered' /\ ~Covered'
      BY <3>1 DEF Asking, Answered, Covered, Planning
    <3> QED BY <3>1, <3>2, IdleCourse
  <2> QED BY <1>1, <2>1
<1>9. CASE FetchFails
  BY <1>1, <1>9 DEF FetchFails
<1>10. CASE Finish
  <2>1. /\ UNCHANGED <<scenario, state, body, fetched>>
        /\ Planning("finish") /\ pc' = "proposed"
    BY <1>10 DEF Finish, Ready, Planning, plannerVars, writerVars
  <2>2. Covered /\ ~Asking' /\ ~Answered'
    BY <2>1 DEF Asking, Answered, Covered, Planning
  <2> QED BY <2>1, <2>2, IdleCourse
<1>11. CASE Ended \/ UNCHANGED vars
  BY <1>2, <1>11 DEF Ended, vars, plannerVars, writerVars
<1>12. CASE \E a \in AuthIndex : ChangeAuth(a)
  BY <1>2, <1>12 DEF ChangeAuth, plannerVars, writerVars
<1> QED BY <1>3, <1>4, <1>5, <1>6, <1>7, <1>8, <1>9, <1>10, <1>11, <1>12

(* A credential is bound to the present channel, which needs one. *)
LEMMA BindingCourse ==
  ASSUME ScenarioShape, NEW st, StateShape(st), st.step.kind \in CatalogKind,
         NEW m, NEW n, Knows(st, n), Due(st, n),
         NEW next,
         next = [st EXCEPT !.step.auth = m.index,
                           !.bound = BindTo(@, st.step.channel, m)]
  PROVE  Knows(next, n) /\ Due(next, n)
<1> DEFINE c == st.step.channel
           bound == BindTo(st.bound, c, m)
<1>1. DOMAIN bound = DOMAIN st.bound \cup {c}
  BY DEF BindTo
<1>2. next = [st EXCEPT !.step.auth = m.index, !.bound = bound]
  OBVIOUS
<1> HIDE DEF bound
<1>3. /\ next.step = [st.step EXCEPT !.auth = m.index] /\ next.upstream = st.upstream
      /\ next.bound = bound /\ next.cursors = st.cursors /\ next.results = st.results
      /\ next.modelparams = st.modelparams /\ next.modelsdev = st.modelsdev
      /\ IsState(next)
  BY <1>2 DEF StateShape, IsState, IsStep
<1>4. /\ next.step.kind = st.step.kind /\ next.step.channel = c
      /\ next.step.after = st.step.after
  BY <1>3 DEF StateShape, IsState, IsStep
<1>5. \A kind \in PublicKind : next[kind] = st[kind]
  BY <1>3, StateFields DEF PublicKind, StateShape
<1>6. config[c].enabled /\ credentialFetchRequired(config[c]) /\ c <= c
  <2>1. c \in Nat
    BY DEF StateShape, StepShape, ScenarioShape
  <2> QED BY <2>1 DEF Knows, Due
<1>7. Bound(next) /\ \A k \in DOMAIN next.bound : k <= c
  BY <1>1, <1>3, <1>6 DEF Knows, Bound
<1>8. Knows(next, n)
  BY <1>3, <1>4, <1>5, <1>7 DEF Knows, Sources, Upstream, Cursors
<1>9. Due(next, n)
  BY <1>4, <1>5 DEF Due
<1> QED BY <1>8, <1>9

LEMMA ResolveCourse == Shape /\ Course /\ Resolve => Course'
<1> SUFFICES ASSUME Shape, Course, Resolve PROVE Course'
  OBVIOUS
<1>1. CASE Refuse("planner", "credential")
  BY <1>1, RefuseCourse
<1>2. CASE ~Refuse("planner", "credential")
  <2> DEFINE check == lookup.check
             c == check.channel
  <2>1. PICK m :
          /\ UNCHANGED <<scenario, pc, goal, writerVars>>
          /\ check \in todo /\ pc = "planning"
          /\ state' = IF IsNew(check)
                      THEN [state EXCEPT !.step.auth = m.index,
                                         !.bound = BindTo(@, c, m)]
                      ELSE state
    BY <1>2, ResolveFinds
  <2>2. UNCHANGED <<scenario, pc, goal, body, fetched>>
    BY <2>1 DEF writerVars
  <2>3. CASE ~IsNew(check)
    BY <2>1, <2>2, <2>3, StillCourse
  <2>4. CASE IsNew(check)
    <3>1. OfStep(check)
      BY <2>1, <2>4, CheckIsNew
    <3>2. c = state.step.channel /\ goal = "emit" /\ state.step.kind \in CatalogKind
      BY <3>1 DEF OfStep, NewCheck, Check
    <3>3. state' = [state EXCEPT !.step.auth = m.index,
                                 !.bound = BindTo(@, state.step.channel, m)]
      BY <2>1, <2>4, <3>2
    <3>4. Asking /\ Asking' /\ ~Answered' /\ ~Covered'
      BY <2>1, <2>2, <3>2 DEF Asking, Answered, Covered, Planning
    <3> DEFINE N == Len(fetched)
    <3>5. Knows(state, N) /\ Due(state, N) /\ StateShape(state) /\ ScenarioShape
      BY <3>4 DEF Course, Shape, Types
    <3>6. N \in Nat /\ 1 .. N \subseteq DOMAIN fetched /\ Len(fetched)' = N
      BY <2>2, FetchedLength
    <3>7. ConfigShape' /\ Chain'
      BY <2>2, SameFetches DEF Course
    <3> HIDE DEF N
    <3>8. ASSUME NEW st, state' = st, NEW k, k = N
          PROVE  (Knows(state, k) /\ Due(state, k))'
      <4>1. st = [state EXCEPT !.step.auth = m.index,
                               !.bound = BindTo(@, state.step.channel, m)]
        BY <3>3, <3>8
      <4>2. Knows(st, N) /\ Due(st, N)
        BY <3>2, <3>5, <4>1, BindingCourse
      <4> QED BY <2>2, <3>6, <3>8, <4>2, SameCourse
    <3>9. \A k : k = N => (Knows(state, k) /\ Due(state, k))'
      BY <3>8
    <3>10. Knows(state, Len(fetched))' /\ Due(state, Len(fetched))'
      BY <3>6, <3>9
    <3> QED BY <3>4, <3>7, <3>10 DEF Course
  <2> QED BY <2>3, <2>4
<1> QED BY <1>1, <1>2

(* One more catalog follows those before it. *)
LEMMA FetchChain ==
  ASSUME Shape, Fetch, Chain,
         Knows(state, Len(fetched)), Due(state, Len(fetched))
  PROVE  Chain'
<1> DEFINE N == Len(fetched)
           c == state.step.channel
           kind == state.step.kind
           last == fetched'[N + 1]
<1>1. /\ N \in Nat /\ DOMAIN fetched = 1 .. N
      /\ DOMAIN fetched' = 1 .. N + 1
      /\ \A i \in 1 .. N : fetched'[i] = fetched[i]
      /\ last.channel = c /\ last.kind = kind
  <2>1. fetched \in Seq(FetchRecord)
    BY DEF Shape, Types
  <2>2. N \in Nat /\ DOMAIN fetched = 1 .. N
    BY <2>1
  <2>3. /\ Len(fetched') = N + 1 /\ DOMAIN fetched' = DOMAIN fetched \cup {N + 1}
        /\ \A i \in DOMAIN fetched : fetched'[i] = fetched[i]
        /\ last.channel = c /\ last.kind = kind
    BY FetchAdds
  <2> HIDE DEF N, last, c, kind
  <2>4. DOMAIN fetched' = 1 .. N + 1
    BY <2>2, <2>3
  <2> QED BY <2>2, <2>3, <2>4
<1>2. op' = op /\ config' = config
  BY SameScenario DEF Fetch
<1>3. /\ kind \in CatalogKind => kind = catalogKind(config[c])
      /\ state.step.after # Empty => kind = "claude_models"
      /\ "claude_models" \in CatalogKind /\ CatalogKind \cap PublicKind = {}
  BY DEF Shape, Types, StateShape, StepShape, CatalogKind, PublicKind
<1>4. /\ kind \in CatalogKind /\ state.step.after = Empty => PagesUpTo(c, N) = {}
      /\ kind \in PublicKind => ~state[kind].ok
      /\ N > 0 => (HasMore(fetched[N]) <=> state.step.after # Empty)
      /\ state.step.after # Empty =>
           N > 0 /\ fetched[N].kind \in CatalogKind /\ fetched[N].channel = c
      /\ \A k \in PublicKind : (\E i \in 1 .. N : fetched[i].kind = k) => state[k].ok
  BY DEF Due, Knows, Sources
<1> HIDE DEF N, c, kind, last
<1>5. ASSUME NEW i \in 1 .. N + 1
      PROVE  i \in 1 .. N \/ (i = N + 1 /\ fetched'[i] = last)
  BY <1>1 DEF last
<1>6. ASSUME NEW i \in 1 .. N + 1, fetched'[i].kind \in CatalogKind
      PROVE  fetched'[i].kind = catalogKind(config[fetched'[i].channel])
  <2>1. CASE i \in 1 .. N
    BY <1>1, <1>6, <2>1 DEF Chain
  <2>2. CASE fetched'[i] = last
    BY <1>1, <1>3, <1>6, <2>2
  <2> QED BY <1>5, <2>1, <2>2
<1>7. ASSUME NEW i \in 1 .. N + 1, NEW j \in 1 .. N + 1,
             fetched'[i].kind \in PublicKind, fetched'[i].kind = fetched'[j].kind
      PROVE  i = j
  <2>1. CASE i \in 1 .. N /\ j \in 1 .. N
    BY <1>1, <1>7, <2>1 DEF Chain
  <2>2. CASE i = N + 1 /\ j \in 1 .. N
    <3>1. kind \in PublicKind /\ fetched[j].kind = kind
      BY <1>1, <1>5, <1>7, <2>2 DEF last
    <3> QED BY <1>4, <2>2, <3>1
  <2>3. CASE i \in 1 .. N /\ j = N + 1
    <3>1. kind \in PublicKind /\ fetched[i].kind = kind
      BY <1>1, <1>5, <1>7, <2>3 DEF last
    <3> QED BY <1>4, <2>3, <3>1
  <2> QED BY <1>5, <2>1, <2>2, <2>3
<1>8. ASSUME NEW i \in 1 .. N + 1, i + 1 \in 1 .. N + 1
      PROVE  HasMore(fetched'[i]) <=>
               /\ fetched'[i].kind \in CatalogKind
               /\ fetched'[i + 1].kind \in CatalogKind
               /\ fetched'[i].channel = fetched'[i + 1].channel
  <2>1. CASE i + 1 \in 1 .. N
    <3>1. i \in 1 .. N
      BY <1>1, <2>1
    <3> QED BY <1>1, <2>1, <3>1 DEF Chain
  <2>2. CASE i + 1 = N + 1
    <3>1. i = N /\ N > 0 /\ i \in 1 .. N
      BY <1>1, <2>2
    <3>2. fetched'[i] = fetched[N] /\ fetched'[i + 1] = last
      BY <1>1, <2>2, <3>1 DEF last
    <3>3. kind \in CatalogKind /\ fetched[N].kind \in CatalogKind /\ fetched[N].channel = c
            => state.step.after # Empty
      <4>1. fetched[N].kind \in CatalogKind /\ fetched[N].channel = c => N \in PagesUpTo(c, N)
        <5>1. N \in DOMAIN fetched /\ N <= N
          BY <1>1, <3>1
        <5> QED BY <5>1 DEF PagesUpTo, Pages
      <4> QED BY <1>4, <4>1
    <3> QED BY <1>1, <1>3, <1>4, <3>1, <3>2, <3>3
  <2>3. i + 1 \in 1 .. N \/ i + 1 = N + 1
    BY <1>1, <1>8
  <2> QED BY <2>1, <2>2, <2>3
<1> QED BY <1>1, <1>2, <1>6, <1>7, <1>8 DEF Chain, HasMore

LEMMA FetchCourse == Shape /\ Course /\ Fetch => Course'
<1> SUFFICES ASSUME Shape, Course, Fetch PROVE Course'
  OBVIOUS
<1> DEFINE N == Len(fetched)
           c == state.step.channel
<1>1. /\ pc = "fetching" /\ pc' = "continue" /\ UNCHANGED <<scenario, state>>
      /\ Asking /\ ~Asking' /\ Answered' /\ ~Covered'
  BY DEF Fetch, plannerVars, Asking, Answered, Covered, Planning
<1>2. Knows(state, N) /\ Due(state, N) /\ Chain /\ ConfigShape
  BY <1>1 DEF Course
<1>3. Chain'
  BY <1>2, FetchChain
<1>4. ConfigShape'
  <2>1. op' = op /\ config' = config
    BY <1>1, SameScenario
  <2> QED BY <1>2, <2>1 DEF ConfigShape
<1>5. /\ fetched' # << >> /\ Len(fetched)' = N + 1
      /\ fetched'[N + 1].channel = c /\ fetched'[N + 1].kind = state.step.kind
      /\ N + 1 \notin DOMAIN fetched /\ DOMAIN fetched' = DOMAIN fetched \cup {N + 1}
      /\ \A i \in DOMAIN fetched : fetched'[i] = fetched[i]
  BY FetchAdds
<1>6. N \in Nat /\ 1 .. N \subseteq DOMAIN fetched /\ fetched \in Seq(FetchRecord)
  BY FetchedLength DEF Shape, Types
<1>7. fetched'[N + 1].body = body'
  <2>1. PICK b : /\ body' = b
                 /\ fetched' = Append(fetched,
                      [channel |-> state.step.channel, kind |-> desc.kind, body |-> b,
                       by |-> IF desc.auth = Empty THEN NoIdentity
                              ELSE Identity(desc.auth, auths[desc.auth]),
                       changes |-> changes])
    BY DEF Fetch
  <2> DEFINE by == IF desc.auth = Empty THEN NoIdentity
                   ELSE Identity(desc.auth, auths[desc.auth])
             record == [channel |-> state.step.channel, kind |-> desc.kind, body |-> b,
                        by |-> by, changes |-> changes]
  <2>2. record.body = b
    OBVIOUS
  <2>3. fetched' = Append(fetched, record)
    BY <2>1
  <2> HIDE DEF record
  <2>4. Append(fetched, record)[Len(fetched) + 1] = record
    BY <1>6
  <2> QED BY <2>1, <2>2, <2>3, <2>4
<1> HIDE DEF N
<1>8. Kept
  BY <1>1, <1>5 DEF Kept
<1>9. /\ \A k : k # c \/ state.step.kind \notin CatalogKind => Pages(k)' = Pages(k)
      /\ \A k, n : n = N => PagesUpTo(k, n)' = PagesUpTo(k, n)
  <2>1. \A k : /\ Pages(k) \subseteq Pages(k)'
               /\ \A i \in Pages(k)' : i \in Pages(k)
                    \/ (i = N + 1 /\ k = c /\ state.step.kind \in CatalogKind)
    BY <1>5, FetchPages
  <2>2. \A k : k # c \/ state.step.kind \notin CatalogKind => Pages(k)' = Pages(k)
    BY <2>1
  <2>3. ASSUME NEW k, NEW n, n = N PROVE PagesUpTo(k, n)' = PagesUpTo(k, n)
    <3>1. ~(N + 1 <= n)
      BY <1>6, <2>3
    <3>2. {i \in Pages(k)' : i <= n} = {i \in Pages(k) : i <= n}
      BY <2>1, <3>1
    <3> QED BY <3>2 DEF PagesUpTo
  <2> QED BY <2>2, <2>3
<1>10. CatalogKind \cap PublicKind = {}
  BY DEF CatalogKind, PublicKind
<1>11. ASSUME NEW st, st = state, NEW n, n = N PROVE (Knows(state, n) /\ Due(state, n))'
  <2>1. Knows(st, n) /\ Due(st, n) /\ state' = st /\ n \in Nat
        /\ 1 .. n \subseteq DOMAIN fetched
    BY <1>1, <1>2, <1>6, <1>11
  <2>2. \A k \in Before(st.step.channel) : Pages(k)' = Pages(k)
    <3>1. \A k \in Before(c) : k < c /\ k \in Nat
      BY DEF Before, Shape, Types, ScenarioShape
    <3>2. \A k \in Before(c) : k # c
      BY <3>1
    <3> QED BY <1>9, <1>11, <3>2
  <2>3. st.step.kind \in PublicKind => Pages(st.step.channel)' = Pages(st.step.channel)
    BY <1>9, <1>10, <1>11
  <2>4. PagesUpTo(st.step.channel, n)' = PagesUpTo(st.step.channel, n)
    BY <1>9, <1>11
  <2>5. Knows(st, n)' /\ Due(st, n)'
    BY <1>8, <2>1, <2>2, <2>3, <2>4, KeptCourse
  <2> QED BY <2>1, <2>5
<1>12. (Len(fetched) - 1)' = N
  BY <1>5, <1>6
<1>13. Knows(state, Len(fetched) - 1)' /\ Due(state, Len(fetched) - 1)'
  BY <1>11, <1>12
<1> QED BY <1>1, <1>3, <1>4, <1>5, <1>7, <1>13 DEF Course, c

(* Course is kept by every step. *)
LEMMA CourseIsInductive == Shape /\ Course /\ [Next]_vars => Course'
<1> SUFFICES ASSUME Shape, Course, [Next]_vars PROVE Course'
  OBVIOUS
<1>1. CASE Start \/ Consume \/ Emit \/ Resolve \/ Fetch
  BY <1>1, StartCourse, ConsumeCourse, EmitCourse, ResolveCourse, FetchCourse
<1>2. CASE \/ ListAuths \/ GetRuntime \/ GetPhysical \/ HostFails \/ Continue
           \/ Validate \/ FetchFails \/ Finish \/ Ended
           \/ \E a \in AuthIndex : ChangeAuth(a)
           \/ UNCHANGED vars
  BY <1>2, WaitingCourse
<1> QED BY <1>1, <1>2 DEF Next

(* Nothing is fetched at first, and the configuration is one that was taken. *)
LEMMA InitConfig == Init => ConfigShape
<1> SUFFICES ASSUME Init PROVE ConfigShape
  OBVIOUS
<1>1. PICK s \in Scenario : /\ parseConfig(s.op, s.config)
                            /\ scenario = [s EXCEPT !.config = compiled(@)]
  BY DEF Init
<1>2. /\ s \in [op : Operation, config : Seq(Channel),
               snapshot : [Kind -> Seq(Entry)]]
      /\ s.op = "auto_pull" => \A c \in DOMAIN s.config : ~s.config[c].codex
  BY ScenarioAssumption
<1>3. op = s.op /\ config = compiled(s.config)
  BY <1>1, <1>2 DEF op, config
<1>4. DOMAIN config = DOMAIN s.config
  BY <1>3 DEF compiled
<1>5. IsFiniteSet(DOMAIN config) /\ \E n \in Nat : DOMAIN config = 1 .. n
  <2>1. PICK k \in Nat : DOMAIN s.config = 1 .. k
    BY <1>2
  <2>2. IsFiniteSet(1 .. k)
    <3>1. 1 \in Int /\ k \in Int
      OBVIOUS
    <3> QED BY <3>1, FS_Interval, Zenon
  <2> QED BY <1>4, <2>1, <2>2
<1>6. ASSUME NEW c \in DOMAIN config
      PROVE  LET spec == config[c]
                 old == s.config[c] IN
             /\ spec.kind = old.kind /\ spec.label = old.label /\ spec.base = old.base
             /\ spec.index = old.index /\ spec.codex = old.codex
             /\ \A o \in spec.overrides :
                  o \in [model : {o.model}, given : BOOLEAN, levels : {o.levels}]
  <2> DEFINE old == s.config[c]
             normal(o) == [o EXCEPT !.levels = normalizeEfforts(o.levels)]
             overrides == {normal(o) : o \in old.overrides}
  <2>1. config[c] = [old EXCEPT !.overrides = overrides]
    BY <1>3, <1>4, Zenon DEF compiled
  <2>2. old \in Channel
    BY <1>2, <1>4
  <2>3. ASSUME NEW o \in overrides
        PROVE  o \in [model : {o.model}, given : BOOLEAN, levels : {o.levels}]
    <3>1. PICK x \in old.overrides : o = normal(x)
      OBVIOUS
    <3>2. x \in [model : STRING, given : BOOLEAN, levels : Seq(STRING)]
      BY <2>2 DEF Channel, Override
    <3> QED BY <3>1, <3>2
  <2> HIDE DEF overrides, old
  <2>4. /\ config[c].kind = old.kind /\ config[c].label = old.label
        /\ config[c].base = old.base /\ config[c].index = old.index
        /\ config[c].codex = old.codex
        /\ config[c].overrides = overrides
    BY <2>1, <2>2 DEF Channel
  <2> QED BY <2>3, <2>4 DEF old
<1>7. ASSUME NEW c \in DOMAIN config, NEW d \in DOMAIN config,
             selectorKey(config[c]) = selectorKey(config[d])
      PROVE  c = d
  <2>1. \A k \in DOMAIN config : selectorKey(config[k]) = selectorKey(s.config[k])
    BY <1>6 DEF selectorKey
  <2>2. selectorKey(s.config[c]) = selectorKey(s.config[d])
    BY <1>7, <2>1
  <2> QED BY <1>1, <1>4, <2>2 DEF parseConfig
<1>8. ASSUME NEW c \in DOMAIN config, op = "auto_pull" PROVE ~config[c].codex
  BY <1>2, <1>3, <1>4, <1>6, <1>8
<1> QED BY <1>5, <1>6, <1>7, <1>8 DEF ConfigShape

LEMMA InitCourse == Init => Course
<1> SUFFICES ASSUME Init PROVE Course
  OBVIOUS
<1>1. pc = "start" /\ fetched = << >> /\ ConfigShape
  BY InitConfig DEF Init
<1>2. ~Asking /\ ~Answered /\ ~Covered
  BY <1>1 DEF Asking, Answered, Covered, Planning
<1>3. Chain
  <2>1. DOMAIN fetched = {}
    BY <1>1
  <2> QED BY <2>1 DEF Chain
<1> QED BY <1>1, <1>2, <1>3 DEF Course

(* What Course says of a proposal. *)
LEMMA CourseCovers == Shape /\ Course => ProposalCoversChannels
<1> SUFFICES ASSUME Shape, Course, pc = "proposed" PROVE ProposalCoversChannels
  BY DEF ProposalCoversChannels
<1>1. /\ Plans(state.results, Enabled) /\ Chain
      /\ fetched # << >> => ~HasMore(fetched[Len(fetched)])
  BY DEF Course, Covered
<1>2. {r.channel : r \in Range(state.results)} = {c \in DOMAIN config : config[c].enabled}
  BY <1>1 DEF Plans, Enabled
<1>3. \A i, j \in DOMAIN state.results :
        i < j => state.results[i].channel < state.results[j].channel
  BY <1>1 DEF Plans
<1>4. ASSUME NEW c, NEW k \in Pages(c)
      PROVE  (k + 1 \in Pages(c)) <=> HasMore(fetched[k])
  <2>1. k \in DOMAIN fetched /\ fetched[k].channel = c /\ fetched[k].kind \in CatalogKind
    BY DEF Pages
  <2>2. CASE k + 1 \in DOMAIN fetched
    BY <1>1, <2>1, <2>2 DEF Chain, Pages
  <2>3. CASE k + 1 \notin DOMAIN fetched
    <3>1. k = Len(fetched) /\ fetched # << >>
      <4>1. fetched \in Seq(FetchRecord)
        BY DEF Shape, Types
      <4> QED BY <2>1, <2>3, <4>1
    <3> QED BY <1>1, <2>3, <3>1 DEF Pages
  <2> QED BY <2>2, <2>3
<1>5. ASSUME NEW i \in DOMAIN state.results
      PROVE  LET r == state.results[i]
                 c == r.channel
                 ids == NamesIn(Pages(c))
             IN  /\ (Pages(c) # {}) <=> credentialFetchRequired(config[c])
                 /\ DOMAIN r.upstream = IF op = "metadata" THEN ids
                                        ELSE filterIDs(ids, config[c])
                 /\ \A k \in Pages(c) : (k + 1 \in Pages(c)) <=> HasMore(fetched[k])
                 /\ \A kind \in PublicKind : HasSource(config[c], kind) =>
                      \E k \in DOMAIN fetched :
                        /\ fetched[k].kind = kind
                        /\ r[kind] = parseCatalog(op, kind, fetched[k].body)
  <2>1. Whole(state.results[i])
    BY <1>1 DEF Plans
  <2>2. \A S : Ids(S) = NamesIn(S)
    BY DEF Ids, Names, NamesIn
  <2> QED BY <1>4, <2>1, <2>2 DEF Whole, FromCatalog
<1>6. \A j, k \in DOMAIN fetched :
        fetched[j].kind \in PublicKind /\ fetched[j].kind = fetched[k].kind => j = k
  BY <1>1 DEF Chain
<1> QED BY <1>2, <1>3, <1>5, <1>6, Zenon DEF ProposalCoversChannels

(* A proposal plans every enabled channel once and in order, each from all the pages
   of its own catalog and of no other's, and from the public catalogs it names; a
   public catalog is fetched once for all channels (nextStep, consumeFetch). *)
THEOREM CoverageCorrect == Spec => []ProposalCoversChannels
<1>1. Init => Shape /\ Course
  BY InitShape, InitCourse
<1>2. Shape /\ Course /\ [Next]_vars => (Shape /\ Course)'
  BY ShapeIsInductive, CourseIsInductive
<1>3. Shape /\ Course => ProposalCoversChannels
  BY CourseCovers
<1> QED BY <1>1, <1>2, <1>3, PTL DEF Spec

-----------------------------------------------------------------------------
(* What there is when a planner has no cause to refuse. *)
LEMMA NoCause ==
  ASSUME ~ContinuationCause
  PROVE  LET c == state.step.channel
             read == Pages(c) \ {Len(fetched)} IN
         /\ op = "metadata" =>
              /\ ExactKeys(NamesIn(read))
              /\ desc.kind = "claude_models" => ExactKeys(CursorsOf(read))
              /\ \A i \in read : fetched[i].kind = "openai_models" =>
                   \A item \in Range(fetched[i].body.items) : ~Unfit(item)
              /\ \A i \in DOMAIN fetched \ {Len(fetched)} :
                   fetched[i].kind \in PublicKind => fetched[i].body.again
              /\ \A k \in Before(c) :
                   /\ ~GivesNone(config[k])
                   /\ ExactKeys({o.model : o \in config[k].overrides})
                   /\ HasSource(config[k], "modelparams") => ~LeavesOutOfOrder(config[k])
         /\ op = "auto_pull" =>
              \A k \in Before(c) : ~TooMany(filterIDs(NamesIn(Pages(k)), config[k]))
BY Zenon DEF ContinuationCause, CursorsOf, GivesNone, LeavesOutOfOrder

(* The pages the planner has read when a catalog has come. *)
LEMMA ReadPages ==
  ASSUME Shape, NEW c
  PROVE  PagesUpTo(c, Len(fetched) - 1) = Pages(c) \ {Len(fetched)}
<1>1. fetched \in Seq(FetchRecord)
  BY DEF Shape, Types
<1>2. \A i \in DOMAIN fetched : i <= Len(fetched) - 1 <=> i # Len(fetched)
  BY <1>1
<1> QED BY <1>2 DEF PagesUpTo, Pages

(* A planner takes the continuation it wrote, unless there is a cause. *)
LEMMA UpstreamFits ==
  ASSUME Shape, Course, pc = "continue", op = "metadata",
         desc.kind = state.step.kind, ~ContinuationCause
  PROVE  /\ validUpstreamState(state.upstream)
         /\ ExactKeys(DOMAIN state.upstream) /\ ExactKeys(state.cursors)
<1> DEFINE c == state.step.channel
           N == Len(fetched)
           old == N - 1
           read == Pages(c) \ {N}
<1>1. /\ Upstream(state, old) /\ Due(state, old) /\ Chain /\ Cursors(state, old)
      /\ fetched[N].kind = state.step.kind
  BY DEF Course, Answered, Knows
<1>2. PagesUpTo(c, old) = read
  BY ReadPages
<1>3. /\ ExactKeys(NamesIn(read))
      /\ desc.kind = "claude_models" => ExactKeys(CursorsOf(read))
      /\ \A i \in read : fetched[i].kind = "openai_models" =>
           \A item \in Range(fetched[i].body.items) : ~Unfit(item)
  BY NoCause
<1> HIDE DEF old, read, N
<1>4. /\ StepShape(state.step) /\ state.step.kind # "invalid" /\ state.step.kind # Empty
  BY DEF Shape, Types, StateShape, Progress
<1>5. ExactKeys(DOMAIN state.upstream)
  <2>1. Ids(read) = NamesIn(read)
    BY DEF Ids, Names, NamesIn
  <2> QED BY <1>1, <1>2, <1>3, <2>1 DEF Upstream, c
<1>6. ExactKeys(state.cursors)
  <2>1. CASE state.step.kind = "claude_models"
    BY <1>1, <1>2, <1>3, <2>1 DEF Cursors, ExactKeys, c
  <2>2. CASE state.step.kind # "claude_models"
    BY <1>1, <1>4, <2>2 DEF Cursors, ExactKeys, StepShape
  <2> QED BY <2>1, <2>2
<1>7. CASE state.step.kind \in CatalogKind /\ state.step.after = Empty
  <2>1. PagesUpTo(c, old) = {}
    BY <1>1, <1>7 DEF Due
  <2>2. DOMAIN state.upstream = {}
    BY <1>1, <2>1 DEF Upstream, Ids
  <2> QED BY <1>5, <1>6, <2>2 DEF validUpstreamState
<1>8. CASE ~Sloppy(c)
  BY <1>1, <1>5, <1>6, <1>8 DEF Upstream, Fit, validUpstreamState
<1>9. CASE state.step.kind \in CatalogKind /\ state.step.after # Empty
  <2>1. catalogKind(config[c]) = "claude_models"
    BY <1>4, <1>9 DEF StepShape
  <2>2. \A i \in Pages(c) : fetched[i].kind = catalogKind(config[c])
    BY <1>1 DEF Chain, Pages
  <2>3. ~Sloppy(c)
    BY <2>1, <2>2 DEF Sloppy
  <2> QED BY <1>8, <2>3
<1>10. CASE state.step.kind \in PublicKind
  <2>1. N \notin Pages(c)
    BY <1>1, <1>10 DEF Pages, PublicKind, CatalogKind
  <2>2. read = Pages(c)
    BY <2>1 DEF read
  <2>3. ~Sloppy(c)
    BY <1>3, <2>2 DEF Sloppy
  <2> QED BY <1>8, <2>3
<1> QED BY <1>4, <1>7, <1>9, <1>10 DEF StepShape

(* The public catalogs it keeps read the same again. *)
LEMMA PublicAgain ==
  ASSUME Shape, Course, pc = "continue", op = "metadata", ~ContinuationCause
  PROVE  validPublicCatalog(state.modelparams) /\ validPublicCatalog(state.modelsdev)
<1> DEFINE N == Len(fetched)
<1>1. /\ Sources(state, N - 1) /\ Due(state, N - 1)
      /\ fetched[N].kind = state.step.kind
  BY DEF Course, Answered, Knows
<1>2. \A i \in DOMAIN fetched \ {N} :
        fetched[i].kind \in PublicKind => fetched[i].body.again
  BY NoCause
<1> HIDE DEF N
<1>3. ASSUME NEW kind \in PublicKind, state[kind].ok PROVE state[kind].again
  <2>1. PICK i \in DOMAIN fetched :
          fetched[i].kind = kind /\ state[kind] = parseCatalog(op, kind, fetched[i].body)
    BY <1>1, <1>3 DEF Sources, FromCatalog
  <2>2. i # N
    BY <1>1, <1>3, <2>1 DEF Due
  <2>3. fetched[i].body.again
    BY <1>2, <2>1, <2>2
  <2>4. Nameable(fetched[i].body) /\ op \in Operation
    BY FetchedBodies DEF Shape, Types, ScenarioShape
  <2>5. kind \in CatalogKind \cup PublicKind /\ parseCatalog(op, kind, fetched[i].body).ok
    BY <1>3, <2>1
  <2>6. parseCatalog(op, kind, fetched[i].body).again = fetched[i].body.again
    BY <2>4, <2>5, ReadCatalog
  <2> QED BY <2>1, <2>3, <2>6
<1>4. "modelparams" \in PublicKind /\ "modelsdev" \in PublicKind /\ IsState(state)
  BY DEF PublicKind, Shape, Types, StateShape
<1>5. state["modelparams"] = state.modelparams /\ state["modelsdev"] = state.modelsdev
  BY <1>4, StateFields
<1> QED BY <1>3, <1>4, <1>5 DEF validPublicCatalog

LEMMA ResultsFit ==
  ASSUME Shape, Course, pc = "continue", ~ContinuationCause
  PROVE  LET c == state.step.channel IN
         /\ \A i \in DOMAIN state.results :
              LET r == state.results[i] IN
              /\ r.channel < c
              /\ \A j \in 1 .. i - 1 : state.results[j].channel # r.channel
              /\ op = "metadata" =>
                   /\ r.overrides = config[r.channel].overrides
                   /\ validPlannedPatches(r)
                   /\ credentialFetchRequired(config[r.channel])
                        => r.channel \in DOMAIN state.bound
              /\ op = "auto_pull" => ~TooMany(DOMAIN r.upstream)
              /\ op = "metadata" => ExactKeys({o.model : o \in r.overrides})
         /\ op = "auto_pull" =>
              \A k \in 1 .. c - 1 : config[k].enabled =>
                \E i \in DOMAIN state.results : state.results[i].channel = k
<1> DEFINE c == state.step.channel
<1>1. Plans(state.results, Before(c)) /\ ConfigShape
  BY DEF Course, Answered, Knows
<1>2. c \in DOMAIN config /\ DOMAIN config \subseteq Nat
  BY DEF Shape, Types, StateShape, StepShape, Progress, ScenarioShape
<1>3. ASSUME NEW i \in DOMAIN state.results
      PROVE  LET r == state.results[i] IN
             /\ r.channel < c /\ r.channel \in Before(c) /\ r.channel \in Nat
             /\ Whole(r) /\ i \in Nat
             /\ \A j \in 1 .. i - 1 : j \in DOMAIN state.results /\ j < i
  <2>1. state.results[i].channel \in Before(c) /\ Whole(state.results[i])
    BY <1>1 DEF Plans, Range
  <2>2. state.results \in Seq(Range(state.results))
    BY <1>1 DEF Plans
  <2>3. i \in Nat /\ \A j \in 1 .. i - 1 : j \in DOMAIN state.results /\ j < i
    BY <2>2
  <2> QED BY <1>2, <2>1, <2>3 DEF Before
<1>4. ASSUME NEW i \in DOMAIN state.results, NEW j \in 1 .. i - 1
      PROVE  state.results[j].channel # state.results[i].channel
  <2>1. j \in DOMAIN state.results /\ j < i
    BY <1>3
  <2>2. state.results[j].channel < state.results[i].channel
    BY <1>1, <2>1 DEF Plans
  <2>3. state.results[i].channel \in Nat
    BY <1>3
  <2> QED BY <2>2, <2>3
<1>5. ASSUME NEW i \in DOMAIN state.results, op = "metadata"
      PROVE  LET r == state.results[i] IN
             /\ r.overrides = config[r.channel].overrides
             /\ ExactKeys({o.model : o \in r.overrides})
             /\ validPlannedPatches(r)
             /\ credentialFetchRequired(config[r.channel]) => r.channel \in DOMAIN state.bound
  <2> DEFINE r == state.results[i]
             k == r.channel
  <2>1. k \in Before(c) /\ Whole(r) /\ k \in DOMAIN config
    BY <1>3 DEF Before
  <2> HIDE DEF r, k
  <2>2. /\ ~GivesNone(config[k])
        /\ ExactKeys({o.model : o \in config[k].overrides})
        /\ HasSource(config[k], "modelparams") => ~LeavesOutOfOrder(config[k])
    BY <1>5, <2>1, NoCause
  <2>3. r.overrides = config[k].overrides
    BY <2>1, <2>2 DEF Whole, k
  <2>4. validPlannedPatches(r)
    BY <2>1, <2>2 DEF Whole, Patches, validPlannedPatches, k
  <2>5. credentialFetchRequired(config[k]) => k \in DOMAIN state.bound
    BY <2>1 DEF Whole, k, Shape, Progress
  <2> QED BY <2>2, <2>3, <2>4, <2>5 DEF r, k
<1>6. ASSUME NEW i \in DOMAIN state.results, op = "auto_pull"
      PROVE  ~TooMany(DOMAIN state.results[i].upstream)
  <2> DEFINE r == state.results[i]
             k == r.channel
  <2>1. k \in Before(c) /\ Whole(r)
    BY <1>3
  <2> HIDE DEF r, k
  <2>2. ~TooMany(filterIDs(NamesIn(Pages(k)), config[k]))
    BY <1>6, <2>1, NoCause
  <2>3. Ids(Pages(k)) = NamesIn(Pages(k))
    BY DEF Ids, Names, NamesIn
  <2>4. DOMAIN r.upstream = filterIDs(Ids(Pages(k)), config[k])
    BY <1>6, <2>1 DEF Whole, k
  <2> QED BY <2>2, <2>3, <2>4 DEF r
<1>7. ASSUME NEW k \in 1 .. c - 1, config[k].enabled
      PROVE  \E i \in DOMAIN state.results : state.results[i].channel = k
  <2>1. k \in Before(c)
    <3>1. k \in DOMAIN config /\ k < c
      BY <1>1, <1>2 DEF ConfigShape
    <3> QED BY <1>7, <3>1 DEF Before
  <2> QED BY <1>1, <2>1 DEF Plans, Range
<1> QED BY <1>3, <1>4, <1>5, <1>6, <1>7

LEMMA ContinuationFits ==
  ASSUME Shape, Course, pc = "continue", desc = Offer(state)
  PROVE  \/ ContinuationCause
         \/ /\ validContinuationState(state)
            /\ op = "auto_pull" => Locatable(snapshot, config[state.step.channel])
<1> DEFINE c == state.step.channel
           catalog == state.step.kind \in CatalogKind
           old == Len(fetched) - 1
<1> SUFFICES ASSUME ~ContinuationCause
             PROVE  /\ validContinuationState(state)
                    /\ op = "auto_pull" => Locatable(snapshot, config[c])
  OBVIOUS
<1>1. Knows(state, old) /\ Due(state, old)
  BY DEF Course, Answered
<1> HIDE DEF old
<1>2. /\ StepShape(state.step) /\ state.step.kind # "invalid" /\ state.step.kind # Empty
      /\ AuthBound(state) /\ BoundShape(state.bound)
      /\ \A k \in DOMAIN config : Pages(k) # {} => k \in DOMAIN state.bound
      /\ op \in {"auto_pull", "metadata"}
  BY DEF Shape, Types, StateShape, Progress, ScenarioShape, Operation
<1>3. desc.kind = state.step.kind
  <2>1. CASE catalog
    BY <1>2, <2>1 DEF Offer, CatalogDescriptor, StepShape
  <2>2. CASE ~catalog
    BY <2>2 DEF Offer, PublicDescriptor
  <2> QED BY <2>1, <2>2
<1>4. c \in DOMAIN config /\ config[c].enabled
  BY <1>1, <1>2 DEF StepShape, Knows
<1>5. IF catalog THEN /\ state.step.kind = catalogKind(config[c])
                      /\ credentialFetchRequired(config[c])
      ELSE HasSource(config[c], state.step.kind)
  BY <1>1, <1>2 DEF StepShape, Due
<1>6. catalog <=> state.step.auth # Empty
  BY <1>2, UsableIndex DEF StepShape, AuthBound, BoundShape
<1>7. IF state.step.kind = "claude_models" /\ state.step.after # Empty
      THEN state.step.after \in state.cursors ELSE state.cursors = {}
  BY <1>1, <1>2 DEF StepShape, Knows, Cursors
<1>8. ASSUME op = "metadata"
      PROVE  /\ validateExactJSONKeys(state)
             /\ validUpstreamState(state.upstream)
             /\ validPublicCatalog(state.modelparams)
             /\ validPublicCatalog(state.modelsdev)
             /\ \A k \in DOMAIN state.bound :
                  k <= c /\ config[k].enabled /\ credentialFetchRequired(config[k])
             /\ credentialFetchRequired(config[c]) => c \in DOMAIN state.bound
             /\ catalog => state.bound[c].index = state.step.auth
  <2>1. /\ validUpstreamState(state.upstream)
        /\ ExactKeys(DOMAIN state.upstream) /\ ExactKeys(state.cursors)
    BY <1>3, <1>8, UpstreamFits
  <2>2. \A k \in DOMAIN state.bound :
          k <= c /\ config[k].enabled /\ credentialFetchRequired(config[k])
    BY <1>1 DEF Knows, Bound
  <2>3. credentialFetchRequired(config[c]) => c \in DOMAIN state.bound
    BY <1>1, <1>2, <1>4 DEF Due, AuthBound, StepShape
  <2>4. catalog => state.bound[c].index = state.step.auth
    BY <1>2 DEF AuthBound
  <2>5. validPublicCatalog(state.modelparams) /\ validPublicCatalog(state.modelsdev)
    BY <1>8, PublicAgain
  <2>6. validateExactJSONKeys(state)
    BY <1>8, <2>1, ResultsFit DEF validateExactJSONKeys
  <2> QED BY <2>1, <2>2, <2>3, <2>4, <2>5, <2>6
<1>9. /\ \A i \in DOMAIN state.results :
           LET r == state.results[i] IN
           /\ r.channel < c
           /\ \A j \in 1 .. i - 1 : state.results[j].channel # r.channel
           /\ op = "metadata" =>
                /\ r.overrides = config[r.channel].overrides
                /\ validPlannedPatches(r)
                /\ credentialFetchRequired(config[r.channel])
                     => r.channel \in DOMAIN state.bound
           /\ op = "auto_pull" => ~TooMany(DOMAIN r.upstream)
      /\ op = "auto_pull" =>
           \A k \in 1 .. c - 1 : config[k].enabled =>
             \E i \in DOMAIN state.results : state.results[i].channel = k
  BY ResultsFit
<1>10. validContinuationState(state)
  BY <1>4, <1>5, <1>6, <1>7, <1>8, <1>9, Zenon DEF validContinuationState
<1>11. op = "auto_pull" => Locatable(snapshot, config[c])
  BY <1>2 DEF StepShape
<1> QED BY <1>10, <1>11

-----------------------------------------------------------------------------
(* The Writer accepts what a planner asks for, unless there is a cause. *)
LEMMA PublicFits ==
  ASSUME NEW kind \in PublicKind
  PROVE  validateFetchDescriptor(op, snapshot, PublicDescriptor(kind))
<1> DEFINE d == PublicDescriptor(kind)
           h == Adding(<< >>, "accept", "json")
<1>1. /\ DOMAIN h = {"accept"} /\ h["accept"] = "json"
      /\ \A name \in Credential : name \notin DOMAIN h
  BY DEF Adding, Credential
<1>2. /\ d.kind = kind /\ d.label = Empty /\ d.base = NoBase /\ d.urlBase = NoBase
      /\ d.resource = kind /\ d.headers = h /\ d.auth = Empty
  BY DEF PublicDescriptor
<1>3. kind \notin CatalogKind /\ kind # "openai_models" /\ kind # "claude_models"
  BY DEF PublicKind, CatalogKind
<1> HIDE DEF h, d
<1>4. validateCatalogHeaders(h, << >>, Empty, << >>)
  <2>1. Empty \notin Credential
    BY DEF Empty, Credential
  <2>2. \A name \in Credential : ValueOf(h, name) = Empty
    BY <1>1 DEF ValueOf
  <2>3. \A name \in Credential : ValueOf(h, name) = IF name = Empty THEN "token" ELSE Empty
    BY <2>1, <2>2
  <2> QED BY <1>1, <2>3 DEF validateCatalogHeaders
<1>5. validatePublicFetch(d)
  BY <1>2, <1>4 DEF validatePublicFetch
<1>6. DOMAIN d.headers \subseteq WriterSafe
  BY <1>1, <1>2 DEF WriterSafe, PlannerSafe
<1>7. d.auth \notin OddIndex /\ WithinLimits(d)
  BY <1>2, LimitsAssumption DEF d
<1> QED BY <1>2, <1>3, <1>5, <1>6, <1>7 DEF validateFetchDescriptor, d

(* An entry without a forbidden header has only those that a planner sends on, and the
   Writer expects these. *)
LEMMA SafeEntry ==
  ASSUME NEW entry, entry.headers \in EntryHeaders,
         DOMAIN entry.headers \cap Forbidden = {}
  PROVE  LET safe == snapshotCatalogHeaders(entry) IN
         /\ DOMAIN safe = DOMAIN entry.headers /\ DOMAIN safe \subseteq PlannerSafe
         /\ \A name \in DOMAIN safe : safe[name] = entry.headers[name]
         /\ catalogHeaders(entry) = safe /\ credentialForms(entry) = {}
<1> DEFINE h == entry.headers
           safe == snapshotCatalogHeaders(entry)
<1>1. DOMAIN h \subseteq PlannerSafe
  <2>1. PICK names \in SUBSET (PlannerSafe \cup Forbidden) : h \in [names -> HeaderValue]
    BY DEF EntryHeaders
  <2> QED BY <2>1
<1>2. /\ DOMAIN h \cap PlannerSafe = DOMAIN h
      /\ DOMAIN h \cap (WriterSafe \ Credential) = DOMAIN h
      /\ DOMAIN h \cap Credential = {}
  <2>1. PlannerSafe \cap Credential = {}
    BY DEF PlannerSafe, Credential
  <2> QED BY <1>1, <2>1 DEF WriterSafe
<1>3. safe = [n \in DOMAIN h |-> h[n]] /\ catalogHeaders(entry) = [n \in DOMAIN h |-> h[n]]
  BY <1>2 DEF snapshotCatalogHeaders, catalogHeaders, HeadersIn, Restrict
<1> HIDE DEF h, safe
<1>4. credentialForms(entry) = {}
  BY <1>2 DEF credentialForms, h
<1> QED BY <1>1, <1>3, <1>4 DEF h, safe

LEMMA OpenAIHeadersFit ==
  ASSUME NEW entry, entry.headers \in EntryHeaders,
         DOMAIN entry.headers \cap Forbidden = {}, op \in Operation,
         ~(/\ op = "metadata" /\ "accept" \in DOMAIN entry.headers
           /\ entry.headers["accept"] = Empty)
  PROVE  LET h == OpenAIHeaders(op, entry) IN
         /\ validateCatalogHeaders(h, catalogHeaders(entry), "authorization", << >>)
         /\ DOMAIN h \cap Credential = {"authorization"}
<1> DEFINE safe == snapshotCatalogHeaders(entry)
           h == OpenAIHeaders(op, entry)
           x == IF "accept" \in DOMAIN safe THEN safe ELSE Adding(safe, "accept", "json")
<1>1. /\ DOMAIN safe = DOMAIN entry.headers /\ DOMAIN safe \subseteq PlannerSafe
      /\ \A name \in DOMAIN safe : safe[name] = entry.headers[name]
      /\ catalogHeaders(entry) = safe
  BY SafeEntry
<1>2. h = Adding(x, "authorization", "token")
  <2>1. h = Adding(IF IF op = "metadata" THEN ValueOf(safe, "accept") = Empty
                      ELSE "accept" \notin DOMAIN safe
                   THEN Adding(safe, "accept", "json") ELSE safe, "authorization", "token")
    BY Zenon DEF OpenAIHeaders
  <2> HIDE DEF h, safe
  <2>2. (IF op = "metadata" THEN ValueOf(safe, "accept") = Empty
         ELSE "accept" \notin DOMAIN safe) <=> "accept" \notin DOMAIN safe
    BY <1>1 DEF ValueOf
  <2> QED BY <2>1, <2>2
<1> HIDE DEF h, safe
<1>3. /\ DOMAIN x = DOMAIN safe \cup {"accept"}
      /\ \A name \in DOMAIN safe : x[name] = safe[name]
      /\ "accept" \notin DOMAIN safe => x["accept"] = "json"
  <2>1. CASE "accept" \in DOMAIN safe
    BY <2>1
  <2>2. CASE "accept" \notin DOMAIN safe
    BY <2>2 DEF Adding
  <2> QED BY <2>1, <2>2
<1> HIDE DEF x
<1>4. /\ DOMAIN h = DOMAIN safe \cup {"accept", "authorization"}
      /\ h["authorization"] = "token"
      /\ \A name \in DOMAIN x : name # "authorization" => h[name] = x[name]
  BY <1>2, <1>3 DEF Adding
<1>5. DOMAIN safe \cap Credential = {} /\ "accept" \notin Credential
      /\ Credential = {"authorization", "x-api-key"} /\ DOMAIN << >> = {}
  BY <1>1 DEF PlannerSafe, Credential
<1>6. DOMAIN h \cap Credential = {"authorization"}
  BY <1>4, <1>5
<1>7. \A name \in Credential :
        ValueOf(h, name) = IF name = "authorization" THEN "token" ELSE Empty
  BY <1>4, <1>5, <1>6 DEF ValueOf
<1>8. \A name \in DOMAIN safe : ValueOf(h, name) = safe[name]
  BY <1>3, <1>4, <1>5 DEF ValueOf
<1>9. \A name \in DOMAIN h : \/ name = "authorization" \/ name \in DOMAIN safe
                             \/ name = "accept" /\ h[name] = "json"
  BY <1>3, <1>4
<1>10. validateCatalogHeaders(h, safe, "authorization", << >>)
  BY <1>5, <1>7, <1>8, <1>9, Zenon DEF validateCatalogHeaders
<1> QED BY <1>1, <1>6, <1>10 DEF h

LEMMA ClaudeHeadersFit ==
  ASSUME NEW spec, NEW entry, entry.headers \in EntryHeaders,
         DOMAIN entry.headers \cap Forbidden = {},
         ~(/\ OnAnthropic(spec.base) /\ "anthropic-version" \in DOMAIN entry.headers
           /\ entry.headers["anthropic-version"] # "fixed")
  PROVE  LET h == ClaudeHeaders(spec, entry) IN
         /\ OnAnthropic(spec.base) =>
              /\ validateCatalogHeaders(h, catalogHeaders(entry), "x-api-key",
                                        [name \in {"anthropic-version"} |-> "fixed"])
              /\ DOMAIN h \cap Credential = {"x-api-key"}
         /\ ~OnAnthropic(spec.base) =>
              /\ validateCatalogHeaders(h, catalogHeaders(entry), "authorization", << >>)
              /\ DOMAIN h \cap Credential = {"authorization"}
<1> DEFINE safe == snapshotCatalogHeaders(entry)
           h == ClaudeHeaders(spec, entry)
<1>1. /\ DOMAIN safe = DOMAIN entry.headers /\ DOMAIN safe \subseteq PlannerSafe
      /\ \A name \in DOMAIN safe : safe[name] = entry.headers[name]
      /\ catalogHeaders(entry) = safe
  BY SafeEntry
<1>2. /\ OnAnthropic(spec.base) =>
           h = Adding(Adding(safe, "anthropic-version", "fixed"), "x-api-key", "token")
      /\ ~OnAnthropic(spec.base) => h = Adding(safe, "authorization", "token")
  <2>1. "x-api-key" \notin DOMAIN safe
    BY <1>1 DEF PlannerSafe
  <2> HIDE DEF safe
  <2>2. h = CASE OnAnthropic(spec.base) ->
                   Adding(Adding(safe, "anthropic-version", "fixed"), "x-api-key", "token")
              [] ~OnAnthropic(spec.base) /\ "x-api-key" \in DOMAIN safe ->
                   Adding(safe, "x-api-key", "token")
              [] OTHER -> Adding(safe, "authorization", "token")
    BY DEF ClaudeHeaders, safe
  <2> HIDE DEF h
  <2> QED BY <2>1, <2>2
<1> HIDE DEF h, safe
<1>3. DOMAIN safe \cap Credential = {} /\ "anthropic-version" \notin Credential
      /\ Credential = {"authorization", "x-api-key"} /\ DOMAIN << >> = {}
  BY <1>1 DEF PlannerSafe, Credential
<1>4. ASSUME OnAnthropic(spec.base)
      PROVE  /\ validateCatalogHeaders(h, safe, "x-api-key",
                                       [name \in {"anthropic-version"} |-> "fixed"])
             /\ DOMAIN h \cap Credential = {"x-api-key"}
  <2> DEFINE x == Adding(safe, "anthropic-version", "fixed")
             required == [name \in {"anthropic-version"} |-> "fixed"]
  <2>0. DOMAIN required = {"anthropic-version"} /\ required["anthropic-version"] = "fixed"
    OBVIOUS
  <2>1. /\ DOMAIN x = DOMAIN safe \cup {"anthropic-version"}
        /\ x["anthropic-version"] = "fixed"
        /\ \A name \in DOMAIN safe : name # "anthropic-version" => x[name] = safe[name]
    BY DEF Adding
  <2>2. "anthropic-version" \in DOMAIN safe => safe["anthropic-version"] = "fixed"
    BY <1>1, <1>4
  <2>3. h = Adding(x, "x-api-key", "token")
    BY <1>2, <1>4
  <2> HIDE DEF x, required
  <2>4. /\ DOMAIN h = DOMAIN safe \cup {"anthropic-version", "x-api-key"}
        /\ h["x-api-key"] = "token"
        /\ \A name \in DOMAIN x : name # "x-api-key" => h[name] = x[name]
    BY <2>1, <2>3 DEF Adding
  <2>5. DOMAIN h \cap Credential = {"x-api-key"}
    BY <1>3, <2>4
  <2>6. \A name \in Credential :
          ValueOf(h, name) = IF name = "x-api-key" THEN "token" ELSE Empty
    BY <1>3, <2>4, <2>5 DEF ValueOf
  <2>7. \A name \in DOMAIN safe :
          /\ name \in DOMAIN required => required[name] = safe[name]
          /\ ValueOf(h, name) = safe[name]
    BY <1>3, <2>0, <2>1, <2>2, <2>4 DEF ValueOf
  <2>8. \A name \in DOMAIN required : ValueOf(h, name) = required[name]
    BY <2>0, <2>1, <2>4 DEF ValueOf
  <2>9. \A name \in DOMAIN h : \/ name = "x-api-key" \/ name \in DOMAIN safe
                               \/ name \in DOMAIN required
    BY <2>0, <2>4
  <2>10. validateCatalogHeaders(h, safe, "x-api-key", required)
    BY <2>6, <2>7, <2>8, <2>9, Zenon DEF validateCatalogHeaders
  <2> QED BY <2>5, <2>10 DEF required
<1>5. ASSUME ~OnAnthropic(spec.base)
      PROVE  /\ validateCatalogHeaders(h, safe, "authorization", << >>)
             /\ DOMAIN h \cap Credential = {"authorization"}
  <2>1. /\ DOMAIN h = DOMAIN safe \cup {"authorization"}
        /\ h["authorization"] = "token"
        /\ \A name \in DOMAIN safe : name # "authorization" => h[name] = safe[name]
    BY <1>2, <1>5 DEF Adding
  <2>2. DOMAIN h \cap Credential = {"authorization"}
    BY <1>3, <2>1
  <2>3. \A name \in Credential :
          ValueOf(h, name) = IF name = "authorization" THEN "token" ELSE Empty
    BY <1>3, <2>1, <2>2 DEF ValueOf
  <2>4. \A name \in DOMAIN safe : ValueOf(h, name) = safe[name]
    BY <1>3, <2>1 DEF ValueOf
  <2>5. \A name \in DOMAIN h : name = "authorization" \/ name \in DOMAIN safe
    BY <2>1
  <2>6. validateCatalogHeaders(h, safe, "authorization", << >>)
    BY <1>3, <2>3, <2>4, <2>5, Zenon DEF validateCatalogHeaders
  <2> QED BY <2>2, <2>6
<1> QED BY <1>1, <1>4, <1>5 DEF h

(* A channel that can be located has one entry. *)
LEMMA LocatedOne ==
  ASSUME ScenarioShape, NEW c \in DOMAIN config, Locatable(snapshot, config[c])
  PROVE  LET spec == config[c]
             entries == snapshot[spec.kind]
             entry == Located(snapshot, spec) IN
         \E i \in DOMAIN entries :
           /\ Selected(snapshot, spec) = {i} /\ entry = entries[i]
           /\ entry.headers \in EntryHeaders
           /\ DOMAIN entry.headers \cap Forbidden = {} /\ entry.direct
<1> DEFINE spec == config[c]
           entries == snapshot[spec.kind]
           found == Selected(snapshot, spec)
<1>1. found \subseteq DOMAIN entries /\ Cardinality(found) = 1
  BY DEF Selected, Locatable
<1>2. IsFiniteSet(found)
  <2>1. entries \in Seq(Entry)
    BY DEF ScenarioShape
  <2> HIDE DEF found, entries
  <2>2. PICK k \in Nat : DOMAIN entries = 1 .. k
    BY <2>1
  <2>3. IsFiniteSet(1 .. k)
    <3>1. 1 \in Int /\ k \in Int
      OBVIOUS
    <3> QED BY <3>1, FS_Interval, Zenon
  <2> QED BY <1>1, <2>2, <2>3, FS_Subset
<1>3. PICK i : found = {i}
  <2> HIDE DEF found
  <2> QED BY <1>1, <1>2, FS_Singleton
<1>4. Located(snapshot, spec) = entries[i] /\ i \in DOMAIN entries
  <2>1. Located(snapshot, spec) = entries[CHOOSE x \in found : TRUE]
    BY Zenon DEF Located
  <2> HIDE DEF found, entries
  <2> QED BY <1>1, <1>3, <2>1
<1>5. entries[i].direct /\ DOMAIN entries[i].headers \cap Forbidden = {}
  BY <1>3 DEF Locatable
<1>6. Located(snapshot, spec).headers \in EntryHeaders
  BY LocatedEntry
<1> QED BY <1>3, <1>4, <1>5, <1>6

LEMMA OpenAIFits ==
  ASSUME ScenarioShape, ConfigShape, NEW c \in DOMAIN config,
         Locatable(snapshot, config[c]), config[c].kind = "openai",
         NEW after, NEW auth, auth # Empty, ~config[c].base.mark,
         LET set == Located(snapshot, config[c]).headers IN
         ~(op = "metadata" /\ "accept" \in DOMAIN set /\ set["accept"] = Empty)
  PROVE  LET d == CatalogDescriptor(op, snapshot, config[c], after, auth) IN
         /\ validateOpenAIFetch(op, snapshot, d)
         /\ DOMAIN d.headers \cap Credential = {"authorization"}
<1> DEFINE spec == config[c]
           entries == snapshot["openai"]
           entry == Located(snapshot, spec)
           d == CatalogDescriptor(op, snapshot, spec, after, auth)
           h == OpenAIHeaders(op, entry)
<1>1. /\ d.label = spec.label /\ d.base = spec.base /\ d.urlBase = spec.base
      /\ d.resource = "models" /\ d.headers = h
      /\ d.query = IF spec.codex THEN "codex" ELSE Empty
  BY DEF CatalogDescriptor
<1>2. PICK i \in DOMAIN entries :
        /\ Selected(snapshot, spec) = {i} /\ entry = entries[i]
        /\ entry.headers \in EntryHeaders
        /\ DOMAIN entry.headers \cap Forbidden = {} /\ entry.direct
  BY LocatedOne
<1>3. op \in {"auto_pull", "metadata"} /\ op \in Operation
  BY DEF ScenarioShape, Operation
<1>4. d.query = Empty \/ (d.query = "codex" /\ op = "metadata")
  <2>1. op = "auto_pull" => ~spec.codex
    BY DEF ConfigShape
  <2> HIDE DEF spec, d
  <2> QED BY <1>1, <1>3, <2>1
<1>5. /\ validateCatalogHeaders(h, catalogHeaders(entry), "authorization", << >>)
      /\ DOMAIN h \cap Credential = {"authorization"}
  BY <1>2, <1>3, OpenAIHeadersFit
<1>6. credentialForms(entry) = {}
  BY <1>2, SafeEntry
<1>7. {k \in DOMAIN entries : /\ entries[k].label = d.label
                              /\ entries[k].base = d.base
                              /\ entries[k].disabled = "no"} = {i}
  <2>1. Selected(snapshot, spec) =
          {k \in DOMAIN entries : /\ entries[k].label = spec.label
                                  /\ entries[k].base = spec.base
                                  /\ entries[k].disabled = "no"}
    BY DEF Selected
  <2> HIDE DEF d
  <2> QED BY <1>1, <1>2, <2>1
<1>8. Cardinality({i}) = 1
  BY FS_Singleton
<1> HIDE DEF d, h, entry, entries
<1>9. validateOpenAIFetch(op, snapshot, d)
  <2>1. \A k \in {i} :
          /\ entries[k].direct /\ credentialForms(entries[k]) = {}
          /\ validateCatalogHeaders(d.headers, catalogHeaders(entries[k]),
                                    "authorization", << >>)
    BY <1>1, <1>2, <1>5, <1>6
  <2>2. ~d.base.mark
    BY <1>1
  <2> QED BY <1>1, <1>4, <1>7, <1>8, <2>1, <2>2, Zenon DEF validateOpenAIFetch, entries
<1> QED BY <1>1, <1>5, <1>9 DEF d

LEMMA ClaudeFits ==
  ASSUME ScenarioShape, NEW c \in DOMAIN config,
         Locatable(snapshot, config[c]), config[c].kind = "claude",
         desc = CatalogDescriptor(op, snapshot, config[c], state.step.after,
                                  state.step.auth),
         ~config[c].base.path,
         ~config[c].base.mark, config[c].label \notin Unsettled,
         LET set == Located(snapshot, config[c]).headers IN
         ~(/\ OnAnthropic(config[c].base) /\ "anthropic-version" \in DOMAIN set
           /\ set["anthropic-version"] # "fixed")
  PROVE  /\ validateClaudeFetch(op, snapshot, desc)
         /\ \E form : DOMAIN desc.headers \cap Credential = {form}
<1> DEFINE spec == config[c]
           entries == snapshot["claude"]
           entry == Located(snapshot, spec)
           d == desc
           h == ClaudeHeaders(spec, entry)
<1>1. /\ d.label = spec.label /\ d.base = spec.base /\ d.urlBase = spec.base
      /\ d.resource = "v1/models" /\ d.headers = h /\ d.index = spec.index
  BY DEF CatalogDescriptor
<1>2. PICK i \in DOMAIN entries :
        /\ Selected(snapshot, spec) = {i} /\ entry = entries[i]
        /\ entry.headers \in EntryHeaders
        /\ DOMAIN entry.headers \cap Forbidden = {} /\ entry.direct
  BY LocatedOne
<1>3. /\ i = spec.index /\ entry.base = spec.base /\ entry.label = spec.label
  <2>1. Selected(snapshot, spec) =
          {k \in DOMAIN entries : /\ entries[k].label = spec.label
                                  /\ entries[k].base = spec.base
                                  /\ entries[k].disabled = "no" /\ k = spec.index}
    BY DEF Selected
  <2> HIDE DEF entry
  <2> QED BY <1>2, <2>1
<1>4. credentialForms(entry) = {}
  BY <1>2, SafeEntry
<1>5. /\ OnAnthropic(spec.base) =>
           /\ validateCatalogHeaders(h, catalogHeaders(entry), "x-api-key",
                                     [name \in {"anthropic-version"} |-> "fixed"])
           /\ DOMAIN h \cap Credential = {"x-api-key"}
      /\ ~OnAnthropic(spec.base) =>
           /\ validateCatalogHeaders(h, catalogHeaders(entry), "authorization", << >>)
           /\ DOMAIN h \cap Credential = {"authorization"}
  BY <1>2, ClaudeHeadersFit
<1>6. {} # Credential /\ "x-api-key" \notin {}
  BY DEF Credential
<1> HIDE DEF d, h, entry, entries
<1>7. IF OnAnthropic(d.base)
      THEN /\ credentialForms(entry) = {}
           /\ validateCatalogHeaders(d.headers, catalogHeaders(entry), "x-api-key",
                                     [name \in {"anthropic-version"} |-> "fixed"])
      ELSE /\ credentialForms(entry) # Credential
           /\ validateCatalogHeaders(d.headers, catalogHeaders(entry),
                IF "x-api-key" \in credentialForms(entry) THEN "x-api-key"
                ELSE "authorization", << >>)
  BY <1>1, <1>4, <1>5, <1>6
<1>8. entry = entries[d.index] /\ d.index \in DOMAIN entries
  BY <1>1, <1>2, <1>3
<1>9. validateClaudeFetch(op, snapshot, d)
  <2>1. /\ d.urlBase.host = d.base.host /\ ~d.urlBase.path /\ ~d.urlBase.mark
        /\ d.resource = "v1/models" /\ d.label \notin Unsettled /\ entry.direct
        /\ entry.base = d.base /\ entry.label = d.label
    BY <1>1, <1>2, <1>3
  <2> QED BY <1>7, <1>8, <2>1 DEF validateClaudeFetch, entries
<1>10. \E form : DOMAIN d.headers \cap Credential = {form}
  BY <1>1, <1>5
<1> QED BY <1>9, <1>10 DEF d

LEMMA DescriptorFits ==
  ASSUME Shape, Course, pc = "offered", desc = Offer(state), ~DescriptorCause
  PROVE  validateFetchDescriptor(op, snapshot, desc)
<1> DEFINE c == state.step.channel
           spec == config[c]
<1>1. /\ StepShape(state.step) /\ state.step.kind # "invalid" /\ state.step.kind # Empty
      /\ AuthBound(state) /\ BoundShape(state.bound)
      /\ desc.headers \in Headers /\ ScenarioShape /\ ConfigShape
      /\ desc.kind = state.step.kind /\ desc.auth = state.step.auth
  BY DEF Shape, Types, StateShape, Progress, Course
<1>2. DOMAIN desc.headers \subseteq WriterSafe
  BY <1>1 DEF Headers
<1>5. \A x : Cardinality({x}) = 1
  BY FS_Singleton
<1>3. CASE state.step.kind \in PublicKind
  <2>1. desc = PublicDescriptor(state.step.kind)
    BY <1>3 DEF Offer, PublicKind, CatalogKind
  <2> QED BY <1>3, <2>1, PublicFits
<1>4. CASE state.step.kind \in CatalogKind
  <2>1. /\ c \in DOMAIN config /\ state.step.kind = catalogKind(spec)
        /\ Locatable(snapshot, spec) /\ state.step.auth # Empty
        /\ spec.kind \in {"openai", "claude"}
    BY <1>1, <1>4, UsableIndex
       DEF StepShape, AuthBound, BoundShape, ScenarioShape, Kind
  <2>2. desc = CatalogDescriptor(op, snapshot, spec, state.step.after, state.step.auth)
    BY <1>4 DEF Offer
  <2>3. LET set == Located(snapshot, spec).headers IN
        /\ ~spec.base.mark
        /\ spec.kind = "claude" => ~spec.base.path /\ spec.label \notin Unsettled
        /\ ~(/\ spec.kind = "claude" /\ OnAnthropic(spec.base)
             /\ "anthropic-version" \in DOMAIN set
             /\ set["anthropic-version"] # "fixed")
        /\ ~(/\ spec.kind = "openai" /\ op = "metadata"
             /\ "accept" \in DOMAIN set /\ set["accept"] = Empty)
    BY <1>1, <1>4 DEF DescriptorCause
  <2>4. WithinLimits(desc) /\ desc.auth \notin OddIndex
    <3>1. desc.auth \in Usable
      BY <1>1, <1>4 DEF AuthBound, BoundShape
    <3>2. op = "auto_pull" \/ op = "metadata"
      BY <1>1 DEF ScenarioShape, Operation
    <3> QED BY <1>1, <1>4, <3>1, <3>2 DEF DescriptorCause, Usable
  <2> HIDE DEF spec
  <2>5. CASE spec.kind = "openai"
    <3>1. /\ validateOpenAIFetch(op, snapshot, desc)
          /\ DOMAIN desc.headers \cap Credential = {"authorization"}
      BY <1>1, <2>1, <2>2, <2>3, <2>5, OpenAIFits DEF spec
    <3>2. desc.kind = "openai_models"
      BY <1>1, <2>1, <2>5 DEF catalogKind
    <3>3. Cardinality(DOMAIN desc.headers \cap Credential) = 1
      BY <3>1, <1>5
    <3> QED BY <1>1, <1>2, <1>4, <2>1, <2>4, <3>1, <3>2, <3>3 DEF validateFetchDescriptor
  <2>6. CASE spec.kind = "claude"
    <3>1. /\ validateClaudeFetch(op, snapshot, desc)
          /\ \E form : DOMAIN desc.headers \cap Credential = {form}
      <4>1. /\ ~config[c].base.path /\ ~config[c].base.mark
            /\ config[c].label \notin Unsettled /\ config[c].kind = "claude"
            /\ LET set == Located(snapshot, config[c]).headers IN
               ~(/\ OnAnthropic(config[c].base) /\ "anthropic-version" \in DOMAIN set
                 /\ set["anthropic-version"] # "fixed")
        BY <2>3, <2>6 DEF spec
      <4>2. desc = CatalogDescriptor(op, snapshot, config[c], state.step.after,
                                     state.step.auth)
        BY <2>2 DEF spec
      <4>3. c \in DOMAIN config /\ Locatable(snapshot, config[c])
        BY <2>1 DEF spec
      <4>4. ScenarioShape
        BY <1>1
      <4> HIDE DEF c
      <4> QED BY <4>1, <4>2, <4>3, <4>4, ClaudeFits
    <3>2. desc.kind = "claude_models"
      BY <1>1, <2>1, <2>6 DEF catalogKind
    <3>3. Cardinality(DOMAIN desc.headers \cap Credential) = 1
      BY <3>1, <1>5
    <3> QED BY <1>1, <1>2, <1>4, <2>1, <2>4, <3>1, <3>2, <3>3 DEF validateFetchDescriptor
  <2> QED BY <2>1, <2>5, <2>6
<1> QED BY <1>1, <1>3, <1>4 DEF StepShape

(* No request is asked for twice. *)
LEMMA RequestIsNew ==
  ASSUME Shape, Course, pc = "offered", desc = Offer(state), Seen(state, FALSE)
  PROVE  desc \notin seen
<1> DEFINE c == state.step.channel
           N == Len(fetched)
<1> SUFFICES ASSUME desc \in seen PROVE FALSE
  OBVIOUS
<1>1. /\ StepShape(state.step) /\ state.step.kind # "invalid" /\ state.step.kind # Empty
      /\ ScenarioShape /\ ConfigShape /\ desc.kind = state.step.kind
      /\ Knows(state, N) /\ Due(state, N)
  BY DEF Shape, Types, StateShape, Progress, Course, Asking
<1>2. CatalogKind \cap PublicKind = {}
  BY DEF CatalogKind, PublicKind
<1>3. CASE /\ desc.kind \in PublicKind
           /\ \E i \in DOMAIN fetched : fetched[i].kind = desc.kind
  <2>1. PICK i \in DOMAIN fetched : fetched[i].kind = state.step.kind
    BY <1>1, <1>3
  <2>2. i \in 1 .. N
    BY DEF Shape, Types
  <2> HIDE DEF N
  <2>3. state[state.step.kind].ok
    BY <1>1, <1>3, <2>1, <2>2 DEF Knows, Sources
  <2> QED BY <1>1, <1>3, <2>3 DEF Due
<1>4. CASE \E k \in DOMAIN config :
             /\ OfChannel(desc, k)
             /\ k = c /\ state.step.kind \in CatalogKind => desc.query \in Queries(state)
  <2>1. PICK k \in DOMAIN config :
          /\ OfChannel(desc, k)
          /\ k = c /\ state.step.kind \in CatalogKind => desc.query \in Queries(state)
    BY <1>4
  <2>2. state.step.kind \in CatalogKind
    BY <1>1, <2>1 DEF OfChannel, catalogKind, CatalogKind
  <2>3. /\ c \in DOMAIN config /\ state.step.kind = catalogKind(config[c])
        /\ config[c].kind \in Kind /\ config[k].kind \in Kind
    BY <1>1, <2>2 DEF StepShape, ScenarioShape
  <2>4. desc = CatalogDescriptor(op, snapshot, config[c], state.step.after,
                                 state.step.auth)
    BY <2>2 DEF Offer
  <2>5. /\ desc.label = config[c].label /\ desc.base = config[c].base
        /\ desc.index = config[c].index /\ desc.kind = catalogKind(config[c])
        /\ config[c].kind = "claude" => desc.query = state.step.after
    BY <2>4 DEF CatalogDescriptor
  <2>6. k = c
    <3>1. config[k].kind = config[c].kind
      BY <2>1, <2>3, <2>5 DEF OfChannel, catalogKind, Kind
    <3>2. selectorKey(config[k]) = selectorKey(config[c])
      BY <2>1, <2>5, <3>1 DEF OfChannel, selectorKey
    <3> QED BY <1>1, <2>3, <3>2 DEF ConfigShape
  <2>7. desc.query \in Queries(state)
    BY <2>1, <2>2, <2>6
  <2>8. state.step.after # Empty
    BY <2>7 DEF Queries
  <2>9. config[c].kind = "claude"
    BY <1>1, <2>3, <2>8 DEF StepShape, catalogKind
  <2> QED BY <2>5, <2>7, <2>8, <2>9 DEF Queries
<1> QED BY <1>3, <1>4 DEF Seen

(* The requests made stay those of the same catalogs while the step stays the same. *)
LEMMA SeenKept ==
  ASSUME Kept, UNCHANGED seen, NEW st, NEW next,
         next.step.kind = st.step.kind, next.step.channel = st.step.channel,
         next.step.after = st.step.after, next.cursors = st.cursors,
         NEW made, Seen(st, made)
  PROVE  Seen(next, made)'
<1>1. config' = config
  BY KeptCatalogs
<1>2. Queries(next)' = Queries(st)
  BY DEF Queries
<1>3. \A i \in DOMAIN fetched : i \in DOMAIN fetched' /\ fetched'[i] = fetched[i]
  BY DEF Kept
<1>4. ASSUME NEW d \in seen
      PROVE  \/ /\ d.kind \in PublicKind
                /\ \/ \E i \in DOMAIN fetched' : fetched'[i].kind = d.kind
                   \/ made /\ d.kind = next.step.kind
             \/ \E k \in DOMAIN config :
                  /\ OfChannel(d, k)' /\ k <= next.step.channel
                  /\ k = next.step.channel /\ next.step.kind \in CatalogKind =>
                       \/ d.query \in Queries(next)'
                       \/ made /\ (next.step.kind = "openai_models"
                                     \/ d.query = next.step.after)
  <2>1. \A k : OfChannel(d, k) => OfChannel(d, k)'
    BY <1>1 DEF OfChannel
  <2> QED BY <1>2, <1>3, <2>1 DEF Seen
<1> QED BY <1>1, <1>4 DEF Seen

LEMMA OfferKept ==
  ASSUME UNCHANGED scenario, NEW st, NEW next, next.step = st.step
  PROVE  Offer(next)' = Offer(st)
BY SameScenario DEF Offer

(* The requests made so far are those of other catalogs, or of other pages, than the
   one that comes next. *)
LEMMA NextSeen ==
  ASSUME Shape, Course, Planning("consume"), Seen(state, TRUE),
         NEW b, Readable(state, b), nextStep(consumeFetch(state, b)).found
  PROVE  Seen(nextStep(consumeFetch(state, b)).state, FALSE)
<1> DEFINE st == consumeFetch(state, b)
           next == nextStep(st).state
           c == state.step.channel
           N == Len(fetched)
<1>1. /\ fetched # << >> /\ Knows(state, N - 1) /\ fetched[N].kind = state.step.kind
      /\ ScenarioShape /\ StateShape(state) /\ N \in DOMAIN fetched
      /\ state.step.kind \in CatalogKind \cup PublicKind /\ state.step.kind # Empty
  <2>1. fetched # << >> /\ Knows(state, N - 1) /\ fetched[N].kind = state.step.kind
    BY DEF Course, Answered
  <2>2. N \in DOMAIN fetched
    BY <2>1, ReadPage
  <2> QED BY <2>1, <2>2, FetchedBodies DEF Shape, Types, Progress
<1>2. /\ StateShape(st) /\ st.step.kind = state.step.kind /\ st.step.channel = c
  BY <1>1, ConsumeFetch
<1>3. Consumed(state, b, st)
  BY <1>1, ConsumeFields DEF StateShape
<1>4. Follows(st, next)
  BY <1>1, <1>2, NextStep
<1>5. c \in DOMAIN config /\ DOMAIN config \subseteq Nat
  BY <1>1 DEF StateShape, StepShape, ScenarioShape
<1> HIDE DEF st, next, N
<1>6. ASSUME NEW d \in seen, d.kind \in PublicKind,
             \/ \E i \in DOMAIN fetched : fetched[i].kind = d.kind
             \/ d.kind = state.step.kind
      PROVE  \E i \in DOMAIN fetched : fetched[i].kind = d.kind
  BY <1>1, <1>6
<1>7. ASSUME NEW d \in seen, NEW k \in DOMAIN config, OfChannel(d, k), k <= c,
             k = c /\ state.step.kind \in CatalogKind =>
               \/ d.query \in Queries(state)
               \/ state.step.kind = "openai_models"
               \/ d.query = state.step.after
      PROVE  /\ k <= next.step.channel
             /\ k = next.step.channel /\ next.step.kind \in CatalogKind =>
                  d.query \in Queries(next)
  <2>1. CASE next = st /\ st.step.after # Empty
    <3>1. /\ state.step.kind = "claude_models" /\ state.step.kind \in CatalogKind
      BY <1>2, <2>1 DEF StateShape, StepShape, CatalogKind
    <3>2. /\ b.more /\ st.step.after = b.cursor
          /\ st.cursors = state.cursors \cup {b.cursor}
          /\ b.cursor \notin state.cursors \cup {Empty, state.step.after}
      BY <1>3, <2>1, <3>1 DEF Consumed, Readable
    <3>3. k = c => d.query \in {Empty} \cup state.cursors
      BY <1>1, <1>7, <3>1 DEF Queries, Knows, Cursors
    <3>4. k = c => d.query \in Queries(st)
      BY <2>1, <3>2, <3>3 DEF Queries
    <3> QED BY <1>2, <1>7, <2>1, <3>4
  <2>2. CASE /\ next.step.after = Empty
             /\ next.step.kind \in CatalogKind /\ st.step.kind # Empty =>
                  st.step.channel < next.step.channel
    <3>1. next.step.channel \in Nat /\ c <= next.step.channel
      <4>1. StateShape(next)
        BY <1>1, <1>2, NextStep DEF next
      <4>2. next.step.channel \in Nat
        BY <1>1, <4>1 DEF StateShape, StepShape, ScenarioShape
      <4> QED BY <1>2, <1>4, <4>2 DEF Follows
    <3>2. k \in Nat /\ c \in Nat
      BY <1>5
    <3>3. k <= next.step.channel
      BY <1>7, <3>1, <3>2
    <3>4. next.step.kind \in CatalogKind => c < next.step.channel
      BY <1>1, <1>2, <2>2
    <3>5. next.step.kind \in CatalogKind => k # next.step.channel
      BY <1>7, <3>1, <3>2, <3>4
    <3> QED BY <3>3, <3>5
  <2> QED BY <1>4, <2>1, <2>2 DEF Follows
<1>8. \A d \in seen :
        \/ /\ d.kind \in PublicKind
           /\ \/ \E i \in DOMAIN fetched : fetched[i].kind = d.kind
              \/ d.kind = state.step.kind
        \/ \E k \in DOMAIN config :
             /\ OfChannel(d, k) /\ k <= c
             /\ k = c /\ state.step.kind \in CatalogKind =>
                  \/ d.query \in Queries(state)
                  \/ state.step.kind = "openai_models"
                  \/ d.query = state.step.after
  BY DEF Seen
<1>9. \A d \in seen :
        \/ /\ d.kind \in PublicKind
           /\ \E i \in DOMAIN fetched : fetched[i].kind = d.kind
        \/ \E k \in DOMAIN config :
             /\ OfChannel(d, k) /\ k <= next.step.channel
             /\ k = next.step.channel /\ next.step.kind \in CatalogKind =>
                  d.query \in Queries(next)
  <2> HIDE DEF c
  <2> QED BY <1>6, <1>7, <1>8
<1>10. Seen(next, FALSE)
  BY <1>9 DEF Seen
<1> QED BY <1>10 DEF next, st

-----------------------------------------------------------------------------
(* Causes and outcomes. *)
LEMMA CausesKept ==
  ASSUME UNCHANGED <<scenario, state, desc, fetched>>
  PROVE  /\ ContinuationCause => ContinuationCause'
         /\ DescriptorCause => DescriptorCause'
<1>1. /\ op' = op /\ config' = config /\ snapshot' = snapshot
      /\ \A c : Pages(c)' = Pages(c)
  BY SameScenario, SameFetches
<1>2. \A c : Before(c)' = Before(c)
  BY <1>1 DEF Before
<1>3. \A spec, kind : HasSource(spec, kind)' = HasSource(spec, kind)
  BY DEF HasSource
<1>4. ContinuationCause => ContinuationCause'
  <2>1. \A pages : NamesIn(pages)' = NamesIn(pages)
    BY <1>1 DEF NamesIn
  <2>2. \A name : OutOfOrder(name)' = OutOfOrder(name)
    BY <1>1 DEF OutOfOrder
  <2>3. \A c : Located(snapshot, config[c])' = Located(snapshot, config[c])
    BY <1>1 DEF Located
  <2>4. \A c : \A ids : filterIDs(ids, config[c])' = filterIDs(ids, config[c])
    BY <1>1 DEF filterIDs
  <2> QED BY <1>1, <1>2, <1>3, <2>1, <2>2, <2>3, <2>4 DEF ContinuationCause
<1>5. DescriptorCause => DescriptorCause'
  <2>1. Located(snapshot, config[state.step.channel])'
          = Located(snapshot, config[state.step.channel])
    BY <1>1 DEF Located
  <2>2. WithinLimits(desc)' <=> WithinLimits(desc)
    BY desc' = desc, Zenon
  <2> QED BY <1>1, <2>1, <2>2 DEF DescriptorCause
<1> QED BY <1>4, <1>5

(* A refusal for another reason needs none of the causes. *)
LEMMA RefuseRequests ==
  ASSUME NEW who, NEW why, Refuse(who, why),
         <<who, why>> = <<"planner", "continuation">> => ContinuationCause,
         <<who, why>> = <<"writer", "descriptor">> => DescriptorCause
  PROVE  Requests'
<1>1. /\ UNCHANGED <<scenario, state, desc, fetched>>
      /\ pc' = "refused" /\ outcome' = <<who, why>>
  BY DEF Refuse, plannerVars, writerVars
<1>2. RefusalsHaveCause'
  BY <1>1, CausesKept DEF RefusalsHaveCause
<1> QED BY <1>1, <1>2 DEF Requests, Answered, Planning

(* No attempt that goes on has been refused. *)
LEMMA NoRefusal ==
  ASSUME outcome' = << >> \/ outcome' = <<"planner", "proposal">>
  PROVE  RefusalsHaveCause'
BY DEF RefusalsHaveCause

LEMMA SameSeen ==
  ASSUME Kept, UNCHANGED <<state, seen>>, NEW made, Seen(state, made)
  PROVE  Seen(state, made)'
<1>1. ASSUME NEW st, st = state PROVE Seen(state, made)'
  <2>1. Seen(st, made) /\ state' = st
    BY <1>1
  <2>2. Seen(st, made)'
    BY <2>1, SeenKept
  <2> QED BY <2>1, <2>2
<1> QED BY <1>1

LEMMA StillRequests ==
  ASSUME Requests, UNCHANGED <<scenario, pc, state, goal, desc, seen, fetched, outcome>>
  PROVE  Requests'
<1>1. Kept /\ Offer(state)' = Offer(state) /\ (Answered' <=> Answered)
      /\ (Planning("emit")' <=> Planning("emit"))
  <2>1. Kept
    BY SameFetches
  <2>2. ASSUME NEW st, st = state PROVE Offer(state)' = Offer(st)
    <3>1. Offer(st)' = Offer(st) /\ state' = st
      BY <2>2, OfferKept
    <3> QED BY <3>1
  <2> QED BY <2>1, <2>2 DEF Answered, Planning
<1>2. RefusalsHaveCause'
  BY CausesKept DEF Requests, RefusalsHaveCause
<1>3. pc' = "offered" \/ Planning("emit")' => Seen(state, FALSE)'
  BY <1>1, SameSeen DEF Requests
<1>4. pc' = "fetching" \/ Answered' => Seen(state, TRUE)'
  BY <1>1, SameSeen DEF Requests
<1> QED BY <1>1, <1>2, <1>3, <1>4 DEF Requests

LEMMA StartRequests == Requests /\ Start => Requests'
<1> SUFFICES ASSUME Requests, Start PROVE Requests'
  OBVIOUS
<1>1. /\ pc = "start" /\ pc' = "planning" /\ goal' \in {"emit", "finish"}
      /\ UNCHANGED <<seen, outcome>>
  BY DEF Start, Proceed, Prepare, writerVars
<1>2. outcome' = << >> /\ seen' = {}
  BY <1>1 DEF Requests
<1>3. Seen(state, FALSE)'
  BY <1>2 DEF Seen
<1>4. RefusalsHaveCause'
  BY <1>2, NoRefusal
<1> QED BY <1>1, <1>2, <1>3, <1>4 DEF Requests, Answered, Planning

LEMMA ConsumeRequests == Shape /\ Course /\ Requests /\ Consume => Requests'
<1> SUFFICES ASSUME Shape, Course, Requests, Consume PROVE Requests'
  OBVIOUS
<1> DEFINE b == parseCatalog(op, state.step.kind, body)
           n == nextStep(consumeFetch(state, b))
<1>1. CASE Refuse("planner", "catalog")
  BY <1>1, RefuseRequests
<1>2. CASE Readable(state, b) /\ Proceed(consumeFetch(state, b))
  <2>1. Planning("consume") /\ Answered
    BY DEF Consume, Ready, Planning, Answered
  <2>2. Seen(state, TRUE) /\ outcome = << >>
    BY <2>1 DEF Requests, Planning
  <2> HIDE DEF b
  <2>3. n.found => Seen(n.state, FALSE)
    BY <1>2, <2>1, <2>2, NextSeen
  <2>4. Prepare(n.state, IF n.found THEN "emit" ELSE "finish")
    BY <1>2 DEF Proceed
  <2> HIDE DEF n
  <2>5. /\ pc' = "planning" /\ state' = n.state
        /\ goal' = IF n.found THEN "emit" ELSE "finish"
        /\ UNCHANGED <<scenario, seen, fetched, outcome>>
    BY <2>4 DEF Prepare, writerVars
  <2>6. Kept
    BY <2>5, SameFetches
  <2>7. n.found => Seen(state, FALSE)'
    <3>1. ASSUME NEW st, st = n.state, n.found PROVE Seen(state, FALSE)'
      <4>1. Seen(st, FALSE) /\ state' = st
        BY <2>3, <2>5, <3>1
      <4>2. Seen(st, FALSE)'
        BY <2>5, <2>6, <4>1, SeenKept
      <4> QED BY <4>1, <4>2
    <3> QED BY <3>1
  <2>8. RefusalsHaveCause'
    BY <2>2, <2>5, NoRefusal
  <2> QED BY <2>2, <2>5, <2>7, <2>8 DEF Requests, Answered, Planning
<1> QED BY <1>1, <1>2 DEF Consume

LEMMA EmitRequests == Shape /\ Course /\ Requests /\ Emit => Requests'
<1> SUFFICES ASSUME Shape, Course, Requests, Emit PROVE Requests'
  OBVIOUS
<1>1. CASE Refuse("planner", "channel")
  BY <1>1, RefuseRequests
<1>2. CASE ~Refuse("planner", "channel")
  <2>1. /\ Planning("emit") /\ pc' = "offered" /\ desc' = Offer(state)
        /\ state' \in {state, RoundTrip(state)}
        /\ UNCHANGED <<scenario, seen, fetched, outcome>>
    BY <1>2 DEF Emit, Ready, Planning, Offer
  <2>2. Kept /\ Seen(state, FALSE) /\ outcome = << >> /\ StateShape(state)
    BY <2>1, SameFetches DEF Requests, Planning, Shape, Types
  <2>3. ASSUME NEW st, state' = st
        PROVE  Seen(state, FALSE)' /\ Offer(state)' = Offer(state)
    <3>1. st.step = state.step /\ st.cursors = state.cursors
      <4>1. RoundTrip(state).step = state.step /\ RoundTrip(state).cursors = state.cursors
        <5>1. PICK results : RoundTrip(state) = [state EXCEPT !.results = results]
          BY Zenon DEF RoundTrip
        <5> QED BY <2>2, <5>1 DEF StateShape, IsState
      <4> QED BY <2>1, <2>3, <4>1
    <3>2. Seen(st, FALSE)'
      BY <2>1, <2>2, <3>1, SeenKept
    <3>3. Offer(st)' = Offer(state)
      BY <2>1, <3>1, OfferKept
    <3> QED BY <2>3, <3>2, <3>3
  <2>4. Seen(state, FALSE)' /\ Offer(state)' = Offer(state)
    BY <2>3
  <2>5. RefusalsHaveCause'
    BY <2>1, <2>2, NoRefusal
  <2> QED BY <2>1, <2>2, <2>4, <2>5 DEF Requests, Answered, Planning
<1> QED BY <1>1, <1>2

LEMMA ResolveRequests == Shape /\ Requests /\ Resolve => Requests'
<1> SUFFICES ASSUME Shape, Requests, Resolve PROVE Requests'
  OBVIOUS
<1>1. CASE Refuse("planner", "credential")
  BY <1>1, RefuseRequests
<1>2. CASE ~Refuse("planner", "credential")
  <2> DEFINE check == lookup.check
             c == check.channel
  <2>1. PICK m :
          /\ UNCHANGED <<scenario, pc, goal, writerVars, outcome>>
          /\ check \in todo /\ pc = "planning"
          /\ state' = IF IsNew(check)
                      THEN [state EXCEPT !.step.auth = m.index,
                                         !.bound = BindTo(@, c, m)]
                      ELSE state
    BY <1>2, ResolveFinds
  <2>2. UNCHANGED <<scenario, pc, goal, desc, seen, fetched, outcome>>
    BY <2>1 DEF writerVars
  <2>3. CASE ~IsNew(check)
    BY <2>1, <2>2, <2>3, StillRequests
  <2>4. CASE IsNew(check)
    <3>1. Planning("emit") /\ Planning("emit")' /\ ~Answered'
      BY <2>1, <2>2, <2>4 DEF IsNew, Planning, Answered
    <3>2. Seen(state, FALSE) /\ outcome = << >> /\ StateShape(state) /\ Kept
      BY <2>1, <2>2, <3>1, SameFetches DEF Requests, Shape, Types
    <3> DEFINE bound == BindTo(state.bound, c, m)
    <3>3. state' = [state EXCEPT !.step.auth = m.index, !.bound = bound]
      BY <2>1, <2>4
    <3> HIDE DEF bound
    <3>4. ASSUME NEW st, state' = st PROVE Seen(state, FALSE)'
      <4>1. /\ st.step = [state.step EXCEPT !.auth = m.index]
            /\ st.cursors = state.cursors
        BY <3>2, <3>3, <3>4 DEF StateShape, IsState
      <4>2. /\ st.step.kind = state.step.kind /\ st.step.channel = state.step.channel
            /\ st.step.after = state.step.after
        BY <3>2, <4>1 DEF StateShape, IsState, IsStep
      <4>3. Seen(st, FALSE)'
        BY <2>2, <3>2, <4>1, <4>2, SeenKept
      <4> QED BY <3>4, <4>3
    <3>5. Seen(state, FALSE)'
      BY <3>4
    <3>6. RefusalsHaveCause'
      BY <2>2, <3>2, NoRefusal
    <3> QED BY <2>1, <2>2, <3>1, <3>2, <3>5, <3>6 DEF Requests
  <2> QED BY <2>3, <2>4
<1> QED BY <1>1, <1>2

(* The request of the step is one for the catalog the step is at. *)
LEMMA OfferOfStep ==
  ASSUME Shape, pc = "offered", NEW d, d = Offer(state), d.kind = state.step.kind
  PROVE  \/ d.kind \in PublicKind
         \/ /\ state.step.channel \in DOMAIN config
            /\ state.step.channel <= state.step.channel
            /\ OfChannel(d, state.step.channel)
            /\ state.step.kind = "openai_models" \/ d.query = state.step.after
<1>1. /\ StepShape(state.step) /\ state.step.kind # "invalid" /\ state.step.kind # Empty
      /\ ScenarioShape
  BY DEF Shape, Types, StateShape, Progress
<1>2. CASE state.step.kind \in CatalogKind
  <2>1. d = CatalogDescriptor(op, snapshot, config[state.step.channel],
                              state.step.after, state.step.auth)
    BY <1>2 DEF Offer
  <2>2. /\ OfChannel(d, state.step.channel)
        /\ config[state.step.channel].kind = "claude" => d.query = state.step.after
    BY <2>1 DEF CatalogDescriptor, OfChannel
  <2>3. /\ state.step.channel \in DOMAIN config
        /\ state.step.kind = catalogKind(config[state.step.channel])
        /\ state.step.channel \in Nat
    BY <1>1, <1>2 DEF StepShape, ScenarioShape
  <2>4. state.step.channel <= state.step.channel
    BY <2>3
  <2> QED BY <2>2, <2>3, <2>4 DEF catalogKind
<1> QED BY <1>1, <1>2 DEF StepShape

LEMMA ValidateRequests == Shape /\ Course /\ Requests /\ Validate => Requests'
<1> SUFFICES ASSUME Shape, Course, Requests, Validate PROVE Requests'
  OBVIOUS
<1>1. /\ pc = "offered" /\ desc = Offer(state) /\ Seen(state, FALSE) /\ outcome = << >>
      /\ desc.kind = state.step.kind
  BY DEF Validate, Requests, Shape, Types
<1>2. DescriptorCause \/ (validateFetchDescriptor(op, snapshot, desc) /\ desc \notin seen)
  BY <1>1, DescriptorFits, RequestIsNew
<1>3. CASE Refuse("writer", "descriptor")
  <2>1. DescriptorCause
    BY <1>1, <1>2, <1>3 DEF Validate, Refuse
  <2> QED BY <1>3, <2>1, RefuseRequests
<1>4. CASE ~Refuse("writer", "descriptor")
  <2>1. /\ seen' = seen \cup {desc} /\ pc' = "fetching"
        /\ UNCHANGED <<scenario, state, desc, fetched, outcome>>
    BY <1>4 DEF Validate, plannerVars
  <2>2. config' = config /\ Offer(state)' = Offer(state)
    <3>1. ASSUME NEW st, st = state PROVE Offer(state)' = Offer(st)
      <4>1. Offer(st)' = Offer(st) /\ state' = st
        BY <2>1, <3>1, OfferKept
      <4> QED BY <4>1
    <3> QED BY <2>1, <3>1, SameScenario
  <2>3. ASSUME NEW d \in seen \cup {desc}
        PROVE  \/ /\ d.kind \in PublicKind
                  /\ \/ \E i \in DOMAIN fetched : fetched[i].kind = d.kind
                     \/ d.kind = state.step.kind
               \/ \E k \in DOMAIN config :
                    /\ OfChannel(d, k) /\ k <= state.step.channel
                    /\ k = state.step.channel /\ state.step.kind \in CatalogKind =>
                         \/ d.query \in Queries(state)
                         \/ state.step.kind = "openai_models"
                         \/ d.query = state.step.after
    <3>1. CASE d \in seen
      BY <1>1, <3>1 DEF Seen
    <3>2. CASE d = desc
      BY <1>1, <3>2, OfferOfStep
    <3> QED BY <3>1, <3>2
  <2>4. Seen(state, TRUE)'
    <3>1. \A d, k : OfChannel(d, k)' = OfChannel(d, k)
      BY <2>2 DEF OfChannel
    <3>2. Queries(state)' = Queries(state)
      BY <2>1 DEF Queries
    <3> QED BY <2>1, <2>2, <2>3, <3>1, <3>2 DEF Seen
  <2>5. RefusalsHaveCause'
    BY <1>1, <2>1, NoRefusal
  <2> QED BY <1>1, <2>1, <2>2, <2>4, <2>5 DEF Requests, Answered, Planning
<1> QED BY <1>3, <1>4

LEMMA FetchRequests == Shape /\ Requests /\ Fetch => Requests'
<1> SUFFICES ASSUME Shape, Requests, Fetch PROVE Requests'
  OBVIOUS
<1>1. /\ pc = "fetching" /\ pc' = "continue"
      /\ UNCHANGED <<scenario, state, desc, seen, outcome>>
  BY DEF Fetch, plannerVars
<1>2. Seen(state, TRUE) /\ desc = Offer(state) /\ outcome = << >>
  BY <1>1 DEF Requests
<1>3. Kept
  BY <1>1, FetchAdds DEF Kept
<1>4. Seen(state, TRUE)'
  BY <1>1, <1>2, <1>3, SameSeen
<1>5. ASSUME NEW st, st = state PROVE Offer(state)' = Offer(st)
  <2>1. Offer(st)' = Offer(st) /\ state' = st
    BY <1>1, <1>5, OfferKept
  <2> QED BY <2>1
<1>6. RefusalsHaveCause'
  BY <1>1, <1>2, NoRefusal
<1> QED BY <1>1, <1>2, <1>4, <1>5, <1>6 DEF Requests, Planning

LEMMA ContinueRequests == Shape /\ Course /\ Requests /\ Continue => Requests'
<1> SUFFICES ASSUME Shape, Course, Requests, Continue PROVE Requests'
  OBVIOUS
<1>1. /\ pc = "continue" /\ Answered /\ desc = Offer(state) /\ Seen(state, TRUE)
      /\ outcome = << >>
  BY DEF Continue, Answered, Requests
<1>2. CASE Prepare(state, "consume")
  <2>1. /\ pc' = "planning" /\ goal' = "consume"
        /\ UNCHANGED <<scenario, state, seen, fetched, outcome>>
    BY <1>2 DEF Prepare, writerVars
  <2>2. Kept
    BY <2>1, SameFetches
  <2>3. Seen(state, TRUE)'
    BY <1>1, <2>1, <2>2, SameSeen
  <2>4. RefusalsHaveCause'
    BY <1>1, <2>1, NoRefusal
  <2> QED BY <1>1, <2>1, <2>3, <2>4 DEF Requests, Answered, Planning
<1>3. CASE ContinuationCause /\ Refuse("planner", "continuation")
  BY <1>3, RefuseRequests
<1> QED BY <1>1, <1>2, <1>3, ContinuationFits DEF Continue

LEMMA OtherRequests ==
  ASSUME Requests,
         \/ ListAuths \/ GetRuntime \/ GetPhysical \/ HostFails \/ FetchFails
         \/ Finish \/ Ended \/ UNCHANGED vars
         \/ \E a \in AuthIndex : ChangeAuth(a)
  PROVE  Requests'
<1>1. CASE Refuse("planner", "credential") \/ Refuse("writer", "fetch")
  BY <1>1, RefuseRequests
<1>2. CASE UNCHANGED <<scenario, pc, state, goal, desc, seen, fetched, outcome>>
  BY <1>2, StillRequests
<1>3. CASE ListAuths
  BY <1>2, <1>3 DEF ListAuths, writerVars
<1>4. CASE GetRuntime
  BY <1>1, <1>2, <1>4 DEF GetRuntime, writerVars
<1>5. CASE GetPhysical
  BY <1>1, <1>2, <1>5 DEF GetPhysical, writerVars
<1>6. CASE HostFails \/ FetchFails
  BY <1>1, <1>6 DEF HostFails, FetchFails
<1>7. CASE Finish
  <2>1. pc' = "proposed" /\ outcome' = <<"planner", "proposal">>
    BY <1>7 DEF Finish
  <2>2. RefusalsHaveCause'
    BY <2>1, NoRefusal
  <2> QED BY <2>1, <2>2 DEF Requests, Answered, Planning
<1>8. CASE Ended \/ UNCHANGED vars
  BY <1>2, <1>8 DEF Ended, vars, plannerVars, writerVars
<1>9. CASE \E a \in AuthIndex : ChangeAuth(a)
  BY <1>2, <1>9 DEF ChangeAuth, plannerVars, writerVars
<1> QED BY <1>3, <1>4, <1>5, <1>6, <1>7, <1>8, <1>9

(* Requests is kept by every step. *)
LEMMA RequestsIsInductive == Shape /\ Course /\ Requests /\ [Next]_vars => Requests'
<1> SUFFICES ASSUME Shape, Course, Requests, [Next]_vars PROVE Requests'
  OBVIOUS
<1>1. CASE Start \/ Continue \/ Consume \/ Emit \/ Resolve \/ Validate \/ Fetch
  BY <1>1, StartRequests, ContinueRequests, ConsumeRequests, EmitRequests,
     ResolveRequests, ValidateRequests, FetchRequests
<1>2. CASE \/ ListAuths \/ GetRuntime \/ GetPhysical \/ HostFails \/ FetchFails
           \/ Finish \/ Ended \/ UNCHANGED vars
           \/ \E a \in AuthIndex : ChangeAuth(a)
  BY <1>2, OtherRequests
<1> QED BY <1>1, <1>2 DEF Next

LEMMA InitRequests == Init => Requests
<1> SUFFICES ASSUME Init PROVE Requests
  OBVIOUS
<1>1. pc = "start" /\ outcome = << >> /\ seen = {}
  BY DEF Init
<1>2. RefusalsHaveCause
  BY <1>1 DEF RefusalsHaveCause
<1> QED BY <1>1, <1>2 DEF Requests, Answered, Planning

(* Of the checks that validContinuationState and validateFetchDescriptor make here, those
   a planner's own continuation and request can fail are the ones that the causes name:
   each cause is said of the catalogs, the configuration and the snapshot, and no other
   rule of one program can disagree with what the other, or itself, has written. *)
THEOREM RefusalsCorrect == Spec => []RefusalsHaveCause
<1>1. Init => Shape /\ Course /\ Requests
  BY InitShape, InitCourse, InitRequests
<1>2. Shape /\ Course /\ Requests /\ [Next]_vars => (Shape /\ Course /\ Requests)'
  BY ShapeIsInductive, CourseIsInductive, RequestsIsInductive
<1>3. Requests => RefusalsHaveCause
  BY DEF Requests
<1> QED BY <1>1, <1>2, <1>3, PTL DEF Spec

=============================================================================
