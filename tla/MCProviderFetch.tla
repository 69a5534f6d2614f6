-------------------------- MODULE MCProviderFetch --------------------------
(* Small configurations, snapshots, credentials and catalogs.              *)
EXTENDS ProviderFetch

\* Two names differ in case alone, and so do two words.
MCWord(word) == IF word = "Text" THEN "text" ELSE word
MCUpper(name) == IF name = "m1" THEN "M1" ELSE name
MCSought(id, name) == MCUpper(id) = MCUpper(name)

\* A long value fits in the headers once and not twice, a large one not at all, and no
\* long piece in a URL.
MCSize(text) == IF text = "long" THEN 8 ELSE IF text = "large" THEN 9 ELSE 1

BaseOf(host) == [host |-> host, path |-> FALSE, mark |-> FALSE, size |-> 1]
Anthropic == BaseOf("anthropic")
AnthropicPath == [Anthropic EXCEPT !.path = TRUE]
Gateway == BaseOf("gateway")
GatewayPath == [Gateway EXCEPT !.path = TRUE]
Marked(base) == [base EXCEPT !.mark = TRUE]
Lengthy(base) == [base EXCEPT !.size = 9]

OpenAI(base) ==
  [enabled |-> TRUE, kind |-> "openai", label |-> "x", base |-> base, index |-> 0,
   upstreamMeta |-> TRUE, codex |-> FALSE, sources |-> << >>,
   overrides |-> {},
   mode |-> "include", matched |-> {"m1"}]
Claude(base) ==
  [OpenAI(base) EXCEPT !.kind = "claude", !.index = 1]

EntryOf(spec) ==
  [label |-> spec.label, base |-> spec.base, disabled |-> "no",
   direct |-> TRUE, named |-> TRUE, readable |-> TRUE, headers |-> << >>,
   models |-> <<[name |-> "m1", levels |-> << >>],
                [name |-> "m2", levels |-> <<"high">>]>>]

\* The snapshot that has an entry for each channel, one of them edited.
SnapshotOf(cfg, Edit(_)) ==
  [kind \in Kind |->
     LET mine == SelectSeq(cfg, LAMBDA spec : spec.kind = kind) IN
     [i \in DOMAIN mine |-> Edit(EntryOf(mine[i]))]]

Plain(entry) == entry
With(o, cfg, Edit(_)) == [op |-> o, config |-> cfg, snapshot |-> SnapshotOf(cfg, Edit)]

Source(kind, provider) == [kind |-> kind, provider |-> provider]
Sourced(spec) ==
  [spec EXCEPT !.sources = <<Source("modelparams", "p"), Source("modelparams", "q"),
                             Source("modelsdev", "p")>>]
Reversed(spec) == [Sourced(spec) EXCEPT !.sources = Reverse(@)]
Off(spec) == [spec EXCEPT !.enabled = FALSE]
Params(spec) ==
  [spec EXCEPT !.sources = <<Source("modelparams", "p")>>, !.upstreamMeta = FALSE]
Overriding(spec, overrides) == [spec EXCEPT !.overrides = overrides]
Given(model, levels) == [model |-> model, given |-> TRUE, levels |-> levels]

\* What is fetched, and in which order.  parseConfig refuses the reversed sources
\* and the channel configured twice.
FetchScenarios ==
  {With("metadata", cfg, Plain) : cfg \in {
     << >>,
     <<Off(OpenAI(Gateway))>>,
     <<Sourced(OpenAI(Gateway))>>,
     <<Reversed(OpenAI(Gateway))>>,
     <<OpenAI(Gateway), Params(Claude(Anthropic))>>,
     <<Params(OpenAI(Gateway)), [OpenAI(GatewayPath) EXCEPT !.codex = TRUE]>>,
     <<Overriding(Params(OpenAI(Gateway)), {Given("m1", <<"high", "low">>)}),
       OpenAI(GatewayPath)>>,
     <<Claude(Anthropic), Off(OpenAI(Gateway)), Sourced(OpenAI(GatewayPath))>>}}
  \cup
  {With("auto_pull", cfg, Plain) : cfg \in {
     <<OpenAI(Gateway)>>,
     <<OpenAI(Gateway), OpenAI(Gateway)>>,
     <<[OpenAI(Gateway) EXCEPT !.mode = "exclude"], OpenAI(GatewayPath)>>}}

\* One channel that takes the metadata of its provider and of both catalogs.
FullChannel == {With("metadata", <<Sourced(OpenAI(Gateway))>>, Plain)}

\* What a planner may not take back: an operator's empty list of levels, models
\* with almost the same name, public catalogs, long lists of models and cursors.
ContinuationScenarios ==
  {With("metadata", cfg, Plain) : cfg \in {
     <<Sourced([OpenAI(Gateway) EXCEPT !.codex = TRUE])>>,
     <<Claude(Anthropic)>>,
     <<Params(OpenAI(Gateway)), OpenAI(GatewayPath)>>,
     <<Overriding(OpenAI(Gateway), {Given("m1", << >>)}), OpenAI(GatewayPath)>>,
     <<Overriding(OpenAI(Gateway), {Given("m1", <<"low">>), Given("M1", <<"low">>)}),
       OpenAI(GatewayPath)>>}}
  \cup
  {With("auto_pull",
        <<[OpenAI(Gateway) EXCEPT !.matched = {"m1", "m2"}], OpenAI(GatewayPath)>>, Plain)}

\* What a request may be.
Edited(entry, name, value) == [entry EXCEPT !.headers = (name :> value)]
DescriptorScenarios ==
  {With(o, <<OpenAI(Gateway)>>,
        LAMBDA entry : Edited(entry, h[1], h[2])) :
     o \in Operation,
     h \in {<<"accept", "">>, <<"accept", "other">>, <<"user-agent", "other">>,
            <<"user-agent", "long">>, <<"user-agent", "large">>,
            <<"authorization", "other">>}}
  \cup
  {With("metadata", <<Claude(base)>>,
        LAMBDA entry : Edited(entry, h[1], h[2])) :
     base \in {Anthropic, AnthropicPath, Gateway},
     h \in {<<"anthropic-version", "other">>, <<"anthropic-version", "fixed">>,
            <<"anthropic-version", "">>,
            <<"accept", "">>, <<"x-api-key", "other">>}}
  \cup
  {With(o, <<OpenAI(Gateway)>>,
        LAMBDA entry : [entry EXCEPT !.disabled = d, !.direct = r, !.readable = r]) :
     o \in Operation, d \in {"no", "yes", "odd"}, r \in BOOLEAN}
  \cup
  {With(o, <<OpenAI(base)>>, Plain) :
     o \in Operation, base \in {Marked(Gateway), Lengthy(Gateway)}}
  \cup
  {With("metadata", <<[Claude(base) EXCEPT !.label = label]>>, Plain) :
     base \in {Gateway, Marked(Gateway)}, label \in {"x", " x"}}
  \cup
  {With("metadata", <<OpenAI(Gateway)>>,
        LAMBDA entry : [entry EXCEPT !.headers =
          ("user-agent" :> "long") @@ ("accept" :> "long")])}

RequestScenarios == ContinuationScenarios \cup DescriptorScenarios

MCScenario == FetchScenarios \cup RequestScenarios

Active(kind, base, path) ==
  [status |-> "active", provider |-> kind, base |-> base, path |-> path,
   label |-> "x"]

\* Two credentials for the first question, one of which may be any; one credential for
\* each channel for the second, that of the first under a good index or an odd one.
MCAuthIndex == {"a1", "a2", "odd"}
Gone == [Active("openai", Gateway, "p") EXCEPT !.status = "gone"]
FetchAuth ==
  {Active("openai", Gateway, "p"), Active("openai", GatewayPath, "p"),
   Active("openai", Gateway, "q"),
   Active("claude", Anthropic, "p"), Active("claude", AnthropicPath, "p"),
   Active("claude", Gateway, "p"), Gone}
FetchAuths ==
  {("a1" :> Active("openai", Gateway, "p")) @@ ("a2" :> x) @@ ("odd" :> Gone) :
     x \in FetchAuth \ {Active("openai", Gateway, "q")}}
RequestAuth ==
  {Gone, Active("openai", GatewayPath, "p")}
  \cup {Active("openai", base, "p") : base \in {Gateway, Marked(Gateway), Lengthy(Gateway)}}
  \cup {[Active("claude", base, "p") EXCEPT !.label = label] :
          base \in {Anthropic, AnthropicPath, Gateway, Marked(Gateway)},
          label \in {"x", " x"}}
RequestAuths ==
  {("a2" :> Active("openai", GatewayPath, "p")) @@ (i :> x) @@ (j :> Gone) :
     i, j \in {"a1", "odd"}, x \in RequestAuth} \cap [MCAuthIndex -> RequestAuth]

MCAuth == FetchAuth \cup RequestAuth
MCInitialAuths == FetchAuths \cup RequestAuths

Item(id, input, levels) ==
  [names |-> {id}, input |-> input, bare |-> FALSE, levels |-> levels, limit |-> 1,
   says |-> TRUE]
Plainly(id) == Item(id, <<"text", "image">>, << >>)
Limited(id, limit) == [Plainly(id) EXCEPT !.limit = limit]
Bare(id) == [Item(id, << >>, << >>) EXCEPT !.bare = TRUE]
Doc(items) ==
  [sound |-> TRUE, again |-> TRUE, items |-> items, more |-> FALSE, cursor |-> ""]
Page(items, cursor) ==
  [Doc(items) EXCEPT !.more = TRUE, !.cursor = cursor]
NotAgain(doc) == [doc EXCEPT !.again = FALSE]

\* Catalogs in the form CPA writes, others, and some that cannot be used: without
\* a model, or with one twice.  One limit is the least that no int holds.
FetchBodies ==
  [kind \in CatalogKind \cup PublicKind |->
     CASE kind = "openai_models" ->
            {Doc(<<Plainly("m1"), Plainly("m1")>>),
             Doc(<<Plainly("m1"), Item("m2", << >>, <<"high", "low", "odd">>)>>),
             Doc(<<Item("m1", <<"image", "text">>, <<"none">>)>>),
             Doc(<<Limited("m1", MaxInt + 1)>>)}
       [] kind = "claude_models" ->
            {Page(<<Item("m1", <<"image", "pdf", "text">>, << >>)>>, "m1"),
             Page(<<Plainly("m2")>>, "m2"), Doc(<<Plainly("m2")>>),
             Page(<< >>, "m1")}
       [] kind = "modelparams" ->
            {Doc(<<Item("m1", << >>, <<"low", "high">>),
                   Item("m2", << >>, <<"none", "auto">>)>>),
             Doc(<<Item("m1", << >>, <<"high", "low">>)>>)}
       [] OTHER -> {Doc(<<[Limited("m1", 0) EXCEPT !.says = FALSE]>>),
                    Doc(<<Plainly("m1")>>)}]

\* The same, and words in upper case, empty lists, names and cursors that differ in
\* case alone, a cursor that is long, and public catalogs that do not read the same
\* again.
MCBodies ==
  [kind \in CatalogKind \cup PublicKind |->
     FetchBodies[kind] \cup
     CASE kind = "openai_models" ->
            {Doc(<<Plainly("m1"), Plainly("M1")>>), Doc(<<Plainly("m1")>>),
             Doc(<<Item("m1", <<"Text">>, << >>)>>), Doc(<<Bare("m1")>>)}
       [] kind = "claude_models" ->
            {Page(<<Plainly("M1")>>, "m3"), Page(<<Bare("m3")>>, "M1"),
             Page(<<Item("m4", <<"Text">>, << >>)>>, "long")}
       [] OTHER -> {NotAgain(doc) : doc \in FetchBodies[kind]}]

---------------------------------------------------------------------------
(* The instance: two questions in one.  How a scenario of FetchScenarios   *)
(* goes while its credentials change, with the plain catalogs; and how any *)
(* other goes with credentials that stay, and all catalogs.                *)

FetchCases == {[s EXCEPT !.config = compiled(@)] : s \in FetchScenarios}
Changing == scenario \in FetchCases

MCInit ==
  Init /\ auths \in IF Changing THEN FetchAuths ELSE RequestAuths

MCFetch == Fetch /\ (Changing => body' \in FetchBodies[desc.kind])

MCChangeAuth ==
  /\ Changing
  /\ \E a \in {"a1", "a2"} : ChangeAuth(a) /\ auths'[a] \in FetchAuth

MCNext ==
  \/ Start \/ Continue \/ Consume \/ Emit \/ Finish
  \/ ListAuths \/ GetRuntime \/ GetPhysical \/ Resolve \/ HostFails
  \/ Validate \/ MCFetch \/ FetchFails \/ MCChangeAuth
  \/ Ended

MCSpec == MCInit /\ [][MCNext]_vars

=============================================================================
