------------------------ MODULE MCProposalOwnership ------------------------
(* Small instances of ProposalOwnership for TLC: an indented list and one in brackets
   of up to two models that differ in one thing or two, beside a channel that no plan
   is for and a Claude channel. *)
EXTENDS ProposalOwnership, TLC

Named(name) ==
  [key |-> "name", keyStyle |-> "plain", value |-> name,
   style |-> IF name \in Unplain THEN "quoted" ELSE "plain"]
With(key, keyStyle) == [key |-> key, keyStyle |-> keyStyle, value |-> "old", style |-> "plain"]
Alias == With("alias", "plain")
Limit == With("max-output-tokens", "plain")
Thinking == With("thinking", "plain")

Block(fields) == [shape |-> "block", fields |-> fields]

MCModels ==
  {Block(<<Named("a"), Alias>>), Block(<<Alias, Named("a"), Thinking, Limit>>),
   Block(<<Alias, Named("a"), Limit, Thinking>>),
   Block(<<Named("a"), With("max-output-tokens", "quoted")>>),
   Block(<<Named("b")>>), Block(<<Named("q"), Alias>>),
   Block(<<Alias>>)}
Flowing(model) == [model EXCEPT !.shape = "flow"]

Second == {Block(<<Named("a"), Alias>>), Block(<<Named("b")>>)}
Lists(models, second) ==
  {<<>>} \cup {<<m>> : m \in models} \cup {<<m, n>> : m \in models, n \in second}

ChannelOf(models, shape) ==
  [rest |-> "old", indirect |-> FALSE, shape |-> shape, models |-> models]
Indented == {ChannelOf(models, "block") : models \in Lists(MCModels, Second) \ {<<>>}}
Bracketed ==
  LET flowing == {Flowing(m) : m \in Second}
  IN  {ChannelOf(models, "flow") : models \in Lists(flowing, flowing)}

Other == ChannelOf(<<Block(<<Named("a"), Limit>>)>>, "block")
DocumentOf(first, second, third) ==
  [rest |-> "old", indirect |-> FALSE, openai |-> <<first, second>>, claude |-> <<third>>]

Simple == DocumentOf(Other, Other, Other)
MCDocuments ==
  {DocumentOf(first, Other, Other) : first \in Indented \cup Bracketed}
  \cup {[Simple EXCEPT !.rest = "new"], [Simple EXCEPT !.indirect = TRUE],
        [Simple EXCEPT !.openai[1].rest = "new"], [Simple EXCEPT !.openai[2].rest = "new"],
        [Simple EXCEPT !.openai[2].indirect = TRUE], [Simple EXCEPT !.claude[1].rest = "new"],
        [Simple EXCEPT !.claude[1].indirect = TRUE], [Simple EXCEPT !.claude = <<>>],
        [Simple EXCEPT !.openai = <<Other>>], [Simple EXCEPT !.claude[1].models = <<>>,
                                                              !.claude[1].shape = "flow"],
        [Simple EXCEPT !.openai[2].models = <<Block(<<Alias>>)>>],
        [Simple EXCEPT !.openai[2].models = @ \o @],
        [Simple EXCEPT !.claude[1].models = <<Block(<<Alias>>)>>],
        [Simple EXCEPT !.claude[1].models[1].fields[2].value = "new"]}

MCDesired == {<<>>, <<"b", "a">>, <<"a", "q">>}

OfFields(thinking, limit) == ("thinking" :> thinking) @@ ("max-output-tokens" :> limit)
MCPatches ==
  {[n \in Name |-> IF n = "b" THEN OfFields(Skip, Skip) ELSE OfFields(t, l)] :
     t \in {"new", Skip}, l \in {"new", Skip}}
=============================================================================
