----------------------- MODULE MCMetadataPrecedence -----------------------
(* Small instances of MetadataPrecedence for TLC: every source has a value *)
(* of its own, so that a value tells where it came from.                   *)
EXTENDS MetadataPrecedence

\* The entry that gives the fields in S the value v.
Giving(v, S) == [f \in metadataFieldNames |-> IF f \in S THEN v ELSE Unset]

MCValue == {"old", "upstream", "params1", "params2", "dev", "manual"}

\* Every combination of fields present in the config.
MCModels == {Giving("old", S) : S \in SUBSET metadataFieldNames}

MCUpstreams ==
  {Giving("upstream", S) :
     S \in {{}, metadataFieldNames, Described, Limit,
            {"max-output-tokens", "thinking.levels"}}}

Params(v) ==
  {[website |-> "modelparams.dev", entry |-> Giving(v, S)] :
     S \in SUBSET {"thinking.levels", "max-output-tokens"}}
Dev ==
  {[website |-> "models.dev", entry |-> Giving("dev", S)] :
     S \in {{}, {"max-context-length", "input-modalities"}, {"max-output-tokens"},
            metadataFieldNames \ {"thinking.levels", "max-input-tokens"}}}

\* No source, one, or two: those of modelparams.dev come first (parseConfig).
MCSourceLists ==
  {<<>>} \cup {<<s>> : s \in Params("params1") \cup Dev}
    \cup {<<s, t>> : s \in Params("params1"), t \in Params("params2") \cup Dev}

MCOverrides == {Giving("manual", S) : S \in {{}} \cup {{f} : f \in metadataFieldNames}}
=============================================================================
