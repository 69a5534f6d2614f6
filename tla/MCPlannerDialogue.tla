------------------------- MODULE MCPlannerDialogue -------------------------
(* Small instances of PlannerDialogue for TLC. *)
EXTENDS PlannerDialogue

\* A configuration with one catalog, and one with two of which one comes in pages.
MCConfig == {"small", "large"}
MCTargets == [c \in MCConfig |->
                IF c = "small" THEN <<"openai">> ELSE <<"openai", "claude">>]
=============================================================================
