--------------------------- MODULE MCConfigCommit ---------------------------
(* Small instances of ConfigCommit for TLC. *)
EXTENDS ConfigCommit

\* The Writer and one planner, which stands for every other plugin.
TwoPlugins == <<"sync-config-write", "auto-pull-models">>
OnePlanner == <<"auto-pull-models">>

Writer == "sync-config-write"
=============================================================================
