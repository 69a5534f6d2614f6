\* Two dialogues, one reconfiguration and a shutdown, pages of two sizes.
CONSTANTS
  Config <- MCConfig
  Targets <- MCTargets
  Paged = {"claude"}
  Size = {1, 2}
  maxProviderPages = 3
  maxClaudePages = 3
  maxProviderBytes = 4
  MaxDialogues = 2
  MaxGeneration = 2
\* With the bounds used up nothing need happen any more.
CHECK_DEADLOCK FALSE
SPECIFICATION Spec
INVARIANTS
  TypeOK
  RefusalHasCause
  OverlapsAreLate
PROPERTIES
  ProposalIsWhole
  StallEnds
