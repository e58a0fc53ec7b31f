SPECIFICATION FairSpec
CONSTANTS
  W = 3
  WordBits = 2
  SwitchAt = 2
  Zones = {0, 1}
  MaxGiven = 3
  MaxLines = 2
  Limits = {0, 3, 6}
INVARIANTS FoldsMinimal WritesExpansion LimitKept PipeInverse
PROPERTIES ExpansionEnds
CHECK_DEADLOCK FALSE
