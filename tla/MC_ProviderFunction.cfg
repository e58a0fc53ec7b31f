SPECIFICATION Spec
CONSTANTS
  Sources <- AllSources
  Prefixes <- One
  MaxRows = 2
INVARIANTS NeverSilent OrderFree NoProviderEmpty TalliesComplete
CHECK_DEADLOCK FALSE
