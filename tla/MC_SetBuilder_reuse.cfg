SPECIFICATION Spec
CONSTANTS
  W = 2
  MaxAddr = 3
  Prefixes <- ModelPrefixes
  Readers = {}
  MaxAdds = 4
  MaxSets = 2
INVARIANTS SetsKeepMembers
CHECK_DEADLOCK FALSE
