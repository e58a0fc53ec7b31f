SPECIFICATION FairSpec
CONSTANTS
  W = 2
  MaxAddr = 3
  MaxLength = 2
  Prefixes <- ModelPrefixes
  MaxAdds = 4
  MaxTables = 2
INVARIANTS TablesExact SweepInvariant LaterNestedRangeWins
PROPERTIES FreezeReturns
CHECK_DEADLOCK FALSE
