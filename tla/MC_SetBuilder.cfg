SPECIFICATION FairOnceSpec
CONSTANTS
  W = 3
  MaxAddr = 5
  Prefixes <- ModelPrefixes
  Readers = {g1}
  MaxAdds = 3
  MaxSets = 1
INVARIANTS BuilderExact SetsExact AnswersExact
PROPERTIES CallsReturn ImplementsMembership FreezeExact
CHECK_DEADLOCK FALSE
