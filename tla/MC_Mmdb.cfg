CONSTANTS
  W4 = 2
  W6 = 5
  Mapped = 4
  Zones = {0}
  NoData = NoData
  CountryRows <- MCCountryRows
  ContinentRows <- MCContinentRows
  NoCode = NoCode
  MaxRows = 3
  NameKeys <- MCNameKeys
  Override <- MCOverride
  Fallback <- MCFallback
  Specs <- MCSpecs
  Versions = {4, 6}
  PseudoCodes = {"EU"}
  Aliases <- MCAliases
  NodeSize = 2
  Separator = 2
  UintBits = 4
  maxMMDBDepth = 4
  Queries <- MCQueries
  Foreign <- MCForeign
SPECIFICATION FairSpec
INVARIANTS ContinentDecided LookupExact AgreesWithTable FileWhole TreeInside
PROPERTIES DecodeEnds
CHECK_DEADLOCK FALSE
