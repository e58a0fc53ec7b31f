SPECIFICATION Spec
CONSTANTS
  W = 2
  U = 3
  Lines <- AllLines
  Files = 2
  Modes = {"date", "specific"}
  MaxLines = 3
INVARIANTS AnswersPublished NothingSilent LogExplainsTable OrderFreeOncePerCountry OutputWhole
CHECK_DEADLOCK FALSE
