CONSTANTS
  W4 = 2
  W6 = 4
  Mapped = 4
  Zones = {0, 1}
  Junk = Junk
  Blank = Blank
  s1 = s1
  s2 = s2
  Servers = {s1, s2}
  SpecFiles <- MCFiles
  SpecsOf <- MCSpecsOf
  Inputs <- MCInputs
  Probes <- MCProbes
  MaxInputs = 2
  Requests <- MCRequests
  MaxRequests = 2
SPECIFICATION ServicesSpec
INVARIANTS LoadIsWhole AnswersLongestMatch MatchStatus RestartServes RepliesInOrder
CHECK_DEADLOCK FALSE
