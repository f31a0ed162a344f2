SPECIFICATION DiagSpec
CONSTANTS
  Deadline = 3
  MaxTokens = 4
CHECK_DEADLOCK FALSE
INVARIANTS
  StrictMeansComplete
  ContentMeansLanded
  TimeoutShowsArrival
PROPERTY DiagnosisEnds
