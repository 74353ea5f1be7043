CONSTANTS
  x = x
  y = y
  NULL = NULL
  UPROCMAX = 2
  prints <- Texts
  services <- TwoPrograms
  MaxRequests = 1
  Trapping <- Second
  Pressed <- Second
  MaxEvictions = 1
CONSTRAINT Sane
SPECIFICATION FairSpec
INVARIANTS
  TypeOK
  TestEndsLast
  EndTogether
  NoStaleAnswer
  InterruptFindsSst
  StrayOnlyInRequest
PROPERTIES
  PrintsAsAsked
  Halts
