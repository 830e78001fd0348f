SPECIFICATION Spec
CONSTANTS
  Kilo = 4
  PicoPerMsat = 2
  Word = 8192
  Amounts <- AllAmounts
  None = None
INVARIANTS TypeOK AmountSurvives PicoEndsInZero Shortest ReadIsExact
CHECK_DEADLOCK FALSE
