SPECIFICATION Spec
CONSTANTS
  WordBits = 11
  Precision = 1
  MaxHeight = 30
  BlocksPerYearChoices <- MCBlocksPerYearChoices
  RateChoices <- MCRateChoices
  DeltaChoices <- MCDeltaChoices
INVARIANTS
  TypeOK
  ParamsStayValid
  ScheduleEnforced
  HaltOnlyOnOverflow
PROPERTY
  CapNeverRises
