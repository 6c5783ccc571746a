SPECIFICATION FairSpec
CONSTANTS
  NoDate = NoDate
  Inputs <- AllInputs
INVARIANTS
  TypeOK
  ScheduleRepaysBalance
  PeriodsChain
  DueDatesAdvance
PROPERTY
  Terminates
CHECK_DEADLOCK FALSE
