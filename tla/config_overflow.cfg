SPECIFICATION Spec
CONSTANTS
  Periods <- FullDutyPeriods
  DutySteps = 4
INVARIANTS
  EndsExact
CHECK_DEADLOCK FALSE
