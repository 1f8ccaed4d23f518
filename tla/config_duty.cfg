SPECIFICATION Spec
CONSTANTS
  Periods <- SafePeriods
  DutySteps = 16
INVARIANTS
  FieldsFit
  DutyAsAsked
  DutyMonotone
  CycleAsAsked
CHECK_DEADLOCK FALSE
