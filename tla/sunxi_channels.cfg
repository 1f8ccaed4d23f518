SPECIFICATION Spec
CONSTANTS
  p0 = p0
  p1 = p1
  p2 = p2
  NULL = NULL
  Channels = {0, 1}
  Pins <- SeveralPins
  AxpPins = {p1}
  Requests <- FastAndDirect
  Preempt = FALSE
  EarlyCalls = FALSE
SYMMETRY Symmetric
INVARIANTS
  TypeOK
  EnabledRuns
  NoGpioLeak
  CycleKept
PROPERTIES
  DisableStops
  PolarityFixedWhileEnabled
