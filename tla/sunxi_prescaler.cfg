SPECIFICATION Spec
CONSTANTS
  p0 = p0
  p1 = p1
  p2 = p2
  NULL = NULL
  Channels = {0, 1}
  Pins <- OnePinEach
  AxpPins = {p1}
  Requests <- Cycles
  Preempt = FALSE
  EarlyCalls = TRUE
INVARIANTS
  ConfigKept
