SPECIFICATION Spec
CONSTANTS
  v4l2 = v4l2
  writer = writer
  NULL = NULL
  V4l2 = v4l2
  Misc = {writer}
  Exps <- MCExps
  Gains <- MCGains
  Rates = {60}
  MaxLost = 3
  MaxCalls = 4
INVARIANTS
  TypeOK
  FormatKept
  ExposureAsAsked
  GainAsAsked
PROPERTIES
  QuietWhileSwitching
CHECK_DEADLOCK FALSE
