SPECIFICATION Spec
CONSTANTS
  PA0 = PA0
  PB4 = PB4
  AXP0 = AXP0
  NULL = NULL
  t1 = t1
  t2 = t2
  Tasks = {t1, t2}
  Pins = {PA0, PB4, AXP0}
  ZeroPin = PA0
  Pin36 = PB4
  PwmPins = {PB4, AXP0}
  AxpPins = {AXP0}
  Named = {PB4}
  Numbers = {0, 1, 4, 40}
  Boards <- JustGpio
PROPERTIES
  WriteSetsPin
CHECK_DEADLOCK FALSE
