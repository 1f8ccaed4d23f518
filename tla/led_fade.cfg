SPECIFICATION Spec
CONSTANTS
  Longest = 70
  NULL = NULL
  Leds = {0}
  Ticking = {0}
  Scripts <- Fades
PROPERTIES
  FadeOneWay
