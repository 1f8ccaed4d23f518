SPECIFICATION FairSpec
CONSTANTS
  Longest = 70
  NULL = NULL
  Leds = {0, 1}
  Ticking = {0}
  Scripts <- EveryMode
INVARIANTS
  TypeOK
  CycleIntact
  NoTimerLeft
PROPERTIES
  BreathSmooth
  ToggleInverts
  Breathes
  FadeEnds
  Blinks
