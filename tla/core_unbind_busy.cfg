SPECIFICATION Spec
CONSTANTS
  c1 = c1
  c2 = c2
  m1 = m1
  m2 = m2
  k1 = k1
  k2 = k2
  devA = devA
  conX = conX
  NULL = NULL
  Chips = {c1}
  Modules = {m1}
  Consumers = {k1, k2}
  Name <- OwnNames
  Npwm <- MCNpwm
  Owner <- OneModule
  HasRequestOp = {}
  MaxPwms = 3
  Bases <- DynamicBase
  BoardTable <- TinyTable
  Devices = {devA}
  ConIds = {conX}
  Preempt = FALSE
  SysfsUnbind = TRUE
INVARIANTS
  NoStaleChip
CHECK_DEADLOCK FALSE
