SPECIFICATION FairSpec
CONSTANTS
  c1 = c1
  c2 = c2
  m1 = m1
  m2 = m2
  k1 = k1
  k2 = k2
  devA = devA
  conX = conX
  NULL = NULL
  Chips = {c1, c2}
  Modules = {m1}
  Consumers = {k1, k2}
  Name <- OneName
  Npwm <- AllOne
  Owner <- OneModule
  HasRequestOp = {c1}
  MaxPwms = 2
  Bases <- DynamicBase
  BoardTable <- TinyTable
  Devices = {devA}
  ConIds = {conX}
  Preempt = TRUE
  SysfsUnbind = TRUE
PROPERTIES
  CallsReturn
  DetachCompletes
CHECK_DEADLOCK FALSE
