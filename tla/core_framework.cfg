SPECIFICATION Spec
CONSTANTS
  c1 = c1
  c2 = c2
  m1 = m1
  m2 = m2
  k1 = k1
  k2 = k2
  devA = devA
  conX = conX
  NULL = NULL
  Chips = {c1, c2}
  Modules = {m1, m2}
  Consumers = {k1, k2}
  Name <- OwnNames
  Npwm <- MCNpwm
  Owner <- TwoModules
  HasRequestOp = {c1}
  MaxPwms = 4
  Bases <- AllBases
  BoardTable <- FullTable
  Devices = {devA}
  ConIds = {conX}
  Preempt = FALSE
  SysfsUnbind = FALSE
SYMMETRY Symmetric
INVARIANTS
  TypeOK
  RegistryConsistent
  ExclusiveOwnership
  RefsMatchRequests
  NoDanglingHandle
  NoStaleChip
  DetachedReleasesAll
  GetNeverFaults
PROPERTIES
  LookupPicksMostSpecific
  ImplementsPromise
