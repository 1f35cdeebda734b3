CONSTANTS
  DUTs = {dut}
  ATEs = {ate1, ate2, ate3}
  Ixnet = {ate1, ate2, ate3}
  Fixed = {ate3}
  Testbeds <- SmallTestbeds
  Bindings <- SmallBindings
  PushConfig = TRUE
  Unspecified = Unspecified
  None = None
  SessionIds = {s1, s2, s3}
SPECIFICATION Spec
INVARIANTS SharedSessionsKept ReadyIsComplete
PROPERTY ImplementsLease
