SPECIFICATION Spec
CONSTANTS
  Issuers = {i1, i2}
  Names = {app, shared}
  Codes = {0, 2, 3}
  Offsets <- SomeOffsets
  Width = 4
  MaxSentinels = 2
  MaxErrors = 2
SYMMETRY Symmetry
INVARIANTS
  TypeOK
  UniformOffset
  Recognised
CHECK_DEADLOCK FALSE
