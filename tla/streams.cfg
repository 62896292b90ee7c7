SPECIFICATION Spec
VIEW StateView
CONSTANTS
  Keys = {k}
  UINT64_MAX = 2
  Specs <- AllSpecs
  Bounds <- SomeBounds
  Limits = {0, 1}
  MaxLen = 3
INVARIANTS
  TypeOK
  StrictlyIncreasing
  RangeExact
  ReaderSeesAll
