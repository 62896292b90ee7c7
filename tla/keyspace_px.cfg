SPECIFICATION Spec
VIEW StoreView
CONSTANTS
  Keys = {k}
  Words = {w}
  Elems = {a}
  Fields = {f}
  Nil = Nil
  INT64_MAX = 7
  SetValues = {w}
  SetOptions <- LongOptions
  Deltas = {1}
  Indexes <- RangeBounds
  Second = 3
  MaxTime = 5
  MaxLen = 2
  ClockSteps = FALSE
PROPERTY
  SetExpiryAhead
