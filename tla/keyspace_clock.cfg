SPECIFICATION Spec
VIEW StoreView
CONSTANTS
  Keys = {k}
  Words = {w}
  Elems = {a, b}
  Fields = {f, g}
  Nil = Nil
  INT64_MAX = 7
  SetValues = {w, 7}
  SetOptions <- OptionLists
  Deltas = {7}
  Indexes <- RangeBounds
  Second = 2
  MaxTime = 4
  MaxLen = 2
  ClockSteps = TRUE
INVARIANTS
  OnlyStringsExpire
PROPERTIES
  PushAppliesAll
