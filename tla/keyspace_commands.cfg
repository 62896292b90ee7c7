SPECIFICATION Spec
VIEW StoreView
CONSTANTS
  Keys = {k1, k2}
  Words = {w}
  Elems = {a, b}
  Fields = {f, g}
  Nil = Nil
  INT64_MAX = 7
  SetValues = {w}
  SetOptions <- OptionLists
  Deltas = {7}
  Indexes <- RangeBounds
  Second = 2
  MaxTime = 3
  MaxLen = 2
  ClockSteps = FALSE
INVARIANTS
  OnlyStringsExpire
  NoEmptyCollection
PROPERTIES
  ErrorsChangeNothing
  RefinesEager
