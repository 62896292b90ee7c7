SPECIFICATION Spec
VIEW ProcessView
CONSTANTS
  k1 = k1
  k2 = k2
  k3 = k3
  w = w
  Keys = {k1, k2, k3}
  Words = {w}
  Elems = {a}
  Fields = {}
  Nil = Nil
  INT64_MAX = 7
  Hash <- HashOf
  InitialBuckets = 1
  SetValues = {w}
  SetOptions <- Options
  Second = 2
  MaxTime = 2
  MaxLen = 1
  ClockSteps = FALSE
  SizeOf <- Sizes
  MaxString = 100000
  Missing = Missing
  ArgLists <- CommandLines
  DefaultPath <- Here
  Disk <- OnDisk
INVARIANTS
  TableSound
  AllOrNothing
PROPERTIES
  ServesKeyspace
  StartEnds
