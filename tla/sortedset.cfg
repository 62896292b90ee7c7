SPECIFICATION GeoSpec
VIEW SetView
CONSTANTS
  Members = {1, 2, 3, 4}
  Scores <- SomeScores
  Hash <- HashOf
  IndexSize = 1
  Indexes <- Positions
  None = None
  GEO_BITS = 2
  LAT_MIN <- South
  LAT_MAX = 4
  LNG_MIN <- West
  LNG_MAX = 8
  Points <- Places
INVARIANTS
  TypeOK
  Sorted
  IndexAgrees
PROPERTIES
  RefinesScoreBoard
  GeoaddPlaces
