SPECIFICATION LiveSpec
CONSTANTS
  N = 3
  Values = {0, 1}
  Traits <- LiveTraits
  MaxClock = 0
  BufferSize = 6
  Size <- LiveSizes
  Split = {2}
  Keys = {{"time"}}
  MaxData = 1
  MaxAnswers = 1
  MaxLost = 0
INVARIANTS
  NoChangeForgotten
PROPERTIES
  Converges
  NotStarved
