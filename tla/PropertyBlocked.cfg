SPECIFICATION LiveSpec
CONSTANTS
  N = 2
  Values = {0, 1}
  Traits <- LongTraits
  MaxClock = 0
  BufferSize = 6
  Size <- LongSizes
  Split = {2}
  Keys = {{"time"}}
  MaxData = 1
  MaxAnswers = 1
  MaxLost = 0
PROPERTIES
  TooLongIsSkipped
