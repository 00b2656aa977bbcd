SPECIFICATION Spec
CONSTANTS
  N = 2
  Values = {0, 1}
  Traits <- SafeTraits
  MaxClock = 1
  BufferSize = 6
  Size <- SafeSizes
  Split = {1}
  Keys = {{}, {"time"}}
  MaxData = 1
  MaxAnswers = 2
  MaxLost = 1
INVARIANTS
  TypeOK
  NoChangeForgotten
PROPERTIES
  EventTimesAreOwn
  ImplementsMirror
