SPECIFICATION LiveSpec
CONSTANTS
  N = 2
  Values = {0, 1}
  Traits <- RadioTraits
  MaxClock = 0
  BufferSize = 5
  Size <- RadioSizes
  Split = {}
  MaxRetry = 2
  MaxData = 1
  MaxLost = 1
INVARIANTS
  TypeOK
  NoChangeForgotten
PROPERTIES
  ImplementsMirror
  Converges
