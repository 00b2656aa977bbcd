SPECIFICATION Spec
CONSTANTS
  Word = 32
  Delays <- SmallDelays
  MaxRetries = 4
  MaxIdle = 31
INVARIANTS
  TypeOK
  ExpiresOnTime
PROPERTIES
  PauseGrows
  ImplementsRetryPause
