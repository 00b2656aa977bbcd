SPECIFICATION Spec
CONSTANTS
  Word = 536870912
  Delays <- ReconnectionDelays
  MaxRetries = 40
  MaxIdle = 0
INVARIANTS
  PauseStaysAtMaximum
