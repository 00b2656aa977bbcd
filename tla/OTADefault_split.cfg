SPECIFICATION Spec
CONSTANTS
  Updates = {u1, u2}
  NoUpdate = NoUpdate
  HeaderSize = 2
  BufLen = 3
  Lengths = {5, 7}
  FirstBurst = 2
INVARIANTS
  FailureHasCause
