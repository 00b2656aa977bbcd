SPECIFICATION FairSpec
CONSTANTS
  Updates = {u1, u2}
  NoUpdate = NoUpdate
  HeaderSize = 2
  BufLen = 3
  Lengths = {5, 7}
  FirstBurst = 3
INVARIANTS
  TypeOK
  ReportedOnce
  HoldsWhatItUses
  FlashOnlyVerified
  FailureHasCause
PROPERTIES
  ApprovedEachTime
  UpdateEnds
