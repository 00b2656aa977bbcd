SPECIFICATION Spec
CONSTANTS
  W = 2
  EI = 3
  EJ = 1
  IntBits = 6
  Pow2 <- Table
  Blank = 1
  Texts <- SmallTexts
  Damaged <- AnyFiles
  Junk = {0}
  MaxBlock = 3
INVARIANTS
  TypeOK
  DecodesText
  NothingWithheld
CHECK_DEADLOCK FALSE
