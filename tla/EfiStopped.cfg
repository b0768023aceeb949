SPECIFICATION Spec
CONSTANTS
  g1 = g1
  g2 = g2
  x = x
  NoImage = NoImage
  Good <- GoodImages
  Bad <- BadImages
  NumCount = 6
  AnyTime = {}
  Budgets <- OneCrash
SYMMETRY Symmetry
INVARIANTS
  StoppedMeansConfirmed
CHECK_DEADLOCK FALSE
