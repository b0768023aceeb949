SPECIFICATION FairSpec
CONSTANTS
  g1 = g1
  g2 = g2
  x = x
  NoImage = NoImage
  Good <- GoodImages
  Bad <- BadImages
  NumCount = 6
  AnyTime = {}
  Budgets <- Troubled
INVARIANTS
  TypeOK
  
  

  
  
CHECK_DEADLOCK FALSE
