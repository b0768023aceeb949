SPECIFICATION Spec
CONSTANTS
  p = p
  q = q
  a = a
  b = b
  NoPath = NoPath
  Paths <- ThePaths
  Instances <- TheInstances
  Owner <- OwnerOf
  States <- TheStates
  Budget <- Limits
INVARIANTS
  TypeOK
  OneFailureStrandsNothing
PROPERTIES
  DataIsKept
  MountsHideNothing
  NoAppBesideItsVolume
CHECK_DEADLOCK FALSE
