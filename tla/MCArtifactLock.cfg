SPECIFICATION Spec
CONSTANTS
  p1 = p1
  p2 = p2
  p3 = p3
  Proc <- MCProc
  Mortal <- MCMortal
  ForceArg = {TRUE, FALSE}
  LongHold = TRUE
INVARIANTS
  TypeOK
  ExclusiveWhileFresh
  ReturnedIsWhole
PROPERTIES
  WholeIsKept
  EveryoneServed
