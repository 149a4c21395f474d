SPECIFICATION Spec
CONSTANTS
  i1 = i1
  i2 = i2
  s1 = s1
  Cores <- OneCore
  Images <- Plain
  SignedOnes <- None
  BigOnes <- Big
  Torn = Torn
  NoFile = NoFile
  Tries = 2
INVARIANT FactoryFallback
