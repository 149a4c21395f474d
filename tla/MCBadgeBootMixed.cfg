SPECIFICATION Spec
CONSTANTS
  i1 = i1
  i2 = i2
  s1 = s1
  Cores <- BothCores
  Images <- Mixed
  SignedOnes <- Signed
  BigOnes <- None
  Torn = Torn
  NoFile = NoFile
  Tries = 2
INVARIANTS FipServesPick
