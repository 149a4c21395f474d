SPECIFICATION FairSpec
CONSTANTS
  r1 = r1
  r2 = r2
  n1 = n1
  x1 = x1
  x2 = x2
  VideoFbs <- ThreeVideo
  GopFbs <- TwoGop
  Hows <- HowsOf
  Pitch <- PitchOf
  Park = Park
  ParkPitch = 256
  NoHow = "none"
  Oversample = 2
  MaxDiv = 2
INVARIANTS TypeOK ReadsOnlyHeld ScansOnePlaneState
PROPERTIES FlipsComplete
