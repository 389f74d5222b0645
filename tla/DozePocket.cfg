SPECIFICATION Spec
CONSTANTS
  HandwaveMax = 1
  PocketMin = 2
  TiltMin = 3
  MaxQueue = 2
INVARIANTS PocketPulseOnRemoval
