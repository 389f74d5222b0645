SPECIFICATION FairSpec
CONSTANTS
  c1 = c1
  c2 = c2
  c3 = c3
  s1 = s1
  s2 = s2
  s3 = s3
  NoCid = NoCid
  Cids <- MC_TwoCids
  Serials <- MC_ThreeSerials
  NSlots = 2
  OneAtATime = FALSE
INVARIANTS TypeOK CallsBooked
PROPERTIES SetupSkipsNone ImplementsLedger
