SPECIFICATION Spec
CONSTANTS
  c1 = c1
  c2 = c2
  c3 = c3
  s1 = s1
  s2 = s2
  s3 = s3
  NoCid = NoCid
  Cids <- MC_Cids
  Serials <- MC_Serials
  NSlots = 3
  OneAtATime = FALSE
INVARIANTS ExclusiveInterfaces
SYMMETRY MC_Symmetry
