SPECIFICATION RadioSpec
CONSTANTS
  c1 = c1
  c2 = c2
  c3 = c3
  s1 = s1
  s2 = s2
  NoCid = NoCid
  Cids <- MC_Cids
  Serials <- MC_Serials
  NSlots = 2
  OneAtATime = TRUE
INVARIANTS CallsKeepEntries ExclusiveInterfaces
           SetupAsksFirstAvailable ModemCanStart
SYMMETRY MC_Symmetry
