SPECIFICATION Spec
CONSTANTS
  States <- MC_States
  Backlights <- MC_Backlights
  Rates <- MC_Rates
  DefaultRate = 3
  Attention = {7}
INVARIANTS TypeOK LedsShowOwner NotificationRate JogballShowsAttention
