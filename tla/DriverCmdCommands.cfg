SPECIFICATION Spec
CONSTANTS
  us = us
  de = de
  Frequencies <- MC_Frequencies
  Confs <- MC_Confs
  Uninitialized <- MC_Uninitialized
  Countries <- MC_Countries
  HomeCountry = us
  CountryChannels <- MC_CountryChannels
  DRV_NUMBER_SEQUENTIAL_ERRORS = 2
  LoadingTime = 3
INVARIANTS TypeOK SccOnAskedChannel MccRestored LoadingNotCutShort
