SPECIFICATION Spec
CONSTANTS
  n112 = n112
  n999 = n999
  simOne = simOne
  simTwo = simTwo
  Numbers <- MC_Numbers
  Condition <- MC_Condition
  CustomCategory <- MC_CustomCategory
  SimEcc <- MC_SimEcc
  NetworkLists <- MC_NetworkLists
INVARIANTS OnlyWhenNoSim
