SPECIFICATION Spec
CONSTANTS
  Indexes <- MC_Indexes
  Tests <- MC_Tests
  Rates = {54}
  Stations = {1}
  Words <- MC_Words
  LongMax = 3
  Levels <- MC_Levels
  LineLength = 2
  BufLens <- MC_BufLens
  MaxLost = 1
INVARIANTS TypeOK DriverFollows AnswersHonest ReportOfThisQuery ReportWholeOrEmpty
