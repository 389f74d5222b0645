SPECIFICATION Spec
CONSTANTS
  Callers = {c1, c2, c3}
  Asked <- MC_Asked
INVARIANTS TypeOK RaceLeavesRecent
