SPECIFICATION UpdateSpec
CONSTANTS
  Commands = {c1, c2}
  Files = {f1, f2}
  MaxVersion = 1
  MaxStamp = 1
SYMMETRY CommandsAndFiles
INVARIANTS UpdateTypeOK NeverStranded
PROPERTIES WholePointsStay
CHECK_DEADLOCK FALSE
