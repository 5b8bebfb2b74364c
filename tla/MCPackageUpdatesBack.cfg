SPECIFICATION UpdateSpec
CONSTANTS
  Commands = {c1}
  Files = {f1, f2}
  MaxVersion = 2
  MaxStamp = 2
PROPERTY RollbackGoesBack
CHECK_DEADLOCK FALSE
