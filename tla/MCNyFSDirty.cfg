SPECIFICATION Spec
CONSTANTS
  Block = {b1, b2}
  Snapshot = {}
  None = None
PROPERTIES CompactionIsSafe
