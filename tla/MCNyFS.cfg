SPECIFICATION Spec
CONSTANTS
  Block = {b1, b2}
  Snapshot = {s1}
  None = None
SYMMETRY BlockSymmetry
INVARIANTS NyTypeOK LossIsConfined CleanMeansCommitted SkippedAreDurable
PROPERTIES StoreSpec
