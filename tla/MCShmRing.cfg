SPECIFICATION Spec
CONSTANTS
  m1 = m1
  m2 = m2
  m3 = m3
  m5 = m5
  Messages = {m1, m2, m3, m5}
  Size <- MCSize
  Capacity = 4
  MaxWrites = 6
INVARIANTS RingTypeOK RingIsSafe
PROPERTIES FifoSpec EverythingArrives
CHECK_DEADLOCK FALSE
