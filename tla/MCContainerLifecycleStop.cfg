SPECIFICATION Spec
CONSTANTS
  Callers = {c1, c2}
  Owner = c1
  MaxRestarts = 1
  MaxRetries = 0
PROPERTIES StopPreventsRestart
