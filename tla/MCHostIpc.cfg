SPECIFICATION Spec
CONSTANTS
  Threads = {t1, t2}
  Containers = {k1, k2}
  Names = {n1, n2}
  MaxObjects = 2
  MaxMessages = 2
INVARIANTS HostIpcTypeOK RepliesReachCallers EndpointIsListed
PROPERTIES OperationsReturn
CHECK_DEADLOCK FALSE
