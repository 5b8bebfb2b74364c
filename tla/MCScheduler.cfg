SPECIFICATION SchedSpec
CONSTANTS
  MaxTasks = 5
  Perpetual <- MCPerpetual
INVARIANTS SchedTypeOK SoleRunner KernelLives
PROPERTIES NeverPassedOver ReadyIsDispatched
