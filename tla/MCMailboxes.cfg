SPECIFICATION Spec
CONSTANTS
  MaxTasks = 4
  Perpetual <- MCPerpetual
  Dest <- MCDest
  Limit <- MCLimit
  Revocable <- MCRevocable
  Unbounded = Unbounded
  NoLimit = Unbounded
  Capacity = 2
  MaxMessages = 3
INVARIANTS MailboxTypeOK NoLostWake WakesAreLegal FifoExactlyOnce
PROPERTIES ArbiterDecides SchedSpec QueuedIsTaken
