SPECIFICATION CapSpec
CONSTANTS
  Server = Server
  Client = Client
  None = None
  Holder <- MCHolder
  Want <- MCWant
  Bootstrap <- MCBootstrap
  MaxEndpoints = 2
  MaxGeneration = 1
  TableSize = 2
  QueueCapacity = 2
INVARIANTS CapTypeOK WithdrawalIsFinal
PROPERTIES TransferNeverLost AuthorityIsKept
