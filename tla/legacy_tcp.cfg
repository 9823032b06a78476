SPECIFICATION FairSpec
CONSTANTS
  MaxClients = 2
  Batch = 2
  QueueCap = 2
  MaxMessages = 4
  MaxErrors = 1
  MaxBusy = 2
INVARIANTS EnableSound OnceInOrder ClosedForGood
PROPERTIES RequestTaken 
CHECK_DEADLOCK FALSE
