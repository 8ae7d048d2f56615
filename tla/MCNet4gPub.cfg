CONSTANTS
  QUEU_SIZE = 2
  PROMPT_WAIT = 2
  ACK_POLL = 1
  ACK_WAIT = 2
  FAIL_LIMIT = 2
  RETRY_LIMIT = 2
  MaxSaved = 3
  MaxFifo = 2
  MaxEvents = 2
SPECIFICATION FairSpec
INVARIANTS
  TypeOK
  QueueHoldsUnsent
  DeafOnlyWhileSending
  CommandedInTurn
  PayloadAtMostOnce
PROPERTIES
  ImplementsService
  QueuedIsFinished
