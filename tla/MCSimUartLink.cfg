CONSTANTS
  DATA_BITS = 2
  SIM_UART_BUFFER_SIZE = 2
  TxData <- MCTxData
  MaxSent = 3
  MaxLength = {1, 2}
  MaxDecoded = 4
SPECIFICATION FairSpec
INVARIANTS
  TypeOK
  DeliveredWereSent
  DeliveredInOrder
  EnabledIsBusy
PROPERTIES
  RunningSendIsStable
  SentIsDecoded
