CONSTANTS
  WRAP = 16
  SEND_INTERVAL_MS = 5
  SLEEP_MS = 1
  MaxDelay = 1
  SIM_UART_BUFFER_SIZE = 2
  MaxBytes = 4
SPECIFICATION FairSpec
INVARIANT IntervalKept
PROPERTY MessageRecurs
