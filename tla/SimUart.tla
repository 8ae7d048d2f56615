------------------------------ MODULE SimUart ------------------------------
(* Frame format and buffer size of xd_simulate_485_uart.h, shared by the   *)
(* transmit half, the receive half and the line that joins them.           *)
EXTENDS Naturals, Sequences

CONSTANTS
  DATA_BITS,            \* bits per byte (8 in the code)
  SIM_UART_BUFFER_SIZE  \* capacity of tx_buf and of rx_buffer (200)

ASSUME UartAssumption ==
  /\ DATA_BITS \in Nat \ {0}
  /\ SIM_UART_BUFFER_SIZE \in Nat \ {0}

START_BIT == 1
STOP_BIT == 1
FRAME_BITS == START_BIT + DATA_BITS + STOP_BIT

\* A byte is its bits, bit 0 the least significant.
Byte == [0 .. DATA_BITS - 1 -> {0, 1}]

ZeroByte == [b \in 0 .. DATA_BITS - 1 |-> 0]
=============================================================================
