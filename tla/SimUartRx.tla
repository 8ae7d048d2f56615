----------------------------- MODULE SimUartRx -----------------------------
(***************************************************************************)
(* Receive half of the bit-banged 485 UART: rx_timer_cb, which samples the *)
(* RX pin once per bit time and assembles bytes, and the calls             *)
(* sim_uart_receive and sim_uart_enable_rx.                                *)
(*                                                                         *)
(* rx_timer_cb runs in timer-interrupt context: one atomic step that may   *)
(* fall between any two steps of a call.  sim_uart_receive reads           *)
(* rx_buffer_index, copies byte by byte, and clears the index last.        *)
(***************************************************************************)
EXTENDS SimUart

CONSTANTS
  MaxLength,   \* max_length arguments the task may pass to sim_uart_receive
  MaxDecoded   \* bound on the number of bytes ever decoded

ASSUME RxAssumption ==
  /\ MaxLength \subseteq Nat
  /\ MaxDecoded \in Nat

VARIABLES
  rx_enable, rx_start, rx_bit_count, rx_byte, rx_buffer, rx_buffer_index,
  rx_pc,     \* "idle", or the step of sim_uart_receive performed next
  rx_copied, \* its local copied_length
  rx_i,      \* its loop variable i
  rx_serial, \* history: which decoded byte, from 1, each slot of rx_buffer holds
  decoded,   \* history: number of bytes received with a good stop bit
  delivered  \* history: what sim_uart_receive handed to the task, in order

rx_isr  == <<rx_start, rx_bit_count, rx_byte>>
rx_ring == <<rx_buffer, rx_serial, decoded>>
rx_call == <<rx_pc, rx_copied, rx_i, delivered>>
rx_vars == <<rx_enable, rx_start, rx_bit_count, rx_byte, rx_buffer,
             rx_buffer_index, rx_pc, rx_copied, rx_i, rx_serial, decoded, delivered>>

RxInit ==
  /\ rx_enable = TRUE
  /\ rx_start = FALSE
  /\ rx_bit_count = 0
  /\ rx_byte = ZeroByte
  /\ rx_buffer = [k \in 0 .. SIM_UART_BUFFER_SIZE - 1 |-> ZeroByte]
  /\ rx_buffer_index = 0
  /\ rx_pc = "idle"
  /\ rx_copied = 0
  /\ rx_i = 0
  /\ rx_serial = [k \in 0 .. SIM_UART_BUFFER_SIZE - 1 |-> 0]
  /\ decoded = 0
  /\ delivered = <<>>

-----------------------------------------------------------------------------
(* rx_timer_cb: one sample of the pin, at level bit. *)

\* Reception disabled, or ql_gpio_get_level failed: the sample is skipped.
RxTickSkipped == UNCHANGED rx_vars

RxTickHunt(bit) ==
  /\ rx_enable
  /\ ~rx_start
  /\ IF bit = 0
     THEN rx_start' = TRUE /\ rx_bit_count' = 0 /\ rx_byte' = ZeroByte
     ELSE UNCHANGED rx_isr
  /\ UNCHANGED <<rx_enable, rx_buffer_index, rx_ring, rx_call>>

RxTickData(bit) ==
  /\ rx_enable
  /\ rx_start
  /\ rx_bit_count < DATA_BITS
  /\ rx_byte' = [rx_byte EXCEPT ![rx_bit_count] = IF bit = 1 THEN 1 ELSE @]
  /\ rx_bit_count' = rx_bit_count + 1
  /\ UNCHANGED <<rx_enable, rx_start, rx_buffer_index, rx_ring, rx_call>>

\* Faulty variant: no check that rx_buffer has room.
RxTickStopUnchecked(bit) ==
  /\ rx_enable
  /\ rx_start
  /\ rx_bit_count = DATA_BITS
  /\ rx_start' = FALSE
  /\ decoded' = decoded + bit
  /\ decoded' <= MaxDecoded
  /\ rx_buffer' = [rx_buffer EXCEPT ![rx_buffer_index] = rx_byte]
  /\ rx_serial' = [rx_serial EXCEPT ![rx_buffer_index] = decoded + 1]
  /\ rx_buffer_index' = rx_buffer_index + 1
  /\ UNCHANGED <<rx_enable, rx_bit_count, rx_byte, rx_call>>

\* A good stop bit stores the byte unless rx_buffer is full; either way, and
\* on a bad stop bit, the hunt for a start bit begins again.
RxTickStop(bit) ==
  /\ rx_enable
  /\ rx_start
  /\ rx_bit_count = DATA_BITS
  /\ rx_start' = FALSE
  /\ decoded' = decoded + bit
  /\ decoded' <= MaxDecoded
  /\ IF bit = 1 /\ rx_buffer_index < SIM_UART_BUFFER_SIZE
     THEN /\ rx_buffer' = [rx_buffer EXCEPT ![rx_buffer_index] = rx_byte]
          /\ rx_serial' = [rx_serial EXCEPT ![rx_buffer_index] = decoded + 1]
          /\ rx_buffer_index' = rx_buffer_index + 1
     ELSE UNCHANGED <<rx_buffer, rx_serial, rx_buffer_index>>
  /\ UNCHANGED <<rx_enable, rx_bit_count, rx_byte, rx_call>>

rx_timer_cb(bit) == RxTickHunt(bit) \/ RxTickData(bit) \/ RxTickStop(bit)

-----------------------------------------------------------------------------
(* sim_uart_receive(buffer, max_length) and sim_uart_enable_rx(enable). *)

\* Faulty variant: the index is cleared before the copy.
ReceiveResetFirst(max_length) ==
  /\ rx_pc = "idle"
  /\ rx_enable
  /\ rx_pc' = "copy"
  /\ rx_copied' = IF rx_buffer_index < max_length THEN rx_buffer_index ELSE max_length
  /\ rx_buffer_index' = 0
  /\ rx_i' = 0
  /\ UNCHANGED <<rx_enable, rx_isr, rx_ring, delivered>>

ReceiveBegin(max_length) ==
  /\ rx_pc = "idle"
  /\ rx_enable
  /\ rx_pc' = "copy"
  /\ rx_copied' = IF rx_buffer_index < max_length THEN rx_buffer_index ELSE max_length
  /\ rx_i' = 0
  /\ UNCHANGED <<rx_enable, rx_isr, rx_buffer_index, rx_ring, delivered>>

ReceiveCopy ==
  /\ rx_pc = "copy"
  /\ rx_i < rx_copied
  /\ delivered' = Append(delivered, [serial |-> rx_serial[rx_i], byte |-> rx_buffer[rx_i]])
  /\ rx_i' = rx_i + 1
  /\ UNCHANGED <<rx_enable, rx_isr, rx_buffer_index, rx_ring, rx_pc, rx_copied>>

ReceiveReset ==
  /\ rx_pc = "copy"
  /\ rx_i = rx_copied
  /\ rx_buffer_index' = 0
  /\ rx_pc' = "idle"
  /\ UNCHANGED <<rx_enable, rx_isr, rx_ring, rx_copied, rx_i, delivered>>

sim_uart_receive ==
  (\E m \in MaxLength : ReceiveBegin(m)) \/ ReceiveCopy \/ ReceiveReset

sim_uart_enable_rx(enable) ==
  /\ rx_pc = "idle"
  /\ rx_enable' = enable
  /\ UNCHANGED <<rx_isr, rx_buffer_index, rx_ring, rx_call>>

-----------------------------------------------------------------------------
(* The receive half alone, on a line whose level is arbitrary. *)

RxNext ==
  \/ \E bit \in {0, 1} : rx_timer_cb(bit)
  \/ sim_uart_receive
  \/ \E enable \in BOOLEAN : sim_uart_enable_rx(enable)

RxSpec == RxInit /\ [][RxNext]_rx_vars

RxTypeOK ==
  /\ rx_enable \in BOOLEAN
  /\ rx_start \in BOOLEAN
  /\ rx_bit_count \in 0 .. DATA_BITS
  /\ rx_byte \in Byte
  /\ rx_buffer \in [0 .. SIM_UART_BUFFER_SIZE - 1 -> Byte]
  /\ rx_buffer_index \in 0 .. SIM_UART_BUFFER_SIZE
  /\ rx_pc \in {"idle", "copy"}
  /\ rx_copied \in Nat
  /\ rx_i \in Nat
  /\ rx_serial \in [0 .. SIM_UART_BUFFER_SIZE - 1 -> Nat]
  /\ decoded \in Nat
  /\ delivered \in Seq([serial : Nat, byte : Byte])

\* sim_uart_receive and rx_timer_cb race on rx_buffer.  Bytes may be lost in
\* the race, but what the task gets is never reordered, repeated or taken
\* from a slot the interrupt has reused: serial numbers only increase.
DeliveredInOrder ==
  \A j \in 1 .. Len(delivered) - 1 : delivered[j].serial < delivered[j + 1].serial

\* The copy loop never reads a slot the interrupt has not filled since the
\* last reset, whatever arrives while it runs.
CopyWithinFilled == rx_pc = "copy" => rx_copied <= rx_buffer_index
=============================================================================
