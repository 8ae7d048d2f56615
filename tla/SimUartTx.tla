----------------------------- MODULE SimUartTx -----------------------------
(***************************************************************************)
(* Transmit half of the bit-banged 485 UART: tx_timer_cb, which shifts one *)
(* bit onto the TX pin per bit time, and the calls sim_uart_send and       *)
(* sim_uart_abort_tx, which share sim_ctrl with it.                        *)
(*                                                                         *)
(* tx_timer_cb runs in timer-interrupt context: it is one atomic step that *)
(* may fall between any two assignments of a call.  The calls run in one   *)
(* task (the repository has one caller), one assignment per step.          *)
(***************************************************************************)
EXTENDS SimUart

CONSTANTS
  TxData,   \* byte strings the task may pass to sim_uart_send
  MaxSent   \* bound on the number of bytes ever copied to tx_buf

ASSUME TxAssumption ==
  /\ TxData \subseteq Seq(Byte)
  /\ MaxSent \in Nat

VARIABLES
  tx_buf, tx_index, tx_bit_pos, tx_length, tx_busy, tx_enable,
  tx_pin,    \* level of SIM_UART_TX_PIN
  tx_pc,     \* the assignment the calling task performs next
  tx_arg,    \* argument data of the sim_uart_send in progress
  tx_i,      \* its loop variable i
  sent       \* history: every byte copied into tx_buf, in order

tx_ctrl == <<tx_buf, tx_index, tx_bit_pos, tx_length, tx_busy, tx_enable, tx_pin>>
tx_call == <<tx_pc, tx_arg, tx_i, sent>>
tx_vars == <<tx_buf, tx_index, tx_bit_pos, tx_length, tx_busy, tx_enable, tx_pin,
             tx_pc, tx_arg, tx_i, sent>>

\* sim_ctrl is zero initialised; sim_uart_init drives the pin high.
TxInit ==
  /\ tx_buf = [k \in 0 .. SIM_UART_BUFFER_SIZE - 1 |-> ZeroByte]
  /\ tx_index = 0
  /\ tx_bit_pos = 0
  /\ tx_length = 0
  /\ tx_busy = FALSE
  /\ tx_enable = FALSE
  /\ tx_pin = 1
  /\ tx_pc = "idle"
  /\ tx_arg = <<>>
  /\ tx_i = 0
  /\ sent = <<>>

-----------------------------------------------------------------------------
(* tx_timer_cb: one bit time. *)

\* Faulty variant: most significant bit first.
FrameLevelMsbFirst(byte, pos) ==
  IF pos < START_BIT THEN 0
  ELSE IF pos < START_BIT + DATA_BITS THEN byte[START_BIT + DATA_BITS - 1 - pos]
  ELSE 1

\* Level of frame bit pos: start bit, data bits from bit 0 up, stop bit.
FrameLevel(byte, pos) ==
  IF pos < START_BIT THEN 0
  ELSE IF pos < START_BIT + DATA_BITS THEN byte[pos - START_BIT]
  ELSE 1

\* The timer runs for ever: a tick with tx_enable clear returns at once.
TxTickIdle ==
  /\ ~tx_enable
  /\ UNCHANGED tx_vars

TxTickBit ==
  /\ tx_enable
  /\ tx_bit_pos < FRAME_BITS
  /\ tx_pin' = FrameLevel(tx_buf[tx_index], tx_bit_pos)
  /\ tx_bit_pos' = tx_bit_pos + 1
  /\ UNCHANGED <<tx_buf, tx_index, tx_length, tx_busy, tx_enable, tx_call>>

\* Faulty variant: the last byte of a transmission is not sent.
TxTickNextEarly ==
  /\ tx_enable
  /\ tx_bit_pos >= FRAME_BITS
  /\ tx_bit_pos' = 0
  /\ tx_index' = tx_index + 1
  /\ IF tx_index + 2 >= tx_length
     THEN tx_busy' = FALSE /\ tx_enable' = FALSE /\ tx_pin' = 1
     ELSE UNCHANGED <<tx_busy, tx_enable, tx_pin>>
  /\ UNCHANGED <<tx_buf, tx_length, tx_call>>

\* The tick after the stop bit: next byte, or end of the transmission.
TxTickNext ==
  /\ tx_enable
  /\ tx_bit_pos >= FRAME_BITS
  /\ tx_bit_pos' = 0
  /\ tx_index' = tx_index + 1
  /\ IF tx_index + 1 >= tx_length
     THEN tx_busy' = FALSE /\ tx_enable' = FALSE /\ tx_pin' = 1
     ELSE UNCHANGED <<tx_busy, tx_enable, tx_pin>>
  /\ UNCHANGED <<tx_buf, tx_length, tx_call>>

tx_timer_cb == TxTickIdle \/ TxTickBit \/ TxTickNext

-----------------------------------------------------------------------------
(* sim_uart_send, one assignment per step. *)

\* Faulty variants: no check of the length, no check of tx_busy.
SendAcceptsAnyLength(data) == ~tx_busy /\ Len(data) # 0
SendAcceptsWhenBusy(data) == Len(data) # 0 /\ Len(data) <= SIM_UART_BUFFER_SIZE

\* The guards: a busy transmitter or a bad length is refused without a trace.
SendAccepts(data) ==
  /\ ~tx_busy
  /\ Len(data) # 0
  /\ Len(data) <= SIM_UART_BUFFER_SIZE

SendBegin(data) ==
  /\ tx_pc = "idle"
  /\ SendAccepts(data)
  /\ Len(sent) + Len(data) <= MaxSent
  /\ tx_pc' = "copy"
  /\ tx_arg' = data
  /\ tx_i' = 0
  /\ UNCHANGED <<tx_ctrl, sent>>

SendCopy ==
  /\ tx_pc = "copy"
  /\ tx_i < Len(tx_arg)
  /\ tx_buf' = [tx_buf EXCEPT ![tx_i] = tx_arg[tx_i + 1]]
  /\ sent' = Append(sent, tx_arg[tx_i + 1])
  /\ tx_i' = tx_i + 1
  /\ UNCHANGED <<tx_index, tx_bit_pos, tx_length, tx_busy, tx_enable, tx_pin,
                 tx_pc, tx_arg>>

SendLength ==
  /\ tx_pc = "copy"
  /\ tx_i = Len(tx_arg)
  /\ tx_length' = Len(tx_arg)
  /\ tx_pc' = "tx_index"
  /\ UNCHANGED <<tx_buf, tx_index, tx_bit_pos, tx_busy, tx_enable, tx_pin,
                 tx_arg, tx_i, sent>>

SendIndex ==
  /\ tx_pc = "tx_index"
  /\ tx_index' = 0
  /\ tx_pc' = "tx_bit_pos"
  /\ UNCHANGED <<tx_buf, tx_bit_pos, tx_length, tx_busy, tx_enable, tx_pin,
                 tx_arg, tx_i, sent>>

SendBitPos ==
  /\ tx_pc = "tx_bit_pos"
  /\ tx_bit_pos' = 0
  /\ tx_pc' = "tx_busy"
  /\ UNCHANGED <<tx_buf, tx_index, tx_length, tx_busy, tx_enable, tx_pin,
                 tx_arg, tx_i, sent>>

SendBusy ==
  /\ tx_pc = "tx_busy"
  /\ tx_busy' = TRUE
  /\ tx_pc' = "tx_enable"
  /\ UNCHANGED <<tx_buf, tx_index, tx_bit_pos, tx_length, tx_enable, tx_pin,
                 tx_arg, tx_i, sent>>

SendEnable ==
  /\ tx_pc = "tx_enable"
  /\ tx_enable' = TRUE
  /\ tx_pc' = "idle"
  /\ tx_arg' = <<>>
  /\ tx_i' = 0
  /\ UNCHANGED <<tx_buf, tx_index, tx_bit_pos, tx_length, tx_busy, tx_pin, sent>>

sim_uart_send ==
  \/ \E data \in TxData : SendBegin(data)
  \/ SendCopy \/ SendLength \/ SendIndex \/ SendBitPos \/ SendBusy \/ SendEnable

-----------------------------------------------------------------------------
(* sim_uart_abort_tx, one assignment per step. *)

\* Faulty variant: tx_busy is cleared before tx_enable.
AbortBusyFirst ==
  /\ tx_pc = "idle"
  /\ tx_busy' = FALSE
  /\ tx_pc' = "abort_busy"
  /\ UNCHANGED <<tx_buf, tx_index, tx_bit_pos, tx_length, tx_enable, tx_pin,
                 tx_arg, tx_i, sent>>

AbortEnable ==
  /\ tx_pc = "idle"
  /\ tx_enable' = FALSE
  /\ tx_pc' = "abort_busy"
  /\ UNCHANGED <<tx_buf, tx_index, tx_bit_pos, tx_length, tx_busy, tx_pin,
                 tx_arg, tx_i, sent>>

AbortBusy ==
  /\ tx_pc = "abort_busy"
  /\ tx_busy' = FALSE
  /\ tx_pc' = "abort_pin"
  /\ UNCHANGED <<tx_buf, tx_index, tx_bit_pos, tx_length, tx_enable, tx_pin,
                 tx_arg, tx_i, sent>>

AbortPin ==
  /\ tx_pc = "abort_pin"
  /\ tx_pin' = 1
  /\ tx_pc' = "idle"
  /\ UNCHANGED <<tx_buf, tx_index, tx_bit_pos, tx_length, tx_busy, tx_enable,
                 tx_arg, tx_i, sent>>

sim_uart_abort_tx == AbortEnable \/ AbortBusy \/ AbortPin

TxTypeOK ==
  /\ tx_buf \in [0 .. SIM_UART_BUFFER_SIZE - 1 -> Byte]
  /\ tx_index \in 0 .. SIM_UART_BUFFER_SIZE
  /\ tx_bit_pos \in 0 .. FRAME_BITS
  /\ tx_length \in 0 .. SIM_UART_BUFFER_SIZE
  /\ tx_busy \in BOOLEAN
  /\ tx_enable \in BOOLEAN
  /\ tx_pin \in {0, 1}
  /\ tx_pc \in {"idle", "copy", "tx_index", "tx_bit_pos", "tx_busy", "tx_enable",
                "abort_busy", "abort_pin"}
  /\ tx_arg \in Seq(Byte)
  /\ tx_i \in 0 .. Len(tx_arg)
  /\ sent \in Seq(Byte)
=============================================================================
